---------------------------- MODULE MCModuleWatch ----------------------------
(* The program with two sections, a DLL with a third, a DLL with one only and *)
(* an unsigned DLL that comes later.  Two patched contents, one of which has  *)
(* the byte sum of the original.                                              *)
EXTENDS ModuleWatch

CONSTANTS exe, big, small, late, orig, swapped, patched
MCRecords == <<exe, big, small>>
MCLater == {late}
MCCount == [m \in {exe, big, small, late} |-> IF m = exe THEN 2 ELSE IF m = big THEN 3 ELSE 1]
MCSigned == {exe, big, small}
MCBases == 1..4
MCHome == [m \in {exe, big, small} |-> IF m = exe THEN 1 ELSE IF m = big THEN 2 ELSE 3]
MCPlaces == [m \in {exe, big, small, late} |-> IF m = big THEN 2..4 ELSE IF m = late THEN {4} ELSE {MCHome[m]}]
MCContents == {orig, swapped, patched}
MCSum == [c \in MCContents |-> IF c = patched THEN 2 ELSE 1]
MCPageChecked == {1, 2}
MCChanging == {<<exe, 1>>, <<exe, 2>>, <<big, 3>>}
MCWorlds == {[release |-> FALSE, dlls |-> TRUE, disc |-> FALSE, changes |-> 3],
             [release |-> TRUE, dlls |-> FALSE, disc |-> FALSE, changes |-> 2],
             [release |-> FALSE, dlls |-> FALSE, disc |-> TRUE, changes |-> 0]}
=============================================================================
