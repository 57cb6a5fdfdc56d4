---------------------------- MODULE MCEventLogger ----------------------------
(* Two game threads; two events that are complete and one that is not.       *)
EXTENDS EventLogger

CONSTANTS g1, g2, e1, e2, e3
MCCallers == {g1, g2}
MCEvents == {e1, e2, e3}
MCValid == {e1, e2}
=============================================================================
