----------------------------- MODULE Heartbeats -----------------------------
(***************************************************************************)
(* What a session promises about its heartbeats: the server gives cookies, *)
(* the client answers each, and no cookie is given before the one before   *)
(* it was answered and the answer accepted.  How packets, callbacks and    *)
(* workers achieve this is left out.                                       *)
(***************************************************************************)
EXTENDS Naturals

VARIABLES given,      \* cookies given so far
          answered,   \* answers accepted so far
          over        \* the session has ended, and its cookies are forgotten

beats == <<given, answered, over>>

Init == given = 0 /\ answered = 0 /\ over = FALSE

Give == /\ ~over /\ given = answered
        /\ given' = given + 1
        /\ UNCHANGED <<answered, over>>

Accept == /\ ~over /\ answered < given
          /\ answered' = answered + 1
          /\ UNCHANGED <<given, over>>

End == /\ ~over /\ over' = TRUE
       /\ given' = 0 /\ answered' = 0

Next == Give \/ Accept \/ End

Spec == Init /\ [][Next]_beats
=============================================================================
