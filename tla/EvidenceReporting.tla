------------------------- MODULE EvidenceReporting -------------------------
(***************************************************************************)
(* What the evidence locker promises the rest of the client: detections    *)
(* are recorded, never forgotten, and the server is told of nothing that   *)
(* was not recorded.  A record is a flag, alone or with a piece of         *)
(* evidence; how threads, locks and retries achieve this is left out.      *)
(***************************************************************************)
CONSTANTS Records           \* everything that may be recorded

VARIABLES recorded,         \* what the detections have recorded so far
          delivered         \* what the server has been told

absVars == <<recorded, delivered>>

Init == recorded = {} /\ delivered = {}

Record(r) == recorded' = recorded \cup {r} /\ UNCHANGED delivered

Deliver(r) == /\ r \in recorded
              /\ delivered' = delivered \cup {r}
              /\ UNCHANGED recorded

Next == \E r \in Records : Record(r) \/ Deliver(r)

Spec == Init /\ [][Next]_absVars
=============================================================================
