----------------------------- MODULE MCSession -----------------------------
(***************************************************************************)
(* Instances of Session: a client with two heartbeats, alone or beside one *)
(* that says hello, reports a detection and leaves.                        *)
(***************************************************************************)
EXTENDS Session

CONSTANTS c1, c2

OneClient  == {c1}
TwoClients == {c1, c2}

NoFlags    == [c \in Clients |-> 0]
OneFlag    == [c \in Clients |-> 1]
FlagOfC2   == [c \in Clients |-> IF c = c2 THEN 1 ELSE 0]
Heartbeats == [c \in Clients |-> IF c = c1 THEN 2 ELSE 0]
=============================================================================
