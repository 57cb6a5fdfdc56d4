------------------------------ MODULE MCLifecycle ------------------------------
(* The settings of main.cpp (no network, anti-debugging and thread checks on) *)
(* and those that switch on one more part; the library, as its test uses it.  *)
EXTENDS Lifecycle

Default == [library |-> FALSE, driver |-> FALSE, net |-> FALSE,
            antidebug |-> TRUE, checkThreads |-> TRUE]

MCConfigs == {[Default EXCEPT !.driver = TRUE],
              [Default EXCEPT !.library = TRUE, !.net = TRUE, !.antidebug = FALSE]}

MCDefault == {Default}
================================================================================
