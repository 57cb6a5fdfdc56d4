------------------------------ MODULE MCHwScan ------------------------------
(***************************************************************************)
(* Two scans that may overlap, the anti-debugger's thread, which also      *)
(* stands for the other detection threads as one that logs, and main that  *)
(* asks about it.                                                          *)
(***************************************************************************)
EXTENDS HwScan

CONSTANTS main, antidebug

MCChecked == <<antidebug>>

\* A debug register may be set in the detection thread: a scan that comes to it
\* goes on, or logs and ends.  Reading the context of main fails, and is logged.
MCContextOf == [t \in Threads |-> IF t = antidebug THEN {"clear", "set"} ELSE
                                 IF t = main THEN {"failed"} ELSE {"clear"}]
=============================================================================
