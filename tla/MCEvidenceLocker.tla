-------------------------- MODULE MCEvidenceLocker --------------------------
(***************************************************************************)
(* The detections of Core/Detections.cpp that share the locker, reduced to *)
(* one flag per way of reporting:                                          *)
(*   external: by Monitor without data (269, 303), by the process-creation *)
(*             watcher with the process name (936);                        *)
(*   injected: by Monitor only, with the module's path (156);              *)
(*   hypervisor: by Monitor only, without data (229).                      *)
(***************************************************************************)
EXTENDS EvidenceLocker

CONSTANTS monitor, watcher,
          external, injected, hypervisor,
          process, module

Rep(f, d) == [flag |-> f, data |-> d]

MCReports == [t \in Detectors |->
  CASE t = monitor -> {Rep(external, NoData), Rep(injected, module), Rep(hypervisor, NoData)}
    [] t = watcher -> {Rep(external, process)}]
=============================================================================
