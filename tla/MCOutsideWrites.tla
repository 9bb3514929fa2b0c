-------------------------- MODULE MCOutsideWrites --------------------------
(* Two things done outside whose answers may be lost, one of them active per  *)
(* behaviour: the rows written to a sheet, and the notices the monitor mails. *)
EXTENDS SheetWrites, OperationsMonitor, TLC

VARIABLE part

OutsideInit == part \in {"sheet", "monitor"} /\ Init /\ MonitorInit

OutsideNext ==
  /\ UNCHANGED part
  /\ \/ part = "sheet" /\ Next /\ UNCHANGED monitorVars
     \/ part = "monitor" /\ MonitorNext /\ UNCHANGED vars

OutsideSpec == OutsideInit /\ [][OutsideNext]_<<part, vars, monitorVars>>

Symmetric == Permutations(Approvals) \cup Permutations(Workers)
============================================================================
