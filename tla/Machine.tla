------------------------------- MODULE Machine -------------------------------
(***************************************************************************)
(* What happens to one computer: the program's components come and go and  *)
(* are updated (Update, Runtime), a repair of something the owner runs is   *)
(* carried out (RepairExecution), and a revision of a managed network is    *)
(* put in force (NetworkGovernance).  Each has state of its own, and their  *)
(* steps come in any order.                                                *)
(***************************************************************************)
EXTENDS Update, RepairExecution, NetworkKeepsPromise

machineVars == <<allVars, execVars, netVars>>

MachineInit == UpdateInit /\ ExecutionInit /\ NetworkInit

ProgramStep == UpdateNext /\ UNCHANGED <<execVars, netVars>>
RepairStep == ExecutionNext /\ UNCHANGED <<allVars, netVars>>
NetworkStep == NetworkNext /\ UNCHANGED <<allVars, execVars>>

MachineNext == ProgramStep \/ RepairStep \/ NetworkStep

MachineSpec == MachineInit /\ [][MachineNext]_machineVars

(* The types of all three. *)
MachineTypeOK == UpdateTypeOK /\ ExecutionTypeOK /\ NetworkTypeOK

=============================================================================
