---------------------------- MODULE MachineProofs ----------------------------
(***************************************************************************)
(* A computer on which the program, a repair and a network revision go on   *)
(* at once, in any order of their steps: each goes on as it would alone, so *)
(* whatever is proved of one of them holds of the whole.                    *)
(***************************************************************************)
EXTENDS Machine, UpdateProofs, ExecutionProofs, NetworkProofs

(* A step of the computer is a step of one part, and none of the others.    *)
LEMMA StepOfParts ==
    ASSUME [MachineNext]_machineVars
    PROVE  [UpdateNext]_allVars /\ [ExecutionNext]_execVars /\ [NetworkNext]_netVars
<1>1. CASE UNCHANGED machineVars
  BY <1>1 DEF machineVars
<1>2. CASE ProgramStep
  BY <1>2 DEF ProgramStep
<1>3. CASE RepairStep
  BY <1>3 DEF RepairStep
<1>4. CASE NetworkStep
  BY <1>4 DEF NetworkStep
<1>5. QED
  BY <1>1, <1>2, <1>3, <1>4 DEF MachineNext

(* The composition implements each of its parts: lifecycle and update,      *)
(* the work of a repair, and the governance of a network do not disturb     *)
(* each other (runtime/lifecycle.py, workflow/executor.py,                  *)
(* network/governance.py).                                                 *)
THEOREM MachineImplementsParts == MachineSpec => UpdateSpec /\ ExecutionSpec /\ NetworkSpec
<1>1. MachineInit => UpdateInit /\ ExecutionInit /\ NetworkInit
  BY DEF MachineInit
<1>2. [MachineNext]_machineVars
        => [UpdateNext]_allVars /\ [ExecutionNext]_execVars /\ [NetworkNext]_netVars
  BY StepOfParts
<1>3. QED
  BY <1>1, <1>2, PTL DEF MachineSpec, UpdateSpec, ExecutionSpec, NetworkSpec

(* The variables of all three keep their types, for any number of           *)
(* components, versions, operators, containers, processes and grants.       *)
THEOREM MachineTyped == MachineSpec => []MachineTypeOK
<1>1. NInv => NetworkTypeOK
  BY DEF NInv
<1>2. MachineSpec => [](UpdateTypeOK /\ ExecutionTypeOK /\ NInv)
  BY MachineImplementsParts, UpdateTyped, ExecutionTyped, NetworkInvariant, PTL
<1>3. UpdateTypeOK /\ ExecutionTypeOK /\ NInv => MachineTypeOK
  BY <1>1 DEF MachineTypeOK
<1>4. QED
  BY <1>2, <1>3, PTL

(* And every safety property of the parts is one of the computer: what is   *)
(* updated stays startable, what is repaired comes up in its order and      *)
(* leaves nothing behind, and what is applied is applied once, under a grant *)
(* and as RevisionPromise says, while the others go on.                    *)
THEOREM MachineIsSafe ==
    MachineSpec =>
      /\ [](OneProcess /\ OneUpdater /\ PointerRunnable /\ WayBack) /\ KnownStaysKnown /\ RecordTells
      /\ [](LayersRight /\ NothingLeft /\ Patient) /\ DependencyFirst
      /\ [](RevokedNotWriting /\ VerifiedIsApplied) /\ NoReplay /\ RevisionKept
<1>1. MachineSpec =>
        [](OneProcess /\ OneUpdater /\ PointerRunnable /\ WayBack) /\ KnownStaysKnown /\ RecordTells
  BY MachineImplementsParts, UpdateKeepsOne, SwitchesApart, AlwaysRunnable, WayStaysOpen,
     UpdateKeepsRecords, ResultsAreTrue, PTL
<1>2. MachineSpec => [](LayersRight /\ NothingLeft /\ Patient) /\ DependencyFirst
  BY MachineImplementsParts, LayersAreRight, NothingLeftBehind, WaitsAreBounded,
     DependenciesFirst, PTL
<1>3. MachineSpec => [](RevokedNotWriting /\ VerifiedIsApplied) /\ NoReplay /\ RevisionKept
  BY MachineImplementsParts, WrittenUnderAGrant, VerifiedInForce, AppliedOnce,
     RevisionKeepsPromise, PTL
<1>4. QED
  BY <1>1, <1>2, <1>3

=============================================================================
