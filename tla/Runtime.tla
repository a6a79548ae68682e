------------------------------ MODULE Runtime ------------------------------
(***************************************************************************)
(* The manual lifecycle of the program's own components (the local web     *)
(* page and the gateway): `runtime start`, `status` and `stop`, which run   *)
(* in processes of their own, find each other through one lock file and    *)
(* find the components through one record file per component               *)
(* (runtime/lifecycle.py, runtime/process.py, the runtime commands of       *)
(* cli.py).                                                                *)
(*                                                                         *)
(* Abstractions.  A process is its instance number: the number stands for  *)
(* what the code compares (pid, start time, executable, the instance id on *)
(* the command line), so a process whose pid was reused is one that is no  *)
(* longer there, unless the new owner of the pid cannot be read (taken).   *)
(* The readiness window is one step; a component that is slow, or that     *)
(* never answers, fails it.  Ports, logs and preflight details are left    *)
(* out; what a preflight decides is a choice.                              *)
(***************************************************************************)
EXTENDS Integers, Sequences, FiniteSets

CONSTANTS
    Operators,      \* processes that may run a runtime operation
    Components,     \* the enabled components
    Order,          \* the order in which an operation walks over them
    ByPid,          \* components whose probe checks who answers (the gateway)
    Versions,       \* the program versions a component can be started from
    Broken,         \* versions whose components never become ready
    NoVersion,      \* a command that starts nothing
    Nobody,         \* operation.lock does not exist
    Leftover,       \* operation.lock of a process that was killed
    NoRecord,       \* no record file
    Limits          \* bounds of the model: how often each kind of event may happen

ASSUME RuntimeAssumption ==
    /\ Order \in Seq(Components)
    /\ \A c \in Components : \E i \in 1..Len(Order) : Order[i] = c
    /\ \A i, j \in 1..Len(Order) : Order[i] = Order[j] => i = j
    /\ ByPid \subseteq Components
    /\ Broken \subseteq Versions
    /\ Nobody \notin Operators /\ Leftover \notin Operators
    /\ Nobody # Leftover
    /\ NoVersion \notin Versions
    /\ \A l \in Limits :
         {l.spawns, l.kills, l.unsaved, l.taken, l.exits} \subseteq Nat

Lives == {"starting", "running", "stopped", "failed"}
Process == [id : Nat, comp : Components, ver : Versions]
Record == [id : Nat, life : Lives]

ASSUME RecordAssumption == NoRecord \notin Record

VARIABLES
    procs,      \* the component processes that are alive
    spawned,    \* how many were ever started
    taken,      \* ids of dead processes whose pid an unreadable process has now
    record,     \* <component>.json, by component
    oplock,     \* operation.lock
    op,         \* the operation each operator is running
    kills,      \* how many commands were killed
    unsaved,    \* how many new processes could not be recorded
    exits,      \* how many components ended by themselves
    limit       \* the bounds of this behaviour, one of Limits

runtimeVars == <<procs, spawned, taken, record, oplock, op, kills, unsaved, exits, limit>>

Kinds == {"none", "precheck", "start", "stop", "status"}
Steps == {"enter", "scan", "spawned", "saved", "ending", "leave", "done"}

(* One operation: the component it is at, the step it is at there, the      *)
(* version it starts, the process it just started or is stopping, and      *)
(* whether all went well so far.                                           *)
Operation == [kind : Kinds, step : Steps, at : Nat \ {0},
              ver : Versions \cup {NoVersion}, id : Nat, good : BOOLEAN]

(* Mistake: components counted from zero. *)
BegunAtZero(kind, v) ==
    [kind |-> kind, step |-> "enter", at |-> 0, ver |-> v, id |-> 0, good |-> TRUE]

Begun(kind, v) ==
    [kind |-> kind, step |-> "enter", at |-> 1, ver |-> v, id |-> 0, good |-> TRUE]

Idle == Begun("none", NoVersion)

(* It is at work on process id; it goes on to the next component, well so   *)
(* far or not; it is over.                                                 *)
Doing(o, step, id) == [o EXCEPT !.step = step, !.id = id]
Further(o, good) == [o EXCEPT !.at = @ + 1, !.step = "scan", !.id = 0, !.good = good]
Over(o, good) == [o EXCEPT !.step = "done", !.good = good]

RuntimeTypeOK ==
    /\ procs \subseteq Process
    /\ spawned \in Nat
    /\ taken \subseteq Nat
    /\ record \in [Components -> Record \cup {NoRecord}]
    /\ oplock \in Operators \cup {Nobody, Leftover}
    /\ op \in [Operators -> Operation]
    /\ kills \in Nat /\ unsaved \in Nat /\ exits \in Nat
    /\ limit \in Limits

-----------------------------------------------------------------------------
(* What an operation sees of a component                                   *)

LiveIds == {p.id : p \in procs}

(* Mistake: a record that says failed is taken for none, like a stopped one. *)
SeenUnlessFailed(c) ==
    IF record[c] = NoRecord THEN "absent"
    ELSE IF record[c].life \in {"stopped", "failed"} THEN "absent"
    ELSE IF record[c].id \in LiveIds THEN "owned"
    ELSE IF record[c].id \in taken THEN "conflict" ELSE "absent"

(* The record of a component against the process table, lifecycle.py       *)
(* 292-326 and 328-361.  A record that says stopped is believed.           *)
Seen(c) ==
    CASE record[c] = NoRecord -> "absent"
      [] record[c] # NoRecord /\ record[c].life = "stopped" -> "absent"
      [] record[c] # NoRecord /\ record[c].life # "stopped"
            /\ record[c].id \in LiveIds -> "owned"
      [] record[c] # NoRecord /\ record[c].life # "stopped"
            /\ record[c].id \notin LiveIds /\ record[c].id \in taken -> "conflict"
      [] OTHER -> "absent"

(* Something answers the probe of process i of component c.  The probe of  *)
(* the local page asks the port, whoever listens there.                    *)
Answered(c, i) ==
    \E p \in procs : /\ p.comp = c
                     /\ p.ver \notin Broken
                     /\ c \in ByPid => p.id = i

(* The operator is inside the operation lock. *)
Inside(a) == op[a].kind # "none" /\ op[a].step \in {"scan", "spawned", "saved", "ending"}
At(a) == Order[op[a].at]
More(a) == op[a].at <= Len(Order)

(* The operation goes on to the next component. *)
Onward(a, good) == op' = [op EXCEPT ![a] = Further(op[a], op[a].good /\ good)]

Save(c, i, life) == record' = [record EXCEPT ![c] = [id |-> i, life |-> life]]

-----------------------------------------------------------------------------
(* Operations                                                              *)

(* A runtime command is started, when the last one of the operator ended. *)
Ask(a, kind, v) ==
    /\ op[a].kind = "none" \/ op[a].step = "done"
    /\ op' = [op EXCEPT ![a] = Begun(kind, v)]
    /\ UNCHANGED <<procs, spawned, taken, record, oplock, kills, unsaved, exits, limit>>

(* Its lock file exists already: the command ends, busy. *)
EnterBusy(a) ==
    /\ op[a].kind # "none" /\ op[a].step = "enter"
    /\ oplock # Nobody
    /\ op' = [op EXCEPT ![a] = Over(op[a], FALSE)]
    /\ UNCHANGED <<procs, spawned, taken, record, oplock, kills, unsaved, exits, limit>>

(* Mistake: the lock file is written whether it exists or not. *)
EnterAnyway(a) ==
    /\ op[a].kind # "none" /\ op[a].step = "enter"
    /\ oplock' = a
    /\ op' = [op EXCEPT ![a].step = "scan"]
    /\ UNCHANGED <<procs, spawned, taken, record, kills, unsaved, exits, limit>>

EnterFree(a) ==
    /\ op[a].kind # "none" /\ op[a].step = "enter"
    /\ oplock = Nobody
    /\ oplock' = a
    /\ op' = [op EXCEPT ![a].step = "scan"]
    /\ UNCHANGED <<procs, spawned, taken, record, kills, unsaved, exits, limit>>

(* start: a component that runs is left alone, and so is one that is        *)
(* present but not well.                                                   *)
StartPresent(a) ==
    /\ op[a].kind = "start" /\ op[a].step = "scan" /\ More(a)
    /\ \/ /\ Seen(At(a)) = "owned" /\ record[At(a)].life # "failed"
          /\ Answered(At(a), record[At(a)].id)
          /\ Onward(a, TRUE)
       \/ Seen(At(a)) \in {"owned", "conflict"} /\ Onward(a, FALSE)
    /\ UNCHANGED <<procs, spawned, taken, record, oplock, kills, unsaved, exits, limit>>

(* start: no command for the component, or it could not be spawned. *)
StartRefused(a) ==
    /\ op[a].kind = "start" /\ op[a].step = "scan" /\ More(a)
    /\ Seen(At(a)) = "absent"
    /\ Onward(a, FALSE)
    /\ UNCHANGED <<procs, spawned, taken, record, oplock, kills, unsaved, exits, limit>>

StartSpawn(a) ==
    /\ op[a].kind = "start" /\ op[a].step = "scan" /\ More(a)
    /\ Seen(At(a)) = "absent"
    /\ spawned < limit.spawns
    /\ spawned' = spawned + 1
    /\ procs' = procs \cup {[id |-> spawned + 1, comp |-> At(a), ver |-> op[a].ver]}
    /\ op' = [op EXCEPT ![a] = Doing(op[a], "spawned", spawned + 1)]
    /\ UNCHANGED <<taken, record, oplock, kills, unsaved, exits, limit>>

StartRecorded(a) ==
    /\ op[a].kind = "start" /\ op[a].step = "spawned"
    /\ Save(At(a), op[a].id, "starting")
    /\ op' = [op EXCEPT ![a] = Doing(op[a], "saved", op[a].id)]
    /\ UNCHANGED <<procs, spawned, taken, oplock, kills, unsaved, exits, limit>>

(* The record cannot be written: reported as spawn_failed, and the process  *)
(* stays.                                                                  *)
StartUnrecorded(a) ==
    /\ op[a].kind = "start" /\ op[a].step = "spawned"
    /\ unsaved < limit.unsaved
    /\ unsaved' = unsaved + 1
    /\ Onward(a, FALSE)
    /\ UNCHANGED <<procs, spawned, taken, record, oplock, kills, exits, limit>>

(* The process answered, and was still there after the stable window. *)
StartStable(a) ==
    /\ op[a].kind = "start" /\ op[a].step = "saved"
    /\ op[a].id \in LiveIds /\ Answered(At(a), op[a].id)
    /\ Save(At(a), op[a].id, "running")
    /\ Onward(a, TRUE)
    /\ UNCHANGED <<procs, spawned, taken, oplock, kills, unsaved, exits, limit>>

StartUnstable(a) ==
    /\ op[a].kind = "start" /\ op[a].step = "saved"
    /\ Save(At(a), op[a].id, "failed")
    /\ Onward(a, FALSE)
    /\ UNCHANGED <<procs, spawned, taken, oplock, kills, unsaved, exits, limit>>

(* stop: nothing to stop, or a process that is not provably ours. *)
StopNothing(a) ==
    /\ op[a].kind = "stop" /\ op[a].step = "scan" /\ More(a)
    /\ Seen(At(a)) # "owned"
    /\ Onward(a, TRUE)
    /\ UNCHANGED <<procs, spawned, taken, record, oplock, kills, unsaved, exits, limit>>

(* stop: the process is asked to end, or the asking itself fails. *)
StopAsk(a) ==
    /\ op[a].kind = "stop" /\ op[a].step = "scan" /\ More(a)
    /\ Seen(At(a)) = "owned"
    /\ op' = [op EXCEPT ![a] = Doing(op[a], "ending", record[At(a)].id)]
    /\ UNCHANGED <<procs, spawned, taken, record, oplock, kills, unsaved, exits, limit>>

StopAskFails(a) ==
    /\ op[a].kind = "stop" /\ op[a].step = "scan" /\ More(a)
    /\ Seen(At(a)) = "owned"
    /\ Save(At(a), record[At(a)].id, "failed")
    /\ Onward(a, TRUE)
    /\ UNCHANGED <<procs, spawned, taken, oplock, kills, unsaved, exits, limit>>

(* stop: the process ended in time (or had ended already) ... *)
StopEnded(a) ==
    /\ op[a].kind = "stop" /\ op[a].step = "ending"
    /\ procs' = {p \in procs : p.id # op[a].id}
    /\ Save(At(a), op[a].id, "stopped")
    /\ Onward(a, TRUE)
    /\ UNCHANGED <<spawned, taken, oplock, kills, unsaved, exits, limit>>

(* ... or is still there when the time is up; it is not killed. *)
StopTimeout(a) ==
    /\ op[a].kind = "stop" /\ op[a].step = "ending"
    /\ op[a].id \in LiveIds
    /\ Save(At(a), op[a].id, "failed")
    /\ Onward(a, TRUE)
    /\ UNCHANGED <<procs, spawned, taken, oplock, kills, unsaved, exits, limit>>

(* status, and the look before a start: good when nothing is present. *)
LookAt(a) ==
    /\ op[a].kind \in {"status", "precheck"} /\ op[a].step = "scan" /\ More(a)
    /\ Onward(a, Seen(At(a)) = "absent")
    /\ UNCHANGED <<procs, spawned, taken, record, oplock, kills, unsaved, exits, limit>>

(* The lock file is removed. *)
LeaveLock(a) ==
    /\ op[a].kind # "none" /\ op[a].step = "scan" /\ ~More(a)
    /\ oplock' = Nobody
    /\ op' = [op EXCEPT ![a].step = IF op[a].kind = "precheck" THEN "leave" ELSE "done"]
    /\ UNCHANGED <<procs, spawned, taken, record, kills, unsaved, exits, limit>>

(* `runtime start` looked first; the preflight then lets it go on, or not. *)
PreflightPassed(a) ==
    /\ op[a].kind = "precheck" /\ op[a].step = "leave"
    /\ op' = [op EXCEPT ![a] = Begun("start", op[a].ver)]
    /\ UNCHANGED <<procs, spawned, taken, record, oplock, kills, unsaved, exits, limit>>

PreflightFailed(a) ==
    /\ op[a].kind = "precheck" /\ op[a].step = "leave"
    /\ op' = [op EXCEPT ![a] = Over(op[a], FALSE)]
    /\ UNCHANGED <<procs, spawned, taken, record, oplock, kills, unsaved, exits, limit>>

(* The command has ended and its result is known. *)
Collect(a) ==
    /\ op[a].kind # "none" /\ op[a].step = "done"
    /\ op' = [op EXCEPT ![a] = Idle]
    /\ UNCHANGED <<procs, spawned, taken, record, oplock, kills, unsaved, exits, limit>>

OpStep(a) ==
    \/ EnterBusy(a) \/ EnterFree(a)
    \/ StartPresent(a) \/ StartRefused(a) \/ StartSpawn(a)
    \/ StartRecorded(a) \/ StartUnrecorded(a)
    \/ StartStable(a) \/ StartUnstable(a)
    \/ StopNothing(a) \/ StopAsk(a) \/ StopAskFails(a)
    \/ StopEnded(a) \/ StopTimeout(a)
    \/ LookAt(a) \/ LeaveLock(a)
    \/ PreflightPassed(a) \/ PreflightFailed(a)

-----------------------------------------------------------------------------
(* Surroundings                                                            *)

(* The process that runs a command is killed; its lock file, if it had one, *)
(* stays, and nothing in the code takes it over.                           *)
KillOp(a) ==
    /\ op[a].kind # "none" /\ op[a].step # "done"
    /\ kills < limit.kills
    /\ kills' = kills + 1
    /\ oplock' = IF oplock = a THEN Leftover ELSE oplock
    /\ op' = [op EXCEPT ![a] = Over(op[a], FALSE)]
    /\ UNCHANGED <<procs, spawned, taken, record, unsaved, exits, limit>>

(* A component ends by itself. *)
ProcessExits(p) ==
    /\ exits < limit.exits
    /\ exits' = exits + 1
    /\ procs' = procs \ {p}
    /\ UNCHANGED <<spawned, taken, record, oplock, op, kills, unsaved, limit>>

(* The pid of a dead process goes to one that cannot be read. *)
PidTaken(i) ==
    /\ i \notin LiveIds /\ i \notin taken
    /\ Cardinality(taken) < limit.taken
    /\ taken' = taken \cup {i}
    /\ UNCHANGED <<procs, spawned, record, oplock, op, kills, unsaved, exits, limit>>

Surroundings ==
    \/ \E a \in Operators : KillOp(a)
    \/ \E p \in procs : ProcessExits(p)
    \/ \E i \in 1..spawned : PidTaken(i)

(* Some components may run already, as an earlier start left them. *)
RuntimeInit ==
    /\ \E v \in Versions, on \in SUBSET Components :
         /\ procs = {[id |-> i, comp |-> Order[i], ver |-> v] :
                       i \in {j \in 1..Len(Order) : Order[j] \in on}}
         /\ record = [c \in Components |->
                IF c \in on
                THEN [id |-> CHOOSE i \in 1..Len(Order) : Order[i] = c, life |-> "running"]
                ELSE NoRecord]
    /\ spawned = Len(Order) /\ taken = {}
    /\ oplock = Nobody
    /\ op = [a \in Operators |-> Idle]
    /\ kills = 0 /\ unsaved = 0 /\ exits = 0
    /\ limit \in Limits

RuntimeNext ==
    \/ \E a \in Operators :
         \/ \E v \in Versions : Ask(a, "precheck", v)
         \/ \E kind \in {"stop", "status"} : Ask(a, kind, NoVersion)
         \/ OpStep(a)
         \/ Collect(a)
    \/ Surroundings

RuntimeSpec == RuntimeInit /\ [][RuntimeNext]_runtimeVars

-----------------------------------------------------------------------------
(* Properties                                                              *)

(* The process a component's record names, while it lives, stays named: no *)
(* operation of any operator writes over the record of a process that is   *)
(* still there, so it can always be found and stopped.                     *)
KnownStaysKnown ==
    [][\A p \in procs :
          /\ record[p.comp] # NoRecord /\ record[p.comp].id = p.id
          /\ p \in procs'
          => /\ record'[p.comp] # NoRecord
             /\ record'[p.comp].id = p.id
             /\ record'[p.comp].life # "stopped"]_runtimeVars

(* However the operations of several operators interleave, wherever they   *)
(* are killed and however components exit, a component runs at most once:  *)
(* one more process per record that could not be written.                  *)
OneProcess ==
    \A c \in Components : Cardinality({p \in procs : p.comp = c}) <= 1 + unsaved

=============================================================================
