--------------------------- MODULE RepairExecution ---------------------------
(***************************************************************************)
(* What an approved repair does to the computer once it is claimed: the    *)
(* commands of its plan, the verification and the cleanup                  *)
(* (repair/workflow.py from the claim on, repair/compose_order.py, the      *)
(* launcher of repair/processes.py).  RepairControl models the statuses of *)
(* the record around it.                                                   *)
(*                                                                         *)
(* Abstractions.  Docker, launchd and the service manager are what a look  *)
(* at them shows, which is anything.  Of a program's processes the one     *)
(* that was recorded (old), the one this repair launches (new) and their   *)
(* children are kept apart.  A second of waiting is one unit; the wall     *)
(* clock may run ahead of it or be set back.  A target has one port.       *)
(***************************************************************************)
EXTENDS Integers, Sequences, FiniteSets, SequencesExt

CONSTANTS
    Containers,     \* the containers of the target
    Nameless,       \* a container without the label of its compose service
    Groups,         \* the groups a behaviour may begin with
    RepairKinds,          \* the kinds of repair a behaviour may begin with
    ReadySeconds,   \* COMPOSE_READY_SECONDS
    StopSeconds,    \* service_stop_seconds
    VerifySeconds,  \* container_verify_seconds, python_verify_seconds
    StartingSeconds,    \* starting_verify_seconds
    MaxJumps, Jump,     \* how often and how far the wall clock is off
    MaxUnread,          \* how often a live process cannot be read
    MaxStrays           \* how often a process leaves a child behind

(* A group: the compose service of each container, the services it depends *)
(* on, and which containers run when the repair begins.                    *)
ASSUME ExecutionAssumption ==
    /\ Containers # {} /\ IsFiniteSet(Containers)
    /\ \A g \in Groups : /\ DOMAIN g.service = Containers
                         /\ DOMAIN g.needs = Containers
                         /\ g.on \subseteq Containers
                         /\ g.compose \in BOOLEAN
    /\ RepairKinds \subseteq {"containers", "service", "agent", "program", "stuck"}
    /\ {ReadySeconds, StopSeconds, VerifySeconds, StartingSeconds} \subseteq Nat
    /\ VerifySeconds <= StartingSeconds
    /\ {MaxJumps, Jump, MaxUnread, MaxStrays} \subseteq Nat

VARIABLES
    kind,       \* what is repaired
    group,      \* its containers
    pc,         \* where the repair is
    plan,       \* the steps that are left
    elapsed,    \* the time the current wait believes has passed
    slept,      \* the time it slept
    ahead,      \* how far the wall clock is ahead of that
    webOk,      \* the home page was seen to open
    outcome,    \* how the repair ended
    begun,      \* containers (or the service) it started
    halted,     \* containers (or the service) it stopped
    proved,     \* those whose wait after a step ended well
    tree,       \* the processes of the program
    launched,   \* it launched the program
    known,      \* the launch record: as approved, changed since, or renewed
    alive,      \* what the last look at the new process said
    onlyWeb,    \* the last round failed by the home page alone
    jumps, unread, strays   \* counters for the bounds

execVars == <<kind, group, pc, plan, elapsed, slept, ahead, webOk, outcome, begun,
              halted, proved, tree, launched, known, alive, onlyWeb, jumps, unread,
              strays>>
clockVars == <<elapsed, slept, ahead>>
countVars == <<jumps, unread, strays>>
verdictVars == <<webOk, alive, onlyWeb>>
doneVars == <<begun, halted, proved>>
worldVars == <<tree, launched, known>>

Service == "service"
NoGroup == [service |-> [c \in Containers |-> Nameless], needs |-> [c \in Containers |-> {}],
            on |-> {}, compose |-> FALSE]
Things == Containers \cup {Service}
Processes == {"old", "oldkid", "new", "newkid"}
Step == [act : {"start", "restart", "stop", "kickstart"}, who : SUBSET Things,
         wait : {"none", "ready", "stopped"}]
Programs == {"program", "stuck"}

-----------------------------------------------------------------------------
(* The order of a compose group                                            *)

GroupServices(g) == {g.service[c] : c \in Containers}

(* Mistake: a need outside the group is not ignored. *)
AllNeedsOf(g, s) ==
    UNION {g.needs[c] : c \in {c \in Containers : g.service[c] = s}}

(* The services of the group a service needs; others are ignored. *)
NeedsOf(g, s) ==
    (UNION {g.needs[c] : c \in {c \in Containers : g.service[c] = s}}) \cap GroupServices(g)

(* The services placed after k rounds. *)
Placed(g) ==
    LET placed[k \in 0..Cardinality(GroupServices(g))] ==
          IF k = 0 THEN {}
          ELSE LET before == placed[k - 1]
               IN before \cup {s \in GroupServices(g) : NeedsOf(g, s) \subseteq before}
    IN placed

(* dependency_layers; no layers when there is no order. *)
Layers(g) ==
    LET placed == Placed(g)
        last == Cardinality(GroupServices(g))
        rounds == {k \in 1..last : placed[k] # placed[k - 1]}
    IN IF Nameless \in GroupServices(g) \/ placed[last] # GroupServices(g) THEN <<>>
       ELSE [k \in 1..Cardinality(rounds) |->
               {c \in Containers : g.service[c] \in placed[k] \ placed[k - 1]}]

(* all_at_once_steps *)
AllAtOnce(g) ==
    LET step(act, who) == IF who = {} THEN <<>>
                          ELSE <<[act |-> act, who |-> who, wait |-> "none"]>>
    IN step("start", Containers \ g.on) \o step("restart", g.on)

(* The layers some containers of which are off, in their order. *)
Starts(layers, off) ==
    LET kept == {k \in 1..Len(layers) : layers[k] \cap off # {}}
        rank(k) == Cardinality({j \in kept : j <= k})
    IN [i \in 1..Cardinality(kept) |-> layers[CHOOSE k \in kept : rank(k) = i] \cap off]

(* Mistake: the last two starts are not waited for. *)
OrderedHastily(g) ==
    LET layers == Layers(g)
        off == IF g.on = Containers THEN Containers ELSE Containers \ g.on
        starts == Starts(layers, off)
    IN [k \in 1..Len(starts) |->
          [act |-> "start", who |-> starts[k],
           wait |-> IF k < Len(starts) - 1 THEN "ready" ELSE "none"]]

(* ordered_steps: stop everything from the last layer on if all runs, then  *)
(* start what is off layer by layer; every start but the last is waited for.*)
Ordered(g) ==
    LET layers == Layers(g)
        off == IF g.on = Containers THEN Containers ELSE Containers \ g.on
        stops == IF g.on # Containers THEN <<>>
                 ELSE [k \in 1..Len(layers) |->
                         [act |-> "stop", who |-> Reverse(layers)[k], wait |-> "none"]]
        starts == Starts(layers, off)
    IN stops \o [k \in 1..Len(starts) |->
                   [act |-> "start", who |-> starts[k],
                    wait |-> IF k < Len(starts) THEN "ready" ELSE "none"]]

(* container_steps *)
ContainerPlan(g) == IF g.compose /\ Layers(g) # <<>> THEN Ordered(g) ELSE AllAtOnce(g)

(* A stuck Windows service is stopped before it is started. *)
ServicePlan(restart) ==
    LET stop == [act |-> "stop", who |-> {Service}, wait |-> "stopped"]
        start == [act |-> "start", who |-> {Service}, wait |-> "none"]
    IN IF restart THEN <<stop, start>> ELSE <<start>>

-----------------------------------------------------------------------------
ExecutionTypeOK ==
    /\ kind \in RepairKinds
    /\ group.on \subseteq Containers /\ group.compose \in BOOLEAN
    /\ pc \in {"run", "await", "end", "launch", "verify", "cleanup", "over"}
    /\ plan \in Seq(Step)
    /\ elapsed \in Nat /\ slept \in Nat /\ ahead \in Int
    /\ {webOk, launched, alive, onlyWeb} \subseteq BOOLEAN
    /\ outcome \in {"none", "succeeded", "rolled_back", "cleanup_failed"}
    /\ {begun, halted, proved} \subseteq SUBSET Things
    /\ tree \subseteq Processes
    /\ known \in {"approved", "changed", "renewed"}
    /\ {jumps, unread, strays} \subseteq Nat

MaxOf(a, b) == IF a > b THEN a ELSE b

(* A wait begins; it sleeps for a second and looks at the clock again. *)
BeginWait == elapsed' = 0 /\ slept' = 0 /\ ahead' = 0
(* Mistakes: by the wall clock only; without the second just slept. *)
SleepByClock ==
    /\ slept' = slept + 1
    /\ elapsed' = slept + 1 + ahead
    /\ UNCHANGED ahead
SleepUncounted ==
    /\ slept' = slept + 1
    /\ elapsed' = MaxOf(elapsed, slept + 1 + ahead)
    /\ UNCHANGED ahead
SleepOn ==
    /\ slept' = slept + 1
    /\ elapsed' = MaxOf(elapsed + 1, slept + 1 + ahead)
    /\ UNCHANGED ahead

End(how) == pc' = "over" /\ outcome' = how

-----------------------------------------------------------------------------
(* Commands                                                                *)

(* The next command ran; its step may be waited for. *)
CommandRan ==
    /\ pc = "run" /\ plan # <<>>
    /\ LET s == Head(plan) IN
         /\ begun' = IF s.act = "stop" THEN begun ELSE begun \cup s.who
         /\ halted' = IF s.act = "start" THEN halted ELSE halted \cup s.who
         /\ IF s.wait = "none"
            THEN plan' = Tail(plan) /\ UNCHANGED <<pc, clockVars>>
            ELSE pc' = "await" /\ BeginWait /\ UNCHANGED plan
    /\ UNCHANGED <<kind, group, outcome, proved, verdictVars, worldVars, countVars>>

(* It failed or its time was up: nothing more is done. *)
CommandFailed ==
    /\ pc = "run" /\ plan # <<>>
    /\ End("rolled_back")
    /\ UNCHANGED <<kind, group, plan, clockVars, verdictVars, doneVars, worldVars, countVars>>

(* wait_until_ready and _wait_service_stopped: everything the step is about *)
(* is as it should be in one look ...                                      *)
SeenReady ==
    /\ pc = "await"
    /\ proved' = proved \cup Head(plan).who
    /\ plan' = Tail(plan)
    /\ pc' = "run"
    /\ UNCHANGED <<kind, group, clockVars, outcome, begun, halted, verdictVars, worldVars,
                   countVars>>

WaitLimit == IF Head(plan).wait = "ready" THEN ReadySeconds ELSE StopSeconds

(* ... or something is not: look again in a second, or give up.  The wait   *)
(* for a service counts its sleeps only.                                   *)
SeenPending ==
    /\ pc = "await"
    /\ elapsed < WaitLimit
    /\ IF Head(plan).wait = "ready" THEN SleepOn
       ELSE elapsed' = elapsed + 1 /\ slept' = slept + 1 /\ UNCHANGED ahead
    /\ UNCHANGED <<kind, group, pc, plan, outcome, doneVars, verdictVars, worldVars, countVars>>

GivenUp ==
    /\ pc = "await"
    /\ elapsed >= WaitLimit
    /\ End("rolled_back")
    /\ UNCHANGED <<kind, group, plan, clockVars, doneVars, verdictVars, worldVars, countVars>>

Planned ==
    /\ pc = "run" /\ plan = <<>>
    /\ pc' = "verify"
    /\ BeginWait
    /\ UNCHANGED <<kind, group, plan, outcome, doneVars, verdictVars, worldVars, countVars>>

-----------------------------------------------------------------------------
(* Programs                                                                *)

(* end_stuck: the recorded process is gone, whatever became of its         *)
(* children ...                                                            *)
EndGone ==
    /\ pc = "end"
    /\ "old" \notin tree
    /\ pc' = "launch"
    /\ UNCHANGED <<kind, group, plan, clockVars, outcome, doneVars, verdictVars, worldVars,
                   countVars>>

(* ... or it is ended with its children; if one of them survives, or the    *)
(* process is another program now, or cannot be read, nothing is launched. *)
EndAll ==
    /\ pc = "end"
    /\ "old" \in tree
    /\ tree' = tree \ {"old", "oldkid"}
    /\ pc' = "launch"
    /\ UNCHANGED <<kind, group, plan, clockVars, outcome, doneVars, verdictVars, launched,
                   known, countVars>>

EndFails ==
    /\ pc = "end"
    /\ "old" \in tree
    /\ \E gone \in SUBSET {"old", "oldkid"} :
         gone # {"old", "oldkid"} /\ tree' = tree \ gone
    /\ End("rolled_back")
    /\ UNCHANGED <<kind, group, plan, clockVars, doneVars, verdictVars, launched, known,
                   countVars>>

Launched ==
    /\ pc = "launch"
    /\ tree' = tree \cup {"new"} /\ launched' = TRUE
    /\ pc' = "verify"
    /\ BeginWait
    /\ UNCHANGED <<kind, group, plan, outcome, doneVars, verdictVars, known, countVars>>

(* Nothing could be spawned; or it was, and its start time cannot be read, *)
(* which is reported as if it had not been.                                *)
LaunchRefused ==
    /\ pc = "launch"
    /\ End("rolled_back")
    /\ \/ UNCHANGED <<tree, launched, unread>>
       \/ /\ unread < MaxUnread
          /\ unread' = unread + 1
          /\ tree' = tree \cup {"new"} /\ launched' = TRUE
    /\ UNCHANGED <<kind, group, plan, clockVars, doneVars, verdictVars, known, jumps, strays>>

-----------------------------------------------------------------------------
(* Verification                                                            *)

(* is_alive; a process that cannot be read counts as dead. *)
LooksAlive(live) ==
    /\ live => "new" \in tree
    /\ IF "new" \in tree /\ ~live
       THEN unread < MaxUnread /\ unread' = unread + 1
       ELSE UNCHANGED unread

(* What one round sees: the containers or the service run, the port        *)
(* listens, the home page (not asked again once it opened) opens, the       *)
(* launched program lives.                                                 *)
Deadline(starting) == IF starting THEN MaxOf(VerifySeconds, StartingSeconds) ELSE VerifySeconds

Round(running, listens, opens, live) ==
    /\ kind \in Programs => running
    /\ kind \in Programs \/ live
    /\ IF kind \in Programs THEN LooksAlive(live) ELSE UNCHANGED unread
    /\ alive' = live
    /\ webOk' = (webOk \/ (listens /\ opens))
    /\ onlyWeb' = (running /\ listens /\ ~opens /\ ~webOk /\ live)

(* On success the launch record is renewed, if it is still the one that    *)
(* was approved and the port is held by a process like it.                 *)
Passed ==
    /\ pc = "verify"
    /\ \E opens \in BOOLEAN : Round(TRUE, TRUE, opens, TRUE) /\ (opens \/ webOk)
    /\ IF kind \in Programs /\ known = "approved"
       THEN known' \in {"approved", "renewed"} ELSE UNCHANGED known
    /\ End("succeeded")
    /\ UNCHANGED <<kind, group, plan, clockVars, doneVars, tree, launched, jumps, strays>>

NotYet ==
    /\ pc = "verify"
    /\ \E running, listens, opens \in BOOLEAN :
         /\ ~(running /\ listens /\ (opens \/ webOk))
         /\ Round(running, listens, opens, TRUE)
    /\ elapsed < Deadline(onlyWeb')
    /\ SleepOn
    /\ UNCHANGED <<kind, group, pc, plan, outcome, doneVars, worldVars, jumps, strays>>

Failed ==
    /\ pc = "verify"
    /\ \E running, listens, opens, live \in BOOLEAN :
         /\ ~(running /\ listens /\ (opens \/ webOk) /\ live)
         /\ Round(running, listens, opens, live)
    /\ alive' => elapsed >= Deadline(onlyWeb')
    /\ IF kind \in Programs
       THEN pc' = "cleanup" /\ UNCHANGED outcome ELSE End("rolled_back")
    /\ UNCHANGED <<kind, group, plan, clockVars, doneVars, worldVars, jumps, strays>>

(* Mistake: the children are left. *)
CleanUpParent ==
    /\ pc = "cleanup"
    /\ \E live \in BOOLEAN :
         /\ LooksAlive(live)
         /\ \/ ~live /\ UNCHANGED tree /\ End("rolled_back")
            \/ live /\ tree' = tree \ {"new"} /\ End("rolled_back")
            \/ live /\ UNCHANGED tree /\ End("cleanup_failed")
    /\ UNCHANGED <<kind, group, plan, clockVars, doneVars, verdictVars, launched, known,
                   jumps, strays>>

(* The launched program is stopped, with its children, unless it is gone. *)
CleanUp ==
    /\ pc = "cleanup"
    /\ \E live \in BOOLEAN :
         /\ LooksAlive(live)
         /\ \/ ~live /\ UNCHANGED tree /\ End("rolled_back")
            \/ live /\ tree' = tree \ {"new", "newkid"} /\ End("rolled_back")
            \/ live /\ tree' = tree \ {"newkid"} /\ End("cleanup_failed")
            \/ live /\ UNCHANGED tree /\ End("cleanup_failed")
    /\ UNCHANGED <<kind, group, plan, clockVars, doneVars, verdictVars, launched, known,
                   jumps, strays>>

(* Anything may raise, or the program may die: how it ended is not known. *)
Interrupted ==
    /\ pc # "over"
    /\ End("cleanup_failed")
    /\ UNCHANGED <<kind, group, plan, clockVars, doneVars, verdictVars, worldVars, countVars>>

-----------------------------------------------------------------------------
(* Surroundings                                                            *)

(* The launched program forks; a program ends, with its child or without. *)
Forks ==
    /\ pc # "over"
    /\ "new" \in tree /\ tree' = tree \cup {"newkid"} /\ tree' # tree
    /\ UNCHANGED <<kind, group, pc, plan, clockVars, outcome, doneVars, verdictVars,
                   launched, known, countVars>>

Exits ==
    /\ pc # "over"
    /\ \E p \in {"old", "new"} \cap tree :
         \/ /\ tree' = tree \ {p, IF p = "old" THEN "oldkid" ELSE "newkid"}
            /\ UNCHANGED strays
         \/ /\ strays < MaxStrays
            /\ (IF p = "old" THEN "oldkid" ELSE "newkid") \in tree
            /\ tree' = tree \ {p}
            /\ strays' = strays + 1
    /\ UNCHANGED <<kind, group, pc, plan, clockVars, outcome, doneVars, verdictVars,
                   launched, known, jumps, unread>>

(* The owner ran the program himself: the map writes a new launch record. *)
RecordChanges ==
    /\ pc # "over" /\ kind \in Programs /\ known = "approved"
    /\ known' = "changed"
    /\ UNCHANGED <<kind, group, pc, plan, clockVars, outcome, doneVars, verdictVars, tree,
                   launched, countVars>>

ClockJumps ==
    /\ pc \in {"await", "verify"}
    /\ jumps < MaxJumps
    /\ jumps' = jumps + 1
    /\ ahead' \in {ahead - Jump, ahead + Jump}
    /\ UNCHANGED <<kind, group, pc, plan, elapsed, slept, outcome, doneVars, verdictVars,
                   worldVars, unread, strays>>

ExecutionInit ==
    /\ kind \in RepairKinds
    /\ group \in IF kind = "containers" THEN Groups ELSE {NoGroup}
    /\ \/ kind = "containers" /\ pc = "run" /\ plan = ContainerPlan(group)
       \/ kind = "service" /\ pc = "run" /\ \E restart \in BOOLEAN : plan = ServicePlan(restart)
       \/ /\ kind = "agent" /\ pc = "run"
          /\ plan = <<[act |-> "kickstart", who |-> {Service}, wait |-> "none"]>>
       \/ kind = "program" /\ pc = "launch" /\ plan = <<>>
       \/ kind = "stuck" /\ pc = "end" /\ plan = <<>>
    /\ \/ kind = "stuck" /\ tree \in {{"old"}, {"old", "oldkid"}}
       \/ kind # "stuck" /\ tree = {}
    /\ elapsed = 0 /\ slept = 0 /\ ahead = 0
    /\ webOk = FALSE /\ alive = TRUE /\ onlyWeb = FALSE
    /\ outcome = "none"
    /\ begun = {} /\ halted = {} /\ proved = {}
    /\ launched = FALSE /\ known = "approved"
    /\ jumps = 0 /\ unread = 0 /\ strays = 0

ExecutionNext ==
    \/ CommandRan \/ CommandFailed \/ SeenReady \/ SeenPending \/ GivenUp \/ Planned
    \/ EndGone \/ EndAll \/ EndFails \/ Launched \/ LaunchRefused
    \/ Passed \/ NotYet \/ Failed \/ CleanUp \/ Interrupted
    \/ Forks \/ Exits \/ RecordChanges \/ ClockJumps

ExecutionSpec == ExecutionInit /\ [][ExecutionNext]_execVars

-----------------------------------------------------------------------------
(* Properties                                                              *)

(* Some services of the group each need another one of them: a circle. *)
Circular(g) ==
    \E T \in SUBSET GroupServices(g) :
        T # {} /\ \A s \in T : NeedsOf(g, s) \cap T # {}

(* There is an order exactly if every container has a service and nobody   *)
(* depends on itself in the end; and then a container stands in the layer  *)
(* right after the last of those it needs, and stands in one layer.        *)
LayersRight ==
    LET layers == Layers(group)
        after(i) == {c \in Containers : \E s \in NeedsOf(group, group.service[c]) :
                                           \E d \in layers[i] : group.service[d] = s}
    IN kind = "containers" =>
         /\ layers = <<>> <=> (Nameless \in GroupServices(group) \/ Circular(group))
         /\ layers # <<>> =>
            /\ \A c \in Containers : \E i \in 1..Len(layers) : c \in layers[i]
            /\ \A i, j \in 1..Len(layers) : i # j => layers[i] \cap layers[j] = {}
            /\ \A i \in 2..Len(layers) : layers[i] \subseteq after(i - 1)
            /\ \A i, j \in 1..Len(layers) : i <= j => layers[i] \cap after(j) = {}

(* In an ordered group a container is started when every container of the  *)
(* group it needs was running all along or was seen ready after this        *)
(* repair started it, and it is stopped after everything that needs it; a  *)
(* stuck Windows service is started when it was seen to have stopped.      *)
NeededBy(c) == {d \in Containers : group.service[d] \in NeedsOf(group, group.service[c])}
InOrder == kind = "containers" /\ group.compose
             /\ Nameless \notin GroupServices(group) /\ ~Circular(group)

DependencyFirst ==
    [][/\ \A c \in begun' \ begun : InOrder => \A d \in NeededBy(c) :
                 d \in proved \/ (d \in group.on /\ group.on # Containers)
       /\ \A c \in halted' \ halted : InOrder => \A d \in Containers :
                 c \in NeededBy(d) => d \in halted
       /\ Service \in begun' \ begun /\ Service \in halted /\ kind = "service"
            => Service \in proved]_execVars

(* The program never runs twice by a repair: the recorded process is gone   *)
(* when the new one is launched.  And a repair that ends rolled back left   *)
(* nothing of its own behind, except where a live process could not be     *)
(* read or a child outlived its parent.                                    *)
NothingLeft ==
    /\ launched => "old" \notin tree
    /\ outcome = "rolled_back" /\ unread = 0 /\ strays = 0 => tree \cap {"new", "newkid"} = {}

(* A repair of something that lives is given up only after its time: the   *)
(* usual time, the long one if only its home page was wrong in the last    *)
(* round, short only by what the clock ran ahead; and no wait lasts longer *)
(* than the longest of them, however often the clock is set back.          *)
Patient ==
    /\ slept <= MaxOf(MaxOf(ReadySeconds, StopSeconds), MaxOf(VerifySeconds, StartingSeconds))
    /\ (pc = "cleanup" /\ alive)
         \/ (pc = "over" /\ outcome = "rolled_back" /\ plan = <<>> /\ kind \notin Programs)
       => slept + jumps * Jump >= IF onlyWeb THEN StartingSeconds ELSE VerifySeconds

=============================================================================
