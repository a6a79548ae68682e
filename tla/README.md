# TunnelMinion: specifications, model checks and proofs

TunnelMinion runs an operations agent on every computer of a small group: it
watches the services its owner started, notices when one is down, looks for the
reason and proposes a fixed repair; the owner approves it, the program carries
it out, verifies the result and cleans up. This directory holds TLA+
specifications of the parts of that program whose correctness depends on
interleavings, on crashes and on time, the TLC runs that check them on small
instances, and proofs for every instance. Paths below are relative to
`src/tunnelminion/` unless they start with `docs/`.

## 1. Inventory

A computer runs two long-lived processes on one SQLite database: the **local
web** (map, agent, patrol, repairs; one asyncio event loop and a thread pool for
its synchronous handlers) and the **gateway** (the entry of the other
computers). The command line and an MCP server are further processes on the same
database.

| Part | State | Operations | Talks to | What is hard |
|---|---|---|---|---|
| Repair control (`repair/service.py`, `repair/workflow.py`, `operation/policy.py`) | none but the locals of its coroutines | propose, list, get, approve, approve_preauthorized, reject, execute, expire_due, recover_interrupted | repair store, repair runtimes, conversations (results) | the same record is read, changed and put by coroutines, threads and processes; long awaits; deaths; a wall clock that jumps |
| Repair store (`memory/sqlite.py`) | the `repairs` table | put, get, key lookup, list_all, claim_execution | SQLite | only the claim is a transaction over several rows; put overwrites whole rows |
| Patrol (`patrol/service.py`, `patrol/storage.py`) | the `patrol_services` table, streaks in memory, one task per service | observe_once, the handler of a confirmed outage, set_auto_repair, acknowledge, forget | service map, conversations, repair control | rounds, tasks and owner interleave around awaits; switches and pauses must survive |
| Repair execution (`repair/workflow.py` from the claim on, `repair/compose_order.py`, `repair/docker.py`, `repair/windows_services.py`, `repair/launch_agents.py`, `repair/processes.py`) | the steps that are left, the time a wait has taken, what it launched | the commands of the five kinds of repair, wait_until_ready, launch, end_stuck, verify, clean up | docker, launchd, the service manager, processes | the order of dependencies, circles, waits against two clocks, commands that fail half-way, children that outlive their parent |
| Planning and eligibility (`repair/planning.py`, `repair/eligibility.py`) | none | propose, check_* | platform adapters | what was checked may change before it is used; the live check before the claim is for that |
| Service map (`agent/service_observation.py`, `agent/service_tiers.py`) | a cache of the last observation | refresh, tier, mark | platform adapters, patrol | reuse of process ids, launch records that are older than the process |
| Conversations (`agent/conversation.py`, the checkpoints of `memory/sqlite.py`) | messages, runs, the results already told, one coroutine per run; one row per run in the database | start_run, resume_run, the end of a run, append_notice, append_repair_result, delete_thread, restore | agent runtime, repair control, patrol | event loop and threads change one conversation; changes of memory are taken back when a write fails; restarts |
| Agent runtime (`agent/runtime.py`) | none | drive a model with tools | model access, tools | cancellation and limits |
| Delegation (`agent/delegation.py`) | runs by request | delegate, poll, cancel | gateway of another computer | lost and late answers |
| Model access and lending (`model/`) | quota counters | complete, lend | an OpenAI-compatible server | retries, daily limits |
| Gateway (`gateway/`) | peers, switches, rate and quota counters | `/v1/services`, `/v1/delegations`, `/v1/repairs` | repair control, delegation | a second process on the repair table |
| Local web, command line, MCP (`web/`, `cli.py`, `mcp_server.py`) | none | requests | all services | synchronous handlers run in threads, asynchronous ones on the loop |
| Program runtime (`runtime/lifecycle.py`, `runtime/process.py`, the runtime commands of `cli.py`) | a record file per component, `operation.lock`, the processes | start, stop, status | one-click update | several programs at once, kills between spawn and record, reused process ids |
| One-click update (`update/`, `runtime/install.py`) | `runtime-install.json`, the program directories, `update.lock`, the result file | check, stage, switch, roll back, prune | program runtime, a helper process | kills between any two steps, a lock taken over from a dead program, a stale pointer |
| Trust and invitations (`trust/`) | keys, invitations, membership | invite, join, revoke | gateway | expiry and single use of codes |
| Network governance (`network/governance.py`) | grants, apply claims, records with their journal in `governance.sqlite3`; a copy of the records per process | approve, revoke, reconcile, refresh_path, recover | a provider that changes the network, a path controller, sinks for acknowledgements | deaths while the provider writes, leases that run out, two processes with a copy each, deliveries that are cut off |
| Operation sharing (`operation/`), coordinator, network paths, incidents | tables of an older architecture | | | off the main line; `operation/policy.py` and `operation/contracts.py` are what the repairs use |
| Platform adapters, telemetry, domain types, evaluation | | | | input and output, value types, offline scoring |

What makes the modelled parts correct:

* **Repair control.** An approval is spent on at most one execution, and only
  while it is valid. The computer works on one repair at a time; a repair is
  executed once; a rejected one never; what is worked on can be seen in the
  table; only an execution without a session is declared interrupted; no more
  executions than the limit in any window; one unfinished repair per key; a
  finished record is final; every proposal and every execution ends.
* **Patrol.** An outage is confirmed by consecutive rounds only; the owner's
  switch, acknowledgement and removal hold against rounds and tasks that began
  before; automatic repairs are rare and stop after a failure; every confirmed
  outage is told.
* **Repair execution.** Nothing is started before what it depends on is seen to
  run; no wait is longer than its limit or given up before it; a program is never
  run twice by a repair, and a repair that was rolled back leaves nothing behind.
* **Program runtime and update.** A component is not started twice, and the one
  that runs can always be found and stopped; one program at a time switches
  versions; the pointer always names a version that can be run; both versions
  stay until the switch is over; the result file tells what happened.
* **Conversations.** The result of a repair is told, and once; what was said and
  stored survives a restart; a deleted conversation stays deleted.
* **Network governance.** A revision is applied at most once; the owner cannot
  take a grant back while it is written under, nor is it written under a grant
  that was taken back; what is called verified is in force; what has ended is not
  taken up again.

`PROJECT.json` lists every component with its status and every hazard at its
line.

## 2. Plan

1. `RepairStatus`, `RepairControl`, `RepairPromise` (abstract) and
   `RepairKeepsPromise` (refinement): the core. *Done, checked and proved.*
2. `Patrol`: rounds, the handler of an outage, the owner's requests. *Done,
   checked, and its safety proved.*
3. `RepairExecution`: the commands of a repair, the order of a compose group, the
   deadlines of the verification, the processes it launches and ends. *Done,
   checked, and its safety proved.*
4. `Runtime` and `Update` over it: the components, their records and locks, and
   the swap of the installed version with a kill between any two steps. *Done,
   checked, and their safety proved: `Update` implements `Runtime`.*
5. `Conversation`: runs, notes, checkpoints and restarts. *Done, checked, and its
   safety proved.*
6. `NetworkGovernance`: grants, the claim, the journal and the lifecycle of a
   revision, with `RevisionPromise` (abstract) and `NetworkKeepsPromise`
   (refinement). *Done, checked, and its safety proved: it implements the promise.*
7. `Machine`: program, repair and network revision on one computer, composed.
   *Done, checked, and proved to implement each of its parts.*
8. Left for later: `Patrol` with the owner's requests in two steps, a read and a
   put, because they run in threads; `ServiceLaunch`, launch records against the
   reuse of process ids; `Delegation`, one question to another computer with lost
   and late answers.

## 3. Repair control

### Modules

| Module | What it is |
|---|---|
| `RepairStatus` | the statuses of a stored repair and the table of moves (`operation/contracts.py:106-137`, `repair/contracts.py:36-40`) |
| `RepairControl` | the sessions that propose, decide on, expire, execute and recover repairs, interleaved at every operation on the store |
| `RepairPromise` | what the owner is promised: a stage per repair, one repair at work at a time, every proposal and every execution ends |
| `RepairKeepsPromise` | the refinement mapping: `StageOf` a row |
| `RepairInvariant` | the inductive invariants |
| `MCRepairControl` | instances for TLC |
| `RepairProofs` | the proofs |

### How the model corresponds to the code

A *session* is one chain of calls: a handler of the local web (on the loop or in
a thread of its pool), a handler of the gateway process, a command line, or the
patrol. `pc[s]` is the point it has reached, `call[s]` the local variables it
still needs, `rec[s]` the record it holds in memory. `store` is the `repairs`
table; a row keeps the status, the creation time, the end of its approval, the
start of its execution and `updated_at`.

Every action ends with one operation on the store, because that is where another
thread or process can get in between. Points in `Await` are those at which a
coroutine awaits; all others are passed through without an await. `Turn(s)`
says what the event loop guarantees: a session in `Loop` runs only while no
other session in `Loop` is between two awaits. With `Loop = Sessions` the model
is one event loop; with `Loop = {}` it is unrelated threads and processes.

| Code | Actions |
|---|---|
| `RepairService.propose`, `AuthorizationService.submit` | `Propose` (key lookup), `Submit` (insert) |
| `RepairService.list`, `get`, start-up | `Poll` = `Begin("poll")`, `ExpireRow`/`ExpireFails`/`Write`/`Audit` per due row, `ExpireDone`, `RecoverRow`/`RecoverEnd` per stale row, `RecoverDone` |
| `approve`, `approve_preauthorized`, `reject` | `Begin`, the expiry of due rows, `Decide`/`DecideFails`, `Write` (`AuthorizationService`), `Audit` (`RepairService` puts the row a second time; an approval goes on to its execution) |
| `RepairWorkflow.execute` up to the claim | `Fetch`, `Pass`/`Refuse` (the awaited live check), `RecoverRow`..., `Claim`/`ClaimLost`/`ClaimRefused`, `Settle` |
| the work | `Command`, `CommandFails`, `LaunchFails`, `BeginVerify`, `VerifyPasses`/`VerifyFails`, `Succeed`, `Rollback`, `Cleanup` |
| `except Exception` of `execute` | `Raise`, from any point of an execution |
| a killed process, a cancelled task | `Die` |

Abstractions. The plan of a repair is its service and its key. Which commands a
kind of repair runs is not distinguished: any number of commands, each recorded
by a put, is followed by a verification, a failed command or a failed launch,
so the model's executions include those of every kind. The live check passes or
refuses as the environment likes. `Propose` and the key lookup of `submit` are
one step, the insert another. A launch and the checks that do not await are
steps at which others may run in the model: it has more interleavings than the
code. The `web` handler of an approval calls `get` first; in the model that is a
request of its own. An exception inside the exception handler leaves the row
untouched, as `Die` does.

### Runs

| Run | Question | Bounds |
|---|---|---|
| `control_loop` | do the owner's promises hold on one event loop, and does the store implement `RepairPromise!Safe`? | 3 repairs of one service (two under one key), 2 sessions, one death, windows of 2 ticks, limit 1, clock to 5 |
| `control_race` | what still holds when every store operation interleaves with a second process, on a machine that sleeps? | 1 repair, 2 sessions, one death, clock to 4 |
| `control_live` | does everything that begins end, and is `RepairPromise` implemented with its fairness? | 1 repair, 2 sessions, one death, clock to 8 |
| `control_twice` | is a repair that two processes approve executed once? *violated* | 1 repair, 2 sessions, no death |
| `control_sleep` | is a live repair never declared interrupted, on a machine that sleeps? *violated* | 1 repair, 2 sessions, clock to 6 |
| `control_stuck` | does an approval end when its process is killed? *violated* | 1 repair, one death, clock to 9 |

Why the bounds are enough: two sessions are what every property is about (two at
work, one deciding while another executes, one recovering while another works);
a session can take up one job after another, so a chain of calls by more callers
is also a chain of these two. Three repairs let one be at work, one wait and one
be proposed again under the key of the first. The windows are small multiples of
the tick, with `StepTime <= Interrupt` as in the code (the longest await is the
300 s of a starting program, the interruption window 900 s); the clock goes
far enough for an approval to run out, an interrupted repair to be found and the
rate window to be left. `LastStart`, `MaxTime` and `MaxDeaths` are bounds of the
model only. `RateWindow = 0` in `control_loop` keeps the window to one tick so
that the limit is reached and left again within the clock.

**What one event loop does and does not say about this program.** `approve` and
`execute` run on the loop, and so does the patrol. `list`, `get` and `reject`
are synchronous handlers, which the web framework runs in a thread pool, and the
gateway and the command line are other processes. The results for
`Loop = Sessions` say what the program guarantees while those do not interfere
in the middle of a call; `control_race` and its two theorems say what is left
when they do, and `control_twice` that it is less than the documentation says.

### Fairness

`Spec` gives `Step(s)` of every session strong fairness: the event loop serves
its ready queue in order, so a task that is again and again ready is not passed
over for ever (`Turn` makes a step enabled intermittently, which is why weak
fairness would say too little). Polls are strongly fair because an open page
asks for the repairs every five seconds (`useRepairs.ts`). The clock is weakly
fair. No owner action, no `Raise` and no `Die` is fair. `control_live` shows
that a waiting repair is decided or expires and an execution ends even when its
session dies; that an approval is used or ends is shown only while nobody dies
(`ApprovalEndsUnlessKilled`), which is all the code does.

### Proofs

Everything is for arbitrary finite or infinite sets of repairs, services, keys
and sessions and arbitrary windows, from `ControlAssumption` alone.

* `TypeCorrect`: `Safe => []TypeOK`. The type of a record depends on where its
  session is, so the induction runs over `Shape` = `TypeOK` and `Placed(s)`: at
  which points a session with a given job can be.
* `ApprovalSpentOnce`, `ApprovedAndInTime`: for any interleaving. Approvals are
  numbered as they are written (`grants`); `TicketInv` says that no two sessions
  carry the same number, that a spent number is carried by nobody who can still
  claim, and that between its last look at the clock and its claim a session
  holds the record whose approval it found valid. The transaction of the claim is
  not even needed for the first: it follows from `execute` being scheduled once
  per approval.
* `OneRepairAtATime`, `RepairExecutedOnce`, `OneOpenRepairPerKey`,
  `RejectedRepairNeverRuns`, `WorkIsSeen`, `LiveRepairIsLeftAlone`,
  `FinishedRepairStays`, `RepairsAreRare`, `ControlKeepsPromise`: under `OneLoop` (one event loop,
  a machine that does not sleep). None of these is inductive. `LoopInv` says what
  each session still knows of the store at each point (`Informed`): what a
  decision overwrites is still waiting, what `recover_interrupted` has listed is
  still as listed and nobody's, an execution holds the record as stored, and the
  session at work has put its record within `StepTime`. `RepairProofs` has
  one lemma per action for the acting session (`Proper...`) and one argument for
  all others: what a step writes is a row no other session relies on
  (`OthersSafe`).
* `RepairsAreRare` states `RateKept`, which is not inductive: the count that
  `claim_execution` takes is one of rows in the table, the property one of claims
  that were made. `RateInv` bridges them: the table knows every claim and its
  time (`Reckoned`), each repair was claimed once, and no session goes by a time
  before the last claim. So the rows the claim counts are the claims in the
  window (`ClaimCounts`), and a claim that passes the count keeps the limit.
* `ControlKeepsPromise` is the refinement `Safe => RepairPromise!Safe` under
  `StageOf`.

Only model-checked: the liveness half of the refinement and
`ApprovalEndsUnlessKilled` (fairness and ENABLED are beyond the prover).

### Where documentation and code part

`control_twice`: `docs/design/agent-fix.md:210` says a repair approved twice is
executed once; two processes can both read the row as waiting, and the put of
the second re-authorizes what the first has finished. `control_sleep`: line 115
says a repair under verification is not taken for an interrupted one; after a
sleep longer than the interruption window the next poll does. `control_stuck`:
`repair/contracts.py:30` says an approval is valid for ten minutes only; when
the process dies before the execution has read it, nothing ever expires it and
its key stays taken.

## 4. Patrol

`Patrol` is the patrol of one computer (`patrol/service.py`, `patrol/contracts.py`,
`patrol/storage.py`); `MCPatrol` gives it a script and a container; `PatrolProofs`
holds the proofs.

### How the model corresponds to the code

`store` is the `patrol_services` table, `streak` the `_streaks` dictionary,
`round` the locals of `observe_once` while it awaits the probes, `task[s]` the
handler of an outage with the record, the kind and the time it holds, `repairs`
the unfinished repairs of the services as the patrol sees them, `asks` the
investigations of the day. An action is what runs between two awaits.

| Code | Actions |
|---|---|
| `observe_once` up to the probes | `BeginRound`: reads the rows, drops those of hidden services |
| `observe_once` after the probes, `classify`, `_step`, `_unwatched`, `_stale` | `FinishRound`, by way of `Seen`: any combination of what the probes may have seen |
| `_handle_down_once`, `_investigate` up to the lock | `Start`: nothing to do, cooldown, no lock needed, or `queue` |
| the investigation lock, `take_investigation` | `Dequeue`, `Investigate` |
| `start_run`, `stream_events`, the timeout | `AgentProposes`, `Answered` |
| `RepairService.propose` | `Planned`, `NotPlanned` |
| `_auto_repair` | `AutoRepair` in the step that finds or makes the proposal, `Fixed`, `Failed` when its execution ends |
| `set_auto_repair`, `acknowledge`, `forget` | `SetAutoRepair`, `Acknowledge`, `Forget` |
| a repair proposed, decided on or ended elsewhere | `Chat`, `Decide` |
| `aclose`, a killed process | `Restart` |

What a round can see of a service is one of eight `Sights`, as many as
`classify`, `_step` and `_unwatched` tell apart; that a process is older than the
threshold of thirty minutes is one of them (`long`). The ports a service is
remembered by are the fact that it was seen running. Texts, notices and which of
several exit reasons it was do not change what happens next and are left out, as
are records of earlier versions of the program (`_ran_long_before_down`), the
grants of Windows services, and the change of the day. The lock is not
first-come-first-served in the model, so it allows more orders than the code.
The switch can be set
and a service removed at any time, although the code asks the map first whether
the service is shown, or has stopped; marks (`Mine`) do not change. `forget`
awaits the task it cancels; the handlers have no code that awaits while
they are cancelled, so it is one step. An error that ends a handler early is
covered by `Restart` only where nothing else is lost with it.

`past` is a history variable. It records, per service, the owner's last words,
whether the last automatic repair failed and when it began, and how many rounds
in a row, of those that looked at the service, have seen it abnormal: a round
whose map does not show the service says nothing about it and leaves its streak,
as the code does. What the owner said of an outage lapses when a round drops the
row it was said of. `past` is computed from the steps and never read by them.

### Runs

| Run | Question | Bounds |
|---|---|---|
| `patrol_watch` | do the owner's switches, acknowledgements and removals hold against a handler that waits; are automatic repairs rare, and do they stop after a failure; are outages confirmed by consecutive rounds? | a script, six rounds (seen, two bad ones, a good one, two bad ones: two outages), two requests of the owner |
| `patrol_pair` | is one outage investigated at a time, and what is left when the owner or a restart comes between the reads and the puts of a round? | a script and a container, three rounds, one request, one restart |
| `patrol_intended` | is an outage the owner calls intended left alone? *violated* | one script, two requests |
| `patrol_switch` | is the switch on only when the owner has turned it on? *violated* | one script, two requests, a round with slow probes |

`Overlap` says whether anything else may run while a round awaits its probes. In
the program it may, and `patrol_switch` shows what becomes of the switch then; a
pause, a removal and an acknowledgement can be lost in the same way. So
`patrol_watch` says what the patrol guarantees when no handler or request comes
into that window, and only the properties of `patrol_pair` are claimed for the
program as it is. The thresholds are the smallest with which a boundary can be
missed: two rounds to confirm, a stable time and cooldowns of a few rounds, two
requests because a promise of the owner's takes one to give and one to change.
The rounds are bounded by `MaxTime`, so the runs do not check for deadlock. No
fairness is assumed and no liveness claimed: the handler depends on an Agent and
a planner, whose answers have time limits outside this model.

`OnlyAsAllowed` exempts a service whose row was dropped by a round while its
handler was at work. There the fallback of `_save` (`patrol/service.py:582`) puts
the held record back with the switch it had: if the owner has turned the switch
off and then hidden the service, the automatic repair still runs, although
`docs/design/proactive-patrol.md:157` says that the switch lapses when a service
is hidden.

### Proofs

For any set of services, any thresholds, cooldowns and numbers of rounds, from
`PatrolAssumption`.

* `PatrolTyped`, `OneAtATime`: `Sound` = the types, that a handler which waits for
  the planner knows what it wants, that what is not in the table has left nothing
  there, and `OneInvestigation`.
* `ConfirmedInTime`: `Counted` (the patrol's count is never ahead of the rounds
  that saw the service abnormal) and `Dating` (no row, nor any record a handler
  holds, says that an outage was confirmed in the round that is at work); without
  the second, the put of an old record would pass for a confirmation.
* `MeantIsMarked`, `RemovedStays`, `SwitchDecides`, `CooldownHolds`,
  `FailurePauses`: from `Promised`, what row, handler and history say of each
  other for every promise to the owner: a row whose switch is on was switched on
  by him, an outage that is intended is marked so in the row, a removed service
  has neither a row nor a handler, a failed repair has left its pause and the last
  one its time. None of them is inductive alone.

The first three hold of the program as it is. The others have the hypothesis
`~Overlap`: nothing runs between the reads and the puts of a round. They are false
without it, as `patrol_switch` shows for the switch: a round puts back the row it
has read, and with it what the owner or a handler has changed since. With it,
handlers still wait for the lock, the Agent, the planner and the repair while
rounds and requests go on, which is what the properties are about.

The argument is made once for all actions: `Effects(s)` says which few things a
step of a handler may make of the row, `Visits` what a round may make of it, with
one lemma per action, and each promise is proved of these.

### Where documentation and code part

`patrol_intended`: `docs/design/proactive-patrol.md:91` says an outage the owner
calls intended is not repaired automatically; `_auto_repair` does not look at the
status again, and acknowledging keeps the reason. `patrol_switch`: line 162 tells
the owner to turn the switch off before he stops a service; a round that has read
the row before puts the switch back on. An outage that is confirmed while the
handler of the previous one is still at work gets no handler at all
(`patrol/service.py:400`), and so no conversation; `PROJECT.json` lists this
among the hazards.

## 5. Program runtime, update and repair execution

| Module | What it is |
|---|---|
| `Runtime` | the components of the program, their record files, `operation.lock`, and the runtime commands of several programs at once |
| `Update` | EXTENDS `Runtime`: the update service of the web page, its helper and the `update` command |
| `RepairExecution` | what an approved repair does once it is claimed |
| `Machine` | these and `NetworkGovernance` (section 7) on one computer, their steps in any order |
| `MCMachine` | instances of `Machine` for TLC, one run |
| `RuntimeProofs`, `UpdateProofs`, `ExecutionProofs` | the proofs; the second also proves that `Update` implements `Runtime` |
| `MachineProofs` | the composition: whatever is proved of a part holds of the computer |

### How Runtime and Update correspond to the code

`procs` are the component processes that live, `record` the files
`<component>.json`, `oplock` the file `operation.lock`, `op[a]` the runtime
command the program `a` is running: its kind, the component it is at (it walks
over them in order) and the step it has reached there. A step is what happens
between two effects on a file or a process: look, spawn, save the record, wait
for readiness, save the result. A process is its instance number, which stands
for all the code compares to recognise one (pid, start time, executable, the
instance id on its command line); a pid that somebody unreadable has now is
`taken`, and then the code answers `ownership_conflict`.

In `Update`, `w[a]` is the work of each of the three programs that may update:
where it is, what it still stages, the versions it switches between, the install
state it has read. `inst` is `runtime-install.json`, `dir` the program
directories, `uplock` the file `update.lock` (created empty, then filled with a
pid), `told` the result file. The steps of `apply_switch` that stop, start or
look at components ask for a runtime command of `Runtime` (`Ask`) and wait until
it has ended, so its steps interleave with those of everybody else.

| Code | Actions |
|---|---|
| `RuntimeOperationLock` | `EnterFree`, `EnterBusy`, `LeaveLock` |
| `ManualLifecycleManager.start` | `StartPresent`, `StartRefused`, `StartSpawn`, `StartRecorded`, `StartUnrecorded`, `StartStable`, `StartUnstable` |
| `stop`, `status`, the look before a start | `StopNothing`, `StopAsk`, `StopAskFails`, `StopEnded`, `StopTimeout`; `LookAt`; `PreflightPassed`, `PreflightFailed` |
| `UpdateLock` | `LockCreate`, `LockWrite`, `LockExists`, `PeekAlive`, `PeekDead`, `LockUnlink`, `Unlock` |
| `UpdateService.start_update` and `_run`, `update_command` | `StartUpdate`, `UpdateCommand`, `RollbackCommand`, `Launch`, `LaunchFails` |
| `RuntimePackageInstaller.stage` | `StageHave`, `StageCopy`, `StageStore`, `StageFails`, `StoreFails` |
| `apply_switch`, `activate` | `SwitchBegin`, `SwitchUnknown`, `StopEnds`, `Guarded`, `GuardRaises`, `PointForward`, `NewRuns`, `NewFails`, `NewStops`, `NewStopped`, `PointBack`, `Finish` |
| `prune` | `PruneDelete` (some directories go, some are torn), `PruneSave` |
| a kill of a command, of an updating program; a component that ends | `KillOp`, `SwitcherDies`, `ProcessExits`; the update thread ends with the page's process (`WebFollows`) |

### How RepairExecution corresponds to the code

`pc` is the place in `RepairWorkflow.execute` after the claim; `plan` the steps
that are left, made by `ContainerPlan` from the compose labels (`Layers` is
`dependency_layers`) or by `ServicePlan`; `tree` the processes of the program:
the recorded one, the one this repair launches, and a child of each. `elapsed`
is the time a wait believes has passed, `slept` the time it slept, `ahead` how
far the wall clock has run ahead; the verification reads a clock that can be
set, the waits for containers count. `known` is the launch record, which the
map may change while the repair runs. `RepairControl` has the statuses of the
record around this; its `Command`, `VerifyPasses`, ... are the places where
these steps happen.

### The run

`machine` (`MCMachine`) checks these and the governance of a network. In
`Machine` any of the three may take the next step. They share no state, and TLC
would only multiply their states; so in `MCSpec` the variable `part`, fixed by
the initial state, says which of them moves while the others rest, and the states
add up (2.3 million in all). That nothing is lost by it is
`MachineImplementsParts`: a behaviour of `Machine` is one of each part alone. For
the program, `limit` is one of eight records, also fixed by the initial state, each
allowing one combination of things going wrong (kills, components that end,
records that cannot be saved, a taken pid, up to three updates, a new release in
between, three commands of a person): every pair of failures that meet in one
place in the code is in one of them, while all at once would only multiply
states. Two components (one probed by pid, one by port), three versions of which
one never becomes ready, so that an update can succeed, roll back, and be
followed by one that prunes. For the repair: all dependency relations on three
containers, two containers of one service, a nameless one, groups outside a
compose file; limits of one to four seconds; one clock jump, one process that
cannot be read, one child left behind.

What the properties except, they except because the code does. `OneProcess`
allows one more process per record that could not be saved: nothing names it,
and the next start runs the component again. `OneUpdater`, `PointerRunnable`, `WayBack` and `RecordTells` hold
while `update.lock` was taken over from a dead program at most once: two
contenders that both find it dead can both get in (`update/apply.py:84`).
`RecordTells` speaks of switches during which no other runtime command ran.
`NothingLeft` excepts a live process that could not be read, and children that
outlived their parent.

No liveness is claimed here: `operation.lock` of a killed command stays for good
(`Leftover`), so nothing has to happen after a kill.

### Proofs

For any sets of components, versions and operators, from `RuntimeAssumption`,
`RecordAssumption`, `UpdateAssumption` and `LockAssumption` (nothing is both a
lock file and its absence); of a repair, any containers (finitely many), limits
and numbers of jumps, from `ExecutionAssumption`.

* `RuntimeInvariant`: `RInv` = types, `Locking` (who is inside the operation
  holds `oplock`), `Numbers` (no number is above `spawned`, so a new process has a
  new one) and `Naming` (a record that says stopped is right; a process is only
  spawned where the record names none that lives; from then until the operation
  goes on to the next component the record is its own). `Carried` adds that a
  start knows its version.
* `RecordsKept`: `RuntimeSpec => KnownStaysKnown`. The property is not about one
  action: a save overwrites a record that was read steps earlier, and only
  `Locking` says that nobody else has written it since.
* `OneAtMost`: `RuntimeSpec => []OneProcess`. A count of processes, so it needs
  to be said which of them may be counted: `Few` bounds the processes of a
  component that no record names, and no operation is about to name
  (`Occupied`), by the number of records that could not be saved. A spawn adds
  one process, but only where `Naming` says that no recorded one lives; a spawn
  whose record is not saved is counted in `unsaved`, and one that is cut off by a
  kill leaves `operation.lock` behind, after which nothing is spawned.
* `UpdateInvariant`, `UpdateTyped`: `UInv` are the types of the update, which
  are inductive by themselves, carried along with `RInv`.
* `UpdateImplementsRuntime`: `UpdateSpec => RuntimeSpec`, a refinement with the
  identity as its mapping: every step of an update is a step of `Runtime` or
  leaves its variables alone. `UpdateKeepsRecords` and `UpdateKeepsOne` follow
  from it without looking at the update again.
* `SwitchesApart`, `AlwaysRunnable`, `WayStaysOpen`: from `UpdateSettled`, the
  invariant `Alone /\ Settled`. `Alone` says whose `update.lock` is: of the
  program that is inside (from the creation of the file on, before it holds a
  pid), and, before the first takeover, a dead one's for whoever is about to
  remove it. `Settled` says what a program relies on at each point of its switch
  (`Leaves`): both versions whole from the guard on, the install state it has
  read still the one on disk when it is written back, the pointer at the target
  or at the fallback, and a half-done prune that spares what the pointer names.
  `PointerRunnable` alone is not inductive: a pointer is saved over a state that
  was read steps before.
* `ResultsAreTrue`: `UpdateSpec => RecordTells`, from `Alone`, `Settled` and
  `Undisturbed`, what a switch knows of the components while no other runtime
  command runs: as far as its `status` has looked without finding any, none lives
  (`Looked`), all have stopped when the pointer is moved, and what runs after it
  is of the version that is being started (`Started`). That a process carries the
  version its command was given is `RuntimeVersioned`.
* `LayersAreRight`: for every group, not only those of three containers. The
  layers are the differences of a sequence of sets (`Rounds`) that grows until it
  stays; where the argument is an induction on the rounds, it takes the first
  round that would be wrong, since the induction theorems cannot be used.
* `DependenciesFirst`: from `Walking`, where a repair is in its plan: what is left
  is a tail of the plan of its group, and all before it was done and seen.
* `NothingLeftBehind`, `WaitsAreBounded`, `ExecutionTyped`: from `Shape`, which
  phases a kind of repair has, with `Living` (before its launch nothing of the
  repair runs and the recorded process is gone) and with `Timing` and `Waited`
  (the time a wait believes in is what it slept, up to what the clock was put
  ahead).

* `MachineImplementsParts`: `MachineSpec => UpdateSpec /\ ExecutionSpec /\
  NetworkSpec`. A step of the computer is a step of one part and leaves the
  variables of the others alone. From it `MachineTyped` (the types of all three at
  once) and `MachineIsSafe` (every safety property of the run, of `MachineSpec`)
  follow without looking at a part again.

Only model-checked: that every action can happen.

## 6. Conversations

`Conversation` is one conversation of the local web (`agent/conversation.py`) and
its checkpoints (`memory/sqlite.py`); `MCConversation` gives it two repairs.

### How the model corresponds to the code

`here`, `said`, `told`, `runs` are the thread in memory, `rows` the checkpoints:
a row per run, each a copy of the whole conversation as it was when that run was
written last. `loop` is the write the event loop waits for, `note` the write a
thread of the pool waits for (the result of a repair, handed over by whoever
lists the repairs). A change of memory and the copy it writes are one step, the
write that follows another: in between the other side may change the memory.
`tasks` are the runs whose coroutine lives; a run is entered in `runs` before its
first write and in `tasks` after it.

| Code | Actions |
|---|---|
| `start_run`, `_start_run` | `StartRun` (takes up the latest interrupted task about the same program) |
| `resume_run` | `ResumeRun`; the link to the run it takes up is a second write |
| `_execute` | `SaveProgress`, `Answer`, `Fail` |
| `append_notice` | `Notice` |
| `append_repair_result`, `RepairService._publish_results` | `RepairEnds`, `Tell` |
| the database answers or raises | `LoopWritten`, `LoopWriteFails`, `ToldWritten`, `ToldWriteFails` |
| `delete_thread` | `Delete`, `DeleteFails` |
| `_restore` at the start of the program | `Restart` |

A message is what it stands for: a question, an answer or a notice with its
number, a result with its repair. Conversations share only the lock for notes.
The window in which a task could be resumed twice, between the two writes of
`resume_run` (`agent/conversation.py:548`), is not covered: the second write
follows in the model before the loop does anything else.

### The run

`conversation`: two runs, one notice, two repairs, two programs a question can be
about, one restart, one write that fails. Two of everything that can overlap is
what the properties relate; a larger instance (three runs, one repair, two
restarts, 3.2 million states) holds as well.

What the properties except. `ToldOnce` excepts behaviours in which a failed write
took back something else than the result (`past.mixed`): `_append_note` removes
the *last* message, which may by then be a question; the result stays and, its
mark removed, is told again. `SaidIsKept` speaks of conversations that did one
thing at a time (`past.crossed`): the row of the run that was started last wins
at a restart, so of two runs at once the answer of the one that ends last is
lost. `DeletedStaysDeleted` excepts a result whose write was under way when the
conversation was deleted. `ResultTold` excepts a conversation whose latest run
lost its first write: it counts as running until a restart, and a conversation
that is answering takes no notes (`Jammed`).

Fairness: a write ends, the limits of a run end it, and an open page lists the
repairs every five seconds (`src/frontend/src/features/repairs/useRepairs.ts:10`),
which hands over every result again. Nothing a person does is fair, nor are
failures or restarts.

### Proofs

For any repairs, targets and bounds, from `ConversationAssumption` and
`NothingAssumption`. `ConversationTyped` adds to the types and to `TasksRun` the
bookkeeping: run numbers are used once, in memory and in the table, and the run
whose write is awaited is there (at work before its first write, without a
coroutine at its last). `DeletedIsGone` adds `Gone`: while a deleted conversation
has no rows it is not in memory and the loop writes nothing. `ResultToldOnce`
adds `Straight`: memory, every row and every waiting copy tell a result once and
mark what they tell; a notice that waits is the last message, a result that waits
is the last result. `StoredTalkIsKept` states `SaidIsKept` and adds `InOneOrder`,
which holds until two things are at work at once: runs and rows stand in the
order in which they were begun, only the latest run has a coroutine and a run
that is over has its row (`Lined`), the loop is about to write the latest run, or
the task it took up, with all that was said (`LoopInOrder`), and so is a note,
which waits only while the conversation is at rest (`NoteInOrder`). That is why
the row written last is the last row or says no more than it, and why what a
failed write takes back was never stored. `SaidIsKept` alone is not inductive: it
says nothing of what is about to be written.

Only model-checked, being a liveness property: `ResultTold`.

## 7. Network governance

`NetworkGovernance` is what happens to one revision of a managed network on this
computer (`network/governance.py`): the grants the owner gives, the claim one
writer holds, the record and its journal, and the lifecycle
(`ManagedPathLifecycle`) that leads from a plan to what is acknowledged, or back.
It is checked in the run `machine`, as its third part. `RevisionPromise` says in
five variables what the owner is promised of a revision: what he has said of each
grant, how far the journal says the revision has come (`course`), whether the
provider was asked, under which grant it is at work (`hand`) and what it has in
force. `NetworkKeepsPromise` holds the mapping: the course is the phase in the
table, the hand the grant in the copy of whoever is in `provider.apply`.

### How the model corresponds to the code

Several processes may have `governance.sqlite3` open. What they share is `grants`
(`network_authorization_grants`), `claim` (the row in `network_apply_claims`: its
state, its fencing token, whether its lease still runs, the grant it was taken
under) and `row` (the record, with the path status). Each has a copy `mem[p]` of
the record (`_records`), and `behind` says whose copy is not the tail of the
journal any more: such a copy cannot be written (`CanPut`, the hash check of
`_put_record_in_transaction`), and is not read anew before the process is started
again. `run[p]` is where the lifecycle is, with the claim it remembers
(`_local_claims`), whether its renewal task runs and whether a renewal has
failed. `world` is what the provider really has in force, which may be a part of
the plan; the code never sees it but through the provider's answers.

A step is one write of the journal, with what was awaited before it. Cancellation
and a journal that cannot be written are `Raises` (and `RecoverFails`), a kill is
`Dies`; both may cut a provider call off after it has done its work (`CutOff`).

| Code | Actions |
|---|---|
| `approve`, `revoke`, the end of a grant | `Approve`, `Revoke`, `GrantEnds` |
| `claim_apply`, `assert_apply_claim`, `renew_apply_claim` | `Claim`, `AssertClaim`, `RenewalFails`; a lease that ends: `LeaseEnds` |
| `release_`, `fence_`, `resolve_apply_claim` | `Released`, `Fenced`, `Resolved`, in `Finally`, `ApplyRaises`, `Recover` |
| `reconcile` | `FirstTime`, `Look`, `Again`, `PathAgain`, `RetrySinks`, `Recover`, then `Plan`, `Decide`, `Recheck`, `Wait` |
| `refresh_path`, `recover` | `PathAgain`; `Recover` |
| `_apply_and_verify` | `Apply`, `Withdrawn`, `Claim`, `AssertClaim`, `Refused`, `ApplyReturns`, `ApplyRaises`, `Applied`, `Verify`, `Proved`, `Finally` |
| `_verify_path`, `_degrade_path` | `Path`, `Steer` |
| `_rollback` | `Undo` |
| `_ack_only`, `_deliver_sinks`, `_retry_sinks` | `Ack`, `PublishPath`, `RetrySinks` |
| `_recover_record` | `Recover`, `Judge`, `Resume`, `Verify`, `Concluded` |

Left out: the kill switch (`emergency_stop`, with records of its own), the sinks
of path statuses, the matching of scopes (a grant that is there matches), the
migration of the schema, the record of the last good revision. There is no clock:
a lease runs out or does not, and a refresh is too early or is not, as the
environment likes.

### Instances, and what they show

`TroubleDef` has five families. One process, which may die twice, be paused
longer than its lease and fail once, with one grant; one process that dies once,
with two grants of which the first may be revoked and the second take its place;
two processes with one death, with one pause, with one failure. Two deaths are
enough for a recovery that is itself recovered; with two processes a third
writer would be one more of those that find the copy behind or the claim taken.

* `NoReplay`: whatever dies, recovers or holds an old copy, the provider is asked
  to apply a revision once, and a revision that has ended stays as it ended. What
  carries it is not the claim but the journal: `_recover_record` fences without
  asking who owns the claim, and a `reconcile` of a cancelled revision plans it
  anew; both stop at the hash of the tail.
* `RevisionKept`: every step is one that `RevisionPromise` allows, or leaves the
  owner's view as it is. Until the journal says that the revision is under way,
  nothing is asked of the provider and nothing in force; it is asked once, under a
  grant that is active at that moment; that grant cannot be revoked while it is at
  work, since `revoke` and `claim_apply` are transactions over one claim and a
  writer that has lost its lease still has it on the row; and what is over stays
  over, in the table if not at the provider. Nor does anything look applied that
  was never asked for: a recovery before the first `provider.apply` finds nothing
  to take up.
* `VerifiedIsApplied`: for one process. A recovery takes no claim, so two may run
  at once and one can roll back what the other is about to call verified; the
  shipped program has one lifecycle per node.

### Proofs

`NetworkProofs` proves these properties for any set of processes, any grants
that are numbers and any bounds on trouble, from `NetworkAssumption` and
`NothingIsNoRecord` (there is a value that is no grant and no record).

The inductive invariant is `NInv`: the types; `Fitting`, what the copy of a
process is like where the process is (before the write its phase is early, from
the claim on it is neither early nor final, and a delivery that does not end well
is already in the phase it ends in); `InStep`, a copy that is the tail says what
the table says; and `Unapplied`, while the table is early nothing was claimed or
applied, and whoever has come to the claim is alone there and the first.
`NoReplay` alone is not inductive: that no one applies twice follows only because
a copy that is early is either the tail, and then the table is early, or cannot be
written.

The argument is made once, about `Effect(p)`, which says what a step of a process
may do to the record, the copies, the claim and the counter; one lemma per action
(`ClaimIs`, `JudgeIs`, ...) shows that the action has such an effect, and
`EffectKeeps` that every effect keeps the invariant.

* `AppliedOnce`: `NetworkSpec => NoReplay`, from `NInv` and `Effect`.
* `WrittenUnderAGrant`: `NetworkSpec => []RevokedNotWriting` (nobody writes under a
  grant that is revoked), through `Leased`: an
  active claim stands for a grant that is not revoked, tokens are given out once,
  and who is about to write holds the claim under the grant in its copy.
* `RevisionKeepsPromise`: the refinement, `NetworkSpec => RevisionKept`, from
  `NInv`, `Leased` and `Unasked`. The last is the part the mapping needs and the
  other properties do not: as long as the provider was not asked, it has nothing in
  force, no process is where an answer of its would be used, and no copy says that
  anything was applied or verified (`Bare`). One lemma per group of actions
  (`...Spare`) shows that a step which does not ask keeps it so; then
  `ProcessKeeps` maps a step to `Ask`, `Commit`, `GiveUp`, `Act` or a stutter,
  by whether the provider was asked before, and `OwnerKeeps` the owner's steps to
  his.
* `JournalledFirst`: the order of journal and write, from `NInv` and `Unasked`: with a
  provider at work, or anything in force, the table no longer says that the revision
  is planned or waits for the owner.
* `VerifiedInForce`: `NetworkSpec => []VerifiedIsApplied`, through `Trusts(p)`, what
  a lone process relies on at each stage: its copy is the tail; the phases that
  follow the provider's proof (`Sure`) mean that the plan is in force; and while it
  writes or undoes, the record has no such phase, so that a death there leaves
  nothing it would later trust.

Only model-checked: that the model can get through every one of its actions.

What modelling showed about the code (read in the source, no run is about it):

* `claim_apply` and `renew_apply_claim` set the row to `uncertain` before they
  raise, as their documentation says (`network/governance.py:488`: a lease that
  has run out can only become uncertain). But they raise inside their
  transaction, which is rolled back, and the row stays `active`. In the model a
  refused claim and a refused renewal therefore change nothing.
* After a death the row stays `active`. A recovery fences only the claim its own
  process remembers, so nobody ever resolves that row, and `revoke`
  (`network/governance.py:463`) is refused for good.
* `Ask` of `RevisionPromise` requires that the journal has left the phases before
  the write, and not that the revision is still under way. A stricter promise does
  not hold: `_apply_and_verify` journals `applying` before it claims
  (`network/governance.py:2788`, `2802`), and a second process that recovers in
  between takes the record, sees nothing of a claim and may end it;
  the first then claims and asks the provider all the same, and learns that it is
  late when it journals the answer.
* `recover` does not read the path status, so a revision that was cut off while it
  was acknowledged as verified is recovered as a degraded path; `reconcile`, which
  reads it, recovers the same revision as verified.
* The shipped program calls `reconcile` only.

## 8. Not modelled

Everything in the last rows of the inventory: cryptography, adapters, views and
wording. Of the repair control: preauthorizations (never used for repairs). Of
the execution: the parsing of container labels, service and job listings, log
excerpts. Of the runtime and the update: the checks of the preflight, ports and
log rotation; the names and the comparison of releases, the bytes of downloads
and archives; the `runtime-package` command line with `switch_with_health` and
`remove_program`, which the update does not use. Of the conversations: those of
incidents, the read-only preview, summaries and memories, the stream of events,
contexts and the limits of the agent. Of the network: the kill switch, the sinks
of path statuses, scopes. `PROJECT.json` gives the reason per
component.
