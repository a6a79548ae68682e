------------------------------- MODULE Update -------------------------------
(***************************************************************************)
(* One-click update: the web page's update service, the detached helper it *)
(* launches, and the `update` command, which stage a release beside the     *)
(* running version and then switch the pointer between a stop and a start  *)
(* of the components (update/apply.py, service.py, cli.py, package.py,      *)
(* redirect.py, runtime/install.py), over the manual lifecycle of Runtime. *)
(*                                                                         *)
(* The three update programs (Web, Helper, Cli) meet at update.lock, whose *)
(* file is created empty, then filled with the pid, and is removed by      *)
(* whoever finds that pid dead.  The switch calls runtime commands and     *)
(* waits for each: `op` of Runtime.                                        *)
(*                                                                         *)
(* Abstractions.  A release is a version; download, extraction and digest  *)
(* checks are one step that succeeds or fails.  A program directory is     *)
(* absent, whole (it verifies) or torn (part of it is gone).  Release      *)
(* names, progress, texts and the redirect's environment are left out.     *)
(***************************************************************************)
EXTENDS Runtime

CONSTANTS
    Web, Helper, Cli, Person,   \* the update service, its helper, two users
    Home,                       \* the version that was unpacked by hand
    Page,                       \* the component that hosts the web page
    NoFile, Gone                \* no update.lock; a pid that is dead

Switchers == {Helper, Cli}
Lockers == {Web, Helper, Cli}

ASSUME UpdateAssumption ==
    /\ Operators = {Helper, Cli, Person}
    /\ Web \notin {Helper, Cli, Person} /\ Helper \notin {Cli, Person} /\ Cli # Person
    /\ Home \in Versions /\ Page \in Components
    /\ NoFile \notin Lockers /\ Gone \notin Lockers
    /\ \A l \in Limits : {l.updates, l.asks, l.releases, l.deaths} \subseteq Nat

(* What update.lock may be: who created it, and whether it holds a pid yet. *)
LockFile == [by : Lockers \cup {Gone}, said : BOOLEAN]

ASSUME LockAssumption == NoFile \notin LockFile

VARIABLES
    inst,       \* runtime-install.json: recorded packages and the pointer
    dir,        \* the program directories under versions/
    uplock,     \* update.lock: who created it and whether it holds a pid yet
    w,          \* the update each program is carrying out
    host,       \* the process the update service lives in
    newest,     \* the release the feed offers
    told,       \* update.json, the result of the last switch
    clean,      \* since this switch began no other runtime command ran
    takeovers,  \* how often update.lock was removed as a dead program's
    updates, asks, releases, deaths     \* counters for the bounds

updateVars == <<inst, dir, uplock, w, host, newest, told, clean, takeovers,
                updates, asks, releases, deaths>>
allVars == <<runtimeVars, updateVars>>

MaybeVersion == Versions \cup {NoVersion}
Install == [packs : SUBSET Versions, current : MaybeVersion, previous : MaybeVersion]

LockPcs == {"lock", "peek", "unlink", "write"}
StagePcs == {"todo", "store"}
SwitchPcs == {"exec", "stop1", "sure1", "guard1", "point1", "start1", "prune", "pruned",
              "stop2", "sure2", "guard2", "point2", "start2", "bail"}
Pcs == {"off", "failed", "unlock", "launch", "restarting"}
         \cup LockPcs \cup StagePcs \cup SwitchPcs

Off == [pc |-> "off", tries |-> 1, todo |-> <<>>, target |-> NoVersion,
        fallback |-> NoVersion,
        snap |-> [packs |-> {}, current |-> NoVersion, previous |-> NoVersion]]

Todos == {<<>>, <<"fetch">>, <<"adopt">>, <<"fetch", "adopt">>, <<"adopt", "fetch">>}
Work == [pc : Pcs, tries : 1..2, todo : Todos, target : MaybeVersion,
         fallback : MaybeVersion, snap : Install]

(* At the lock, with what to stage first and what to switch between. *)
Fresh(todo, target, fallback) ==
    [Off EXCEPT !.pc = "lock", !.todo = todo, !.target = target, !.fallback = fallback]

UpdateTypeOK ==
    /\ RuntimeTypeOK
    /\ inst \in Install
    /\ dir \in [Versions -> {"none", "whole", "torn"}]
    /\ uplock \in LockFile \cup {NoFile}
    /\ w \in [Lockers -> Work]
    /\ host \in Nat
    /\ newest \in Versions
    /\ told \in [outcome : {"none", "updated", "rolled_back", "failed"},
                 from : MaybeVersion, to : MaybeVersion]
    /\ clean \in BOOLEAN
    /\ {takeovers, updates, asks, releases, deaths} \subseteq Nat

-----------------------------------------------------------------------------
(* Helpers                                                                 *)

Locked(a) == w[a].pc \in StagePcs \cup SwitchPcs \cup {"failed", "unlock"}
Holders == {a \in Lockers : Locked(a)}

Goto(a, pc) == w' = [w EXCEPT ![a].pc = pc]
Go(a, rec) == w' = [w EXCEPT ![a] = rec]

(* The version `runtime start` runs from an old directory: the pointer's,  *)
(* if there is one (redirect.py).                                          *)
Redirected == IF inst.current \in inst.packs /\ dir[inst.current] # "none"
              THEN inst.current ELSE Home

Rest == UNCHANGED <<host, newest, takeovers, updates, asks, releases, deaths>>

(* The web page's process and with it the update thread are gone: what the  *)
(* thread held stays behind.                                               *)
WebFollows ==
    IF w[Web].pc # "off" /\ ~\E p \in procs' : p.id = host
    THEN /\ w' = [w EXCEPT ![Web] = Off]
         /\ uplock' = IF uplock # NoFile /\ uplock.by = Web
                      THEN [uplock EXCEPT !.by = Gone] ELSE uplock
    ELSE UNCHANGED <<w, uplock>>

-----------------------------------------------------------------------------
(* Starting an update                                                      *)

(* The owner confirms an update on the page; the release is the one the    *)
(* feed offers now, and it is newer than what runs.                        *)
StartUpdate(p) ==
    /\ updates < limit.updates
    /\ p.comp = Page
    /\ w[Web].pc = "off"
    /\ newest # p.ver
    /\ host' = p.id
    /\ Go(Web, Fresh(<<"fetch", "adopt">>, newest, p.ver))
    /\ updates' = updates + 1
    /\ UNCHANGED <<runtimeVars, inst, dir, uplock, newest, told, clean, takeovers,
                   asks, releases, deaths>>

(* `tunnelminion update`, run by the current version. *)
UpdateCommand ==
    /\ updates < limit.updates
    /\ w[Cli].pc = "off" /\ op[Cli].kind = "none"
    /\ newest # Redirected
    /\ Go(Cli, Fresh(<<"adopt", "fetch">>, newest, Redirected))
    /\ updates' = updates + 1
    /\ UNCHANGED <<runtimeVars, inst, dir, uplock, host, newest, told, clean, takeovers,
                   asks, releases, deaths>>

(* `tunnelminion update --rollback`: the state is read before the lock. *)
RollbackCommand ==
    /\ updates < limit.updates
    /\ w[Cli].pc = "off" /\ op[Cli].kind = "none"
    /\ inst.current # NoVersion /\ inst.previous # NoVersion
    /\ Go(Cli, Fresh(<<>>, inst.previous, inst.current))
    /\ updates' = updates + 1
    /\ UNCHANGED <<runtimeVars, inst, dir, uplock, host, newest, told, clean, takeovers,
                   asks, releases, deaths>>

-----------------------------------------------------------------------------
(* update.lock                                                             *)

(* What follows once the lock is held: packages to stage, or the switch. *)
Entered(a) == IF w[a].todo = <<>> THEN "exec" ELSE "todo"

LockCreate(a) ==
    /\ w[a].pc = "lock" /\ uplock = NoFile
    /\ uplock' = [by |-> a, said |-> FALSE]
    /\ Goto(a, "write")
    /\ UNCHANGED <<runtimeVars, inst, dir, told, clean>> /\ Rest

(* The pid goes to the file that was created, even if it is unlinked now. *)
LockWrite(a) ==
    /\ w[a].pc = "write"
    /\ uplock' = IF uplock = [by |-> a, said |-> FALSE]
                 THEN [by |-> a, said |-> TRUE] ELSE uplock
    /\ Goto(a, Entered(a))
    /\ UNCHANGED <<runtimeVars, inst, dir, told, clean>> /\ Rest

LockExists(a) ==
    /\ w[a].pc = "lock" /\ uplock # NoFile
    /\ Goto(a, "peek")
    /\ UNCHANGED <<runtimeVars, inst, dir, uplock, told, clean>> /\ Rest

(* Mistake: an empty file counts as a dead program's. *)
NamesNobody == IF uplock = NoFile THEN FALSE ELSE ~uplock.said \/ uplock.by = Gone

NamesDead == IF uplock = NoFile THEN FALSE ELSE uplock.said /\ uplock.by = Gone

(* The file cannot be read, is empty, or names a living process: busy. *)
PeekAlive(a) ==
    /\ w[a].pc = "peek"
    /\ ~NamesDead
    /\ Go(a, Off)
    /\ UNCHANGED <<runtimeVars, inst, dir, uplock, told, clean>> /\ Rest

PeekDead(a) ==
    /\ w[a].pc = "peek"
    /\ NamesDead
    /\ Goto(a, "unlink")
    /\ UNCHANGED <<runtimeVars, inst, dir, uplock, told, clean>> /\ Rest

(* The path is unlinked, whatever file is there by now; two attempts. *)
LockUnlink(a) ==
    /\ w[a].pc = "unlink"
    /\ uplock' = NoFile
    /\ takeovers' = takeovers + 1
    /\ IF w[a].tries = 2 THEN Go(a, Off)
       ELSE w' = [w EXCEPT ![a].pc = "lock", ![a].tries = 2]
    /\ UNCHANGED <<runtimeVars, inst, dir, told, clean, host, newest, updates, asks,
                   releases, deaths>>

(* Leaving the lock: the path is unlinked, whoever's it is.  The service   *)
(* then launches its helper.                                               *)
Unlock(a) ==
    /\ w[a].pc \in {"unlock", "failed"}
    /\ uplock' = NoFile
    /\ IF a = Web /\ w[a].pc = "unlock" THEN Goto(a, "launch") ELSE Go(a, Off)
    /\ UNCHANGED <<runtimeVars, inst, dir, told, clean>> /\ Rest

-----------------------------------------------------------------------------
(* Preparing: download and stage under the lock                            *)

(* The package the next item of the list is about. *)
Item(a) == IF Head(w[a].todo) = "fetch" THEN w[a].target ELSE w[a].fallback

(* The list is worked off: the service lets go of the lock, the command    *)
(* goes on to the switch; both stop if there is nothing to switch.         *)
Worked(a, rest) ==
    IF rest # <<>> THEN [w[a] EXCEPT !.pc = "todo", !.todo = rest]
    ELSE IF w[a].target = w[a].fallback THEN [w[a] EXCEPT !.pc = "failed", !.todo = rest]
    ELSE [w[a] EXCEPT !.pc = IF a = Web THEN "unlock" ELSE "exec", !.todo = rest]

(* The version is installed already. *)
StageHave(a) ==
    /\ w[a].pc = "todo"
    /\ Item(a) \in inst.packs /\ dir[Item(a)] # "none"
    /\ Go(a, Worked(a, Tail(w[a].todo)))
    /\ UNCHANGED <<runtimeVars, inst, dir, uplock, told, clean>> /\ Rest

(* Copied, verified and moved to its directory. *)
StageCopy(a) ==
    /\ w[a].pc = "todo"
    /\ Item(a) \notin inst.packs /\ dir[Item(a)] = "none"
    /\ dir' = [dir EXCEPT ![Item(a)] = "whole"]
    /\ Goto(a, "store")
    /\ UNCHANGED <<runtimeVars, inst, uplock, told, clean>> /\ Rest

StageStore(a) ==
    /\ w[a].pc = "store"
    /\ inst' = [inst EXCEPT !.packs = @ \cup {Item(a)}]
    /\ Go(a, Worked(a, Tail(w[a].todo)))
    /\ UNCHANGED <<runtimeVars, dir, uplock, told, clean>> /\ Rest

(* The download, the extraction, a digest or the copy fails; or a record   *)
(* has no directory or a directory no record, which stage refuses.         *)
StageFails(a) ==
    /\ w[a].pc = "todo"
    /\ Goto(a, "failed")
    /\ UNCHANGED <<runtimeVars, inst, dir, uplock, told, clean>> /\ Rest

(* The record cannot be saved: the directory is taken away again. *)
StoreFails(a) ==
    /\ w[a].pc = "store"
    /\ dir' = [dir EXCEPT ![Item(a)] = "none"]
    /\ Goto(a, "failed")
    /\ UNCHANGED <<runtimeVars, inst, uplock, told, clean>> /\ Rest

(* The service starts the helper, with the versions it prepared.  A helper *)
(* that still runs keeps the model from a second one.                      *)
Launch ==
    /\ w[Web].pc = "launch"
    /\ w[Helper].pc = "off" /\ op[Helper].kind = "none"
    /\ w' = [w EXCEPT ![Web].pc = "restarting",
                      ![Helper] = Fresh(<<>>, w[Web].target, w[Web].fallback)]
    /\ UNCHANGED <<runtimeVars, inst, dir, uplock, told, clean>> /\ Rest

LaunchFails ==
    /\ w[Web].pc = "launch"
    /\ Go(Web, Off)
    /\ UNCHANGED <<runtimeVars, inst, dir, uplock, told, clean>> /\ Rest

-----------------------------------------------------------------------------
(* The switch (apply_switch): every step waits for a runtime command       *)

Ended(a) == op[a].kind # "none" /\ op[a].step = "done"
Tell(a, outcome) == told' = [outcome |-> outcome, from |-> w[a].fallback, to |-> w[a].target]
Whole(v) == v \in inst.packs /\ dir[v] = "whole"

(* Both executables are looked up, then the components are stopped. *)
SwitchBegin(a) ==
    /\ w[a].pc = "exec"
    /\ {w[a].target, w[a].fallback} \subseteq inst.packs
    /\ Ask(a, "stop", NoVersion)
    /\ Goto(a, "stop1")
    /\ clean' = \A b \in Operators \ {a} : op[b].kind = "none"
    /\ UNCHANGED <<inst, dir, uplock, told>> /\ Rest

SwitchUnknown(a) ==
    /\ w[a].pc = "exec"
    /\ ~({w[a].target, w[a].fallback} \subseteq inst.packs)
    /\ Goto(a, "failed")
    /\ UNCHANGED <<runtimeVars, inst, dir, uplock, told, clean>> /\ Rest

(* Stopped?  If not, what was stopped is started again from the old         *)
(* version and nothing is switched.                                        *)
StopEnds(a) ==
    /\ w[a].pc \in {"stop1", "sure1"} /\ Ended(a)
    /\ IF op[a].good
       THEN /\ Ask(a, "status", NoVersion)
            /\ Goto(a, IF w[a].pc = "stop1" THEN "sure1" ELSE "guard1")
       ELSE /\ Ask(a, "precheck", w[a].fallback)
            /\ Goto(a, "bail")
    /\ UNCHANGED <<inst, dir, uplock, told, clean>> /\ Rest

(* Mistake: the versions are not verified again. *)
GuardedByStatus(a) ==
    /\ w[a].pc \in {"guard1", "guard2"} /\ Ended(a)
    /\ op[a].good
    /\ Collect(a)
    /\ w' = [w EXCEPT ![a].pc = IF @ = "guard1" THEN "point1" ELSE "point2",
                      ![a].snap = inst]
    /\ UNCHANGED <<inst, dir, uplock, told, clean>> /\ Rest

(* activate asks once more whether all is stopped, reads the state and     *)
(* verifies both versions; any of it may end the switch with an exception. *)
Guarded(a) ==
    /\ w[a].pc \in {"guard1", "guard2"} /\ Ended(a)
    /\ op[a].good /\ Whole(w[a].target) /\ Whole(w[a].fallback)
    /\ Collect(a)
    /\ w' = [w EXCEPT ![a].pc = IF @ = "guard1" THEN "point1" ELSE "point2",
                      ![a].snap = inst]
    /\ UNCHANGED <<inst, dir, uplock, told, clean>> /\ Rest

GuardRaises(a) ==
    /\ w[a].pc \in {"guard1", "guard2"} /\ Ended(a)
    /\ ~op[a].good \/ ~Whole(w[a].target) \/ ~Whole(w[a].fallback)
    /\ Collect(a)
    /\ Goto(a, "failed")
    /\ UNCHANGED <<inst, dir, uplock, told, clean>> /\ Rest

(* The pointer is saved over the state that was read, and the version it   *)
(* now names is started.                                                   *)
PointForward(a) ==
    /\ w[a].pc = "point1"
    /\ inst' = [w[a].snap EXCEPT !.current = w[a].target, !.previous = w[a].fallback]
    /\ Ask(a, "precheck", w[a].target)
    /\ Goto(a, "start1")
    /\ UNCHANGED <<dir, uplock, told, clean>> /\ Rest

(* Mistake: the pointer is left at the version that failed. *)
PointUnmoved(a) ==
    /\ w[a].pc = "point2"
    /\ inst' = w[a].snap
    /\ Ask(a, "precheck", w[a].fallback)
    /\ Goto(a, "start2")
    /\ UNCHANGED <<dir, uplock, told, clean>> /\ Rest

PointBack(a) ==
    /\ w[a].pc = "point2"
    /\ inst' = [w[a].snap EXCEPT !.current = w[a].fallback, !.previous = w[a].target]
    /\ Ask(a, "precheck", w[a].fallback)
    /\ Goto(a, "start2")
    /\ UNCHANGED <<dir, uplock, told, clean>> /\ Rest

NewRuns(a) ==
    /\ w[a].pc = "start1" /\ Ended(a) /\ op[a].good
    /\ Collect(a)
    /\ Goto(a, "prune")
    /\ UNCHANGED <<inst, dir, uplock, told, clean>> /\ Rest

NewFails(a) ==
    /\ w[a].pc = "start1" /\ Ended(a) /\ ~op[a].good
    /\ Ask(a, "stop", NoVersion)
    /\ Goto(a, "stop2")
    /\ UNCHANGED <<inst, dir, uplock, told, clean>> /\ Rest

(* Whatever stop said, the status after it decides. *)
NewStops(a) ==
    /\ w[a].pc = "stop2" /\ Ended(a)
    /\ Ask(a, "status", NoVersion)
    /\ Goto(a, "sure2")
    /\ UNCHANGED <<inst, dir, uplock, told, clean>> /\ Rest

NewStopped(a) ==
    /\ w[a].pc = "sure2" /\ Ended(a) /\ op[a].good
    /\ Ask(a, "status", NoVersion)
    /\ Goto(a, "guard2")
    /\ UNCHANGED <<inst, dir, uplock, told, clean>> /\ Rest

(* The last steps write the result: the new version is stuck, the old one   *)
(* runs again or not, nothing could be stopped.                            *)
Finish(a) ==
    /\ Ended(a)
    /\ \/ w[a].pc = "sure2" /\ ~op[a].good /\ Tell(a, "failed")
       \/ w[a].pc = "start2" /\ op[a].good /\ Tell(a, "rolled_back")
       \/ w[a].pc = "start2" /\ ~op[a].good /\ Tell(a, "failed")
       \/ w[a].pc = "bail" /\ Tell(a, "failed")
    /\ Collect(a)
    /\ Goto(a, "unlock")
    /\ UNCHANGED <<inst, dir, uplock, clean>> /\ Rest

(* Mistake: only the way back is kept. *)
AllButPrevious == inst.packs \ {inst.previous}

(* prune: directories of other versions are removed, as far as that goes,  *)
Outdated == inst.packs \ {inst.current, inst.previous}

PruneDelete(a) ==
    /\ w[a].pc = "prune"
    /\ \E removed \in SUBSET Outdated : \E torn \in SUBSET (Outdated \ removed) :
         /\ dir' = [v \in Versions |-> IF v \in removed THEN "none"
                                       ELSE IF v \in torn THEN "torn" ELSE dir[v]]
         /\ w' = [w EXCEPT ![a].pc = "pruned",
                           ![a].snap = [inst EXCEPT !.packs = @ \ removed]]
    /\ UNCHANGED <<runtimeVars, inst, uplock, told, clean>> /\ Rest

(* then the records, in one save that may fail unnoticed. *)
PruneSave(a) ==
    /\ w[a].pc = "pruned"
    /\ inst' \in {inst, w[a].snap}
    /\ Tell(a, "updated")
    /\ Goto(a, "unlock")
    /\ UNCHANGED <<runtimeVars, dir, uplock, clean>> /\ Rest

-----------------------------------------------------------------------------
(* Everybody else                                                          *)

(* A user runs a runtime command of his own, at any moment. *)
PersonAsks ==
    /\ asks < limit.asks
    /\ op[Person].kind = "none"
    /\ \/ Ask(Person, "precheck", Redirected)
       \/ Ask(Person, "stop", NoVersion)
       \/ Ask(Person, "status", NoVersion)
    /\ clean' = FALSE
    /\ asks' = asks + 1
    /\ UNCHANGED <<inst, dir, uplock, w, host, newest, told, takeovers, updates,
                   releases, deaths>>

(* The command of a user, or of a program that is gone, ends. *)
CommandEnds(a) ==
    /\ a \in Switchers => w[a].pc = "off"
    /\ Collect(a)
    /\ UNCHANGED updateVars

(* A running command goes on, a component ends, a command is killed (one    *)
(* of the switch itself only with its program), a pid is taken.            *)
MachineStep ==
    /\ \/ \E a \in Operators : OpStep(a)
       \/ \E a \in Operators :
             /\ a = Person \/ op[a].kind \in {"precheck", "start"}
             /\ KillOp(a)
       \/ \E p \in procs : ProcessExits(p)
       \/ \E i \in 1..spawned : PidTaken(i)
    /\ WebFollows
    /\ clean' = (clean /\ taken' = taken)
    /\ UNCHANGED <<inst, dir, host, newest, told, takeovers, updates, asks, releases, deaths>>

(* The helper or the command is killed: its lock names a dead pid now (or  *)
(* none), a `runtime start` it waits for goes on without it, a stop or a   *)
(* status, which runs in it, dies with it.                                 *)
SwitcherDies(a) ==
    /\ w[a].pc # "off"
    /\ deaths < limit.deaths
    /\ deaths' = deaths + 1
    /\ Go(a, Off)
    /\ uplock' = IF uplock # NoFile /\ uplock.by = a THEN [uplock EXCEPT !.by = Gone]
                 ELSE uplock
    /\ IF op[a].kind \in {"stop", "status"} /\ op[a].step # "done"
       THEN KillOp(a) ELSE UNCHANGED runtimeVars
    /\ UNCHANGED <<inst, dir, host, newest, told, clean, takeovers, updates, asks, releases>>

Publish(v) ==
    /\ releases < limit.releases
    /\ v \notin {newest, Home}
    /\ newest' = v
    /\ releases' = releases + 1
    /\ UNCHANGED <<runtimeVars, inst, dir, uplock, w, host, told, clean, takeovers,
                   updates, asks, deaths>>

SwitcherStep(a) ==
    \/ SwitchBegin(a) \/ SwitchUnknown(a) \/ StopEnds(a) \/ Guarded(a) \/ GuardRaises(a)
    \/ PointForward(a) \/ PointBack(a) \/ NewRuns(a) \/ NewFails(a) \/ NewStops(a)
    \/ NewStopped(a) \/ Finish(a) \/ PruneDelete(a) \/ PruneSave(a)

LockerStep(a) ==
    \/ LockCreate(a) \/ LockWrite(a) \/ LockExists(a) \/ PeekAlive(a) \/ PeekDead(a)
    \/ LockUnlink(a) \/ Unlock(a)
    \/ StageHave(a) \/ StageCopy(a) \/ StageStore(a) \/ StageFails(a) \/ StoreFails(a)

UpdateInit ==
    /\ RuntimeInit
    /\ \A p \in procs : p.ver = Home
    /\ inst = [packs |-> {}, current |-> NoVersion, previous |-> NoVersion]
    /\ dir = [v \in Versions |-> "none"]
    /\ uplock = NoFile
    /\ w = [a \in Lockers |-> Off]
    /\ host = 0
    /\ newest \in Versions \ {Home}
    /\ told = [outcome |-> "none", from |-> NoVersion, to |-> NoVersion]
    /\ clean = FALSE
    /\ takeovers = 0 /\ updates = 0 /\ asks = 0 /\ releases = 0 /\ deaths = 0

UpdateNext ==
    \/ \E p \in procs : StartUpdate(p)
    \/ UpdateCommand \/ RollbackCommand
    \/ \E a \in Lockers : LockerStep(a)
    \/ Launch \/ LaunchFails
    \/ \E a \in Switchers : SwitcherStep(a) \/ SwitcherDies(a)
    \/ PersonAsks
    \/ \E a \in Operators : CommandEnds(a)
    \/ MachineStep
    \/ \E v \in Versions : Publish(v)

UpdateSpec == UpdateInit /\ [][UpdateNext]_allVars

-----------------------------------------------------------------------------
(* Properties                                                              *)

(* update.lock keeps switches apart, and so does one takeover from a dead  *)
(* program: two programs are inside only after the file was removed twice   *)
(* as a dead program's (the second contender removes the first one's).     *)
OneUpdater == takeovers < 2 => Cardinality(Holders) <= 1

(* As long as that holds, the pointer names a version that is recorded and *)
(* whole, through every interruption of staging, switching and pruning:     *)
(* `runtime start` always finds a program to forward to.                   *)
PointerRunnable ==
    takeovers < 2 /\ inst.current # NoVersion => Whole(inst.current)

(* An update record tells what happened: if no other runtime command ran   *)
(* since the switch began, `updated` is written when the pointer names the *)
(* target and every recorded component that lives is the target's, and     *)
(* `rolled_back` the same of the version that ran before.                  *)
Runs(v) == \A p \in procs' : record'[p.comp] # NoRecord /\ record'[p.comp].id = p.id => p.ver = v

RecordTells ==
    [][told' # told /\ clean /\ takeovers < 2 =>
          /\ told'.outcome = "updated" => inst'.current = told'.to /\ Runs(told'.to)
          /\ told'.outcome = "rolled_back" => inst'.current = told'.from /\ Runs(told'.from)
      ]_allVars

(* Until the switch is over the way back stays open: from the moment the   *)
(* components are stopped both versions stay installed and whole.          *)
WayBack ==
    takeovers < 2 =>
      \A a \in Switchers :
        w[a].pc \in {"point1", "start1", "stop2", "sure2", "guard2", "point2", "start2"}
          => Whole(w[a].target) /\ Whole(w[a].fallback)

(* Everything the update does to the components it does through the        *)
(* lifecycle's own operations.                                             *)
UpdateUsesRuntime == RuntimeSpec

=============================================================================
