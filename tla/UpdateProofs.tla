---------------------------- MODULE UpdateProofs ----------------------------
(***************************************************************************)
(* The one-click update drives the manual lifecycle only by its own          *)
(* operations: for any number of components, releases and interruptions     *)
(* every step of Update is a step of Runtime or none, so what RuntimeProofs  *)
(* shows of the lifecycle holds while updates run.                          *)
(***************************************************************************)
EXTENDS Update, RuntimeProofs

(* An update that is on its way has both versions, and a package to look at *)
(* while it stages.                                                        *)
Sound(r) ==
    /\ r.pc # "off" => r.target \in Versions /\ r.fallback \in Versions
    /\ r.pc \in StagePcs => r.todo # <<>>

WorkTyped == w \in [Lockers -> Work] /\ \A a \in Lockers : Sound(w[a])

LockTyped == uplock \in LockFile \cup {NoFile}

Aside ==
    /\ dir \in [Versions -> {"none", "whole", "torn"}]
    /\ host \in Nat /\ newest \in Versions
    /\ told \in [outcome : {"none", "updated", "rolled_back", "failed"},
                 from : MaybeVersion, to : MaybeVersion]
    /\ clean \in BOOLEAN
    /\ takeovers \in Nat /\ updates \in Nat /\ asks \in Nat /\ releases \in Nat
    /\ deaths \in Nat

UInv == WorkTyped /\ inst \in Install /\ LockTyped /\ Aside

(* A step of the lifecycle, or none. *)
Run == RuntimeNext \/ UNCHANGED runtimeVars

(* The update of one program goes on. *)
Proceeds(a) == \E r \in Work : w' = [w EXCEPT ![a] = r] /\ Sound(r)

-----------------------------------------------------------------------------
(* The record of an update                                                 *)

(* Who is who. *)
LEMMA Actors ==
    /\ Switchers \subseteq Lockers /\ Switchers \subseteq Operators
    /\ Web \in Lockers /\ Helper \in Lockers /\ Cli \in Lockers /\ Person \in Operators
BY UpdateAssumption DEF Switchers, Lockers

(* The parts of a record of an update. *)
LEMMA WorkIs ==
    ASSUME WorkTyped, NEW a \in Lockers
    PROVE  /\ w[a] \in Work /\ w[a].pc \in Pcs /\ w[a].todo \in Todos
           /\ w[a].target \in MaybeVersion /\ w[a].fallback \in MaybeVersion
           /\ w[a].snap \in Install /\ w[a].tries \in 1..2 /\ Sound(w[a])
<1>1. w[a] \in Work /\ Sound(w[a])
  BY DEF WorkTyped
<1>2. QED
  BY <1>1 DEF Work

(* An update that goes on keeps the types. *)
LEMMA MovesKeep ==
    ASSUME WorkTyped, NEW a \in Lockers, Proceeds(a)
    PROVE  WorkTyped'
<1>1. PICK r \in Work : w' = [w EXCEPT ![a] = r] /\ Sound(r)
  BY DEF Proceeds
<1>2. w' \in [Lockers -> Work] /\ w'[a] = r /\ \A b \in Lockers : b # a => w'[b] = w[b]
  BY <1>1 DEF WorkTyped
<1>3. \A b \in Lockers : Sound(w'[b])
  BY <1>1, <1>2 DEF WorkTyped
<1>4. QED
  BY <1>2, <1>3 DEF WorkTyped, Sound

(* An update that is left as it is. *)
LEMMA WorkStays ==
    ASSUME WorkTyped, w' = w
    PROVE  WorkTyped'
BY DEF WorkTyped, Sound

(* To another step. *)
LEMMA GotoMoves ==
    ASSUME WorkTyped, NEW a \in Lockers, NEW pc \in Pcs, w[a].pc # "off",
           pc \in StagePcs => w[a].todo # <<>>, Goto(a, pc)
    PROVE  Proceeds(a)
<1> DEFINE r == [w[a] EXCEPT !.pc = pc]
<1>1. w[a] \in Work /\ Sound(w[a])
  BY DEF WorkTyped
<1>2. /\ r \in Work /\ r.pc = pc /\ r.target = w[a].target
      /\ r.fallback = w[a].fallback /\ r.todo = w[a].todo
  BY <1>1 DEF Work
<1>3. w' = [w EXCEPT ![a] = r]
  BY DEF Goto
<1> HIDE DEF r
<1>4. Sound(r)
  BY <1>1, <1>2 DEF Sound
<1>5. QED
  BY <1>2, <1>3, <1>4 DEF Proceeds

(* What a program that updates nothing has. *)
LEMMA OffIs == Off \in Work /\ Off.pc = "off" /\ Sound(Off)
<1>1. [packs |-> {}, current |-> NoVersion, previous |-> NoVersion] \in Install
  BY DEF Install, MaybeVersion
<1>2. "off" \in Pcs /\ 1 \in 1..2 /\ "off" \notin StagePcs /\ <<>> \in Todos
  BY DEF Pcs, StagePcs, Todos
<1>3. Off \in Work /\ Off.pc = "off"
  BY <1>1, <1>2 DEF Off, Work, MaybeVersion
<1>4. QED
  BY <1>2, <1>3 DEF Sound

(* What a program that begins an update has. *)
LEMMA FreshIs ==
    ASSUME NEW todo \in Todos, NEW target \in Versions, NEW fallback \in Versions
    PROVE  /\ Fresh(todo, target, fallback) \in Work /\ Sound(Fresh(todo, target, fallback))
           /\ Fresh(todo, target, fallback).pc = "lock"
<1> DEFINE r == Fresh(todo, target, fallback)
<1>1. "lock" \in Pcs /\ "lock" \notin StagePcs
  BY DEF Pcs, LockPcs, StagePcs
<1>2. r \in Work /\ r.pc = "lock" /\ r.target = target /\ r.fallback = fallback
  BY <1>1, OffIs DEF Work, MaybeVersion, Fresh
<1> HIDE DEF r
<1>3. Sound(r)
  BY <1>1, <1>2 DEF Sound
<1>4. QED
  BY <1>2, <1>3 DEF r

(* It ends. *)
LEMMA OffMoves ==
    ASSUME NEW a \in Lockers, Go(a, Off)
    PROVE  Proceeds(a)
BY OffIs DEF Proceeds, Go

(* A package is done with. *)
LEMMA WorkedMoves ==
    ASSUME WorkTyped, NEW a \in Lockers, w[a].pc \in StagePcs, Go(a, Worked(a, Tail(w[a].todo)))
    PROVE  Proceeds(a)
<1> DEFINE rest == Tail(w[a].todo)
<1>1. /\ w[a] \in Work /\ Sound(w[a]) /\ w[a].todo \in Todos /\ w[a].todo # <<>>
      /\ w[a].pc # "off"
  BY WorkIs DEF Sound, StagePcs
<1>2. rest \in Todos
  <2>1. Tail(<<"fetch">>) = <<>> /\ Tail(<<"adopt">>) = <<>>
    OBVIOUS
  <2>2. Tail(<<"fetch", "adopt">>) = <<"adopt">> /\ Tail(<<"adopt", "fetch">>) = <<"fetch">>
    OBVIOUS
  <2>3. QED BY <1>1, <2>1, <2>2, Zenon DEF Todos
<1> HIDE DEF rest
<1>3. PICK pc \in {"todo", "failed", "unlock", "exec"} :
         /\ Worked(a, rest) = [w[a] EXCEPT !.pc = pc, !.todo = rest]
         /\ (pc = "todo" => rest # <<>>)
  <2>1. CASE rest # <<>>
    BY <2>1 DEF Worked
  <2>2. CASE rest = <<>> /\ w[a].target = w[a].fallback
    BY <2>2 DEF Worked
  <2>3. CASE rest = <<>> /\ w[a].target # w[a].fallback /\ a = Web
    BY <2>3 DEF Worked
  <2>4. CASE rest = <<>> /\ w[a].target # w[a].fallback /\ a # Web
    BY <2>4 DEF Worked
  <2>5. QED BY <2>1, <2>2, <2>3, <2>4
<1> DEFINE r == [w[a] EXCEPT !.pc = pc, !.todo = rest]
<1>4. pc \in Pcs /\ (pc \in StagePcs => pc = "todo") /\ pc # "off"
  BY DEF Pcs, StagePcs, SwitchPcs
<1>5. /\ r \in Work /\ r.pc = pc /\ r.todo = rest /\ r.target = w[a].target
      /\ r.fallback = w[a].fallback
  BY <1>1, <1>2, <1>4 DEF Work
<1>6. w' = [w EXCEPT ![a] = r]
  BY <1>3 DEF Go, rest
<1> HIDE DEF r
<1>7. Sound(r)
  BY <1>1, <1>3, <1>4, <1>5 DEF Sound
<1>8. QED
  BY <1>5, <1>6, <1>7 DEF Proceeds

-----------------------------------------------------------------------------
(* update.lock                                                             *)

(* The file names a program, or one that is gone. *)
LEMMA LockNames ==
    ASSUME NEW a \in Lockers \cup {Gone}, NEW said \in BOOLEAN,
           uplock' = [by |-> a, said |-> said]
    PROVE  LockTyped'
BY Zenon DEF LockTyped, LockFile

(* The program that made it is gone. *)
LEMMA LockOrphaned ==
    ASSUME LockTyped, uplock' \in {uplock, NoFile} \/
                      (uplock # NoFile /\ uplock' = [uplock EXCEPT !.by = Gone])
    PROVE  LockTyped'
<1>1. CASE uplock' = uplock
  BY <1>1 DEF LockTyped
<1>2. CASE uplock' = NoFile
  BY <1>2 DEF LockTyped
<1>3. CASE uplock # NoFile /\ uplock' = [uplock EXCEPT !.by = Gone]
  <2>1. uplock \in LockFile
    BY <1>3 DEF LockTyped
  <2>2. uplock' \in LockFile
    BY <1>3, <2>1 DEF LockFile
  <2>3. QED BY <2>2 DEF LockTyped
<1>4. QED
  BY <1>1, <1>2, <1>3

(* Nothing but the update itself changes. *)
LEMMA OnlyMoves ==
    ASSUME UInv, NEW a \in Lockers, Proceeds(a), LockTyped', inst' = inst,
           UNCHANGED runtimeVars, Aside'
    PROVE  UInv' /\ Run
BY MovesKeep DEF UInv, Run

(* What most steps leave alone. *)
LEMMA AsideStays ==
    ASSUME Aside, UNCHANGED <<dir, host, newest, told, clean, updates, asks, releases, deaths>>,
           takeovers' \in Nat
    PROVE  Aside'
BY DEF Aside

(* The steps at update.lock. *)
LEMMA LockKeeps ==
    ASSUME UInv, NEW a \in Lockers,
           \/ LockCreate(a) \/ LockWrite(a) \/ LockExists(a) \/ PeekAlive(a) \/ PeekDead(a)
           \/ LockUnlink(a) \/ Unlock(a)
    PROVE  UInv' /\ Run
<1>0. WorkTyped /\ LockTyped /\ Aside /\ inst \in Install
  BY DEF UInv
<1>1. inst' = inst /\ UNCHANGED runtimeVars
  BY Zenon DEF LockCreate, LockWrite, LockExists, PeekAlive, PeekDead, LockUnlink, Unlock
<1>2. Aside'
  <2>1. UNCHANGED <<dir, host, newest, told, clean, updates, asks, releases, deaths>>
    BY Zenon DEF LockCreate, LockWrite, LockExists, PeekAlive, PeekDead, LockUnlink, Unlock, Rest
  <2>2. takeovers' = takeovers \/ takeovers' = takeovers + 1
    BY Zenon DEF LockCreate, LockWrite, LockExists, PeekAlive, PeekDead, LockUnlink, Unlock, Rest
  <2>3. takeovers' \in Nat
    BY <1>0, <2>2 DEF Aside
  <2>4. QED BY <1>0, <2>1, <2>3, AsideStays
<1>3. LockTyped'
  <2>1. CASE LockCreate(a)
    <3>1. uplock' = [by |-> a, said |-> FALSE]
      BY <2>1, Zenon DEF LockCreate
    <3>2. PICK said \in BOOLEAN : uplock' = [by |-> a, said |-> said]
      BY <3>1, Zenon
    <3>3. QED BY <3>2, LockNames
  <2>2. CASE LockWrite(a)
    <3>1. uplock' = [by |-> a, said |-> TRUE] \/ uplock' = uplock
      BY <2>2, Zenon DEF LockWrite
    <3>2. (\E said \in BOOLEAN : uplock' = [by |-> a, said |-> said]) \/ uplock' = uplock
      BY <3>1, Zenon
    <3>3. QED BY <1>0, <3>2, LockNames, LockOrphaned
  <2>3. CASE \/ LockExists(a) \/ PeekAlive(a) \/ PeekDead(a) \/ LockUnlink(a) \/ Unlock(a)
    <3>1. uplock' = uplock \/ uplock' = NoFile
      BY <2>3, Zenon DEF LockExists, PeekAlive, PeekDead, LockUnlink, Unlock
    <3>2. QED BY <1>0, <3>1, LockOrphaned
  <2>4. QED BY <2>1, <2>2, <2>3
<1>4. Proceeds(a)
  <2>0. {"write", "peek", "unlink", "launch", "exec", "todo"} \subseteq Pcs
        /\ {"write", "peek", "unlink", "launch", "exec"} \cap StagePcs = {}
    BY DEF Pcs, LockPcs, StagePcs, SwitchPcs
  <2>1. CASE LockCreate(a)
    <3>1. w[a].pc = "lock" /\ Goto(a, "write")
      BY <2>1, Zenon DEF LockCreate
    <3>2. QED BY <1>0, <2>0, <3>1, GotoMoves
  <2>2. CASE LockWrite(a)
    <3>1. w[a].pc = "write" /\ Goto(a, Entered(a))
      BY <2>2, Zenon DEF LockWrite
    <3>2. Entered(a) \in Pcs /\ (Entered(a) \in StagePcs => w[a].todo # <<>>)
      BY <2>0 DEF Entered
    <3>3. QED BY <1>0, <3>1, <3>2, GotoMoves
  <2>3. CASE LockExists(a)
    <3>1. w[a].pc = "lock" /\ Goto(a, "peek")
      BY <2>3, Zenon DEF LockExists
    <3>2. QED BY <1>0, <2>0, <3>1, GotoMoves
  <2>4. CASE PeekAlive(a)
    BY <2>4, OffMoves DEF PeekAlive
  <2>5. CASE PeekDead(a)
    <3>1. w[a].pc = "peek" /\ Goto(a, "unlink")
      BY <2>5, Zenon DEF PeekDead
    <3>2. QED BY <1>0, <2>0, <3>1, GotoMoves
  <2>6. CASE LockUnlink(a)
    <3>1. CASE Go(a, Off)
      BY <3>1, OffMoves
    <3>2. CASE w' = [w EXCEPT ![a].pc = "lock", ![a].tries = 2]
      <4> DEFINE r == [w[a] EXCEPT !.pc = "lock", !.tries = 2]
      <4>1. w[a] \in Work /\ Sound(w[a]) /\ w[a].pc = "unlink"
        BY <1>0, <2>6, WorkIs DEF LockUnlink
      <4>2. "lock" \in Pcs /\ "lock" \notin StagePcs /\ 2 \in 1..2
        BY DEF Pcs, LockPcs, StagePcs
      <4>3. /\ r \in Work /\ r.pc = "lock" /\ r.target = w[a].target
            /\ r.fallback = w[a].fallback
        BY <4>1, <4>2 DEF Work
      <4>4. w' = [w EXCEPT ![a] = r]
        BY <3>2
      <4> HIDE DEF r
      <4>5. Sound(r)
        BY <4>1, <4>2, <4>3 DEF Sound
      <4>6. QED BY <4>3, <4>4, <4>5 DEF Proceeds
    <3>3. QED BY <2>6, <3>1, <3>2 DEF LockUnlink
  <2>7. CASE Unlock(a)
    <3>1. w[a].pc # "off" /\ (Goto(a, "launch") \/ Go(a, Off))
      BY <2>7 DEF Unlock
    <3>2. QED BY <1>0, <2>0, <3>1, GotoMoves, OffMoves
  <2>8. QED BY <2>1, <2>2, <2>3, <2>4, <2>5, <2>6, <2>7
<1>5. QED
  BY <1>1, <1>2, <1>3, <1>4, OnlyMoves

-----------------------------------------------------------------------------
(* Staging, launching, beginning                                           *)

(* What is staged is a release. *)
LEMMA ItemIs ==
    ASSUME WorkTyped, NEW a \in Lockers, w[a].pc # "off"
    PROVE  Item(a) \in Versions
BY WorkIs DEF Item, Sound

(* The directories change, and with them nothing else here. *)
LEMMA DirChanges ==
    ASSUME Aside, dir' \in [Versions -> {"none", "whole", "torn"}],
           UNCHANGED <<host, newest, told, clean, takeovers, updates, asks, releases, deaths>>
    PROVE  Aside'
BY DEF Aside

(* The steps of staging. *)
LEMMA StageKeeps ==
    ASSUME UInv, NEW a \in Lockers,
           \/ StageHave(a) \/ StageCopy(a) \/ StageStore(a) \/ StageFails(a) \/ StoreFails(a)
    PROVE  UInv' /\ Run
<1>0. WorkTyped /\ LockTyped /\ Aside /\ inst \in Install
  BY DEF UInv
<1>1. /\ uplock' = uplock /\ w[a].pc \in {"todo", "store"} /\ UNCHANGED runtimeVars
      /\ UNCHANGED <<host, newest, told, clean, takeovers, updates, asks, releases, deaths>>
  BY Zenon DEF StageHave, StageCopy, StageStore, StageFails, StoreFails, Rest
<1>2. Item(a) \in Versions /\ LockTyped' /\ w[a].pc \in StagePcs /\ w[a].pc # "off"
      /\ w[a].todo # <<>>
  BY <1>0, <1>1, ItemIs, LockOrphaned, WorkIs DEF Sound, StagePcs
<1>3. Aside'
  <2>1. dir \in [Versions -> {"none", "whole", "torn"}]
    BY <1>0 DEF Aside
  <2>2. dir' = dir \/ dir' = [dir EXCEPT ![Item(a)] = "whole"]
                   \/ dir' = [dir EXCEPT ![Item(a)] = "none"]
    BY Zenon DEF StageHave, StageCopy, StageStore, StageFails, StoreFails
  <2>3. dir' \in [Versions -> {"none", "whole", "torn"}]
    BY <1>2, <2>1, <2>2
  <2>4. QED BY <1>0, <1>1, <2>3, DirChanges
<1>4. inst' \in Install
  <2>1. inst' = inst \/ inst' = [inst EXCEPT !.packs = @ \cup {Item(a)}]
    BY Zenon DEF StageHave, StageCopy, StageStore, StageFails, StoreFails
  <2>2. QED BY <1>0, <1>2, <2>1 DEF Install
<1>5. Proceeds(a)
  <2>1. {"store", "failed"} \subseteq Pcs
    BY DEF Pcs, StagePcs
  <2>2. CASE StageHave(a) \/ StageStore(a)
    <3>1. Go(a, Worked(a, Tail(w[a].todo)))
      BY <2>2, Zenon DEF StageHave, StageStore
    <3>2. QED BY <1>0, <1>2, <3>1, WorkedMoves
  <2>3. CASE StageCopy(a) \/ StageFails(a) \/ StoreFails(a)
    <3>1. Goto(a, "store") \/ Goto(a, "failed")
      BY <2>3, Zenon DEF StageCopy, StageFails, StoreFails
    <3>2. QED BY <1>0, <1>2, <2>1, <3>1, GotoMoves
  <2>4. QED BY <2>2, <2>3
<1>6. QED
  BY <1>0, <1>1, <1>2, <1>3, <1>4, <1>5, MovesKeep DEF UInv, Run

(* The helper is launched, or cannot be. *)
LEMMA LaunchKeeps ==
    ASSUME UInv, Launch \/ LaunchFails
    PROVE  UInv' /\ Run
<1>0. WorkTyped /\ LockTyped /\ Aside /\ inst \in Install
  BY DEF UInv
<1>1. /\ uplock' = uplock /\ inst' = inst /\ w[Web].pc = "launch" /\ UNCHANGED runtimeVars
      /\ UNCHANGED <<dir, host, newest, told, clean, takeovers, updates, asks, releases, deaths>>
  BY Zenon DEF Launch, LaunchFails, Rest
<1>2. LockTyped' /\ Aside'
  BY <1>0, <1>1, LockOrphaned, AsideStays DEF Aside
<1>3. CASE LaunchFails
  BY <1>0, <1>1, <1>2, <1>3, Actors, OffMoves, OnlyMoves DEF LaunchFails, UInv
<1>4. CASE Launch
  <2> DEFINE r == Fresh(<<>>, w[Web].target, w[Web].fallback)
             q == [w[Web] EXCEPT !.pc = "restarting"]
  <2>1. w' = [w EXCEPT ![Web].pc = "restarting", ![Helper] = r]
    BY <1>4, Zenon DEF Launch
  <2>2. /\ w[Web] \in Work /\ Sound(w[Web]) /\ "restarting" \in Pcs /\ "lock" \in Pcs
        /\ "restarting" \notin StagePcs /\ "lock" \notin StagePcs
        /\ Web # Helper /\ Web \in Lockers /\ Helper \in Lockers
    BY <1>0, UpdateAssumption, Actors, WorkIs DEF Pcs, LockPcs, StagePcs
  <2>3. w[Web].target \in Versions /\ w[Web].fallback \in Versions
    BY <1>1, <2>2 DEF Sound
  <2>4. r \in Work /\ Sound(r)
    <3>1. <<>> \in Todos
      BY DEF Todos
    <3>2. QED BY <2>3, <3>1, FreshIs
  <2>5. /\ q \in Work /\ q.pc = "restarting" /\ q.target = w[Web].target
        /\ q.fallback = w[Web].fallback
    BY <2>2 DEF Work
  <2>6. w' = [w EXCEPT ![Web] = q, ![Helper] = r]
    BY <2>1
  <2> HIDE DEF r, q
  <2>7. Sound(q)
    BY <2>2, <2>3, <2>5 DEF Sound
  <2>8. /\ w' \in [Lockers -> Work] /\ w'[Web] = q /\ w'[Helper] = r
        /\ \A b \in Lockers : b # Web /\ b # Helper => w'[b] = w[b]
    BY <1>0, <2>2, <2>4, <2>5, <2>6 DEF WorkTyped
  <2>9. \A b \in Lockers : Sound(w'[b])
    BY <1>0, <2>4, <2>7, <2>8 DEF WorkTyped
  <2>10. WorkTyped'
    BY <2>8, <2>9 DEF WorkTyped, Sound
  <2>11. QED BY <1>0, <1>1, <1>2, <2>10 DEF UInv, Run
<1>5. QED
  BY <1>3, <1>4

(* The version an old directory forwards to is a release. *)
LEMMA RedirectedIs ==
    ASSUME inst \in Install
    PROVE  Redirected \in Versions
BY UpdateAssumption DEF Redirected, Install

(* An update begins. *)
LEMMA BeginKeeps ==
    ASSUME UInv, RInv, (\E p \in procs : StartUpdate(p)) \/ UpdateCommand \/ RollbackCommand
    PROVE  UInv' /\ Run
<1>0. WorkTyped /\ LockTyped /\ Aside /\ inst \in Install
  BY DEF UInv
<1>1. /\ uplock' = uplock /\ inst' = inst /\ UNCHANGED runtimeVars
      /\ UNCHANGED <<dir, newest, told, clean, takeovers, asks, releases, deaths>>
      /\ updates' = updates + 1
  BY Zenon DEF StartUpdate, UpdateCommand, RollbackCommand
<1>2. host' \in Nat
  <2>1. host' = host \/ \E p \in procs : host' = p.id
    BY DEF StartUpdate, UpdateCommand, RollbackCommand
  <2>2. QED BY <1>0, <2>1, Parts DEF Aside, RInv
<1>3. LockTyped' /\ Aside'
  BY <1>0, <1>1, <1>2, LockOrphaned DEF Aside
<1>4. PICK a \in Lockers, todo \in Todos, target \in Versions, fallback \in Versions :
         Go(a, Fresh(todo, target, fallback))
  <2>0. newest \in Versions /\ Redirected \in Versions
    BY <1>0, RedirectedIs DEF Aside
  <2>1. <<"fetch", "adopt">> \in Todos /\ <<"adopt", "fetch">> \in Todos /\ <<>> \in Todos
    BY DEF Todos
  <2>2. CASE \E p \in procs : StartUpdate(p)
    <3>1. PICK p \in procs : Go(Web, Fresh(<<"fetch", "adopt">>, newest, p.ver))
      BY <2>2, Zenon DEF StartUpdate
    <3>2. p.ver \in Versions
      BY DEF RInv, RuntimeTypeOK, Process
    <3>3. QED BY <2>0, <2>1, <3>1, <3>2, Actors, Zenon
  <2>3. CASE UpdateCommand
    <3>1. Go(Cli, Fresh(<<"adopt", "fetch">>, newest, Redirected))
      BY <2>3, Zenon DEF UpdateCommand
    <3>2. QED BY <2>0, <2>1, <3>1, Actors, Zenon
  <2>4. CASE RollbackCommand
    <3>1. inst.current \in Versions /\ inst.previous \in Versions
      BY <1>0, <2>4 DEF RollbackCommand, Install, MaybeVersion
    <3>2. Go(Cli, Fresh(<<>>, inst.previous, inst.current))
      BY <2>4, Zenon DEF RollbackCommand
    <3>3. QED BY <2>1, <3>1, <3>2, Actors, Zenon
  <2>5. QED BY <2>2, <2>3, <2>4
<1>5. Proceeds(a)
  BY <1>4, FreshIs DEF Proceeds, Go
<1>6. QED
  BY <1>0, <1>1, <1>3, <1>5, MovesKeep DEF UInv, Run

-----------------------------------------------------------------------------
(* The switch                                                              *)

(* The commands it gives are the lifecycle's. *)
LEMMA AskRuns ==
    ASSUME NEW a \in Operators,
           \/ Ask(a, "stop", NoVersion) \/ Ask(a, "status", NoVersion)
           \/ \E v \in Versions : Ask(a, "precheck", v)
    PROVE  Run
<1>1. \A kind \in {"stop", "status"} : Ask(a, kind, NoVersion) => RuntimeNext
  BY DEF RuntimeNext
<1>2. \A v \in Versions : Ask(a, "precheck", v) => RuntimeNext
  BY DEF RuntimeNext
<1>3. QED
  BY <1>1, <1>2 DEF Run

(* So is the taking of a result. *)
LEMMA CollectRuns ==
    ASSUME NEW a \in Operators, Collect(a)
    PROVE  Run
BY DEF Run, RuntimeNext

(* Every step of a switch is a command, its result, or none. *)
LEMMA SwitchRuns ==
    ASSUME UInv, NEW a \in Switchers, SwitcherStep(a)
    PROVE  Run
<1>0. WorkTyped /\ inst \in Install /\ a \in Lockers /\ a \in Operators
  BY Actors DEF UInv
<1>1. w[a].pc # "off" => w[a].target \in Versions /\ w[a].fallback \in Versions
  BY <1>0, WorkIs DEF Sound
<1>2. CASE SwitchBegin(a) \/ NewFails(a) \/ NewStops(a) \/ NewStopped(a)
  <2>1. Ask(a, "stop", NoVersion) \/ Ask(a, "status", NoVersion)
    BY <1>2, Zenon DEF SwitchBegin, NewFails, NewStops, NewStopped
  <2>2. QED BY <1>0, <2>1, AskRuns
<1>3. CASE SwitchUnknown(a) \/ PruneDelete(a) \/ PruneSave(a)
  <2>1. UNCHANGED runtimeVars
    BY <1>3, Zenon DEF SwitchUnknown, PruneDelete, PruneSave
  <2>2. QED BY <2>1 DEF Run
<1>4. CASE StopEnds(a) \/ PointForward(a) \/ PointBack(a)
  <2>1. w[a].pc # "off"
    BY <1>4 DEF StopEnds, PointForward, PointBack
  <2>2. \/ Ask(a, "status", NoVersion)
        \/ Ask(a, "precheck", w[a].fallback) \/ Ask(a, "precheck", w[a].target)
    BY <1>4, Zenon DEF StopEnds, PointForward, PointBack
  <2>3. QED BY <1>0, <1>1, <2>1, <2>2, AskRuns
<1>5. CASE Guarded(a) \/ GuardRaises(a) \/ NewRuns(a) \/ Finish(a)
  <2>1. Collect(a)
    BY <1>5, Zenon DEF Guarded, GuardRaises, NewRuns, Finish
  <2>2. QED BY <1>0, <2>1, CollectRuns
<1>6. QED
  BY <1>2, <1>3, <1>4, <1>5 DEF SwitcherStep

(* The pointer stays one of releases. *)
LEMMA SwitchPoints ==
    ASSUME UInv, NEW a \in Switchers, SwitcherStep(a)
    PROVE  inst' \in Install
<1>0. WorkTyped /\ inst \in Install /\ a \in Lockers
  BY Actors DEF UInv
<1>1. w[a].snap \in Install /\ w[a].target \in MaybeVersion /\ w[a].fallback \in MaybeVersion
  BY <1>0, WorkIs
<1>2. \/ inst' = inst \/ inst' = w[a].snap
      \/ inst' = [w[a].snap EXCEPT !.current = w[a].target, !.previous = w[a].fallback]
      \/ inst' = [w[a].snap EXCEPT !.current = w[a].fallback, !.previous = w[a].target]
  BY Zenon DEF SwitcherStep, SwitchBegin, SwitchUnknown, StopEnds, Guarded, GuardRaises,
     PointForward, PointBack, NewRuns, NewFails, NewStops, NewStopped, Finish, PruneDelete,
     PruneSave
<1>3. QED
  BY <1>0, <1>1, <1>2 DEF Install

(* The switch itself goes on. *)
LEMMA SwitchMoves ==
    ASSUME UInv, NEW a \in Switchers, SwitcherStep(a)
    PROVE  Proceeds(a)
<1>0. WorkTyped /\ inst \in Install /\ a \in Lockers /\ w[a] \in Work /\ Sound(w[a])
  BY Actors, WorkIs DEF UInv
<1>1. SwitchPcs \cup {"failed", "unlock"} \subseteq Pcs
      /\ (SwitchPcs \cup {"failed", "unlock"}) \cap StagePcs = {} /\ "off" \notin SwitchPcs
  BY DEF Pcs, StagePcs, SwitchPcs
<1>2. w[a].pc \in SwitchPcs
  BY DEF SwitcherStep, SwitchBegin, SwitchUnknown, StopEnds, Guarded, GuardRaises,
     PointForward, PointBack, NewRuns, NewFails, NewStops, NewStopped, Finish, PruneDelete,
     PruneSave, SwitchPcs
<1>3. ASSUME NEW pc \in SwitchPcs, NEW snap \in Install,
             w' = [w EXCEPT ![a].pc = pc, ![a].snap = snap]
      PROVE  Proceeds(a)
  <2> DEFINE r == [w[a] EXCEPT !.pc = pc, !.snap = snap]
  <2>1. /\ r \in Work /\ r.pc = pc /\ r.target = w[a].target
        /\ r.fallback = w[a].fallback
    BY <1>0, <1>1 DEF Work
  <2>2. w' = [w EXCEPT ![a] = r]
    BY <1>3
  <2> HIDE DEF r
  <2>3. Sound(r)
    BY <1>0, <1>1, <1>2, <2>1 DEF Sound
  <2>4. QED BY <2>1, <2>2, <2>3 DEF Proceeds
<1>4. CASE Guarded(a)
  <2>1. PICK pc \in {"point1", "point2"} : w' = [w EXCEPT ![a].pc = pc, ![a].snap = inst]
    BY <1>4 DEF Guarded
  <2>2. pc \in SwitchPcs
    BY DEF SwitchPcs
  <2>3. QED BY <1>0, <1>3, <2>1, <2>2
<1>5. CASE PruneDelete(a)
  <2>1. PICK removed \in SUBSET Outdated :
           w' = [w EXCEPT ![a].pc = "pruned", ![a].snap = [inst EXCEPT !.packs = @ \ removed]]
    BY <1>5, Zenon DEF PruneDelete
  <2>2. "pruned" \in SwitchPcs
    BY DEF SwitchPcs
  <2>3. [inst EXCEPT !.packs = @ \ removed] \in Install
    BY <1>0 DEF Install
  <2>4. QED BY <1>3, <2>1, <2>2, <2>3
<1>6. CASE ~Guarded(a) /\ ~PruneDelete(a)
  <2>1. PICK pc \in SwitchPcs \cup {"failed", "unlock"} : Goto(a, pc)
    <3>1. CASE SwitchBegin(a) \/ NewFails(a) \/ NewStops(a) \/ NewStopped(a) \/ NewRuns(a)
      <4>1. {"stop1", "stop2", "sure2", "guard2", "prune"} \subseteq SwitchPcs
        BY DEF SwitchPcs
      <4>2. PICK pc \in {"stop1", "stop2", "sure2", "guard2", "prune"} : Goto(a, pc)
        BY <3>1, Zenon DEF SwitchBegin, NewFails, NewStops, NewStopped, NewRuns
      <4>3. QED BY <4>1, <4>2
    <3>2. CASE SwitchUnknown(a) \/ GuardRaises(a) \/ Finish(a) \/ PruneSave(a)
      <4>1. Goto(a, "failed") \/ Goto(a, "unlock")
        BY <3>2, Zenon DEF SwitchUnknown, GuardRaises, Finish, PruneSave
      <4>2. QED BY <4>1
    <3>3. CASE PointForward(a) \/ PointBack(a)
      <4>1. {"start1", "start2"} \subseteq SwitchPcs
        BY DEF SwitchPcs
      <4>2. PICK pc \in {"start1", "start2"} : Goto(a, pc)
        BY <3>3, Zenon DEF PointForward, PointBack
      <4>3. QED BY <4>1, <4>2
    <3>4. CASE StopEnds(a)
      <4>1. {"sure1", "guard1", "bail"} \subseteq SwitchPcs
        BY DEF SwitchPcs
      <4>2. PICK pc \in {"sure1", "guard1", "bail"} : Goto(a, pc)
        BY <3>4 DEF StopEnds
      <4>3. QED BY <4>1, <4>2
    <3>5. QED BY <1>6, <3>1, <3>2, <3>3, <3>4 DEF SwitcherStep
  <2>2. QED BY <1>0, <1>1, <1>2, <2>1, GotoMoves
<1>7. QED
  BY <1>4, <1>5, <1>6

(* What was told, and the rest. *)
LEMMA SwitchAside ==
    ASSUME UInv, NEW a \in Switchers, SwitcherStep(a)
    PROVE  Aside' /\ LockTyped'
<1>0. WorkTyped /\ Aside /\ LockTyped /\ a \in Lockers
  BY Actors DEF UInv
<1>1. uplock' = uplock
      /\ UNCHANGED <<host, newest, takeovers, updates, asks, releases, deaths>>
  BY Zenon DEF SwitcherStep, SwitchBegin, SwitchUnknown, StopEnds, Guarded, GuardRaises,
     PointForward, PointBack, NewRuns, NewFails, NewStops, NewStopped, Finish, PruneDelete,
     PruneSave, Rest
<1>2. dir' \in [Versions -> {"none", "whole", "torn"}]
  <2>1. CASE PruneDelete(a)
    BY <1>0, <2>1 DEF PruneDelete, Aside
  <2>2. CASE ~PruneDelete(a)
    <3>1. dir' = dir
      BY <2>2, Zenon DEF SwitcherStep, SwitchBegin, SwitchUnknown, StopEnds, Guarded,
         GuardRaises, PointForward, PointBack, NewRuns, NewFails, NewStops, NewStopped,
         Finish, PruneSave
    <3>2. QED BY <1>0, <3>1 DEF Aside
  <2>3. QED BY <2>1, <2>2
<1>3. told' \in [outcome : {"none", "updated", "rolled_back", "failed"},
                 from : MaybeVersion, to : MaybeVersion]
  <2>1. told' = told \/ \E outcome \in {"updated", "rolled_back", "failed"} : Tell(a, outcome)
    BY Zenon DEF SwitcherStep, SwitchBegin, SwitchUnknown, StopEnds, Guarded, GuardRaises,
       PointForward, PointBack, NewRuns, NewFails, NewStops, NewStopped, Finish, PruneDelete,
       PruneSave
  <2>2. w[a].fallback \in MaybeVersion /\ w[a].target \in MaybeVersion
    BY <1>0, WorkIs
  <2>3. QED BY <1>0, <2>1, <2>2 DEF Tell, Aside
<1>4. clean' \in BOOLEAN
  <2>1. CASE SwitchBegin(a)
    BY <2>1, Zenon DEF SwitchBegin
  <2>2. CASE ~SwitchBegin(a)
    <3>1. clean' = clean
      BY <2>2, Zenon DEF SwitcherStep, SwitchUnknown, StopEnds, Guarded, GuardRaises,
         PointForward, PointBack, NewRuns, NewFails, NewStops, NewStopped, Finish,
         PruneDelete, PruneSave
    <3>2. QED BY <1>0, <3>1 DEF Aside
  <2>3. QED BY <2>1, <2>2
<1>5. LockTyped'
  BY <1>0, <1>1, LockOrphaned
<1>6. QED
  BY <1>0, <1>1, <1>2, <1>3, <1>4, <1>5 DEF Aside

(* A step of the switch. *)
LEMMA SwitchKeeps ==
    ASSUME UInv, NEW a \in Switchers, SwitcherStep(a)
    PROVE  UInv' /\ Run
BY SwitchRuns, SwitchPoints, SwitchMoves, SwitchAside, MovesKeep, Actors DEF UInv

-----------------------------------------------------------------------------
(* Everybody else                                                          *)

(* A person's command, and the end of one. *)
LEMMA OthersKeep ==
    ASSUME UInv, PersonAsks \/ \E a \in Operators : CommandEnds(a)
    PROVE  UInv' /\ Run
<1>0. WorkTyped /\ LockTyped /\ Aside /\ inst \in Install
  BY DEF UInv
<1>1. w' = w /\ uplock' = uplock /\ inst' = inst
  BY Zenon DEF PersonAsks, CommandEnds, updateVars
<1>2. Aside'
  <2>1. UNCHANGED <<dir, host, newest, told, takeovers, updates, releases, deaths>>
    BY Zenon DEF PersonAsks, CommandEnds, updateVars
  <2>2. asks' = asks \/ asks' = asks + 1
    BY Zenon DEF PersonAsks, CommandEnds, updateVars
  <2>3. clean' = clean \/ clean' = FALSE
    BY Zenon DEF PersonAsks, CommandEnds, updateVars
  <2>4. clean \in BOOLEAN
    BY <1>0 DEF Aside
  <2>5. clean' \in BOOLEAN
    BY <2>3, <2>4, Zenon
  <2>6. QED BY <1>0, <2>1, <2>2, <2>5 DEF Aside
<1>3. Run
  <2>1. CASE PersonAsks
    <3>1. \/ Ask(Person, "precheck", Redirected) \/ Ask(Person, "stop", NoVersion)
          \/ Ask(Person, "status", NoVersion)
      BY <2>1, Zenon DEF PersonAsks
    <3>2. QED BY <1>0, <3>1, RedirectedIs, Actors, AskRuns
  <2>2. CASE \E a \in Operators : CommandEnds(a)
    BY <2>2, CollectRuns DEF CommandEnds
  <2>3. QED BY <2>1, <2>2
<1>4. QED
  BY <1>0, <1>1, <1>2, <1>3, WorkStays, LockOrphaned DEF UInv

(* A command goes on, or what it works on changes by itself; the page may   *)
(* end with it.                                                            *)
LEMMA MachineKeeps ==
    ASSUME UInv, MachineStep
    PROVE  UInv' /\ Run
<1>0. WorkTyped /\ LockTyped /\ Aside /\ inst \in Install
  BY DEF UInv
<1>1. RuntimeNext
  BY DEF MachineStep, RuntimeNext, Surroundings
<1>2. /\ WebFollows /\ clean' = (clean /\ taken' = taken)
      /\ inst' = inst
      /\ UNCHANGED <<dir, host, newest, told, takeovers, updates, asks, releases, deaths>>
  BY Zenon DEF MachineStep
<1>3. clean' \in BOOLEAN
  BY <1>2, Zenon
<1>4. Aside'
  BY <1>0, <1>2, <1>3 DEF Aside
<1>5. WorkTyped' /\ LockTyped'
  <2>1. CASE /\ w' = [w EXCEPT ![Web] = Off]
             /\ uplock' = IF uplock # NoFile /\ uplock.by = Web
                          THEN [uplock EXCEPT !.by = Gone] ELSE uplock
    <3>1. Proceeds(Web)
      BY <2>1, OffMoves, Actors DEF Go
    <3>2. uplock' = uplock \/ (uplock # NoFile /\ uplock' = [uplock EXCEPT !.by = Gone])
      BY <2>1, Zenon
    <3>3. QED BY <1>0, <3>1, <3>2, MovesKeep, LockOrphaned, Actors
  <2>2. CASE w' = w /\ uplock' = uplock
    BY <1>0, <2>2, WorkStays, LockOrphaned
  <2>3. QED BY <1>2, <2>1, <2>2, Zenon DEF WebFollows
<1>6. QED
  BY <1>0, <1>1, <1>2, <1>4, <1>5 DEF UInv, Run

(* The program that switches is killed, or a release comes out. *)
LEMMA DeathKeeps ==
    ASSUME UInv, NEW a \in Switchers, SwitcherDies(a)
    PROVE  UInv' /\ Run
<1>0. WorkTyped /\ LockTyped /\ Aside /\ inst \in Install /\ a \in Lockers /\ a \in Operators
  BY Actors DEF UInv
<1>1. /\ inst' = inst /\ deaths' = deaths + 1 /\ Go(a, Off)
      /\ UNCHANGED <<dir, host, newest, told, clean, takeovers, updates, asks, releases>>
  BY Zenon DEF SwitcherDies
<1>2. uplock' = uplock \/ (uplock # NoFile /\ uplock' = [uplock EXCEPT !.by = Gone])
  BY Zenon DEF SwitcherDies
<1>3. KillOp(a) \/ UNCHANGED runtimeVars
  BY Zenon DEF SwitcherDies
<1>4. Run
  BY <1>0, <1>3 DEF Run, RuntimeNext, Surroundings
<1>5. Aside'
  BY <1>0, <1>1 DEF Aside
<1>6. WorkTyped' /\ LockTyped'
  BY <1>0, <1>1, <1>2, OffMoves, MovesKeep, LockOrphaned
<1>7. QED
  BY <1>0, <1>1, <1>4, <1>5, <1>6 DEF UInv

(* A release comes out. *)
LEMMA PublishKeeps ==
    ASSUME UInv, NEW v \in Versions, Publish(v)
    PROVE  UInv' /\ Run
<1>0. WorkTyped /\ LockTyped /\ Aside /\ inst \in Install
  BY DEF UInv
<1>1. /\ newest' = v /\ releases' = releases + 1 /\ w' = w /\ uplock' = uplock /\ inst' = inst
      /\ UNCHANGED <<dir, host, told, clean, takeovers, updates, asks, deaths>>
      /\ UNCHANGED runtimeVars
  BY Zenon DEF Publish
<1>2. Aside'
  BY <1>0, <1>1 DEF Aside
<1>3. QED
  BY <1>0, <1>1, <1>2, WorkStays, LockOrphaned DEF UInv, Run

-----------------------------------------------------------------------------
(* The specification                                                       *)

(* Nothing is updated yet. *)
LEMMA UpdateBegins ==
    ASSUME UpdateInit
    PROVE  RuntimeInit /\ UInv
<1>1. /\ inst = [packs |-> {}, current |-> NoVersion, previous |-> NoVersion]
      /\ dir = [v \in Versions |-> "none"] /\ uplock = NoFile
      /\ w = [a \in Lockers |-> Off] /\ host = 0 /\ newest \in Versions
      /\ told = [outcome |-> "none", from |-> NoVersion, to |-> NoVersion]
      /\ takeovers = 0 /\ updates = 0 /\ asks = 0 /\ releases = 0 /\ deaths = 0
  BY DEF UpdateInit
<1>2. clean \in BOOLEAN
  BY Zenon DEF UpdateInit
<1>3. Aside /\ LockTyped /\ inst \in Install
  BY <1>1, <1>2 DEF Aside, LockTyped, Install, MaybeVersion
<1>4. WorkTyped
  BY <1>1, OffIs DEF WorkTyped
<1>5. QED
  BY <1>3, <1>4 DEF UInv, UpdateInit

(* Every step of an update, and everything around it, is a step of the      *)
(* lifecycle or none.                                                      *)
LEMMA UpdateStepKeeps ==
    ASSUME UInv, RInv, [UpdateNext]_allVars
    PROVE  UInv' /\ Run
<1>1. CASE UpdateNext
  <2>1. CASE (\E p \in procs : StartUpdate(p)) \/ UpdateCommand \/ RollbackCommand
    BY <2>1, BeginKeeps
  <2>2. CASE \E a \in Lockers : LockerStep(a)
    BY <2>2, LockKeeps, StageKeeps DEF LockerStep
  <2>3. CASE Launch \/ LaunchFails
    BY <2>3, LaunchKeeps
  <2>4. CASE \E a \in Switchers : SwitcherStep(a) \/ SwitcherDies(a)
    BY <2>4, SwitchKeeps, DeathKeeps
  <2>5. CASE PersonAsks \/ \E a \in Operators : CommandEnds(a)
    BY <2>5, OthersKeep
  <2>6. CASE MachineStep \/ \E v \in Versions : Publish(v)
    BY <2>6, MachineKeeps, PublishKeeps
  <2>7. QED
    BY <1>1, <2>1, <2>2, <2>3, <2>4, <2>5, <2>6 DEF UpdateNext
<1>2. CASE UNCHANGED allVars
  <2>1. /\ w' = w /\ uplock' = uplock /\ inst' = inst /\ UNCHANGED runtimeVars
        /\ UNCHANGED <<dir, host, newest, told, clean, takeovers, updates, asks,
                       releases, deaths>>
    BY <1>2, Zenon DEF allVars, updateVars
  <2>2. WorkTyped' /\ LockTyped' /\ Aside'
    BY <2>1, WorkStays, LockOrphaned DEF UInv, Aside
  <2>3. QED BY <2>1, <2>2 DEF UInv, Run
<1>3. QED
  BY <1>1, <1>2

(* The invariants of both, for any number of components and releases and    *)
(* however often programs are killed.                                      *)
THEOREM UpdateInvariant == UpdateSpec => [](UInv /\ RInv /\ Carried)
<1>1. UpdateInit => UInv /\ RInv /\ Carried
  BY UpdateBegins, InitHolds
<1>2. UInv /\ RInv /\ Carried /\ [UpdateNext]_allVars => (UInv /\ RInv /\ Carried)'
  BY UpdateStepKeeps, StepKeeps, CarriedKeeps, StillKeeps DEF Run
<1>3. QED
  BY <1>1, <1>2, PTL DEF UpdateSpec

(* The state of an update has its types in every program that takes part    *)
(* (update/apply.py, service.py, cli.py, runtime/install.py).               *)
THEOREM UpdateTyped == UpdateSpec => []UpdateTypeOK
<1>1. UInv /\ RInv => UpdateTypeOK
  BY DEF UInv, RInv, UpdateTypeOK, WorkTyped, LockTyped, Aside
<1>2. QED
  BY <1>1, UpdateInvariant, PTL

(* The update drives the components only through the lifecycle: it          *)
(* implements it (apply.py 149-258 calls the runtime commands and nothing   *)
(* else).                                                                  *)
THEOREM UpdateImplementsRuntime == UpdateSpec => UpdateUsesRuntime
<1>1. UpdateInit => RuntimeInit
  BY UpdateBegins
<1>2. UInv /\ RInv /\ [UpdateNext]_allVars => [RuntimeNext]_runtimeVars
  BY UpdateStepKeeps DEF Run
<1>3. QED
  BY <1>1, <1>2, UpdateInvariant, PTL DEF UpdateSpec, UpdateUsesRuntime, RuntimeSpec

(* So no update, whatever interrupts it, loses sight of a component that    *)
(* runs.                                                                   *)
THEOREM UpdateKeepsRecords == UpdateSpec => KnownStaysKnown
BY UpdateImplementsRuntime, RecordsKept DEF UpdateUsesRuntime

(* And a component still runs at most once, and once more for each record   *)
(* that could not be written, however updates, their helpers and the       *)
(* commands of a person interleave and are killed.                         *)
THEOREM UpdateKeepsOne == UpdateSpec => []OneProcess
BY UpdateImplementsRuntime, OneAtMost DEF UpdateUsesRuntime

-----------------------------------------------------------------------------
(* Who is inside                                                           *)

(* Between the creation of update.lock and its removal. *)
Inner(a) == Locked(a) \/ w[a].pc = "write"

(* While update.lock was removed as a dead program's at most once, it is of *)
(* the program that is inside; before the first time, a program that is     *)
(* about to remove it has seen a dead one's, which nothing else removes.    *)
Alone ==
    takeovers < 2 =>
      /\ \A a \in Lockers : Inner(a) => uplock # NoFile /\ uplock.by = a
      /\ takeovers = 0 =>
           \A a \in Lockers : w[a].pc = "unlink" => uplock # NoFile /\ uplock.by = Gone

InnerPcs == StagePcs \cup SwitchPcs \cup {"failed", "unlock", "write"}

LEMMA InnerIs == \A a : Inner(a) <=> w[a].pc \in InnerPcs
BY DEF Inner, InnerPcs, Locked

(* Nobody else is inside. *)
LEMMA AloneIs ==
    ASSUME Alone, takeovers < 2, NEW a \in Lockers, Inner(a)
    PROVE  \A b \in Lockers : b # a => ~Inner(b)
BY DEF Alone

(* Where a step leaves a program, and the others as they were. *)
LEMMA GotoIs ==
    ASSUME WorkTyped, NEW a \in Lockers, NEW pc, Goto(a, pc)
    PROVE  /\ w'[a].pc = pc /\ w'[a].target = w[a].target /\ w'[a].fallback = w[a].fallback
           /\ w'[a].todo = w[a].todo /\ w'[a].snap = w[a].snap /\ w'[a].tries = w[a].tries
           /\ \A b \in Lockers : b # a => w'[b] = w[b]
BY DEF Goto, WorkTyped, Work

LEMMA GoIs ==
    ASSUME WorkTyped, NEW a \in Lockers, NEW r, Go(a, r)
    PROVE  w'[a] = r /\ \A b \in Lockers : b # a => w'[b] = w[b]
BY DEF Go, WorkTyped

(* The update of one program moves, and nobody comes in. *)
LEMMA AloneMoves ==
    ASSUME Alone, takeovers' = takeovers, uplock' = uplock, NEW a \in Lockers,
           \A b \in Lockers : b # a => w'[b] = w[b],
           w'[a].pc \in InnerPcs => w[a].pc \in InnerPcs,
           w'[a].pc = "unlink" => uplock # NoFile /\ uplock.by = Gone
    PROVE  Alone'
BY InnerIs DEF Alone, InnerPcs, Inner, Locked

(* A program is gone, and its file with its pid stays. *)
LEMMA AloneGone ==
    ASSUME Alone, LockTyped, takeovers' = takeovers, NEW a \in Lockers,
           uplock' = (IF uplock # NoFile /\ uplock.by = a THEN [uplock EXCEPT !.by = Gone]
                      ELSE uplock),
           \A b \in Lockers : b # a => w'[b] = w[b], w'[a] = Off
    PROVE  Alone'
<1>1. ~Inner(a)' /\ w'[a].pc # "unlink"
  BY OffIs DEF Inner, Locked, StagePcs, SwitchPcs
<1>2. ASSUME takeovers < 2
      PROVE  /\ \A b \in Lockers : Inner(b)' => uplock' # NoFile /\ uplock'.by = b
             /\ takeovers = 0 =>
                  \A b \in Lockers : w'[b].pc = "unlink" => uplock' # NoFile /\ uplock'.by = Gone
  <2>1. \A b \in Lockers : Inner(b)' => b # a /\ Inner(b)
    BY <1>1 DEF Inner, Locked
  <2>2. \A b \in Lockers : w'[b].pc = "unlink" => b # a /\ w[b].pc = "unlink"
    BY <1>1
  <2>3. CASE uplock # NoFile /\ uplock.by = a
    <3>1. uplock' = [uplock EXCEPT !.by = Gone]
          /\ uplock \in LockFile
      BY <2>3 DEF LockTyped
    <3>2. uplock'.by = Gone /\ uplock' # NoFile
      <4>1. uplock'.by = Gone /\ uplock' \in LockFile
        BY <3>1 DEF LockFile
      <4>2. QED BY <4>1, LockAssumption
    <3>3. \A b \in Lockers : ~Inner(b)'
      BY <1>2, <2>1, <2>3 DEF Alone
    <3>4. QED BY <3>2, <3>3
  <2>4. CASE ~(uplock # NoFile /\ uplock.by = a)
    <3>1. uplock' = uplock
      BY <2>4
    <3>2. QED BY <1>2, <2>1, <2>2, <3>1 DEF Alone
  <2>5. QED BY <2>3, <2>4
<1>3. QED
  BY <1>2 DEF Alone

(* The steps at update.lock. *)
LEMMA LockAlone ==
    ASSUME UInv, Alone, NEW a \in Lockers,
           \/ LockCreate(a) \/ LockWrite(a) \/ LockExists(a) \/ PeekAlive(a) \/ PeekDead(a)
           \/ LockUnlink(a) \/ Unlock(a)
    PROVE  Alone'
<1>0. WorkTyped /\ LockTyped /\ takeovers \in Nat
  BY DEF UInv, Aside
<1>0a. {"lock", "peek", "unlink", "off", "launch"} \cap InnerPcs = {}
       /\ {"exec", "todo", "write", "unlock", "failed"} \subseteq InnerPcs
  BY DEF InnerPcs, StagePcs, SwitchPcs
<1>1. CASE LockCreate(a)
  <2>1. /\ uplock = NoFile /\ uplock' = [by |-> a, said |-> FALSE] /\ Goto(a, "write")
        /\ takeovers' = takeovers
    BY <1>1, Zenon DEF LockCreate, Rest
  <2>2. /\ w'[a].pc = "write" /\ \A b \in Lockers : b # a => w'[b] = w[b]
    BY <1>0, <2>1, GotoIs
  <2>3. uplock' # NoFile /\ uplock'.by = a
    <3>1. uplock' \in LockFile /\ uplock'.by = a
      BY <2>1 DEF LockFile
    <3>2. QED BY <3>1, LockAssumption
  <2>4. QED BY <2>1, <2>2, <2>3 DEF Alone, Inner, Locked
<1>2. CASE LockWrite(a)
  <2>1. /\ w[a].pc = "write" /\ takeovers' = takeovers /\ Goto(a, Entered(a))
        /\ uplock' = IF uplock = [by |-> a, said |-> FALSE]
                     THEN [by |-> a, said |-> TRUE] ELSE uplock
    BY <1>2, Zenon DEF LockWrite, Rest
  <2>2. /\ w'[a].pc \in {"exec", "todo"} /\ \A b \in Lockers : b # a => w'[b] = w[b]
    BY <1>0, <2>1, GotoIs DEF Entered
  <2>3. CASE uplock = [by |-> a, said |-> FALSE]
    <3>1. uplock' \in LockFile /\ uplock'.by = a /\ uplock.by = a /\ a # Gone
      BY <2>1, <2>3, UpdateAssumption DEF LockFile
    <3>2. uplock' # NoFile
      BY <3>1, LockAssumption
    <3>3. \A b \in Lockers : Inner(b)' => b = a \/ Inner(b)
      BY <2>2 DEF Inner, Locked
    <3>4. \A b \in Lockers : w'[b].pc = "unlink" => w[b].pc = "unlink"
      BY <2>2
    <3>5. QED BY <2>1, <3>1, <3>2, <3>3, <3>4 DEF Alone
  <2>4. CASE uplock # [by |-> a, said |-> FALSE]
    <3>1. uplock' = uplock
      BY <2>1, <2>4
    <3>2. w'[a].pc # "unlink"
      BY <2>2
    <3>3. w[a].pc \in InnerPcs
      BY <1>0a, <2>1
    <3>4. QED BY <2>1, <2>2, <3>1, <3>2, <3>3, AloneMoves
  <2>5. QED BY <2>3, <2>4
<1>3. CASE LockExists(a) \/ PeekAlive(a)
  <2>1. /\ takeovers' = takeovers /\ uplock' = uplock /\ (Goto(a, "peek") \/ Go(a, Off))
    BY <1>3, Zenon DEF LockExists, PeekAlive, Rest
  <2>2. w'[a].pc \in {"peek", "off"} /\ \A b \in Lockers : b # a => w'[b] = w[b]
    BY <1>0, <2>1, GotoIs, GoIs, OffIs
  <2>3. w'[a].pc \notin InnerPcs /\ w'[a].pc # "unlink"
    BY <1>0a, <2>2
  <2>4. QED BY <2>1, <2>2, <2>3, AloneMoves
<1>4. CASE PeekDead(a)
  <2>1. /\ takeovers' = takeovers /\ uplock' = uplock /\ Goto(a, "unlink") /\ NamesDead
    BY <1>4, Zenon DEF PeekDead, Rest
  <2>2. w'[a].pc = "unlink" /\ \A b \in Lockers : b # a => w'[b] = w[b]
    BY <1>0, <2>1, GotoIs
  <2>3. w'[a].pc \notin InnerPcs /\ uplock # NoFile /\ uplock.by = Gone
    BY <1>0a, <2>1, <2>2 DEF NamesDead
  <2>4. QED BY <2>1, <2>2, <2>3, AloneMoves
<1>5. CASE LockUnlink(a)
  <2>1. w[a].pc = "unlink" /\ uplock' = NoFile /\ takeovers' = takeovers + 1
    BY <1>5, Zenon DEF LockUnlink
  <2>2. w'[a].pc \in {"off", "lock"} /\ \A b \in Lockers : b # a => w'[b] = w[b]
    <3>1. CASE Go(a, Off)
      BY <1>0, <3>1, GoIs, OffIs
    <3>2. CASE w' = [w EXCEPT ![a].pc = "lock", ![a].tries = 2]
      BY <1>0, <3>2 DEF WorkTyped, Work
    <3>3. QED BY <1>5, <3>1, <3>2 DEF LockUnlink
  <2>3. ASSUME takeovers' < 2, NEW b \in Lockers, Inner(b)'
        PROVE  FALSE
    <3>1. takeovers = 0
      BY <1>0, <2>1, <2>3
    <3>2. uplock # NoFile /\ uplock.by = Gone
      BY <2>1, <3>1 DEF Alone
    <3>3. b # a
      BY <1>0a, <2>2, <2>3, InnerIs DEF Inner, Locked, InnerPcs
    <3>4. Inner(b)
      BY <2>2, <2>3, <3>3 DEF Inner, Locked
    <3>5. uplock.by = b
      BY <3>1, <3>4 DEF Alone
    <3>6. QED BY <3>2, <3>5, UpdateAssumption
  <2>4. takeovers' # 0
    BY <1>0, <2>1
  <2>5. QED BY <2>3, <2>4 DEF Alone
<1>6. CASE Unlock(a)
  <2>1. /\ Inner(a) /\ takeovers' = takeovers
        /\ (Goto(a, "launch") \/ Go(a, Off))
    BY <1>6 DEF Unlock, Rest, Inner, Locked
  <2>2. w'[a].pc \in {"launch", "off"} /\ \A b \in Lockers : b # a => w'[b] = w[b]
    BY <1>0, <2>1, GotoIs, GoIs, OffIs
  <2>3. ASSUME takeovers < 2, NEW b \in Lockers
        PROVE  ~Inner(b)' /\ (takeovers = 0 => w'[b].pc # "unlink")
    <3>1. CASE b = a
      BY <1>0a, <2>2, <3>1 DEF Inner, Locked, InnerPcs
    <3>2. CASE b # a
      <4>1. ~Inner(b)
        BY <2>1, <2>3, <3>2, AloneIs
      <4>2. takeovers = 0 => w[b].pc # "unlink"
        BY <2>1, <2>3, UpdateAssumption DEF Alone
      <4>3. QED BY <2>2, <3>2, <4>1, <4>2 DEF Inner, Locked
    <3>3. QED BY <3>1, <3>2
  <2>4. QED BY <2>1, <2>3 DEF Alone
<1>7. QED
  BY <1>1, <1>2, <1>3, <1>4, <1>5, <1>6

-----------------------------------------------------------------------------
(* What an update leaves the pointer and the directories                   *)

(* The steps of a switch at which its versions have to stay, the ones       *)
(* between the read of the pointer and its save, and those at which the     *)
(* pointer names the new version.                                          *)
Careful == {"point1", "start1", "stop2", "sure2", "guard2", "point2", "start2"}
Pointing == {"point1", "point2"}
Forward == {"start1", "prune", "pruned", "stop2", "sure2", "guard2", "point2"}
Special == {"store", "start2"} \cup Careful \cup Pointing \cup Forward

Leaves(a) ==
    /\ w[a].pc = "store" => Item(a) \notin inst.packs
    /\ w[a].pc \in Careful => Whole(w[a].target) /\ Whole(w[a].fallback)
    /\ w[a].pc \in Pointing => w[a].snap = inst
    /\ w[a].pc = "pruned" =>
         /\ w[a].snap.current = inst.current
         /\ inst.current \in inst.packs => inst.current \in w[a].snap.packs
    /\ w[a].pc \in Forward => inst.current = w[a].target
    /\ w[a].pc = "start2" => inst.current = w[a].fallback

Pointer == inst.current # NoVersion => Whole(inst.current)

Settled == takeovers < 2 => Pointer /\ \A a \in Lockers : Leaves(a)

(* One program's update moves; it changes the pointer or a directory only   *)
(* from inside.                                                            *)
LEMMA SettledMoves ==
    ASSUME Alone, Settled, takeovers' < 2 => takeovers < 2, NEW a \in Lockers,
           \A b \in Lockers : b # a => w'[b] = w[b],
           Inner(a) \/ (inst' = inst /\ dir' = dir),
           takeovers < 2 => Pointer' /\ Leaves(a)'
    PROVE  Settled'
<1>1. ASSUME takeovers < 2, NEW b \in Lockers, b # a
      PROVE  Leaves(b)'
  <2>1. w'[b] = w[b] /\ Leaves(b)
    BY <1>1 DEF Settled
  <2>2. CASE Inner(a)
    <3>1. ~Inner(b)
      BY <1>1, <2>2, AloneIs
    <3>2. w'[b].pc \notin Special
      BY <2>1, <3>1, InnerIs DEF Special, InnerPcs, StagePcs, SwitchPcs, Careful, Pointing, Forward
    <3>3. QED BY <3>2 DEF Leaves, Special, Forward
  <2>3. CASE inst' = inst /\ dir' = dir
    BY <2>1, <2>3 DEF Leaves, Item, Whole
  <2>4. QED BY <2>2, <2>3
<1>2. QED
  BY <1>1 DEF Settled

(* A step that leaves the program where nothing special holds.             *)
LEMMA SettledPasses ==
    ASSUME Alone, Settled, takeovers' < 2 => takeovers < 2, NEW a \in Lockers,
           \A b \in Lockers : b # a => w'[b] = w[b],
           inst' = inst, dir' = dir, w'[a].pc \notin Special
    PROVE  Settled'
<1>1. takeovers < 2 => Pointer'
  BY DEF Settled, Pointer, Whole
<1>2. Leaves(a)'
  BY DEF Leaves, Special, Forward
<1>3. QED
  BY <1>1, <1>2, SettledMoves

(* Nothing here changes but other programs' standing outside. *)
LEMMA SettledStays ==
    ASSUME Settled, takeovers' < 2 => takeovers < 2, inst' = inst, dir' = dir,
           \A a \in Lockers : w'[a] = w[a] \/ w'[a].pc \notin Special
    PROVE  Settled'
<1>1. takeovers < 2 => Pointer'
  BY DEF Settled, Pointer, Whole
<1>2. ASSUME takeovers < 2, NEW a \in Lockers PROVE Leaves(a)'
  <2>1. CASE w'[a] = w[a]
    BY <1>2, <2>1 DEF Settled, Leaves, Item, Whole
  <2>2. CASE w'[a].pc \notin Special
    BY <2>2 DEF Leaves, Special, Forward
  <2>3. QED BY <2>1, <2>2
<1>3. QED
  BY <1>1, <1>2 DEF Settled

LEMMA SpecialIs ==
    /\ Special \cap {"off", "failed", "unlock", "launch", "restarting", "lock", "peek", "unlink",
                     "write", "todo", "exec", "stop1", "sure1", "guard1", "bail"} = {}
    /\ Special \subseteq InnerPcs
BY DEF Special, Careful, Pointing, Forward, InnerPcs, StagePcs, SwitchPcs

LEMMA LockSettled ==
    ASSUME UInv, Alone, Settled, NEW a \in Lockers,
           \/ LockCreate(a) \/ LockWrite(a) \/ LockExists(a) \/ PeekAlive(a) \/ PeekDead(a)
           \/ LockUnlink(a) \/ Unlock(a)
    PROVE  Settled'
<1>0. WorkTyped /\ takeovers \in Nat
  BY DEF UInv, Aside
<1>1. inst' = inst /\ dir' = dir
  BY Zenon DEF LockCreate, LockWrite, LockExists, PeekAlive, PeekDead, LockUnlink, Unlock, Rest
<1>2. takeovers' < 2 => takeovers < 2
  <2>1. takeovers' = takeovers \/ takeovers' = takeovers + 1
    BY Zenon DEF LockCreate, LockWrite, LockExists, PeekAlive, PeekDead, LockUnlink, Unlock, Rest
  <2>2. QED BY <1>0, <2>1
<1>3. (\A b \in Lockers : b # a => w'[b] = w[b]) /\ w'[a].pc \notin Special
  <2>1. CASE \/ LockCreate(a) \/ LockWrite(a) \/ LockExists(a) \/ PeekDead(a)
             \/ PeekAlive(a) \/ Unlock(a)
    <3>1. Go(a, Off) \/ \E pc \in {"write", "peek", "unlink", "launch", "todo", "exec"} :
                             Goto(a, pc)
      BY <2>1, Zenon DEF LockCreate, LockWrite, LockExists, PeekAlive, PeekDead, Unlock, Entered
    <3>2. CASE Go(a, Off)
      BY <1>0, <3>2, GoIs, OffIs, SpecialIs
    <3>3. CASE \E pc \in {"write", "peek", "unlink", "launch", "todo", "exec"} : Goto(a, pc)
      BY <1>0, <3>3, GotoIs, SpecialIs
    <3>4. QED BY <3>1, <3>2, <3>3
  <2>2. CASE LockUnlink(a)
    <3>1. CASE Go(a, Off)
      BY <1>0, <3>1, GoIs, OffIs, SpecialIs
    <3>2. CASE w' = [w EXCEPT ![a].pc = "lock", ![a].tries = 2]
      <4>1. w'[a].pc = "lock" /\ \A b \in Lockers : b # a => w'[b] = w[b]
        BY <1>0, <3>2 DEF WorkTyped, Work
      <4>2. QED BY <4>1, SpecialIs
    <3>3. QED BY <2>2, <3>1, <3>2 DEF LockUnlink
  <2>3. QED BY <2>1, <2>2
<1>4. QED
  BY <1>1, <1>2, <1>3, SettledPasses

(* An item of the list is worked off. *)
LEMMA WorkedIs ==
    ASSUME WorkTyped, NEW a \in Lockers, NEW rest, Go(a, Worked(a, rest))
    PROVE  /\ w'[a].pc \in {"todo", "failed", "unlock", "exec"}
           /\ \A b \in Lockers : b # a => w'[b] = w[b]
<1>1. w'[a] = Worked(a, rest) /\ \A b \in Lockers : b # a => w'[b] = w[b]
  BY GoIs
<1>2. w[a] \in Work
  BY WorkIs
<1>3. Worked(a, rest).pc \in {"todo", "failed", "unlock", "exec"}
  <2>1. CASE rest # <<>>
    BY <1>2, <2>1 DEF Worked, Work
  <2>2. CASE rest = <<>> /\ w[a].target = w[a].fallback
    BY <1>2, <2>2 DEF Worked, Work
  <2>3. CASE rest = <<>> /\ w[a].target # w[a].fallback /\ a = Web
    BY <1>2, <2>3 DEF Worked, Work
  <2>4. CASE rest = <<>> /\ w[a].target # w[a].fallback /\ a # Web
    BY <1>2, <2>4 DEF Worked, Work
  <2>5. QED BY <2>1, <2>2, <2>3, <2>4
<1>4. QED
  BY <1>1, <1>3

(* Staging: what it takes away again is in no record, so not the pointer's. *)
LEMMA StageSettled ==
    ASSUME UInv, Alone, Settled, NEW a \in Lockers,
           \/ StageHave(a) \/ StageCopy(a) \/ StageStore(a) \/ StageFails(a) \/ StoreFails(a)
    PROVE  Alone' /\ Settled'
<1>0. WorkTyped /\ inst \in Install /\ dir \in [Versions -> {"none", "whole", "torn"}]
  BY DEF UInv, Aside
<1>1. /\ uplock' = uplock /\ w[a].pc \in {"todo", "store"} /\ takeovers' = takeovers
  BY Zenon DEF StageHave, StageCopy, StageStore, StageFails, StoreFails, Rest
<1>2. w[a].pc \in InnerPcs /\ Inner(a) /\ w[a].pc # "off"
  BY <1>1, InnerIs DEF InnerPcs, StagePcs
<1>2a. Item(a) \in Versions
  BY <1>0, <1>2, ItemIs
<1>3. /\ \A b \in Lockers : b # a => w'[b] = w[b]
      /\ w'[a].pc \in {"store", "failed", "todo", "unlock", "exec"}
      /\ w'[a].pc = "store" => StageCopy(a) /\ w'[a].todo = w[a].todo
            /\ w'[a].target = w[a].target /\ w'[a].fallback = w[a].fallback
  <2>1. CASE StageHave(a) \/ StageStore(a)
    <3>1. Go(a, Worked(a, Tail(w[a].todo)))
      BY <2>1, Zenon DEF StageHave, StageStore
    <3>2. QED BY <1>0, <3>1, WorkedIs
  <2>2. CASE StageCopy(a)
    <3>1. Goto(a, "store")
      BY <2>2, Zenon DEF StageCopy
    <3>2. QED BY <1>0, <2>2, <3>1, GotoIs
  <2>3. CASE StageFails(a) \/ StoreFails(a)
    <3>1. Goto(a, "failed")
      BY <2>3, Zenon DEF StageFails, StoreFails
    <3>2. QED BY <1>0, <3>1, GotoIs
  <2>4. QED BY <2>1, <2>2, <2>3
<1>4. Alone'
  BY <1>1, <1>2, <1>3, AloneMoves
<1>5. ASSUME takeovers < 2
      PROVE  Pointer' /\ Leaves(a)'
  <2>1. Pointer /\ Leaves(a)
    BY <1>5 DEF Settled
  <2>2. CASE StageHave(a) \/ StageFails(a)
    <3>1. inst' = inst /\ dir' = dir
      BY <2>2, Zenon DEF StageHave, StageFails
    <3>2. w'[a].pc # "store"
      <4>1. CASE StageHave(a)
        <5>1. Go(a, Worked(a, Tail(w[a].todo)))
          BY <4>1, Zenon DEF StageHave
        <5>2. QED BY <1>0, <5>1, WorkedIs
      <4>2. CASE StageFails(a)
        <5>1. Goto(a, "failed")
          BY <4>2, Zenon DEF StageFails
        <5>2. QED BY <1>0, <5>1, GotoIs
      <4>3. QED BY <2>2, <4>1, <4>2
    <3>3. w'[a].pc \notin Special
      BY <1>3, <3>2, SpecialIs
    <3>4. QED BY <2>1, <3>1, <3>3 DEF Pointer, Whole, Leaves, Special, Forward
  <2>3. CASE StageCopy(a)
    <3>1. /\ Item(a) \notin inst.packs /\ dir' = [dir EXCEPT ![Item(a)] = "whole"]
          /\ inst' = inst /\ Goto(a, "store")
      BY <2>3, Zenon DEF StageCopy
    <3>2. Pointer'
      BY <1>0, <1>2a, <2>1, <3>1 DEF Pointer, Whole, Install, MaybeVersion
    <3>3. w'[a].pc = "store" /\ Item(a)' = Item(a)
      BY <1>0, <3>1, GotoIs DEF Item
    <3>4. QED BY <3>1, <3>2, <3>3 DEF Leaves, Careful, Pointing, Forward
  <2>4. CASE StageStore(a)
    <3>1. inst' = [inst EXCEPT !.packs = @ \cup {Item(a)}] /\ dir' = dir
          /\ Go(a, Worked(a, Tail(w[a].todo)))
      BY <2>4, Zenon DEF StageStore
    <3>2. Pointer'
      BY <1>0, <2>1, <3>1 DEF Pointer, Whole, Install
    <3>3. w'[a].pc \notin Special
      BY <1>0, <3>1, WorkedIs, SpecialIs
    <3>4. QED BY <3>2, <3>3 DEF Leaves, Special, Forward
  <2>5. CASE StoreFails(a)
    <3>1. /\ w[a].pc = "store" /\ dir' = [dir EXCEPT ![Item(a)] = "none"] /\ inst' = inst
          /\ Goto(a, "failed")
      BY <2>5, Zenon DEF StoreFails
    <3>2. Item(a) \notin inst.packs
      BY <2>1, <3>1 DEF Leaves
    <3>3. Pointer'
      BY <1>0, <1>2a, <2>1, <3>1, <3>2 DEF Pointer, Whole, Install
    <3>4. w'[a].pc \notin Special
      BY <1>0, <3>1, GotoIs, SpecialIs
    <3>5. QED BY <3>3, <3>4 DEF Leaves, Special, Forward
  <2>6. QED BY <2>2, <2>3, <2>4, <2>5
<1>6. QED
  BY <1>1, <1>2, <1>3, <1>4, <1>5, SettledMoves

(* A step of the switch stays inside, with the versions it has. *)
LEMMA SwitchGoes ==
    ASSUME UInv, NEW a \in Switchers, SwitcherStep(a)
    PROVE  /\ a \in Lockers /\ Inner(a) /\ w[a].pc \in SwitchPcs
           /\ w'[a].pc \in SwitchPcs \cup {"failed", "unlock"}
           /\ w'[a].target = w[a].target /\ w'[a].fallback = w[a].fallback
           /\ \A b \in Lockers : b # a => w'[b] = w[b]
           /\ uplock' = uplock /\ takeovers' = takeovers
<1>0. WorkTyped /\ a \in Lockers /\ w[a] \in Work /\ w \in [Lockers -> Work]
  BY Actors, WorkIs DEF UInv, WorkTyped
<1>1. w[a].pc \in SwitchPcs
  BY DEF SwitcherStep, SwitchBegin, SwitchUnknown, StopEnds, Guarded, GuardRaises,
     PointForward, PointBack, NewRuns, NewFails, NewStops, NewStopped, Finish, PruneDelete,
     PruneSave, SwitchPcs
<1>2. uplock' = uplock /\ takeovers' = takeovers
  BY Zenon DEF SwitcherStep, SwitchBegin, SwitchUnknown, StopEnds, Guarded, GuardRaises,
     PointForward, PointBack, NewRuns, NewFails, NewStops, NewStopped, Finish, PruneDelete,
     PruneSave, Rest
<1>3. Inner(a)
  BY <1>1, InnerIs DEF InnerPcs
<1>4. /\ w'[a].pc \in SwitchPcs \cup {"failed", "unlock"}
      /\ w'[a].target = w[a].target /\ w'[a].fallback = w[a].fallback
      /\ \A b \in Lockers : b # a => w'[b] = w[b]
  <2>1. CASE Guarded(a)
    <3>1. PICK pc \in {"point1", "point2"} : w' = [w EXCEPT ![a].pc = pc, ![a].snap = inst]
      BY <2>1 DEF Guarded
    <3>2. QED BY <1>0, <3>1 DEF Work, SwitchPcs
  <2>2. CASE PruneDelete(a)
    <3>1. PICK removed \in SUBSET Outdated :
             w' = [w EXCEPT ![a].pc = "pruned", ![a].snap = [inst EXCEPT !.packs = @ \ removed]]
      BY <2>2, Zenon DEF PruneDelete
    <3>2. PICK snap : w' = [w EXCEPT ![a].pc = "pruned", ![a].snap = snap]
      BY <3>1
    <3>3. QED BY <1>0, <3>2 DEF Work, SwitchPcs
  <2>3. CASE ~Guarded(a) /\ ~PruneDelete(a)
    <3>1. PICK pc \in SwitchPcs \cup {"failed", "unlock"} : Goto(a, pc)
      <4>1. CASE SwitchBegin(a) \/ NewFails(a) \/ NewStops(a) \/ NewStopped(a) \/ NewRuns(a)
        <5>1. {"stop1", "stop2", "sure2", "guard2", "prune"} \subseteq SwitchPcs
          BY DEF SwitchPcs
        <5>2. PICK pc \in {"stop1", "stop2", "sure2", "guard2", "prune"} : Goto(a, pc)
          BY <4>1, Zenon DEF SwitchBegin, NewFails, NewStops, NewStopped, NewRuns
        <5>3. QED BY <5>1, <5>2
      <4>2. CASE SwitchUnknown(a) \/ GuardRaises(a) \/ Finish(a) \/ PruneSave(a)
        <5>1. Goto(a, "failed") \/ Goto(a, "unlock")
          BY <4>2, Zenon DEF SwitchUnknown, GuardRaises, Finish, PruneSave
        <5>2. QED BY <5>1
      <4>3. CASE PointForward(a) \/ PointBack(a)
        <5>1. {"start1", "start2"} \subseteq SwitchPcs
          BY DEF SwitchPcs
        <5>2. PICK pc \in {"start1", "start2"} : Goto(a, pc)
          BY <4>3, Zenon DEF PointForward, PointBack
        <5>3. QED BY <5>1, <5>2
      <4>4. CASE StopEnds(a)
        <5>1. {"sure1", "guard1", "bail"} \subseteq SwitchPcs
          BY DEF SwitchPcs
        <5>2. PICK pc \in {"sure1", "guard1", "bail"} : Goto(a, pc)
          BY <4>4 DEF StopEnds
        <5>3. QED BY <5>1, <5>2
      <4>5. QED BY <2>3, <4>1, <4>2, <4>3, <4>4 DEF SwitcherStep
    <3>2. QED BY <1>0, <3>1, GotoIs
  <2>4. QED BY <2>1, <2>2, <2>3
<1>5. QED
  BY <1>0, <1>1, <1>2, <1>3, <1>4

LEMMA SwitchAlone ==
    ASSUME UInv, Alone, NEW a \in Switchers, SwitcherStep(a)
    PROVE  Alone'
<1>1. w[a].pc \in InnerPcs /\ w'[a].pc # "unlink"
  BY SwitchGoes DEF InnerPcs, SwitchPcs
<1>2. QED
  BY <1>1, SwitchGoes, AloneMoves

(* The pointer and the directories under the steps of a switch. *)
LEMMA SwitchSettled ==
    ASSUME UInv, Alone, Settled, NEW a \in Switchers, SwitcherStep(a)
    PROVE  Settled'
<1>0. /\ WorkTyped /\ a \in Lockers /\ w[a] \in Work /\ w \in [Lockers -> Work]
      /\ inst \in Install /\ w[a].snap \in Install
      /\ dir \in [Versions -> {"none", "whole", "torn"}]
  BY Actors, WorkIs DEF UInv, WorkTyped, Aside
<1>0a. w[a].target \in Versions /\ w[a].fallback \in Versions
  <2>1. w[a].pc # "off"
    BY SwitchGoes DEF SwitchPcs
  <2>2. QED BY <1>0, <2>1, WorkIs DEF Sound
<1>1. SUFFICES ASSUME takeovers < 2
               PROVE  Pointer' /\ Leaves(a)'
  BY SwitchGoes, SettledMoves
<1>2. Pointer /\ Leaves(a)
  BY <1>0, <1>1 DEF Settled
<1>3. CASE SwitchBegin(a) \/ SwitchUnknown(a) \/ StopEnds(a) \/ GuardRaises(a) \/ Finish(a)
  <2>1. inst' = inst /\ dir' = dir
    BY <1>3, Zenon DEF SwitchBegin, SwitchUnknown, StopEnds, GuardRaises, Finish
  <2>2. PICK pc \in {"stop1", "sure1", "guard1", "bail", "failed", "unlock"} : Goto(a, pc)
    <3>1. CASE StopEnds(a)
      BY <3>1 DEF StopEnds
    <3>2. CASE SwitchBegin(a) \/ SwitchUnknown(a) \/ GuardRaises(a) \/ Finish(a)
      BY <3>2, Zenon DEF SwitchBegin, SwitchUnknown, GuardRaises, Finish
    <3>3. QED BY <1>3, <3>1, <3>2
  <2>3. w'[a].pc \notin Special
    BY <1>0, <2>2, GotoIs, SpecialIs
  <2>4. QED BY <1>2, <2>1, <2>3 DEF Pointer, Whole, Leaves, Special, Forward
<1>4. CASE Guarded(a)
  <2>1. /\ w[a].pc \in {"guard1", "guard2"} /\ Whole(w[a].target) /\ Whole(w[a].fallback)
        /\ inst' = inst /\ dir' = dir
        /\ w' = [w EXCEPT ![a].pc = IF @ = "guard1" THEN "point1" ELSE "point2",
                          ![a].snap = inst]
    BY <1>4, Zenon DEF Guarded
  <2>2. /\ w'[a].pc = (IF w[a].pc = "guard1" THEN "point1" ELSE "point2")
        /\ w'[a].snap = inst /\ w'[a].target = w[a].target /\ w'[a].fallback = w[a].fallback
    BY <1>0, <2>1 DEF Work
  <2>3. w[a].pc = "guard2" => inst.current = w[a].target
    BY <1>2 DEF Leaves, Forward
  <2>4. QED BY <1>2, <2>1, <2>2, <2>3 DEF Pointer, Whole, Leaves, Careful, Pointing, Forward
<1>5. CASE PointForward(a) \/ PointBack(a)
  <2>1. /\ w[a].pc \in Pointing /\ dir' = dir
        /\ \/ /\ inst' = [w[a].snap EXCEPT !.current = w[a].target, !.previous = w[a].fallback]
              /\ Goto(a, "start1")
           \/ /\ inst' = [w[a].snap EXCEPT !.current = w[a].fallback, !.previous = w[a].target]
              /\ Goto(a, "start2")
    BY <1>5, Zenon DEF PointForward, PointBack, Pointing
  <2>2. w[a].snap = inst /\ Whole(w[a].target) /\ Whole(w[a].fallback)
    BY <1>2, <2>1 DEF Leaves, Careful, Pointing
  <2>3. inst'.packs = inst.packs /\ \A v : Whole(v) => Whole(v)'
    BY <1>0, <2>1, <2>2 DEF Whole, Install
  <2>4. CASE inst' = [w[a].snap EXCEPT !.current = w[a].target, !.previous = w[a].fallback]
             /\ Goto(a, "start1")
    <3>1. inst'.current = w[a].target
      BY <1>0, <2>4 DEF Install
    <3>2. w'[a].pc = "start1" /\ w'[a].target = w[a].target /\ w'[a].fallback = w[a].fallback
      BY <1>0, <2>4, GotoIs
    <3>3. Whole(w[a].target)' /\ Whole(w[a].fallback)' /\ Pointer'
      BY <2>1, <2>2, <2>3, <3>1, <3>2 DEF Pointer, Whole
    <3>4. QED BY <3>1, <3>2, <3>3 DEF Leaves, Pointing
  <2>5. CASE inst' = [w[a].snap EXCEPT !.current = w[a].fallback, !.previous = w[a].target]
             /\ Goto(a, "start2")
    <3>1. inst'.current = w[a].fallback
      BY <1>0, <2>5 DEF Install
    <3>2. w'[a].pc = "start2" /\ w'[a].target = w[a].target /\ w'[a].fallback = w[a].fallback
      BY <1>0, <2>5, GotoIs
    <3>3. Whole(w[a].target)' /\ Whole(w[a].fallback)' /\ Pointer'
      BY <2>1, <2>2, <2>3, <3>1, <3>2 DEF Pointer, Whole
    <3>4. QED BY <3>1, <3>2, <3>3 DEF Leaves, Pointing, Forward
  <2>6. QED BY <2>1, <2>4, <2>5
<1>6. CASE NewRuns(a) \/ NewFails(a) \/ NewStops(a) \/ NewStopped(a)
  <2>1. /\ inst' = inst /\ dir' = dir /\ w[a].pc \in {"start1", "stop2", "sure2"}
        /\ \E pc \in {"prune", "stop2", "sure2", "guard2"} : Goto(a, pc)
    BY <1>6, Zenon DEF NewRuns, NewFails, NewStops, NewStopped
  <2>2. /\ w'[a].pc \in {"prune", "stop2", "sure2", "guard2"}
        /\ w'[a].target = w[a].target /\ w'[a].fallback = w[a].fallback
    BY <1>0, <2>1, GotoIs
  <2>3. Whole(w[a].target) /\ Whole(w[a].fallback) /\ inst.current = w[a].target
    BY <1>2, <2>1 DEF Leaves, Careful, Forward
  <2>4. QED BY <1>2, <2>1, <2>2, <2>3 DEF Pointer, Whole, Leaves, Pointing
<1>7. CASE PruneDelete(a)
  <2>1. PICK removed \in SUBSET Outdated, torn \in SUBSET Outdated :
           /\ dir' = [v \in Versions |-> IF v \in removed THEN "none"
                                         ELSE IF v \in torn THEN "torn" ELSE dir[v]]
           /\ w' = [w EXCEPT ![a].pc = "pruned", ![a].snap = [inst EXCEPT !.packs = @ \ removed]]
           /\ inst' = inst /\ w[a].pc = "prune"
    BY <1>7 DEF PruneDelete
  <2>2. /\ inst.current \notin removed /\ inst.current \notin torn
    BY DEF Outdated
  <2>3. Pointer'
    <3>1. ASSUME inst.current # NoVersion
          PROVE  Whole(inst.current)'
      <4>1. inst.current \in inst.packs /\ inst.current \in Versions
            /\ dir[inst.current] = "whole"
        BY <1>0, <1>2, <3>1 DEF Pointer, Whole, Install
      <4>2. dir'[inst.current] = "whole"
        BY <2>1, <2>2, <4>1
      <4>3. QED BY <2>1, <4>1, <4>2 DEF Whole
    <3>2. QED BY <2>1, <3>1 DEF Pointer
  <2> DEFINE s == [inst EXCEPT !.packs = @ \ removed]
  <2>4. s.current = inst.current /\ s.packs = inst.packs \ removed
    BY <1>0 DEF Install
  <2>5. w' = [w EXCEPT ![a].pc = "pruned", ![a].snap = s]
    BY <2>1
  <2> HIDE DEF s
  <2>6. w'[a].pc = "pruned" /\ w'[a].snap = s /\ w'[a].target = w[a].target
    BY <1>0, <2>5 DEF Work
  <2>7. inst.current = w[a].target
    BY <1>2, <2>1 DEF Leaves, Forward
  <2>8. QED BY <2>1, <2>2, <2>3, <2>4, <2>6, <2>7 DEF Leaves, Careful, Pointing
<1>8. CASE PruneSave(a)
  <2>1. w[a].pc = "pruned" /\ inst' \in {inst, w[a].snap} /\ dir' = dir /\ Goto(a, "unlock")
    BY <1>8, Zenon DEF PruneSave
  <2>2. w'[a].pc \notin Special
    BY <1>0, <2>1, GotoIs, SpecialIs
  <2>3. w[a].snap.current = inst.current
        /\ (inst.current \in inst.packs => inst.current \in w[a].snap.packs)
    BY <1>2, <2>1 DEF Leaves
  <2>4. Pointer'
    BY <1>2, <2>1, <2>3 DEF Pointer, Whole
  <2>5. QED BY <2>2, <2>4 DEF Leaves, Special, Forward
<1>9. QED
  BY <1>3, <1>4, <1>5, <1>6, <1>7, <1>8 DEF SwitcherStep

(* Programs move outside, and the file stays. *)
LEMMA AloneStays ==
    ASSUME Alone, takeovers' = takeovers, uplock' = uplock,
           \A a \in Lockers : w'[a] = w[a] \/ w'[a].pc \notin InnerPcs \cup {"unlink"}
    PROVE  Alone'
<1>1. ASSUME NEW a \in Lockers
      PROVE  /\ Inner(a)' => Inner(a)
             /\ w'[a].pc = "unlink" => w[a].pc = "unlink"
  <2>1. CASE w'[a] = w[a]
    BY <2>1 DEF Inner, Locked
  <2>2. CASE w'[a].pc \notin InnerPcs \cup {"unlink"}
    BY <2>2 DEF Inner, Locked, InnerPcs
  <2>3. QED BY <2>1, <2>2
<1>2. QED
  BY <1>1 DEF Alone

Outside == {"off", "lock", "launch", "restarting"}

LEMMA OutsideIs == Outside \cap (InnerPcs \cup {"unlink"}) = {} /\ Outside \cap Special = {}
BY DEF Outside, InnerPcs, StagePcs, SwitchPcs, Special, Careful, Pointing, Forward

(* An update begins, the helper is launched, a release comes out, a person  *)
(* gives a command or a command ends.                                      *)
LEMMA OutsideStays ==
    ASSUME UInv, RInv, Alone, Settled,
           \/ \E p \in procs : StartUpdate(p)
           \/ UpdateCommand \/ RollbackCommand \/ Launch \/ LaunchFails \/ PersonAsks
           \/ \E a \in Operators : CommandEnds(a)
           \/ \E v \in Versions : Publish(v)
    PROVE  /\ Alone' /\ Settled'
           /\ \A a \in Lockers : w'[a] = w[a] \/ w'[a].pc \in Outside
<1>0. WorkTyped /\ inst \in Install /\ takeovers \in Nat
  BY DEF UInv, Aside
<1>1. /\ takeovers' = takeovers /\ uplock' = uplock /\ inst' = inst /\ dir' = dir
  BY Zenon DEF StartUpdate, UpdateCommand, RollbackCommand, Launch, LaunchFails, PersonAsks,
     CommandEnds, Publish, Rest, updateVars
<1>2. \A a \in Lockers : w'[a] = w[a] \/ w'[a].pc \in Outside
  <2>1. ASSUME NEW a \in Lockers, NEW todo, NEW target, NEW fallback,
               Go(a, Fresh(todo, target, fallback))
        PROVE  \A b \in Lockers : w'[b] = w[b] \/ w'[b].pc \in Outside
    <3>1. Fresh(todo, target, fallback).pc = "lock"
      BY DEF Fresh, Off
    <3>2. QED BY <1>0, <2>1, <3>1, GoIs DEF Outside
  <2>2. CASE (\E p \in procs : StartUpdate(p)) \/ UpdateCommand \/ RollbackCommand
    <3>1. PICK a \in {Web, Cli} : \E todo, target, fallback :
             Go(a, Fresh(todo, target, fallback))
      BY <2>2, Zenon DEF StartUpdate, UpdateCommand, RollbackCommand
    <3>2. QED BY <2>1, <3>1, Actors
  <2>3. CASE LaunchFails
    BY <1>0, <2>3, GoIs, OffIs, Actors DEF LaunchFails, Outside
  <2>4. CASE Launch
    <3> DEFINE r == Fresh(<<>>, w[Web].target, w[Web].fallback)
    <3>1. w' = [w EXCEPT ![Web].pc = "restarting", ![Helper] = r]
      BY <2>4, Zenon DEF Launch
    <3>2. r.pc = "lock"
      BY DEF Fresh, Off
    <3> HIDE DEF r
    <3>3. /\ w'[Web].pc = "restarting" /\ w'[Helper] = r
          /\ \A b \in Lockers : b # Web /\ b # Helper => w'[b] = w[b]
      BY <1>0, <3>1, Actors, UpdateAssumption DEF WorkTyped, Work
    <3>4. QED BY <3>2, <3>3 DEF Outside
  <2>5. CASE \/ PersonAsks \/ \E a \in Operators : CommandEnds(a)
             \/ \E v \in Versions : Publish(v)
    BY <2>5, Zenon DEF PersonAsks, CommandEnds, Publish, updateVars
  <2>6. QED BY <2>2, <2>3, <2>4, <2>5
<1>3. \A a \in Lockers : /\ w'[a] = w[a] \/ w'[a].pc \notin InnerPcs \cup {"unlink"}
                         /\ w'[a] = w[a] \/ w'[a].pc \notin Special
  BY <1>2, OutsideIs
<1>4. Alone'
  BY <1>1, <1>3, AloneStays
<1>5. Settled'
  BY <1>1, <1>3, SettledStays
<1>6. QED
  BY <1>2, <1>4, <1>5

(* A program is gone. *)
LEMMA GoneStays ==
    ASSUME UInv, Alone, Settled, NEW a \in Lockers, Go(a, Off),
           takeovers' = takeovers, inst' = inst, dir' = dir,
           uplock' = (IF uplock # NoFile /\ uplock.by = a THEN [uplock EXCEPT !.by = Gone]
                      ELSE uplock)
    PROVE  /\ Alone' /\ Settled'
           /\ \A b \in Lockers : w'[b] = w[b] \/ w'[b].pc \in Outside
<1>1. w'[a] = Off /\ \A b \in Lockers : b # a => w'[b] = w[b]
  BY GoIs DEF UInv
<1>2. Alone'
  BY <1>1, AloneGone DEF UInv
<1>3. w'[a].pc = "off" /\ "off" \in Outside
  BY <1>1, OffIs DEF Outside
<1>4. w'[a].pc \notin Special /\ (takeovers' < 2 => takeovers < 2)
  BY <1>3, OutsideIs
<1>5. Settled'
  BY <1>1, <1>4, SettledPasses
<1>6. QED
  BY <1>1, <1>2, <1>3, <1>5

(* What the machine does, and the death of a program. *)
LEMMA MachineStays ==
    ASSUME UInv, Alone, Settled, MachineStep \/ \E a \in Switchers : SwitcherDies(a)
    PROVE  /\ Alone' /\ Settled'
           /\ \A b \in Lockers : w'[b] = w[b] \/ w'[b].pc \in Outside
<1>1. CASE MachineStep
  <2>1. takeovers' = takeovers /\ inst' = inst /\ dir' = dir /\ WebFollows
    BY <1>1, Zenon DEF MachineStep
  <2>2. CASE w' = w /\ uplock' = uplock
    BY <2>1, <2>2, AloneStays, SettledStays
  <2>3. CASE ~(w' = w /\ uplock' = uplock)
    <3>1. /\ Go(Web, Off)
          /\ uplock' = (IF uplock # NoFile /\ uplock.by = Web
                        THEN [uplock EXCEPT !.by = Gone] ELSE uplock)
      BY <2>1, <2>3, Zenon DEF WebFollows, Go
    <3>2. QED BY <2>1, <3>1, GoneStays, Actors
  <2>4. QED BY <2>2, <2>3
<1>2. ASSUME NEW a \in Switchers, SwitcherDies(a)
      PROVE  /\ Alone' /\ Settled'
             /\ \A b \in Lockers : w'[b] = w[b] \/ w'[b].pc \in Outside
  <2>1. /\ takeovers' = takeovers /\ inst' = inst /\ dir' = dir /\ Go(a, Off)
        /\ uplock' = (IF uplock # NoFile /\ uplock.by = a
                      THEN [uplock EXCEPT !.by = Gone] ELSE uplock)
    BY <1>2, Zenon DEF SwitcherDies
  <2>2. QED BY <2>1, GoneStays, Actors
<1>3. QED
  BY <1>1, <1>2

(* Every step keeps who is inside, and what the pointer and the directories *)
(* are while updates are.                                                  *)
LEMMA SettledKept ==
    ASSUME UInv, RInv, Alone, Settled, [UpdateNext]_allVars
    PROVE  Alone' /\ Settled'
<1>1. CASE UpdateNext
  <2>1. CASE \E a \in Lockers : LockerStep(a)
    BY <2>1, LockAlone, LockSettled, StageSettled DEF LockerStep
  <2>2. CASE \E a \in Switchers : SwitcherStep(a)
    BY <2>2, SwitchAlone, SwitchSettled
  <2>3. CASE MachineStep \/ \E a \in Switchers : SwitcherDies(a)
    BY <2>3, MachineStays
  <2>4. CASE \/ \E p \in procs : StartUpdate(p)
             \/ UpdateCommand \/ RollbackCommand \/ Launch \/ LaunchFails \/ PersonAsks
             \/ \E a \in Operators : CommandEnds(a)
             \/ \E v \in Versions : Publish(v)
    BY <2>4, OutsideStays
  <2>5. QED BY <1>1, <2>1, <2>2, <2>3, <2>4 DEF UpdateNext
<1>2. CASE UNCHANGED allVars
  <2>1. w' = w /\ uplock' = uplock /\ inst' = inst /\ dir' = dir /\ takeovers' = takeovers
    BY <1>2, Zenon DEF allVars, updateVars
  <2>2. QED BY <2>1, AloneStays, SettledStays
<1>3. QED
  BY <1>1, <1>2

LEMMA SettledAtFirst ==
    ASSUME UpdateInit
    PROVE  Alone /\ Settled
<1>1. w = [a \in Lockers |-> Off] /\ inst.current = NoVersion
  BY DEF UpdateInit
<1>2. \A a \in Lockers : w[a].pc = "off"
  BY <1>1, OffIs
<1>3. \A a \in Lockers : ~Inner(a) /\ w[a].pc # "unlink" /\ Leaves(a)
  BY <1>2, OutsideIs, InnerIs DEF Outside, Leaves, Special, Forward
<1>4. QED
  BY <1>1, <1>3 DEF Alone, Settled, Pointer

(* Who is inside, and what the pointer and the directories are meanwhile,   *)
(* for any number of components and releases.                              *)
THEOREM UpdateSettled == UpdateSpec => [](Alone /\ Settled)
<1>1. UpdateInit => Alone /\ Settled
  BY SettledAtFirst
<1>2. UInv /\ RInv /\ Alone /\ Settled /\ [UpdateNext]_allVars => (Alone /\ Settled)'
  BY SettledKept
<1>3. QED
  BY <1>1, <1>2, UpdateInvariant, PTL DEF UpdateSpec

(* update.lock keeps switches apart, through every death of a program and   *)
(* one takeover from a dead one (update/apply.py 46-89).                    *)
THEOREM SwitchesApart == UpdateSpec => []OneUpdater
<1>1. ASSUME Alone, takeovers < 2
      PROVE  Cardinality(Holders) <= 1
  <2>1. \A a \in Holders : uplock.by = a
    BY <1>1 DEF Alone, Holders, Inner
  <2>2. CASE Holders = {}
    BY <2>2, FS_EmptySet
  <2>3. CASE Holders # {}
    <3>1. PICK a \in Holders : TRUE
      BY <2>3
    <3>2. Holders = {a}
      BY <2>1, <3>1
    <3>3. QED BY <3>2, FS_Singleton
  <2>4. QED BY <2>2, <2>3
<1>2. Alone => OneUpdater
  BY <1>1 DEF OneUpdater
<1>3. QED
  BY <1>2, UpdateSettled, PTL

(* As long as it does, the pointer names a version that is recorded and     *)
(* whole, wherever staging, switching and pruning are interrupted           *)
(* (update/apply.py 46-258, runtime/install.py): there is always a program  *)
(* to start.                                                               *)
THEOREM AlwaysRunnable == UpdateSpec => []PointerRunnable
<1>1. Settled => PointerRunnable
  BY DEF Settled, Pointer, PointerRunnable
<1>2. QED
  BY <1>1, UpdateSettled, PTL

(* From the moment the components are stopped, both versions of a switch    *)
(* stay installed and whole: the way back is open until it is over.        *)
THEOREM WayStaysOpen == UpdateSpec => []WayBack
<1>1. Settled => WayBack
  BY Actors DEF Settled, Leaves, Careful, WayBack
<1>2. QED
  BY <1>1, UpdateSettled, PTL

-----------------------------------------------------------------------------
(* What a switch knows of the components when nobody disturbs it           *)

(* What runs under its record is of one version. *)
RunsNow(v) == \A p \in procs : About(p.comp, p.id) => p.ver = v

(* No record names a process that lives. *)
AllFree == \A c \in Components : Free(c)

(* A status that found nothing so far, and at its end has looked at all.   *)
Looked(a) ==
    /\ op[a].kind = "status"
    /\ op[a].good => \A i \in 1..Len(Order) : i < op[a].at => Free(Order[i])
    /\ op[a].good /\ op[a].step = "done" => op[a].at > Len(Order)

(* A start of a version, where nothing else runs. *)
Started(a, v) ==
    /\ op[a].kind \in {"precheck", "start"} /\ op[a].ver = v
    /\ RunsNow(v)

Watched(a) ==
    /\ \A b \in Operators : b # a => op[b].kind = "none"
    /\ w[a].pc \in {"guard1", "guard2"} => Looked(a)
    /\ w[a].pc \in Pointing => AllFree
    /\ w[a].pc \in Pointing \cup {"prune", "pruned"} => op[a].kind = "none"
    /\ w[a].pc = "start1" => Started(a, w[a].target)
    /\ w[a].pc \in {"prune", "pruned"} => RunsNow(w[a].target)
    /\ w[a].pc = "start2" => Started(a, w[a].fallback)

Busy == SwitchPcs \ {"exec"}

(* While no other runtime command has run since a switch began, and         *)
(* update.lock keeps the switches apart, the switch knows what runs: what   *)
(* a good status found is still so, and a start starts its own version.    *)
Undisturbed ==
    takeovers < 2 /\ clean => \A a \in Switchers : w[a].pc \in Busy => Watched(a)

LEMMA StepOfSome ==
    ASSUME NEW a, OpStep(a)
    PROVE  op[a].kind # "none"
BY DEF OpStep, EnterBusy, EnterFree, StartPresent, StartRefused, StartSpawn, StartRecorded,
   StartUnrecorded, StartStable, StartUnstable, StopNothing, StopAsk, StopAskFails, StopEnded,
   StopTimeout, LookAt, LeaveLock, PreflightPassed, PreflightFailed

(* Another program's step leaves a switch what it knows. *)
LEMMA WatchedStays ==
    ASSUME NEW a \in Operators, Watched(a), w'[a] = w[a], op'[a] = op[a],
           procs' \subseteq procs, record' = record,
           \A b \in Operators : b # a => op'[b] = op[b] \/ op'[b].kind = "none"
    PROVE  Watched(a)'
<1>1. LiveIds' \subseteq LiveIds
  BY DEF LiveIds
<1>2. \A c \in Components : Free(c) => Free(c)'
  BY <1>1 DEF Free
<1>3. \A v : RunsNow(v) => RunsNow(v)'
  BY DEF RunsNow, About
<1>4. \A b \in Operators : b # a => op'[b].kind = "none"
  BY DEF Watched
<1>5. w'[a].pc \in {"guard1", "guard2"} => Looked(a)'
  <2>1. ASSUME Looked(a) PROVE Looked(a)'
    BY <1>2, <2>1, RuntimeAssumption DEF Looked
  <2>2. QED BY <2>1 DEF Watched
<1>6. w'[a].pc \in Pointing => AllFree'
  BY <1>2 DEF Watched, AllFree
<1>7. \A v : Started(a, v) => Started(a, v)'
  BY <1>3 DEF Started
<1>8. QED
  BY <1>3, <1>4, <1>5, <1>6, <1>7 DEF Watched

(* A status looks on. *)
LEMMA LookedStays ==
    ASSUME RInv, NEW a \in Operators, Looked(a), OpStep(a)
    PROVE  Looked(a)'
<1>1. /\ op \in [Operators -> Operation] /\ op[a] \in Operation /\ op[a].kind = "status"
      /\ op[a].at \in Nat
  BY Parts DEF RInv, RuntimeTypeOK, Looked
<1>2. EnterBusy(a) \/ EnterFree(a) \/ LookAt(a) \/ LeaveLock(a)
  BY <1>1 DEF OpStep, StartPresent, StartRefused, StartSpawn, StartRecorded,
     StartUnrecorded, StartStable, StartUnstable, StopNothing, StopAsk, StopAskFails, StopEnded,
     StopTimeout, PreflightPassed, PreflightFailed
<1>3. procs' = procs /\ record' = record
  BY <1>2, Zenon DEF EnterBusy, EnterFree, LookAt, LeaveLock
<1>4. \A c : Free(c) <=> Free(c)'
  BY <1>3 DEF Free, LiveIds
<1>5. CASE EnterBusy(a)
  <2>1. op' = [op EXCEPT ![a] = Over(op[a], FALSE)]
    BY <1>5, Zenon DEF EnterBusy
  <2>2. op'[a].kind = "status" /\ ~op'[a].good
    BY <1>1, <2>1 DEF Over, Operation
  <2>3. QED BY <2>2 DEF Looked
<1>6. CASE EnterFree(a)
  <2>1. op' = [op EXCEPT ![a].step = "scan"]
    BY <1>6, Zenon DEF EnterFree
  <2>2. op'[a] = [op[a] EXCEPT !.step = "scan"]
    BY <1>1, <2>1
  <2>3. /\ op'[a].kind = "status" /\ op'[a].good = op[a].good /\ op'[a].at = op[a].at
        /\ op'[a].step = "scan"
    BY <1>1, <2>2 DEF Operation
  <2>4. QED BY <1>4, <2>3 DEF Looked
<1>7. CASE LeaveLock(a)
  <2>1. /\ op' = [op EXCEPT ![a].step = IF op[a].kind = "precheck" THEN "leave" ELSE "done"]
        /\ ~More(a)
    BY <1>7, Zenon DEF LeaveLock
  <2>2. op'[a] = [op[a] EXCEPT !.step = "done"]
    BY <1>1, <2>1
  <2>3. /\ op'[a].kind = "status" /\ op'[a].good = op[a].good /\ op'[a].at = op[a].at
        /\ op'[a].step = "done"
    BY <1>1, <2>2 DEF Operation
  <2>4. op[a].at > Len(Order)
    BY <1>1, <2>1, RuntimeAssumption DEF More
  <2>5. QED BY <1>4, <2>3, <2>4 DEF Looked
<1>8. CASE LookAt(a)
  <2>1. /\ op' = [op EXCEPT ![a] = Further(op[a], op[a].good /\ Seen(At(a)) = "absent")]
        /\ More(a)
    BY <1>8, Zenon DEF LookAt, Onward
  <2>2. PICK g \in BOOLEAN : /\ op' = [op EXCEPT ![a] = Further(op[a], g)]
                             /\ g => op[a].good /\ Seen(At(a)) = "absent"
    BY <2>1, Zenon
  <2>3. /\ op'[a].kind = "status" /\ op'[a].good = g /\ op'[a].at = op[a].at + 1
        /\ op'[a].step = "scan"
    <3>1. op'[a] = Further(op[a], g)
      BY <1>1, <2>2
    <3>2. QED BY <1>1, <3>1 DEF Further, Operation
  <2>4. ASSUME g, NEW i \in 1..Len(Order), i < op[a].at + 1
        PROVE  Free(Order[i])'
    <3>1. CASE i < op[a].at
      BY <1>4, <2>2, <2>4, <3>1 DEF Looked
    <3>2. CASE i = op[a].at
      <4>1. At(a) = Order[i] /\ At(a) \in Components /\ Seen(At(a)) = "absent"
        BY <2>1, <2>2, <2>4, <3>2, AtIs DEF At, RInv
      <4>2. Free(At(a))
        BY <4>1 DEF Seen, Free, RInv, Naming
      <4>3. QED BY <1>4, <4>1, <4>2
    <3>3. QED BY <1>1, <2>4, <3>1, <3>2, RuntimeAssumption
  <2>5. QED BY <2>3, <2>4 DEF Looked
<1>9. QED
  BY <1>2, <1>5, <1>6, <1>7, <1>8

(* A start starts its own version. *)
LEMMA StartedStays ==
    ASSUME RInv, Versioned, NEW a \in Operators, NEW v, Started(a, v), OpStep(a)
    PROVE  Started(a, v)'
<1>1. PICK o \in Operation :
         /\ op' = [op EXCEPT ![a] = o] /\ o.ver = op[a].ver
         /\ o.kind = op[a].kind \/ (op[a].kind = "precheck" /\ o.kind = "start")
  BY OpGoes DEF Onwards, RInv
<1>2. op'[a].kind \in {"precheck", "start"} /\ op'[a].ver = v
  BY <1>1 DEF Started, RInv, RuntimeTypeOK
<1>3. op[a].kind \in {"precheck", "start"} /\ op[a].ver = v /\ RunsNow(v)
  BY DEF Started
<1>4. ASSUME NEW p \in procs', About(p.comp, p.id)'
      PROVE  p.ver = v
  <2>1. CASE StartSpawn(a)
    <3>1. record' = record
          /\ procs' = procs \cup {[id |-> spawned + 1, comp |-> At(a), ver |-> op[a].ver]}
      BY <2>1, Zenon DEF StartSpawn
    <3>2. CASE p \in procs
      BY <1>3, <1>4, <3>1, <3>2 DEF RunsNow, About
    <3>3. CASE p = [id |-> spawned + 1, comp |-> At(a), ver |-> op[a].ver]
      BY <1>3, <3>3
    <3>4. QED BY <3>1, <3>2, <3>3
  <2>2. CASE StartRecorded(a) \/ StartStable(a) \/ StartUnstable(a)
    <3>1. /\ op[a].step \in {"spawned", "saved"} /\ Inside(a) /\ procs' = procs
          /\ \E life \in Lives : Save(At(a), op[a].id, life)
      BY <2>2 DEF StartRecorded, StartStable, StartUnstable, Inside, Lives
    <3>2. At(a) \in Components /\ op[a].id \in Nat
      BY <3>1, AtIs, Parts DEF RInv, Naming
    <3>3. PICK life \in Lives : record' = [record EXCEPT ![At(a)] = [id |-> op[a].id, life |-> life]]
      BY <3>1 DEF Save
    <3>4. record \in [Components -> Record \cup {NoRecord}] /\ p \in procs /\ p.comp \in Components
      BY <3>1, <1>4, Parts DEF RInv, RuntimeTypeOK
    <3>5. CASE p.comp = At(a)
      <4>1. p.id = op[a].id
        BY <1>4, <3>2, <3>3, <3>4, <3>5 DEF About
      <4>2. CASE op[a].step = "spawned"
        BY <1>3, <3>1, <3>4, <4>1, <4>2 DEF Versioned
      <4>3. CASE op[a].step = "saved"
        <5>1. About(p.comp, p.id)
          BY <3>1, <3>5, <4>1, <4>3 DEF RInv, Naming
        <5>2. QED BY <1>3, <3>4, <5>1 DEF RunsNow
      <4>4. QED BY <3>1, <4>2, <4>3
    <3>6. CASE p.comp # At(a)
      BY <1>3, <1>4, <3>3, <3>4, <3>6 DEF RunsNow, About
    <3>7. QED BY <3>5, <3>6
  <2>3. CASE ~StartSpawn(a) /\ ~StartRecorded(a) /\ ~StartStable(a) /\ ~StartUnstable(a)
    <3>1. ~StopAskFails(a) /\ ~StopEnded(a) /\ ~StopTimeout(a)
      BY <1>3 DEF StopAskFails, StopEnded, StopTimeout
    <3>2. procs' = procs /\ record' = record
      BY <2>3, <3>1, Zenon DEF OpStep, EnterBusy, EnterFree, StartPresent, StartRefused,
         StartUnrecorded, StopNothing, StopAsk, LookAt, LeaveLock, PreflightPassed,
         PreflightFailed
    <3>3. QED BY <1>3, <1>4, <3>2 DEF RunsNow, About
  <2>4. QED BY <2>1, <2>2, <2>3
<1>5. QED
  BY <1>2, <1>4 DEF Started, RunsNow

(* Whoever is busy with a switch is inside. *)
LEMMA BusyIs ==
    /\ \A a \in Switchers : w[a].pc \in Busy => Inner(a)
    /\ Busy \cap (Outside \cup {"write", "peek", "unlink", "todo", "store", "exec", "failed",
                                "unlock"}) = {}
BY InnerIs DEF Busy, InnerPcs, SwitchPcs, Outside

(* A step that leaves the components and the commands alone, and puts       *)
(* programs nowhere in a switch.                                           *)
LEMMA UndisturbedStays ==
    ASSUME Undisturbed, takeovers' < 2 => takeovers < 2, clean' => clean,
           procs' = procs, record' = record, op' = op,
           \A a \in Switchers : w'[a] = w[a] \/ w'[a].pc \notin Busy
    PROVE  Undisturbed'
<1>1. ASSUME takeovers < 2, clean, NEW a \in Switchers, w'[a].pc \in Busy
      PROVE  Watched(a)'
  <2>1. Watched(a) /\ w'[a] = w[a] /\ a \in Operators
    BY <1>1, Actors DEF Undisturbed
  <2>2. QED BY <2>1, WatchedStays
<1>2. QED
  BY <1>1 DEF Undisturbed

(* The steps at update.lock and of staging. *)
LEMMA LockerUndisturbed ==
    ASSUME UInv, Undisturbed, NEW a \in Lockers, LockerStep(a)
    PROVE  Undisturbed'
<1>0. WorkTyped /\ takeovers \in Nat
  BY DEF UInv, Aside
<1>1. UNCHANGED runtimeVars /\ clean' = clean
  BY Zenon DEF LockerStep, LockCreate, LockWrite, LockExists, PeekAlive, PeekDead, LockUnlink,
     Unlock, StageHave, StageCopy, StageStore, StageFails, StoreFails
<1>2. takeovers' = takeovers \/ takeovers' = takeovers + 1
  BY Zenon DEF LockerStep, LockCreate, LockWrite, LockExists, PeekAlive, PeekDead, LockUnlink,
     Unlock, StageHave, StageCopy, StageStore, StageFails, StoreFails, Rest
<1>3. \A b \in Lockers : w'[b] = w[b] \/ w'[b].pc \notin Busy
  <2>1. CASE StageHave(a) \/ StageStore(a)
    <3>1. Go(a, Worked(a, Tail(w[a].todo)))
      BY <2>1, Zenon DEF StageHave, StageStore
    <3>2. QED BY <1>0, <3>1, WorkedIs, BusyIs
  <2>2. CASE \/ LockCreate(a) \/ LockWrite(a) \/ LockExists(a) \/ PeekAlive(a) \/ PeekDead(a)
             \/ Unlock(a) \/ StageCopy(a) \/ StageFails(a) \/ StoreFails(a)
    <3>1. Go(a, Off) \/ \E pc \in {"write", "peek", "unlink", "launch", "todo", "exec", "store",
                                   "failed"} : Goto(a, pc)
      BY <2>2, Zenon DEF LockCreate, LockWrite, LockExists, PeekAlive, PeekDead, Unlock, Entered,
         StageCopy, StageFails, StoreFails
    <3>2. CASE Go(a, Off)
      BY <1>0, <3>2, GoIs, OffIs, BusyIs DEF Outside
    <3>3. CASE \E pc \in {"write", "peek", "unlink", "launch", "todo", "exec", "store",
                          "failed"} : Goto(a, pc)
      BY <1>0, <3>3, GotoIs, BusyIs DEF Outside
    <3>4. QED BY <3>1, <3>2, <3>3
  <2>3. CASE LockUnlink(a)
    <3>1. CASE Go(a, Off)
      BY <1>0, <3>1, GoIs, OffIs, BusyIs DEF Outside
    <3>2. CASE w' = [w EXCEPT ![a].pc = "lock", ![a].tries = 2]
      <4>1. w'[a].pc = "lock" /\ \A b \in Lockers : b # a => w'[b] = w[b]
        BY <1>0, <3>2 DEF WorkTyped, Work
      <4>2. QED BY <4>1, BusyIs DEF Outside
    <3>3. QED BY <2>3, <3>1, <3>2 DEF LockUnlink
  <2>4. QED BY <2>1, <2>2, <2>3 DEF LockerStep
<1>4. takeovers' < 2 => takeovers < 2
  BY <1>0, <1>2
<1>5. procs' = procs /\ record' = record /\ op' = op
  BY <1>1 DEF runtimeVars
<1>6. QED
  BY <1>1, <1>3, <1>4, <1>5, Actors, UndisturbedStays

(* An update begins, the helper is launched, a release comes out, a person  *)
(* gives a command or a command ends.                                      *)
LEMMA OutsideUndisturbed ==
    ASSUME UInv, RInv, Alone, Settled, Undisturbed,
           \/ \E p \in procs : StartUpdate(p)
           \/ UpdateCommand \/ RollbackCommand \/ Launch \/ LaunchFails \/ PersonAsks
           \/ \E a \in Operators : CommandEnds(a)
           \/ \E v \in Versions : Publish(v)
    PROVE  Undisturbed'
<1>1. \A a \in Switchers : w'[a] = w[a] \/ w'[a].pc \notin Busy
  BY OutsideStays, BusyIs, Actors
<1>2. takeovers' = takeovers
  BY Zenon DEF StartUpdate, UpdateCommand, RollbackCommand, Launch, LaunchFails, PersonAsks,
     CommandEnds, Publish, Rest, updateVars
<1>3. CASE PersonAsks
  <2>1. clean' = FALSE
    BY <1>3, Zenon DEF PersonAsks
  <2>2. QED BY <2>1 DEF Undisturbed
<1>4. ASSUME NEW c \in Operators, CommandEnds(c)
      PROVE  Undisturbed'
  <2>1. /\ procs' = procs /\ record' = record /\ clean' = clean /\ w' = w
        /\ op' = [op EXCEPT ![c] = Idle] /\ (c \in Switchers => w[c].pc = "off")
    BY <1>4, Zenon DEF CommandEnds, Collect, updateVars
  <2>2. op \in [Operators -> Operation] /\ Idle.kind = "none"
    BY DEF RInv, RuntimeTypeOK, Idle, Begun
  <2>3. op'[c].kind = "none" /\ \A b \in Operators : b # c => op'[b] = op[b]
    BY <2>1, <2>2
  <2>4. ASSUME takeovers < 2, clean, NEW a \in Switchers, w'[a].pc \in Busy
        PROVE  Watched(a)'
    <3>1. Watched(a) /\ a # c /\ a \in Operators
      BY <2>1, <2>4, BusyIs, Actors DEF Undisturbed, Outside
    <3>2. QED BY <2>1, <2>3, <3>1, WatchedStays
  <2>5. QED BY <1>2, <2>1, <2>4 DEF Undisturbed
<1>5. CASE \/ \E p \in procs : StartUpdate(p)
           \/ UpdateCommand \/ RollbackCommand \/ Launch \/ LaunchFails
           \/ \E v \in Versions : Publish(v)
  <2>1. UNCHANGED runtimeVars /\ clean' = clean
    BY <1>5, Zenon DEF StartUpdate, UpdateCommand, RollbackCommand, Launch, LaunchFails, Publish
  <2>2. procs' = procs /\ record' = record /\ op' = op
    BY <2>1 DEF runtimeVars
  <2>3. QED BY <1>1, <1>2, <2>1, <2>2, UndisturbedStays
<1>6. QED
  BY <1>3, <1>4, <1>5

(* A program of another switch is killed: it has no command that runs.     *)
LEMMA DeathUndisturbed ==
    ASSUME UInv, Undisturbed, NEW c \in Switchers, SwitcherDies(c)
    PROVE  Undisturbed'
<1>1. takeovers' = takeovers /\ clean' = clean /\ Go(c, Off)
  BY Zenon DEF SwitcherDies
<1>2. w'[c] = Off /\ \A b \in Lockers : b # c => w'[b] = w[b]
  BY <1>1, GoIs, Actors DEF UInv
<1>3. w'[c].pc \notin Busy
  BY <1>2, OffIs, BusyIs DEF Outside
<1>4. ASSUME takeovers < 2, clean, NEW a \in Switchers, w'[a].pc \in Busy
      PROVE  Watched(a)'
  <2>1. a # c /\ w'[a] = w[a] /\ Watched(a) /\ a \in Operators /\ c \in Operators
    BY <1>2, <1>3, <1>4, Actors DEF Undisturbed
  <2>2. op[c].kind = "none"
    BY <2>1 DEF Watched
  <2>3. UNCHANGED runtimeVars
    BY <2>2 DEF SwitcherDies
  <2>4. procs' = procs /\ record' = record /\ op' = op
    BY <2>3 DEF runtimeVars
  <2>5. QED BY <2>1, <2>4, WatchedStays
<1>5. QED
  BY <1>1, <1>4 DEF Undisturbed

(* The command of the switch itself goes on, or is killed, or a component   *)
(* ends.                                                                   *)
LEMMA MachineUndisturbed ==
    ASSUME UInv, RInv, Versioned, Undisturbed, MachineStep
    PROVE  Undisturbed'
<1>1. takeovers' = takeovers /\ (clean' => clean) /\ WebFollows
  BY Zenon DEF MachineStep
<1>2. \A b \in Switchers : w'[b] = w[b]
  <2>1. w' = w \/ Go(Web, Off)
    BY <1>1, Zenon DEF WebFollows, Go
  <2>2. CASE Go(Web, Off)
    BY <2>2, GoIs, Actors, UpdateAssumption DEF UInv, Switchers
  <2>3. QED BY <2>1, <2>2
<1>3. ASSUME takeovers < 2, clean, NEW a \in Switchers, w'[a].pc \in Busy
      PROVE  Watched(a)'
  <2>1. Watched(a) /\ w'[a] = w[a] /\ a \in Operators /\ a # Person
    BY <1>2, <1>3, Actors, UpdateAssumption DEF Undisturbed, Switchers
  <2>2. op \in [Operators -> Operation]
    BY DEF RInv, RuntimeTypeOK
  <2>3. ASSUME NEW c \in Operators, OpStep(c)
        PROVE  Watched(a)'
    <3>1. c = a
      BY <2>1, <2>3, StepOfSome DEF Watched
    <3>2. PICK o : op' = [op EXCEPT ![a] = o]
      BY <2>3, <3>1, OpGoes DEF Onwards, RInv
    <3>3. \A b \in Operators : b # a => op'[b] = op[b]
      BY <2>2, <3>2
    <3>4. Looked(a) => Looked(a)'
      BY <2>1, <2>3, <3>1, LookedStays
    <3>5. \A v : Started(a, v) => Started(a, v)'
      BY <2>1, <2>3, <3>1, StartedStays
    <3>6. op[a].kind # "none"
      BY <2>3, <3>1, StepOfSome
    <3>7. QED BY <2>1, <3>3, <3>4, <3>5, <3>6 DEF Watched
  <2>4. ASSUME NEW c \in Operators, c = Person \/ op[c].kind \in {"precheck", "start"}, KillOp(c)
        PROVE  Watched(a)'
    <3>1. op[c].kind # "none"
      BY <2>4 DEF KillOp
    <3>2. c = a
      BY <2>1, <3>1 DEF Watched
    <3>3. /\ op' = [op EXCEPT ![a] = Over(op[a], FALSE)] /\ procs' = procs /\ record' = record
          /\ op[a].kind \in {"precheck", "start"}
      BY <2>1, <2>4, <3>2 DEF KillOp
    <3>4. /\ op'[a].kind = op[a].kind /\ op'[a].ver = op[a].ver
          /\ \A b \in Operators : b # a => op'[b] = op[b]
      BY <2>1, <2>2, <3>3 DEF Over, Operation
    <3>5. \A v : Started(a, v) => Started(a, v)'
      BY <3>3, <3>4 DEF Started, RunsNow, About
    <3>6. ~Looked(a)
      BY <3>3 DEF Looked
    <3>7. QED BY <2>1, <3>1, <3>2, <3>4, <3>5, <3>6 DEF Watched
  <2>5. ASSUME (\E p \in procs : ProcessExits(p)) \/ (\E i \in 1..spawned : PidTaken(i))
        PROVE  Watched(a)'
    <3>1. op' = op /\ procs' \subseteq procs /\ record' = record
      BY <2>5 DEF ProcessExits, PidTaken
    <3>2. QED BY <2>1, <3>1, WatchedStays
  <2>6. QED BY <2>3, <2>4, <2>5 DEF MachineStep
<1>4. QED
  BY <1>1, <1>3 DEF Undisturbed

(* A command the switch gives, and the result it takes. *)
LEMMA AskIs ==
    ASSUME RInv, NEW a \in Operators, NEW kind, NEW v, Ask(a, kind, v)
    PROVE  /\ op'[a].kind = kind /\ op'[a].ver = v /\ op'[a].step = "enter" /\ op'[a].at = 1
           /\ \A b \in Operators : b # a => op'[b] = op[b]
           /\ procs' = procs /\ record' = record
<1>1. op' = [op EXCEPT ![a] = Begun(kind, v)] /\ procs' = procs /\ record' = record
  BY Zenon DEF Ask
<1>2. op \in [Operators -> Operation]
  BY DEF RInv, RuntimeTypeOK
<1>3. op'[a] = Begun(kind, v) /\ \A b \in Operators : b # a => op'[b] = op[b]
  BY <1>1, <1>2
<1>4. QED
  BY <1>1, <1>3 DEF Begun

LEMMA CollectIs ==
    ASSUME RInv, NEW a \in Operators, Collect(a)
    PROVE  /\ op'[a].kind = "none"
           /\ \A b \in Operators : b # a => op'[b] = op[b]
           /\ procs' = procs /\ record' = record
<1>1. op' = [op EXCEPT ![a] = Idle] /\ procs' = procs /\ record' = record
  BY Zenon DEF Collect
<1>2. op \in [Operators -> Operation]
  BY DEF RInv, RuntimeTypeOK
<1>3. op'[a] = Idle /\ \A b \in Operators : b # a => op'[b] = op[b]
  BY <1>1, <1>2
<1>4. QED
  BY <1>1, <1>3 DEF Idle, Begun

(* What the record names stays what it is. *)
LEMMA SameRuns ==
    ASSUME procs' = procs, record' = record
    PROVE  /\ AllFree => AllFree'
           /\ \A v : RunsNow(v) => RunsNow(v)'
<1>1. LiveIds' = LiveIds
  BY DEF LiveIds
<1>2. \A c \in Components : Free(c) => Free(c)'
  BY <1>1 DEF Free
<1>3. \A v : RunsNow(v) => RunsNow(v)'
  BY DEF RunsNow, About
<1>4. QED
  BY <1>2, <1>3 DEF AllFree

(* Where all records are free nothing runs under one. *)
LEMMA FreeRuns ==
    ASSUME RInv, AllFree, NEW v
    PROVE  RunsNow(v)
BY Parts DEF RInv, AllFree, Free, RunsNow, About, LiveIds

(* A status that ended well has found no component. *)
LEMMA LookedAll ==
    ASSUME RInv, NEW a \in Operators, Looked(a), op[a].good, op[a].step = "done"
    PROVE  AllFree
<1>1. op[a].at > Len(Order) /\ op[a].at \in Nat /\ Len(Order) \in Nat
  BY Parts, RuntimeAssumption DEF Looked, RInv
<1>2. \A i \in 1..Len(Order) : Free(Order[i])
  BY <1>1 DEF Looked
<1>3. QED
  BY <1>2, RuntimeAssumption DEF AllFree

(* The steps of a switch. *)
LEMMA SwitchUndisturbed ==
    ASSUME UInv, RInv, Alone, Settled, Undisturbed, NEW a \in Switchers, SwitcherStep(a)
    PROVE  Undisturbed'
<1>0. /\ a \in Lockers /\ a \in Operators /\ Inner(a) /\ w[a].pc \in SwitchPcs
      /\ w'[a].target = w[a].target /\ w'[a].fallback = w[a].fallback
      /\ \A b \in Lockers : b # a => w'[b] = w[b]
      /\ takeovers' = takeovers /\ WorkTyped
      /\ w[a] \in Work /\ w \in [Lockers -> Work]
  BY SwitchGoes, Actors, WorkIs DEF UInv, WorkTyped
<1>1. SUFFICES ASSUME takeovers < 2, clean', w'[a].pc \in Busy
               PROVE  Watched(a)'
  <2>1. ASSUME takeovers < 2, NEW b \in Switchers, b # a
        PROVE  w'[b].pc \notin Busy
    <3>1. ~Inner(b) /\ w'[b] = w[b]
      BY <1>0, <2>1, AloneIs, Actors
    <3>2. QED BY <2>1, <3>1, BusyIs
  <2>2. QED BY <1>0, <2>1, <1>1 DEF Undisturbed
<1>2. CASE SwitchBegin(a)
  <2>1. /\ Ask(a, "stop", NoVersion) /\ Goto(a, "stop1")
        /\ clean' = \A b \in Operators \ {a} : op[b].kind = "none"
    BY <1>2, Zenon DEF SwitchBegin
  <2>2. w'[a].pc = "stop1"
    BY <1>0, <2>1, GotoIs
  <2>3. \A b \in Operators : b # a => op[b].kind = "none"
    BY <1>1, <2>1
  <2>4. \A b \in Operators : b # a => op'[b].kind = "none"
    BY <1>0, <2>1, <2>3, AskIs
  <2>5. QED BY <2>2, <2>4 DEF Watched, Pointing
<1>3. CASE ~SwitchBegin(a)
  <2>0. w[a].pc # "exec" \/ SwitchUnknown(a)
    BY <1>3 DEF SwitcherStep, StopEnds, Guarded, GuardRaises,
       PointForward, PointBack, NewRuns, NewFails, NewStops, NewStopped, Finish, PruneDelete,
       PruneSave
  <2>0a. ~SwitchUnknown(a) /\ ~GuardRaises(a) /\ ~Finish(a) /\ ~PruneSave(a)
    <3>1. CASE SwitchUnknown(a) \/ GuardRaises(a) \/ Finish(a) \/ PruneSave(a)
      <4>1. Goto(a, "failed") \/ Goto(a, "unlock")
        BY <3>1, Zenon DEF SwitchUnknown, GuardRaises, Finish, PruneSave
      <4>2. QED BY <1>0, <1>1, <4>1, GotoIs, BusyIs
    <3>2. QED BY <3>1
  <2>1. clean
    <3>1. clean' = clean
      BY <1>3, Zenon DEF SwitcherStep, SwitchUnknown, StopEnds, Guarded, GuardRaises,
         PointForward, PointBack, NewRuns, NewFails, NewStops, NewStopped, Finish, PruneDelete,
         PruneSave
    <3>2. QED BY <1>1, <3>1
  <2>2. Watched(a)
    BY <1>0, <1>1, <2>0, <2>0a, <2>1 DEF Undisturbed, Busy
  <2>3. \A b \in Operators : b # a => op[b].kind = "none"
    BY <2>2 DEF Watched
  <2>4. CASE StopEnds(a) \/ NewStopped(a)
    <3>1. \/ \E pc \in {"sure1", "guard1", "guard2"} :
                Goto(a, pc) /\ Ask(a, "status", NoVersion)
          \/ Goto(a, "bail") /\ Ask(a, "precheck", w[a].fallback)
      BY <2>4 DEF StopEnds, NewStopped
    <3>2. CASE Goto(a, "bail") /\ Ask(a, "precheck", w[a].fallback)
      <4>1. w'[a].pc = "bail" /\ \A b \in Operators : b # a => op'[b].kind = "none"
        BY <1>0, <2>3, <3>2, GotoIs, AskIs
      <4>2. QED BY <4>1 DEF Watched, Pointing
    <3>3. ASSUME NEW pc \in {"sure1", "guard1", "guard2"}, Goto(a, pc),
                 Ask(a, "status", NoVersion)
          PROVE  Watched(a)'
      <4>1. /\ w'[a].pc = pc /\ op'[a].kind = "status" /\ op'[a].step = "enter" /\ op'[a].at = 1
            /\ \A b \in Operators : b # a => op'[b].kind = "none"
        BY <1>0, <2>3, <3>3, GotoIs, AskIs
      <4>2. Looked(a)'
        BY <4>1 DEF Looked
      <4>3. QED BY <4>1, <4>2 DEF Watched, Pointing
    <3>4. QED BY <3>1, <3>2, <3>3
  <2>5. CASE NewFails(a) \/ NewStops(a)
    <3>1. \E pc \in {"stop2", "sure2"} : \E kind : Goto(a, pc) /\ Ask(a, kind, NoVersion)
      BY <2>5, Zenon DEF NewFails, NewStops
    <3>2. PICK pc \in {"stop2", "sure2"} : \E kind : Goto(a, pc) /\ Ask(a, kind, NoVersion)
      BY <3>1
    <3>3. w'[a].pc = pc /\ \A b \in Operators : b # a => op'[b].kind = "none"
      BY <1>0, <2>3, <3>2, GotoIs, AskIs
    <3>4. QED BY <3>3 DEF Watched, Pointing
  <2>6. CASE Guarded(a)
    <3>1. /\ w[a].pc \in {"guard1", "guard2"} /\ op[a].step = "done" /\ op[a].good /\ Collect(a)
          /\ w' = [w EXCEPT ![a].pc = IF @ = "guard1" THEN "point1" ELSE "point2",
                            ![a].snap = inst]
      BY <2>6, Zenon DEF Guarded, Ended
    <3>2. w'[a].pc \in Pointing
      BY <1>0, <3>1 DEF Work, Pointing
    <3>3. AllFree
      BY <1>0, <2>2, <3>1, LookedAll DEF Watched
    <3>4. /\ op'[a].kind = "none" /\ procs' = procs /\ record' = record
          /\ \A b \in Operators : b # a => op'[b].kind = "none"
      BY <1>0, <2>3, <3>1, CollectIs
    <3>5. AllFree'
      BY <3>3, <3>4, SameRuns
    <3>6. QED BY <3>2, <3>4, <3>5 DEF Watched, Pointing
  <2>7. CASE PointForward(a) \/ PointBack(a)
    <3>1. /\ w[a].pc \in Pointing
          /\ \/ Goto(a, "start1") /\ Ask(a, "precheck", w[a].target)
             \/ Goto(a, "start2") /\ Ask(a, "precheck", w[a].fallback)
      BY <2>7, Zenon DEF PointForward, PointBack, Pointing
    <3>2. AllFree
      BY <2>2, <3>1 DEF Watched
    <3>3. PICK pc, v :
             /\ pc \in {"start1", "start2"}
             /\ Goto(a, pc) /\ Ask(a, "precheck", v)
             /\ v = IF pc = "start1" THEN w[a].target ELSE w[a].fallback
      BY <3>1
    <3>4. /\ w'[a].pc = pc /\ op'[a].kind = "precheck" /\ op'[a].ver = v
          /\ procs' = procs /\ record' = record
          /\ \A b \in Operators : b # a => op'[b].kind = "none"
      BY <1>0, <2>3, <3>3, GotoIs, AskIs
    <3>5. RunsNow(v)'
      BY <3>2, <3>4, FreeRuns, SameRuns
    <3>6. Started(a, v)'
      BY <3>4, <3>5 DEF Started
    <3>7. QED BY <1>0, <3>3, <3>4, <3>6 DEF Watched, Pointing
  <2>8. CASE NewRuns(a)
    <3>1. w[a].pc = "start1" /\ Goto(a, "prune") /\ Collect(a)
      BY <2>8, Zenon DEF NewRuns
    <3>2. /\ w'[a].pc = "prune" /\ op'[a].kind = "none" /\ procs' = procs /\ record' = record
          /\ \A b \in Operators : b # a => op'[b].kind = "none"
      BY <1>0, <2>3, <3>1, GotoIs, CollectIs
    <3>3. RunsNow(w[a].target)
      BY <2>2, <3>1 DEF Watched, Started
    <3>4. PICK v : v = w[a].target
      OBVIOUS
    <3>5. RunsNow(v)'
      BY <3>2, <3>3, <3>4, SameRuns
    <3>6. QED BY <1>0, <3>2, <3>4, <3>5 DEF Watched, Pointing
  <2>9. CASE PruneDelete(a)
    <3>1. w[a].pc = "prune" /\ UNCHANGED runtimeVars
          /\ \E removed \in SUBSET Outdated :
                w' = [w EXCEPT ![a].pc = "pruned", ![a].snap = [inst EXCEPT !.packs = @ \ removed]]
      BY <2>9, Zenon DEF PruneDelete
    <3>2. PICK snap : w' = [w EXCEPT ![a].pc = "pruned", ![a].snap = snap]
      BY <3>1
    <3>3. /\ w'[a].pc = "pruned" /\ procs' = procs /\ record' = record /\ op' = op
          /\ op[a].kind = "none"
      BY <1>0, <2>2, <3>1, <3>2 DEF Work, runtimeVars, Watched
    <3>4. RunsNow(w[a].target)
      BY <2>2, <3>1 DEF Watched
    <3>5. PICK v : v = w[a].target
      OBVIOUS
    <3>6. RunsNow(v)'
      BY <3>3, <3>4, <3>5, SameRuns
    <3>7. QED BY <1>0, <2>3, <3>3, <3>5, <3>6 DEF Watched, Pointing
  <2>10. QED
    BY <1>3, <2>0a, <2>4, <2>5, <2>6, <2>7, <2>8, <2>9 DEF SwitcherStep
<1>4. QED
  BY <1>2, <1>3


LEMMA UndisturbedKept ==
    ASSUME UInv, RInv, Versioned, Alone, Settled, Undisturbed, [UpdateNext]_allVars
    PROVE  Undisturbed'
<1>1. CASE UpdateNext
  <2>1. CASE \E a \in Lockers : LockerStep(a)
    BY <2>1, LockerUndisturbed
  <2>2. CASE \E a \in Switchers : SwitcherStep(a)
    BY <2>2, SwitchUndisturbed
  <2>3. CASE \E a \in Switchers : SwitcherDies(a)
    BY <2>3, DeathUndisturbed
  <2>4. CASE MachineStep
    BY <2>4, MachineUndisturbed
  <2>5. CASE \/ \E p \in procs : StartUpdate(p)
             \/ UpdateCommand \/ RollbackCommand \/ Launch \/ LaunchFails \/ PersonAsks
             \/ \E a \in Operators : CommandEnds(a)
             \/ \E v \in Versions : Publish(v)
    BY <2>5, OutsideUndisturbed
  <2>6. QED BY <1>1, <2>1, <2>2, <2>3, <2>4, <2>5 DEF UpdateNext
<1>2. CASE UNCHANGED allVars
  <2>1. /\ w' = w /\ takeovers' = takeovers /\ clean' = clean
        /\ procs' = procs /\ record' = record /\ op' = op
    BY <1>2, Zenon DEF allVars, updateVars, runtimeVars
  <2>2. QED BY <2>1, UndisturbedStays
<1>3. QED
  BY <1>1, <1>2

(* What a switch that nobody disturbs knows of the components is so.        *)
THEOREM UpdateWatched == UpdateSpec => []Undisturbed
<1>1. UpdateInit => Undisturbed
  BY DEF UpdateInit, Undisturbed
<1>2. UInv /\ RInv /\ Versioned /\ Alone /\ Settled /\ Undisturbed /\ [UpdateNext]_allVars
        => Undisturbed'
  BY UndisturbedKept
<1>3. UpdateSpec => []Versioned
  BY UpdateImplementsRuntime, RuntimeVersioned DEF UpdateUsesRuntime
<1>4. QED
  BY <1>1, <1>2, <1>3, UpdateInvariant, UpdateSettled, PTL DEF UpdateSpec

(* Only the end of a switch writes a result. *)
LEMMA OnlySwitchTells ==
    ASSUME UpdateNext, told' # told
    PROVE  \E a \in Switchers : Finish(a) \/ PruneSave(a)
<1>1. ASSUME NEW a \in Lockers, LockerStep(a)
      PROVE  told' = told
  BY <1>1, Zenon DEF LockerStep, LockCreate, LockWrite, LockExists, PeekAlive, PeekDead,
     LockUnlink, Unlock, StageHave, StageCopy, StageStore, StageFails, StoreFails
<1>2. ASSUME NEW a \in Switchers, SwitcherStep(a), ~Finish(a), ~PruneSave(a)
      PROVE  told' = told
  BY <1>2, Zenon DEF SwitcherStep, SwitchBegin, SwitchUnknown, StopEnds, Guarded, GuardRaises,
     PointForward, PointBack, NewRuns, NewFails, NewStops, NewStopped, PruneDelete
<1>3. ASSUME NEW a \in Switchers, SwitcherDies(a)
      PROVE  told' = told
  BY <1>3, Zenon DEF SwitcherDies
<1>4. ASSUME MachineStep \/ Launch \/ LaunchFails
      PROVE  told' = told
  BY <1>4, Zenon DEF MachineStep, Launch, LaunchFails
<1>5. ASSUME UpdateCommand \/ RollbackCommand \/ PersonAsks
      PROVE  told' = told
  BY <1>5, Zenon DEF UpdateCommand, RollbackCommand, PersonAsks
<1>6. ASSUME (\E p \in procs : StartUpdate(p)) \/ (\E v \in Versions : Publish(v))
      PROVE  told' = told
  BY <1>6, Zenon DEF StartUpdate, Publish
<1>7. ASSUME NEW a \in Operators, CommandEnds(a)
      PROVE  told' = told
  BY <1>7, Zenon DEF CommandEnds, updateVars
<1>8. QED
  BY <1>1, <1>2, <1>3, <1>4, <1>5, <1>6, <1>7 DEF UpdateNext

(* The end of a switch that nobody disturbed tells the truth. *)
LEMMA FinishTells ==
    ASSUME RInv, Settled, Undisturbed, takeovers < 2, clean, NEW a \in Switchers, Finish(a)
    PROVE  /\ told'.outcome # "updated"
           /\ told'.outcome = "rolled_back" => inst'.current = told'.from /\ Runs(told'.from)
<1>1. /\ inst' = inst /\ Collect(a)
      /\ \/ Tell(a, "failed")
         \/ w[a].pc = "start2" /\ Tell(a, "rolled_back")
  BY Zenon DEF Finish
<1>2. CASE Tell(a, "failed")
  BY <1>2 DEF Tell
<1>3. CASE w[a].pc = "start2" /\ Tell(a, "rolled_back")
  <2>1. told'.outcome = "rolled_back" /\ told'.from = w[a].fallback
    BY <1>3 DEF Tell
  <2>2. inst.current = w[a].fallback
    BY <1>3, Actors DEF Settled, Leaves
  <2>3. RunsNow(w[a].fallback)
    BY <1>3 DEF Undisturbed, Busy, SwitchPcs, Watched, Started
  <2>4. procs' = procs /\ record' = record
    BY <1>1, Actors, CollectIs
  <2>5. Runs(told'.from)
    BY <2>1, <2>3, <2>4 DEF Runs, RunsNow, About
  <2>6. QED BY <1>1, <2>1, <2>2, <2>5
<1>4. QED
  BY <1>1, <1>2, <1>3

LEMMA PruneTells ==
    ASSUME Settled, Undisturbed, takeovers < 2, clean, NEW a \in Switchers, PruneSave(a)
    PROVE  /\ told'.outcome = "updated" /\ inst'.current = told'.to /\ Runs(told'.to)
<1>1. /\ w[a].pc = "pruned" /\ inst' \in {inst, w[a].snap} /\ Tell(a, "updated")
      /\ procs' = procs /\ record' = record
  BY Zenon DEF PruneSave, runtimeVars
<1>2. told'.outcome = "updated" /\ told'.to = w[a].target
  BY <1>1 DEF Tell
<1>3. inst.current = w[a].target /\ w[a].snap.current = inst.current
  BY <1>1, Actors DEF Settled, Leaves, Forward
<1>4. inst'.current = w[a].target
  BY <1>1, <1>3
<1>5. RunsNow(w[a].target)
  BY <1>1 DEF Undisturbed, Busy, SwitchPcs, Watched
<1>6. Runs(told'.to)
  BY <1>1, <1>2, <1>5 DEF Runs, RunsNow, About
<1>7. QED
  BY <1>2, <1>4, <1>6

(* What update.json says is so when it is written: the pointer names the    *)
(* version that was reached, and every recorded component that lives is of  *)
(* that version, if no other runtime command ran since the switch began    *)
(* (update/apply.py 149-258).                                              *)
THEOREM ResultsAreTrue == UpdateSpec => RecordTells
<1>1. ASSUME RInv, Settled, Undisturbed, UpdateNext, told' # told, clean, takeovers < 2
      PROVE  /\ told'.outcome = "updated" => inst'.current = told'.to /\ Runs(told'.to)
             /\ told'.outcome = "rolled_back" => inst'.current = told'.from /\ Runs(told'.from)
  <2>1. PICK a \in Switchers : Finish(a) \/ PruneSave(a)
    BY <1>1, OnlySwitchTells
  <2>2. CASE Finish(a)
    BY <1>1, <2>2, FinishTells
  <2>3. CASE PruneSave(a)
    BY <1>1, <2>3, PruneTells
  <2>4. QED BY <2>1, <2>2, <2>3
<1>2. UNCHANGED allVars => told' = told
  BY Zenon DEF allVars, updateVars
<1>3. RInv /\ Settled /\ Undisturbed /\ [UpdateNext]_allVars =>
        [told' # told /\ clean /\ takeovers < 2 =>
            /\ told'.outcome = "updated" => inst'.current = told'.to /\ Runs(told'.to)
            /\ told'.outcome = "rolled_back" => inst'.current = told'.from /\ Runs(told'.from)
        ]_allVars
  BY <1>1, <1>2
<1>4. QED
  BY <1>3, UpdateInvariant, UpdateSettled, UpdateWatched, PTL DEF UpdateSpec, RecordTells

=============================================================================
