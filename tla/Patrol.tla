------------------------------- MODULE Patrol -------------------------------
(***************************************************************************)
(* How the patrol of one computer watches services, confirms that one is    *)
(* down, has the Agent look for the reason, proposes a repair and, when the *)
(* owner has allowed it, approves it in the owner's place.                  *)
(*                                                                         *)
(* A round of observation awaits only while it probes entries; the handler  *)
(* of a confirmed outage is a task of its own that awaits at the points     *)
(* named in Phase.  Every action is what happens between two awaits, and a  *)
(* request of the owner is one step.                                       *)
(*                                                                         *)
(* Left out: texts, ports and conversations, except which conversation a    *)
(* repair belongs to; records of earlier versions of the program; which     *)
(* Windows services the owner lets the Agent start and stop; the change of  *)
(* the day, which frees the investigations; errors other than those of the  *)
(* planner and of an execution.                                            *)
(***************************************************************************)
EXTENDS Naturals, FiniteSets

CONSTANTS
  Services,       \* service keys
  KindOf,         \* the kind of each service
  Mine,           \* services the owner has marked as his own
  Overlap,        \* FALSE when nothing else runs while a round awaits its probes
  ConfirmRounds,  \* PATROL_CONFIRM_ROUNDS
  RecoverRounds,  \* PATROL_RECOVER_ROUNDS
  Stable,         \* PATROL_STABLE_SECONDS
  StaleDown,      \* PATROL_STALE_DOWN_SECONDS
  AskCooldown,    \* PATROL_INVESTIGATION_COOLDOWN_SECONDS
  FixCooldown,    \* PATROL_AUTO_REPAIR_COOLDOWN_SECONDS
  DailyAsks,      \* PATROL_DAILY_INVESTIGATIONS
  MaxTime,        \* bound: rounds that begin
  MaxWords,       \* bound: what the owner does on the page
  MaxRestarts     \* bound: restarts of the program

\* "agent" stands for background services of macOS and Windows, "script" for
\* scripts and programs, "plain" for what no kind of repair is made for.
Kinds == {"container", "agent", "script", "plain"}

ASSUME PatrolAssumption ==
  /\ KindOf \in [Services -> Kinds]
  /\ Mine \subseteq Services
  /\ Overlap \in BOOLEAN
  /\ ConfirmRounds \in Nat \ {0}
  /\ RecoverRounds \in Nat \ {0}
  /\ {Stable, StaleDown, AskCooldown, FixCooldown} \subseteq Nat
  /\ {DailyAsks, MaxTime, MaxWords, MaxRestarts} \subseteq Nat

VARIABLES
  store,    \* the patrol_services table
  streak,   \* rounds in a row, kept in memory
  round,    \* the round that awaits its probes, with the rows it has read
  task,     \* the handler of each service's outage, with what it holds
  repairs,  \* unfinished repairs of the services
  now,      \* the clock, in rounds
  asks,     \* investigations taken today
  words,    \* how often the owner has acted
  restarts, \* how often the program has been restarted
  past      \* history: what the properties remember

vars == <<store, streak, round, task, repairs, now, asks, words, restarts, past>>

-----------------------------------------------------------------------------
(* Records.                                                                *)

Time == Nat
Reasons == {"none", "exited", "closed", "failed", "stuck"}
RepairKinds == {"restart", "relaunch", "unstick"}

\* A row: whether it exists, whether the service was seen running and since
\* when, whether that was long enough to watch it, its status, the conversation
\* about its outage (0: none), when the outage was confirmed, when it was last
\* investigated and last repaired automatically, and the owner's switches.
\* The clock starts at Stable + 1, so 0 is a time that has not been set.
Record == [row : BOOLEAN, seen : BOOLEAN, since : Time, sure : BOOLEAN,
           status : {"ok", "suspect", "down", "ack"}, reason : Reasons,
           told : Time, confirmed : Time, asked : Time, fixed : Time,
           auto : BOOLEAN, unstick : BOOLEAN, paused : BOOLEAN]

NoRow == [row |-> FALSE, seen |-> FALSE, since |-> 0, sure |-> FALSE,
          status |-> "ok", reason |-> "none",
          told |-> 0, confirmed |-> 0, asked |-> 0, fixed |-> 0,
          auto |-> FALSE, unstick |-> FALSE, paused |-> FALSE]

NoStreak == [bad |-> 0, good |-> 0]

\* Where the handler of an outage awaits: its first turn, the lock around
\* investigations, the Agent, the planner, the execution of a repair.
Phase == {"none", "start", "queue", "ask", "plan", "fix"}

\* A handler: the record it holds, the kind of repair it chose at the start,
\* the time it read before it waited for the lock, the kind it has approved.
NoTask == [phase |-> "none", rec |-> NoRow, kind |-> "none", at |-> 0, fix |-> "none"]

\* What a round can see of a service: it answers; it answers and its process is
\* older than Stable; its process is there but a port that used to answer is
\* silent, or refuses connections; its page shows errors; its ports are not the
\* remembered ones; it has stopped; or it is not on the map.
Sights == {"up", "long", "silent", "refused", "errors", "moved", "stopped", "gone"}

\* A round that awaits its probes holds the rows it has read and knows which
\* services the map no longer shows as the owner's.
NoRound == [on |-> FALSE, rows |-> [s \in Services |-> NoRow], hidden |-> {}]

\* What the owner last said of the switches, whether a round has dropped the row
\* since then although its handler was at work, whether the owner has said that
\* the outage of the row there is is intended, whether he has removed the
\* service, whether its last automatic repair failed and when it began, and how
\* many rounds in a row, of those that looked at it, have seen it abnormal.
NoPast == [auto |-> FALSE, unstick |-> FALSE, lost |-> FALSE, meant |-> FALSE,
           removed |-> FALSE, failed |-> FALSE, fixed |-> 0, bad |-> 0]

\* The row of a service is dropped by a round.
Dropped(s) == [past[s] EXCEPT !.meant = FALSE, !.failed = FALSE, !.fixed = 0,
                              !.lost = @ \/ task[s].phase # "none"]

Init ==
  /\ store = [s \in Services |-> NoRow]
  /\ streak = [s \in Services |-> NoStreak]
  /\ round = NoRound
  /\ task = [s \in Services |-> NoTask]
  /\ repairs = {}
  /\ now = Stable + 1
  /\ asks = 0
  /\ words = 0
  /\ restarts = 0
  /\ past = [s \in Services |-> NoPast]

-----------------------------------------------------------------------------
(* One round: observe_once, _step and _unwatched.                          *)

\* classify: the reason a service counts as abnormal, "none" if it is normal.
\* A silent port is a reason to call it stuck only if it has answered before,
\* and a refused one only if it was stuck already.
Reason(r, sight) ==
  CASE sight = "gone"              -> "closed"
    [] sight = "stopped"           -> "exited"
    [] sight = "moved" /\ r.seen   -> "closed"
    [] sight = "errors"            -> "failed"
    [] sight = "silent"            -> IF r.seen THEN "stuck" ELSE "failed"
    [] sight = "refused" /\ r.reason = "stuck" /\ r.status # "ok" -> "stuck"
    [] OTHER                       -> "none"

\* An unfinished repair of the service, whoever has proposed it.
Repairing(s) == \E q \in repairs : q.service = s

\* The owner wants to hear of the service, or it has run for long.
Watched(s, r) == r.sure \/ s \in Mine \/ r.auto

\* A script or program nobody cares for has been down for long.
Stale(s, r) ==
  /\ r.status = "down"
  /\ r.reason = "exited" /\ KindOf[s] \in {"script", "plain"}
  /\ s \notin Mine /\ ~r.auto
  /\ r.confirmed # 0 /\ now - r.confirmed >= StaleDown
  /\ ~Repairing(s)

\* The outage is over, or was none.
Cleared(r) == [r EXCEPT !.status = "ok", !.reason = "none", !.confirmed = 0]

\* What a round makes of one service: its row and streak afterwards, and
\* whether its outage was confirmed or the service forgotten.
Outcome(r, bad, good, end) == [rec |-> r, bad |-> bad, good |-> good, end |-> end]

\* Streaks are counted up to where they stop mattering.
Upto(limit, n) == IF n > limit THEN limit ELSE n

\* Mistake: a round that sees the service well does not end the streak of bad ones.
HealthyAtLast(r, k, sight) ==
  LET since == IF r.since # 0 /\ r.since < now THEN r.since ELSE now
  IN  Outcome([Cleared(r) EXCEPT !.seen = TRUE, !.since = since,
                                 !.sure = @ \/ now - since >= Stable],
              k.bad, Upto(RecoverRounds, k.good + 1), "none")

Healthy(r, k, sight) ==
  LET started == IF sight = "long" THEN now - Stable ELSE now
      since == IF r.since # 0 /\ r.since < started THEN r.since ELSE started
      over == \/ r.status \in {"suspect", "ack"}
              \/ r.status = "down" /\ k.good + 1 >= RecoverRounds
      up == [r EXCEPT !.seen = TRUE, !.since = since,
                      !.sure = @ \/ now - since >= Stable]
  IN  Outcome(IF over THEN Cleared(up) ELSE up, 0, Upto(RecoverRounds, k.good + 1), "none")

Unwatched(s, r, k, sight) ==
  LET bad == IF sight = "stopped" /\ KindOf[s] # "container"
             THEN Upto(ConfirmRounds, k.bad + 1) ELSE 0
  IN  IF sight = "gone" \/ (bad >= ConfirmRounds /\ ~Repairing(s))
      THEN Outcome(r, 0, 0, "forgotten")
      ELSE Outcome([Cleared(r) EXCEPT !.since = IF sight = "stopped" THEN 0 ELSE @],
                   bad, 0, "none")

\* Mistake: an outage the owner calls intended is suspected again.
AbnormalAgain(s, r, k, reason) ==
  LET bad == Upto(ConfirmRounds, k.bad + 1)
  IN  IF ~r.seen \/ r.status = "down"
      THEN Outcome(r, k.bad, 0, "none")
      ELSE IF bad >= ConfirmRounds
           THEN Outcome([r EXCEPT !.status = "down", !.reason = reason,
                                  !.confirmed = now, !.told = 0], bad, 0, "confirmed")
           ELSE Outcome([r EXCEPT !.status = "suspect", !.reason = reason], bad, 0, "none")

Abnormal(s, r, k, reason) ==
  LET bad == Upto(ConfirmRounds, k.bad + 1)
  IN  CASE ~r.seen -> Outcome(r, k.bad, 0, "none")
        [] r.seen /\ Stale(s, r) -> Outcome([r EXCEPT !.status = "ack"], 0, 0, "none")
        [] r.seen /\ ~Stale(s, r) /\ r.status \in {"down", "ack"} ->
             Outcome(r, k.bad, 0, "none")
        [] OTHER ->
             IF bad >= ConfirmRounds
             THEN Outcome([r EXCEPT !.status = "down", !.reason = reason,
                                    !.confirmed = now, !.told = 0], bad, 0, "confirmed")
             ELSE Outcome([r EXCEPT !.status = "suspect", !.reason = reason], bad, 0, "none")

\* _step, on the record the round has read.
Seen(s, r, sight) ==
  LET reason == Reason(r, sight)
  IN  CASE reason = "none"                  -> Healthy(r, streak[s], sight)
        [] reason # "none" /\ Watched(s, r) -> Abnormal(s, r, streak[s], reason)
        [] OTHER                            -> Unwatched(s, r, streak[s], sight)

\* Nothing else runs while the rounds are undisturbed.
Free == Overlap \/ ~round.on

\* The round reads the rows and drops those of hidden services.
BeginRound ==
  /\ ~round.on
  /\ now < MaxTime
  /\ now' = now + 1
  /\ \E hidden \in SUBSET Services :
       LET dropped == {s \in hidden : store[s].row}
       IN  /\ round' = [on |-> TRUE, hidden |-> hidden,
                        rows |-> [s \in Services |-> IF s \in dropped THEN NoRow ELSE store[s]]]
           /\ store' = [s \in Services |-> IF s \in dropped THEN NoRow ELSE store[s]]
           /\ streak' = [s \in Services |-> IF s \in dropped THEN NoStreak ELSE streak[s]]
           /\ past' = [s \in Services |->
                         IF s \in dropped THEN [Dropped(s) EXCEPT !.bad = 0] ELSE past[s]]
  /\ UNCHANGED <<task, repairs, asks, words, restarts>>

\* What the properties remember of a service a round has visited.
Remember(s, reason, end, sight) ==
  [(IF end = "forgotten" THEN Dropped(s) ELSE past[s]) EXCEPT
     !.bad = IF reason = "none" THEN 0 ELSE IF @ < ConfirmRounds THEN @ + 1 ELSE @,
     !.meant = @ /\ reason # "none",
     !.removed = @ /\ sight = "gone"]

\* The probes have answered: every service that is shown, or has a row although
\* it is off the map, gets its new row, unless nothing has changed, and an
\* outage that is confirmed gets a handler unless the last one is still at work.
FinishRound ==
  /\ round.on
  /\ \E sights \in [Services -> Sights] :
       LET row(s) == round.rows[s]
           visited == {s \in Services \ round.hidden : sights[s] # "gone" \/ row(s).row}
           new == [s \in visited |-> Seen(s, row(s), sights[s])]
       IN  /\ store' = [s \in Services |->
                          CASE s \notin visited           -> store[s]
                            [] s \in visited /\ new[s].end = "forgotten" -> NoRow
                            [] s \in visited /\ new[s].end # "forgotten" ->
                                 IF new[s].rec = row(s) THEN store[s]
                                 ELSE [new[s].rec EXCEPT !.row = TRUE]]
           /\ streak' = [s \in Services |->
                           IF s \in visited
                           THEN [bad |-> new[s].bad, good |-> new[s].good]
                           ELSE streak[s]]
           /\ task' = [s \in Services |->
                         IF s \in visited /\ new[s].end = "confirmed" /\ task[s].phase = "none"
                         THEN [NoTask EXCEPT !.phase = "start"]
                         ELSE task[s]]
           /\ past' = [s \in Services |->
                         IF s \in visited
                         THEN Remember(s, Reason(row(s), sights[s]), new[s].end, sights[s])
                         ELSE past[s]]
  /\ round' = NoRound
  /\ UNCHANGED <<repairs, now, asks, words, restarts>>

-----------------------------------------------------------------------------
(* The handler of an outage: _handle_down_once, _investigate, _auto_repair. *)

\* repair_kind_for: the one kind of repair a service has for a reason.
RepairKindFor(s, reason) ==
  CASE KindOf[s] \in {"container", "agent"} -> "restart"
    [] KindOf[s] = "script"                 -> IF reason = "stuck" THEN "unstick" ELSE "relaunch"
    [] OTHER                                -> "none"

\* Mistake: the record the handler holds is put, with whatever it says.
SaveHeld(row, held) == [held EXCEPT !.row = TRUE]

\* _save: the fields a handler is responsible for go to the row as it is now,
\* or to the record the handler holds if the row is gone.
Latest(row, held) == [IF row.row THEN row ELSE held EXCEPT !.row = TRUE]

\* Mistake: the last automatic repair does not count.
PermittedAgain(s, row, q) ==
  /\ row.auto
  /\ ~row.paused
  /\ row.reason = "stuck" => row.unstick
  /\ q.kind = RepairKindFor(s, row.reason)
  /\ q.st = "waiting"

\* What may run in the owner's place: the kind of repair that fits, for an
\* outage he has allowed it for, unless the last one failed or was just now.
Permitted(s, row, q) ==
  /\ row.auto
  /\ ~row.paused
  /\ row.reason = "stuck" => row.unstick
  /\ q.kind = RepairKindFor(s, row.reason)
  /\ row.fixed = 0 \/ now - row.fixed >= FixCooldown
  /\ q.st = "waiting"

\* _auto_repair, up to the await of the execution: base is the table as the
\* handler has left it so far, held the record it holds.
AutoRepair(s, base, held, others, q) ==
  LET row == Latest(base[s], held)
  IN  IF Permitted(s, row, q)
      THEN LET fixing == [row EXCEPT !.fixed = now]
           IN  /\ repairs' = (others \ {q}) \cup {[q EXCEPT !.st = "working"]}
               /\ store' = [base EXCEPT ![s] = fixing]
               /\ task' = [task EXCEPT ![s] = [NoTask EXCEPT !.phase = "fix",
                                                 !.rec = fixing, !.fix = q.kind]]
               /\ past' = [past EXCEPT ![s].fixed = now, ![s].failed = FALSE]
      ELSE /\ repairs' = others
           /\ store' = [base EXCEPT ![s] = row]
           /\ task' = [task EXCEPT ![s] = NoTask]
           /\ UNCHANGED past

\* _pending_repair: what the Agent has proposed in the conversation about this
\* outage and nobody has decided on.
Pending(s, held) ==
  {q \in repairs : q.service = s /\ q.thread = held.told /\ q.st = "waiting"}

\* After the investigation: the Agent's proposal, or one of the patrol's own.
Propose(s, base, held, kind) ==
  \/ \E q \in Pending(s, held) : AutoRepair(s, base, held, repairs, q)
  \/ /\ Pending(s, held) = {}
     /\ store' = base
     /\ task' = [task EXCEPT ![s] = IF kind = "none" THEN NoTask
                                    ELSE [NoTask EXCEPT !.phase = "plan", !.rec = held,
                                                        !.kind = kind]]
     /\ UNCHANGED <<repairs, past>>

\* Mistake: one investigation more than the day allows.
InvestigateOnceMore(s, base, held, kind, at) ==
  /\ asks <= DailyAsks
  /\ asks' = asks + 1
  /\ LET row == [Latest(base[s], held) EXCEPT !.asked = at]
     IN  /\ store' = [base EXCEPT ![s] = row]
         /\ task' = [task EXCEPT ![s] = [NoTask EXCEPT !.phase = "ask", !.rec = row,
                                                       !.kind = kind]]
  /\ UNCHANGED <<repairs, past>>

\* The handler has the lock: it takes one of the investigations of the day and
\* waits for the Agent, or goes on without one.
Investigate(s, base, held, kind, at) ==
  \/ /\ asks >= DailyAsks
     /\ Propose(s, base, held, kind)
     /\ UNCHANGED asks
  \/ /\ asks < DailyAsks
     /\ asks' = asks + 1
     /\ LET row == [Latest(base[s], held) EXCEPT !.asked = at]
        IN  /\ store' = [base EXCEPT ![s] = row]
            /\ task' = [task EXCEPT ![s] = [NoTask EXCEPT !.phase = "ask", !.rec = row,
                                                          !.kind = kind]]
     /\ UNCHANGED <<repairs, past>>

\* Mistake: nobody waits for the lock.
AlwaysUnlocked == TRUE

Unlocked == \A t \in Services : task[t].phase # "ask"

\* Nothing is left to do, or the conversation is opened and the investigation
\* begins, at once if nobody else investigates.
Start(s) ==
  LET held == [store[s] EXCEPT !.told = now]
      base == [store EXCEPT ![s] = held]
      kind == RepairKindFor(s, held.reason)
  IN  /\ task[s].phase = "start"
      /\ Free
      /\ \/ /\ store[s].status # "down"
            /\ task' = [task EXCEPT ![s] = NoTask]
            /\ UNCHANGED <<store, repairs, asks, past>>
         \/ /\ store[s].status = "down"
            /\ held.asked # 0 /\ now - held.asked < AskCooldown
            /\ Propose(s, base, held, kind)
            /\ UNCHANGED asks
         \/ /\ store[s].status = "down"
            /\ held.asked # 0 => now - held.asked >= AskCooldown
            /\ \A t \in Services : task[t].phase \notin {"queue", "ask"}
            /\ Investigate(s, base, held, kind, now)
         \/ /\ store[s].status = "down"
            /\ held.asked # 0 => now - held.asked >= AskCooldown
            /\ \E t \in Services : task[t].phase \in {"queue", "ask"}
            /\ store' = base
            /\ task' = [task EXCEPT ![s] = [NoTask EXCEPT !.phase = "queue", !.rec = held,
                                                          !.kind = kind, !.at = now]]
            /\ UNCHANGED <<repairs, asks, past>>
      /\ UNCHANGED <<streak, round, now, words, restarts>>

\* The lock is free again.
Dequeue(s) ==
  /\ task[s].phase = "queue"
  /\ Free
  /\ Unlocked
  /\ Investigate(s, store, task[s].rec, task[s].kind, task[s].at)
  /\ UNCHANGED <<streak, round, now, words, restarts>>

\* The Agent proposes a repair while it investigates.
AgentProposes(s) ==
  /\ task[s].phase = "ask"
  /\ Free
  /\ \E reason \in Reasons :
       LET kind == RepairKindFor(s, reason)
       IN  /\ kind # "none"
           /\ \A q \in repairs : q.service = s => q.kind # kind
           /\ repairs' = repairs \cup {[service |-> s, kind |-> kind,
                                        thread |-> task[s].rec.told, st |-> "waiting"]}
  /\ UNCHANGED <<store, streak, round, task, now, asks, words, restarts, past>>

\* The Agent has answered, could not be asked, or was given up on.
Answered(s) ==
  /\ task[s].phase = "ask"
  /\ Free
  /\ Propose(s, store, task[s].rec, task[s].kind)
  /\ UNCHANGED <<streak, round, now, asks, words, restarts>>

\* The planner has made the repair; an unfinished one of the same kind is
\* returned as it is, whoever has proposed it.
Planned(s) ==
  LET kind == task[s].kind
      same == {q \in repairs : q.service = s /\ q.kind = kind}
      new == [service |-> s, kind |-> kind, thread |-> task[s].rec.told, st |-> "waiting"]
  IN  /\ task[s].phase = "plan"
      /\ Free
      /\ \/ \E q \in same : AutoRepair(s, store, task[s].rec, repairs, q)
         \/ /\ same = {}
            /\ AutoRepair(s, store, task[s].rec, repairs \cup {new}, new)
      /\ UNCHANGED <<streak, round, now, asks, words, restarts>>

\* It could not: the reason is kept in the row, or, when there was no plan at
\* all, nothing is.
NotPlanned(s) ==
  /\ task[s].phase = "plan"
  /\ Free
  /\ \/ store' = [store EXCEPT ![s] = Latest(store[s], task[s].rec)]
     \/ UNCHANGED store
  /\ task' = [task EXCEPT ![s] = NoTask]
  /\ UNCHANGED <<streak, round, repairs, now, asks, words, restarts, past>>

\* The automatic repair has ended.
Ended(s, row) ==
  /\ task[s].phase = "fix"
  /\ Free
  /\ repairs' = {q \in repairs : q.service # s \/ q.kind # task[s].fix}
  /\ store' = [store EXCEPT ![s] = row]
  /\ task' = [task EXCEPT ![s] = NoTask]
  /\ UNCHANGED <<streak, round, now, asks, words, restarts>>

\* Well, or for a reason that is not the service's: no pause.
Fixed(s) ==
  /\ \/ Ended(s, Latest(store[s], task[s].rec))
     \/ Ended(s, store[s])
  /\ UNCHANGED past

\* Mistake: a failed automatic repair is only reported.
FailedQuietly(s) ==
  /\ Ended(s, Latest(store[s], task[s].rec))
  /\ past' = [past EXCEPT ![s].failed = TRUE]

\* Not well: no further one until the owner looks at it.
Failed(s) ==
  /\ Ended(s, [Latest(store[s], task[s].rec) EXCEPT !.paused = TRUE])
  /\ past' = [past EXCEPT ![s].failed = TRUE]

-----------------------------------------------------------------------------
(* The owner.                                                              *)

Word ==
  /\ Free
  /\ words < MaxWords
  /\ words' = words + 1

\* set_auto_repair: the switches; either way it lifts the pause.
SetAutoRepair(s, auto, unstick) ==
  /\ Word
  /\ auto => KindOf[s] # "plain"
  /\ unstick => auto
  /\ store' = [store EXCEPT ![s].row = TRUE, ![s].auto = auto, ![s].unstick = unstick,
                            ![s].paused = FALSE]
  /\ past' = [past EXCEPT ![s].auto = auto, ![s].unstick = unstick, ![s].lost = FALSE,
                          ![s].failed = FALSE, ![s].removed = FALSE, ![s].meant = @ /\ ~auto]
  /\ UNCHANGED <<streak, round, task, repairs, now, asks, restarts>>

\* "I have stopped it on purpose."
Acknowledge(s) ==
  /\ Word
  /\ store[s].row /\ store[s].status \in {"down", "suspect"}
  /\ store' = [store EXCEPT ![s].status = "ack"]
  /\ streak' = [streak EXCEPT ![s] = NoStreak]
  /\ past' = [past EXCEPT ![s].meant = TRUE]
  /\ UNCHANGED <<round, task, repairs, now, asks, restarts>>

\* Mistake: the handler of the outage goes on after the service was removed.
ForgetRow(s) ==
  /\ Word
  /\ repairs' = {q \in repairs : q.service # s \/ q.st # "waiting"}
  /\ store' = [store EXCEPT ![s] = NoRow]
  /\ streak' = [streak EXCEPT ![s] = NoStreak]
  /\ past' = [past EXCEPT ![s] = [NoPast EXCEPT !.removed = TRUE]]
  /\ UNCHANGED <<round, task, now, asks, restarts>>

\* The owner removes a stopped service from the map: its handler is cancelled,
\* what waits for approval is rejected and its row, if there is one, deleted.
\* Whether it has stopped is for the map to say, so he may do it at any time.
Forget(s) ==
  /\ Word
  /\ task' = [task EXCEPT ![s] = NoTask]
  /\ repairs' = {q \in repairs : q.service # s \/ q.st # "waiting"}
  /\ store' = [store EXCEPT ![s] = NoRow]
  /\ streak' = [streak EXCEPT ![s] = NoStreak]
  /\ past' = [past EXCEPT ![s] = [NoPast EXCEPT !.removed = TRUE]]
  /\ UNCHANGED <<round, now, asks, restarts>>

\* The owner has a repair proposed in a conversation of his own.
Chat(s) ==
  /\ Word
  /\ \E reason \in Reasons :
       LET kind == RepairKindFor(s, reason)
       IN  /\ kind # "none"
           /\ \A q \in repairs : q.service = s => q.kind # kind
           /\ repairs' = repairs \cup {[service |-> s, kind |-> kind,
                                        thread |-> 0, st |-> "waiting"]}
  /\ UNCHANGED <<store, streak, round, task, now, asks, restarts, past>>

\* He decides on a repair, or it expires; a repair at work that is not the
\* patrol's ends, which includes one whose handler is gone.
Decide(q) ==
  /\ Free
  /\ \/ /\ q.st = "waiting"
        /\ repairs' = repairs \ {q}
     \/ /\ q.st = "waiting"
        /\ repairs' = (repairs \ {q}) \cup {[q EXCEPT !.st = "working"]}
     \/ /\ q.st = "working"
        /\ task[q.service].phase = "fix" => task[q.service].fix # q.kind
        /\ repairs' = repairs \ {q}
  /\ UNCHANGED <<store, streak, round, task, now, asks, words, restarts, past>>

\* The program stops and starts again: what it held in memory is gone.
Restart ==
  /\ restarts < MaxRestarts
  /\ restarts' = restarts + 1
  /\ round' = NoRound
  /\ task' = [s \in Services |-> NoTask]
  /\ streak' = [s \in Services |-> NoStreak]
  /\ UNCHANGED <<store, repairs, now, asks, words, past>>

Handle(s) ==
  \/ Start(s) \/ Dequeue(s) \/ AgentProposes(s) \/ Answered(s)
  \/ Planned(s) \/ NotPlanned(s) \/ Fixed(s) \/ Failed(s)

Owner(s) ==
  \/ \E auto, unstick \in BOOLEAN : SetAutoRepair(s, auto, unstick)
  \/ Acknowledge(s) \/ Forget(s) \/ Chat(s)

Next ==
  \/ BeginRound \/ FinishRound \/ Restart
  \/ \E s \in Services : Handle(s) \/ Owner(s)
  \/ \E q \in repairs : Decide(q)

Spec == Init /\ [][Next]_vars

-----------------------------------------------------------------------------
(* What the owner is promised.                                             *)

TypeOK ==
  /\ store \in [Services -> Record]
  /\ streak \in [Services -> [bad : 0..ConfirmRounds, good : 0..RecoverRounds]]
  /\ round \in [on : BOOLEAN, rows : [Services -> Record], hidden : SUBSET Services]
  /\ task \in [Services -> [phase : Phase, rec : Record, kind : RepairKinds \cup {"none"},
                            at : Time, fix : RepairKinds \cup {"none"}]]
  /\ repairs \subseteq [service : Services, kind : RepairKinds, thread : Time,
                        st : {"waiting", "working"}]
  /\ now \in Time
  /\ asks \in 0..DailyAsks
  /\ words \in 0..MaxWords
  /\ restarts \in 0..MaxRestarts
  /\ past \in [Services -> [auto : BOOLEAN, unstick : BOOLEAN, meant : BOOLEAN,
                            lost : BOOLEAN, removed : BOOLEAN, failed : BOOLEAN, fixed : Time,
                            bad : 0..ConfirmRounds]]

\* The step in which the patrol approves a repair of a service.
Approves(s) == task[s].phase # "fix" /\ task'[s].phase = "fix"

\* The patrol approves a repair only while the owner's last word on the switch
\* allows it, for a stuck service his word on that one, too, however long the
\* handler has waited since the outage was confirmed.  A row that a round has
\* dropped in the meantime is the exception: the handler puts back the one it
\* holds, switches and all.
OnlyAsAllowed ==
  [][\A s \in Services : Approves(s) /\ ~past[s].lost =>
       /\ past[s].auto
       /\ task'[s].rec.reason = "stuck" => past[s].unstick]_vars

\* Between two automatic repairs of a service lies the cooldown.
AutoRepairsApart ==
  [][\A s \in Services : Approves(s) =>
       past[s].fixed = 0 \/ now - past[s].fixed >= FixCooldown]_vars

\* After an automatic repair has failed there is none until the owner has
\* touched the switch.
PauseHolds == [][\A s \in Services : Approves(s) => ~past[s].failed]_vars

\* An outage is confirmed only after so many rounds in a row that looked at the
\* service and saw it abnormal.
ConfirmedByRounds ==
  [][\A s \in Services :
       store'[s].status = "down" /\ store'[s].confirmed = now /\ store[s].confirmed # now
       => past'[s].bad >= ConfirmRounds]_vars

\* An outage the owner has called intended does not count as one until the
\* service was seen running again, he asks for automatic repairs, or a round has
\* dropped the row his word was in.
MeantIsKept ==
  \A s \in Services : past[s].meant => store[s].status \notin {"suspect", "down"}

\* A service the owner has removed has no row until the map shows it again or
\* he sets its switch.
RemovedIsGone == \A s \in Services : past[s].removed => ~store[s].row

\* The Agent is asked about one outage at a time, whoever was waiting for it.
OneInvestigation ==
  \A s, t \in Services : task[s].phase = "ask" /\ task[t].phase = "ask" => s = t

\* What the owner has called intended is not repaired automatically.
LeftAlone == [][\A s \in Services : Approves(s) => ~past[s].meant]_vars

\* The switch is on only if the owner has turned it on and not off again.
SwitchIsOwners == \A s \in Services : store[s].auto => past[s].auto

=============================================================================
