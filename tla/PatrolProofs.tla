---------------------------- MODULE PatrolProofs ----------------------------
(***************************************************************************)
(* What is proved of the patrol for every set of services, every limit and  *)
(* every number of rounds.                                                  *)
(*                                                                         *)
(* The handler of an outage goes through many steps, but each of them makes *)
(* of the row one of few things; Effects says which, and what is proved of  *)
(* the owner's promises uses Effects in place of the handler's actions.     *)
(* Visits does the same for what a round makes of one service.              *)
(***************************************************************************)
EXTENDS Patrol, TLAPS

-----------------------------------------------------------------------------
(* Types, and the facts that hold whatever runs beside a round.            *)

Streaks == [bad : 0..ConfirmRounds, good : 0..RecoverRounds]
Rounds == [on : BOOLEAN, rows : [Services -> Record], hidden : SUBSET Services]
Tasks == [phase : Phase, rec : Record, kind : RepairKinds \cup {"none"},
          at : Time, fix : RepairKinds \cup {"none"}]
Proposals == [service : Services, kind : RepairKinds, thread : Time,
              st : {"waiting", "working"}]
Memories == [auto : BOOLEAN, unstick : BOOLEAN, meant : BOOLEAN, lost : BOOLEAN,
             removed : BOOLEAN, failed : BOOLEAN, fixed : Time, bad : 0..ConfirmRounds]

\* A handler that waits for the planner knows which kind of repair it wants.
Planning == \A s \in Services : task[s].phase = "plan" => task[s].kind # "none"

\* What is not in the table has left nothing there.
Rowless == \A s \in Services : ~store[s].row => store[s] = NoRow

Clock == now >= Stable + 1

Sound == TypeOK /\ Clock /\ Planning /\ Rowless /\ OneInvestigation

LEMMA NothingTyped ==
  /\ NoRow \in Record /\ NoStreak \in Streaks /\ NoTask \in Tasks
  /\ NoRound \in Rounds /\ NoPast \in Memories
  /\ NoTask.phase = "none"
  BY PatrolAssumption DEF NoRow, Record, NoStreak, Streaks, NoTask, Tasks, NoRound, Rounds,
     NoPast, Memories, Time, Reasons, Phase, RepairKinds

LEMMA SoundAtFirst == Init => Sound
<1> SUFFICES ASSUME Init PROVE Sound
  OBVIOUS
<1>1. TypeOK
  BY NothingTyped, PatrolAssumption
     DEF Init, TypeOK, Streaks, Rounds, Tasks, Memories, Time
<1>2. Clock /\ Planning /\ Rowless /\ OneInvestigation
  BY NothingTyped, PatrolAssumption DEF Init, Clock, Planning, Rowless, OneInvestigation
<1> QED BY <1>1, <1>2 DEF Sound

-----------------------------------------------------------------------------
(* What a round makes of one service.                                      *)

\* The row it leaves differs from the one it has read in what a round decides.
Kin(a, b) ==
  /\ a.row = b.row /\ a.auto = b.auto /\ a.unstick = b.unstick
  /\ a.paused = b.paused /\ a.fixed = b.fixed

\* Of a row r with the streak k: o is what becomes of it, for a reason.
Visits(s, r, k, reason, o) ==
  /\ o \in [rec : Record, bad : 0..ConfirmRounds, good : 0..RecoverRounds,
            end : {"none", "confirmed", "forgotten"}]
  /\ Kin(o.rec, r)
  /\ o.end = "confirmed" => o.rec.confirmed = now /\ o.bad >= ConfirmRounds
  /\ o.end # "confirmed" => /\ o.rec.confirmed = 0 \/ o.rec.confirmed = r.confirmed
                            /\ o.rec.status = "down" => r.status = "down"
                                                        /\ o.rec.confirmed = r.confirmed
  /\ reason = "none" => o.bad = 0 /\ o.end = "none"
  /\ reason # "none" => o.bad <= k.bad + 1
  /\ reason # "none" /\ (r.status = "ack" \/ (r.status = "ok" /\ ~Watched(s, r)))
     => /\ o.end # "confirmed"
        /\ o.rec.status = "ack" \/ (o.rec.status = "ok" /\ ~Watched(s, o.rec))
        /\ o.rec.row = r.row

LEMMA HealthyVisits ==
  ASSUME Clock, now \in Nat, NEW s \in Services, NEW r \in Record, NEW k \in Streaks,
         NEW sight \in Sights
  PROVE  Visits(s, r, k, "none", Healthy(r, k, sight))
<1> DEFINE started == IF sight = "long" THEN now - Stable ELSE now
           since == IF r.since # 0 /\ r.since < started THEN r.since ELSE started
           over == \/ r.status \in {"suspect", "ack"}
                   \/ r.status = "down" /\ k.good + 1 >= RecoverRounds
           up == [r EXCEPT !.seen = TRUE, !.since = since,
                           !.sure = @ \/ now - since >= Stable]
           rec == IF over THEN Cleared(up) ELSE up
           good == Upto(RecoverRounds, k.good + 1)
<1>1. started \in Nat /\ since \in Nat /\ since <= now
  BY PatrolAssumption DEF Clock, Record, Time
<1>2. good \in 0..RecoverRounds
  BY PatrolAssumption DEF Upto, Streaks
<1>3. up \in Record /\ Kin(up, r) /\ up.status = r.status /\ up.confirmed = r.confirmed
  <2> HIDE DEF since
  <2> QED BY <1>1 DEF Record, Kin, Time
<1> HIDE DEF up
<1>4. /\ Cleared(up) \in Record /\ Kin(Cleared(up), up)
      /\ Cleared(up).status = "ok" /\ Cleared(up).confirmed = 0
  BY <1>3 DEF Cleared, Record, Kin, Time, Reasons
<1>5. /\ rec \in Record /\ Kin(rec, r)
      /\ rec.confirmed = 0 \/ rec.confirmed = r.confirmed
      /\ rec.status = "down" => r.status = "down" /\ rec.confirmed = r.confirmed
  BY <1>3, <1>4 DEF Kin
<1>6. Healthy(r, k, sight) = Outcome(rec, 0, good, "none")
  BY DEF Healthy, up
<1> HIDE DEF rec, good
<1> QED BY <1>2, <1>5, <1>6, PatrolAssumption DEF Visits, Outcome


LEMMA UnwatchedVisits ==
  ASSUME now \in Nat, NEW s \in Services, NEW r \in Record, NEW k \in Streaks,
         NEW reason \in Reasons \ {"none"}, NEW sight \in Sights, ~Watched(s, r)
  PROVE  Visits(s, r, k, reason, Unwatched(s, r, k, sight))
<1> DEFINE bad == IF sight = "stopped" /\ KindOf[s] # "container"
                  THEN Upto(ConfirmRounds, k.bad + 1) ELSE 0
           rec == [Cleared(r) EXCEPT !.since = IF sight = "stopped" THEN 0 ELSE @]
<1>1. bad \in 0..ConfirmRounds /\ bad <= k.bad + 1
  BY PatrolAssumption DEF Upto, Streaks
<1>2. /\ rec \in Record /\ Kin(rec, r) /\ rec.status = "ok" /\ rec.confirmed = 0
      /\ rec.sure = r.sure
  BY DEF Cleared, Record, Kin, Time, Reasons
<1>3. ~Watched(s, rec)
  BY <1>2 DEF Watched, Kin
<1>4. Visits(s, r, k, reason, Outcome(r, 0, 0, "forgotten"))
  BY PatrolAssumption DEF Visits, Outcome, Kin, Streaks
<1>5. Visits(s, r, k, reason, Outcome(rec, bad, 0, "none"))
  <2> HIDE DEF rec, bad
  <2> QED BY <1>1, <1>2, <1>3, PatrolAssumption DEF Visits, Outcome, Kin, Streaks
<1>6. \/ Unwatched(s, r, k, sight) = Outcome(r, 0, 0, "forgotten")
      \/ Unwatched(s, r, k, sight) = Outcome(rec, bad, 0, "none")
  BY DEF Unwatched
<1> QED BY <1>4, <1>5, <1>6

LEMMA AbnormalVisits ==
  ASSUME now \in Nat, NEW s \in Services, NEW r \in Record, NEW k \in Streaks,
         NEW reason \in Reasons \ {"none"}, Watched(s, r)
  PROVE  Visits(s, r, k, reason, Abnormal(s, r, k, reason))
<1> DEFINE bad == Upto(ConfirmRounds, k.bad + 1)
           down == [r EXCEPT !.status = "down", !.reason = reason, !.confirmed = now, !.told = 0]
           suspect == [r EXCEPT !.status = "suspect", !.reason = reason]
           ack == [r EXCEPT !.status = "ack"]
           o == Abnormal(s, r, k, reason)
<1>1. bad \in 0..ConfirmRounds /\ bad <= k.bad + 1
  BY PatrolAssumption DEF Upto, Streaks
<1>2. CASE ~r.seen \/ (~Stale(s, r) /\ r.status \in {"down", "ack"})
  <2>1. o = Outcome(r, k.bad, 0, "none")
    BY <1>2 DEF Abnormal
  <2> QED BY <2>1, PatrolAssumption DEF Visits, Outcome, Kin, Streaks
<1>3. CASE r.seen /\ Stale(s, r)
  <2>1. o = Outcome(ack, 0, 0, "none") /\ r.status = "down"
    BY <1>3 DEF Abnormal, Stale
  <2>2. /\ ack \in Record /\ Kin(ack, r) /\ ack.status = "ack"
        /\ ack.confirmed = r.confirmed
    BY DEF Record, Kin
  <2> HIDE DEF ack
  <2> QED BY <2>1, <2>2, PatrolAssumption DEF Visits, Outcome, Kin, Streaks
<1>4. CASE r.seen /\ ~Stale(s, r) /\ r.status \notin {"down", "ack"}
  <2>1. o = IF bad >= ConfirmRounds THEN Outcome(down, bad, 0, "confirmed")
            ELSE Outcome(suspect, bad, 0, "none")
    BY <1>4 DEF Abnormal
  <2>2. /\ down \in Record /\ Kin(down, r) /\ down.confirmed = now
        /\ suspect \in Record /\ Kin(suspect, r) /\ suspect.status = "suspect"
        /\ suspect.confirmed = r.confirmed
    BY DEF Record, Kin, Time
  <2>3. r.status # "ack" /\ ~(r.status = "ok" /\ ~Watched(s, r))
    BY <1>4
  <2> HIDE DEF down, suspect, bad
  <2> QED BY <1>1, <2>1, <2>2, <2>3, PatrolAssumption DEF Visits, Outcome, Streaks
<1> QED BY <1>2, <1>3, <1>4 DEF Record

\* Whatever is seen of a service, a round does to its row one of the things above.
LEMMA SeenVisits ==
  ASSUME Sound, NEW s \in Services, NEW r \in Record, NEW sight \in Sights
  PROVE  Visits(s, r, streak[s], Reason(r, sight), Seen(s, r, sight))
<1> DEFINE reason == Reason(r, sight)
<1>1. now \in Nat /\ Clock /\ streak[s] \in Streaks
  BY DEF Sound, TypeOK, Time, Streaks
<1>2. reason \in Reasons
  BY DEF Reason, Reasons, Sights
<1>3. CASE reason = "none"
  <2>1. Seen(s, r, sight) = Healthy(r, streak[s], sight)
    BY <1>3 DEF Seen
  <2> QED BY <1>1, <1>3, <2>1, HealthyVisits
<1>4. CASE reason # "none" /\ Watched(s, r)
  <2>1. Seen(s, r, sight) = Abnormal(s, r, streak[s], reason)
    BY <1>4 DEF Seen
  <2> QED BY <1>1, <1>2, <1>4, <2>1, AbnormalVisits
<1>5. CASE reason # "none" /\ ~Watched(s, r)
  <2>1. Seen(s, r, sight) = Unwatched(s, r, streak[s], sight)
    BY <1>5 DEF Seen
  <2> QED BY <1>1, <1>2, <1>5, <2>1, UnwatchedVisits
<1> QED BY <1>3, <1>4, <1>5


-----------------------------------------------------------------------------
(* What the handler of an outage makes of its row.                         *)

\* The row the handler works from: the one in the table, or the one it holds.
Source(s) == IF store[s].row THEN store[s] ELSE task[s].rec

\* What no handler decides.
Kept(a, b) ==
  /\ a.row
  /\ a.status = b.status /\ a.reason = b.reason /\ a.confirmed = b.confirmed
  /\ a.sure = b.sure /\ a.auto = b.auto /\ a.unstick = b.unstick

\* What an automatic repair begins with.
MayRepair(row) ==
  /\ row.auto /\ ~row.paused
  /\ row.reason = "stuck" => row.unstick
  /\ row.fixed = 0 \/ now - row.fixed >= FixCooldown

\* The patrol approves a repair.
Approving(s) ==
  /\ task'[s].phase = "fix" /\ task[s].phase # "fix"
  /\ MayRepair(Source(s)) /\ Kept(store'[s], Source(s))
  /\ store'[s].fixed = now /\ ~store'[s].paused
  /\ task'[s].rec = store'[s]
  /\ past' = [past EXCEPT ![s].fixed = now, ![s].failed = FALSE]

\* It does not: the row stays as it is or takes what the handler has to say.
NotApproving(s) ==
  /\ task'[s].phase # "fix"
  /\ \/ store'[s] = store[s]
     \/ /\ Kept(store'[s], Source(s))
        /\ store'[s].fixed = Source(s).fixed
        /\ Source(s).paused => store'[s].paused
  /\ \/ past' = past
     \/ /\ past' = [past EXCEPT ![s].failed = TRUE]
        /\ store'[s].row /\ store'[s].paused

\* One step of the handler of s, but for what it reads of the other handlers.
Effects(s) ==
  /\ store' \in [Services -> Record] /\ \A t \in Services \ {s} : store'[t] = store[t]
  /\ task' \in [Services -> Tasks] /\ \A t \in Services \ {s} : task'[t] = task[t]
  /\ repairs' \subseteq Proposals
  /\ task[s].phase # "none" /\ task'[s].phase # "start"
  /\ task'[s].phase = "plan" => task'[s].kind # "none"
  /\ store'[s].row \/ store'[s] = store[s]
  /\ store[s].row \/ task[s].phase # "start" \/ store'[s] = store[s]
  /\ task'[s].phase # "none" =>
       \/ task'[s].rec = store'[s] /\ store'[s].row
       \/ /\ store'[s] = store[s] /\ task'[s].rec = task[s].rec
          /\ task[s].phase # "start"
  /\ Approving(s) \/ NotApproving(s)

\* The handler of s holds the record held and has left the table as base.
Ready(s, base, held) ==
  /\ base \in [Services -> Record] /\ \A t \in Services \ {s} : base[t] = store[t]
  /\ held \in Record
  /\ task[s].phase \notin {"none", "fix"}
  /\ \/ base = store /\ held = task[s].rec /\ task[s].phase # "start"
     \/ /\ base[s] = held /\ store[s].row /\ Kept(held, store[s])
        /\ held.fixed = store[s].fixed /\ held.paused = store[s].paused

LEMMA LatestOf ==
  ASSUME NEW s \in Services, NEW base, NEW held, Ready(s, base, held)
  PROVE  LET row == Latest(base[s], held)
         IN  /\ row \in Record /\ Kept(row, Source(s))
             /\ row.fixed = Source(s).fixed /\ row.paused = Source(s).paused
<1> DEFINE r == IF base[s].row THEN base[s] ELSE held
<1>1. Latest(base[s], held) = [r EXCEPT !.row = TRUE]
  BY DEF Latest
<1>2. r \in Record
  BY DEF Ready
<1>3. \/ r = Source(s)
      \/ /\ r = held /\ store[s].row /\ Kept(held, store[s])
         /\ held.fixed = store[s].fixed /\ held.paused = store[s].paused
  BY DEF Ready, Source, Kept
<1> HIDE DEF r
<1> DEFINE row == [r EXCEPT !.row = TRUE]
<1>4. /\ row \in Record /\ row.row /\ row.status = r.status /\ row.reason = r.reason
      /\ row.confirmed = r.confirmed /\ row.sure = r.sure /\ row.auto = r.auto
      /\ row.unstick = r.unstick /\ row.fixed = r.fixed /\ row.paused = r.paused
  BY <1>2 DEF Record
<1> HIDE DEF row
<1>5. Kept(row, Source(s)) /\ row.fixed = Source(s).fixed /\ row.paused = Source(s).paused
  BY <1>3, <1>4 DEF Kept, Source
<1> QED BY <1>1, <1>4, <1>5 DEF row

\* The automatic repair begins, or what hinders it is left to the owner.
LEMMA AutoRepairEffects ==
  ASSUME Sound, NEW s \in Services, NEW base, NEW held, Ready(s, base, held),
         NEW others \in SUBSET Proposals, NEW q \in others, AutoRepair(s, base, held, others, q)
  PROVE  Effects(s) /\ task'[s].phase # "ask"
<1> DEFINE row == Latest(base[s], held)
           fixing == [row EXCEPT !.fixed = now]
<1>1. /\ row \in Record /\ Kept(row, Source(s))
      /\ row.fixed = Source(s).fixed /\ row.paused = Source(s).paused
  BY LatestOf
<1>2. /\ task \in [Services -> Tasks] /\ NoTask \in Tasks /\ NoTask.phase = "none"
      /\ now \in Nat /\ base \in [Services -> Record]
      /\ \A t \in Services \ {s} : base[t] = store[t]
      /\ task[s].phase \notin {"none", "fix"}
      /\ store[s].row \/ task[s].phase # "start"
  BY NothingTyped DEF Sound, TypeOK, Tasks, Time, Ready
<1>3. CASE Permitted(s, row, q)
  <2> DEFINE new == [NoTask EXCEPT !.phase = "fix", !.rec = fixing, !.fix = q.kind]
             open == [q EXCEPT !.st = "working"]
  <2>1. /\ repairs' = (others \ {q}) \cup {open}
        /\ store' = [base EXCEPT ![s] = fixing]
        /\ task' = [task EXCEPT ![s] = new]
        /\ past' = [past EXCEPT ![s].fixed = now, ![s].failed = FALSE]
    BY <1>3 DEF AutoRepair
  <2>2. open \in Proposals /\ q.kind \in RepairKinds
    BY DEF Proposals
  <2>3. MayRepair(row)
    BY <1>3 DEF Permitted, MayRepair
  <2> HIDE DEF row
  <2>4. /\ fixing \in Record /\ Kept(fixing, row) /\ fixing.fixed = now
        /\ fixing.paused = row.paused
    BY <1>1, <1>2 DEF Record, Kept, Time
  <2> HIDE DEF fixing, open
  <2>5. /\ new \in Tasks /\ new.phase = "fix" /\ new.rec = fixing
    BY <2>2, <2>4, <1>2 DEF Tasks, NoTask, Phase, Time
  <2> HIDE DEF new
  <2>6. /\ store' \in [Services -> Record] /\ \A t \in Services \ {s} : store'[t] = store[t]
        /\ task' \in [Services -> Tasks] /\ \A t \in Services \ {s} : task'[t] = task[t]
        /\ store'[s] = fixing /\ task'[s] = new
    BY <1>2, <2>1, <2>4, <2>5
  <2>7. Kept(fixing, Source(s)) /\ ~fixing.paused
    BY <1>1, <2>3, <2>4 DEF Kept, MayRepair
  <2>8. MayRepair(Source(s))
    BY <1>1, <2>3 DEF MayRepair, Kept
  <2>9. Approving(s)
    BY <1>2, <2>1, <2>4, <2>5, <2>6, <2>7, <2>8 DEF Approving
  <2>10. fixing.row
    BY <2>7 DEF Kept
  <2> QED BY <1>2, <2>1, <2>2, <2>5, <2>6, <2>9, <2>10 DEF Effects
<1>4. CASE ~Permitted(s, row, q)
  <2>1. /\ repairs' = others /\ store' = [base EXCEPT ![s] = row]
        /\ task' = [task EXCEPT ![s] = NoTask] /\ past' = past
    BY <1>4 DEF AutoRepair
  <2> HIDE DEF row
  <2>2. /\ store' \in [Services -> Record] /\ \A t \in Services \ {s} : store'[t] = store[t]
        /\ task' \in [Services -> Tasks] /\ \A t \in Services \ {s} : task'[t] = task[t]
        /\ store'[s] = row /\ task'[s] = NoTask
    BY <1>1, <1>2, <2>1
  <2>3. row.row
    BY <1>1 DEF Kept
  <2>4. NotApproving(s)
    BY <1>1, <1>2, <2>1, <2>2 DEF NotApproving
  <2> QED BY <1>2, <2>1, <2>2, <2>3, <2>4 DEF Effects
<1> QED BY <1>3, <1>4


\* A handler that goes on without approving anything: the table stays as the
\* handler has left it.
LEMMA WaitsEffects ==
  ASSUME Sound, NEW s \in Services, NEW base, NEW held, Ready(s, base, held),
         NEW new \in Tasks, new.phase \notin {"start", "fix"},
         new.phase = "plan" => new.kind # "none", new.phase # "none" => new.rec = held,
         task' = [task EXCEPT ![s] = new], past' = past,
         repairs' \subseteq Proposals, store' = base
  PROVE  Effects(s) /\ task'[s] = new
<1>1. /\ task \in [Services -> Tasks] /\ base \in [Services -> Record]
      /\ \A t \in Services \ {s} : base[t] = store[t]
      /\ task[s].phase \notin {"none", "fix"}
      /\ store[s].row \/ task[s].phase # "start"
      /\ store \in [Services -> Record]
  BY DEF Sound, TypeOK, Tasks, Ready
<1>2. /\ task' \in [Services -> Tasks] /\ \A t \in Services \ {s} : task'[t] = task[t]
      /\ task'[s] = new
  BY <1>1
<1>3. \/ store'[s] = store[s] /\ held = task[s].rec /\ task[s].phase # "start"
      \/ /\ store'[s] = held /\ store'[s].row
         /\ Kept(store'[s], Source(s)) /\ store'[s].fixed = Source(s).fixed
         /\ store'[s].paused = Source(s).paused
  BY DEF Ready, Source, Kept
<1>4. NotApproving(s)
  BY <1>2, <1>3 DEF NotApproving
<1> QED BY <1>1, <1>2, <1>3, <1>4 DEF Effects

\* Or it puts the row it wants there.
LEMMA WritesEffects ==
  ASSUME Sound, NEW s \in Services, NEW base, NEW held, Ready(s, base, held),
         NEW new \in Tasks, new.phase \notin {"start", "fix"},
         new.phase = "plan" => new.kind # "none",
         task' = [task EXCEPT ![s] = new], past' = past,
         repairs' \subseteq Proposals,
         NEW row \in Record, store' = [base EXCEPT ![s] = row], Kept(row, Source(s)),
         row.fixed = Source(s).fixed, row.paused = Source(s).paused,
         new.phase # "none" => new.rec = row
  PROVE  Effects(s) /\ task'[s] = new
<1>1. /\ task \in [Services -> Tasks] /\ base \in [Services -> Record]
      /\ \A t \in Services \ {s} : base[t] = store[t]
      /\ task[s].phase \notin {"none", "fix"}
      /\ store[s].row \/ task[s].phase # "start"
      /\ store \in [Services -> Record]
  BY DEF Sound, TypeOK, Tasks, Ready
<1>2. /\ task' \in [Services -> Tasks] /\ \A t \in Services \ {s} : task'[t] = task[t]
      /\ task'[s] = new
  BY <1>1
<1>3. /\ store' \in [Services -> Record] /\ \A t \in Services \ {s} : store'[t] = store[t]
      /\ store'[s] = row
  BY <1>1
<1>4. NotApproving(s)
  BY <1>2, <1>3 DEF NotApproving
<1>5. row.row
  BY DEF Kept
<1> QED BY <1>1, <1>2, <1>3, <1>4, <1>5 DEF Effects

LEMMA ProposeEffects ==
  ASSUME Sound, NEW s \in Services, NEW base, NEW held, Ready(s, base, held),
         NEW k \in RepairKinds \cup {"none"}, Propose(s, base, held, k)
  PROVE  Effects(s) /\ task'[s].phase # "ask"
<1>1. /\ repairs \in SUBSET Proposals /\ held \in Record
  BY DEF Sound, TypeOK, Proposals, Ready
<1>2. CASE \E q \in Pending(s, held) : AutoRepair(s, base, held, repairs, q)
  BY <1>1, <1>2, AutoRepairEffects DEF Pending
<1>3. CASE /\ store' = base
           /\ task' = [task EXCEPT ![s] = IF k = "none" THEN NoTask
                                          ELSE [NoTask EXCEPT !.phase = "plan", !.rec = held,
                                                              !.kind = k]]
           /\ UNCHANGED <<repairs, past>>
  <2> DEFINE plan == [NoTask EXCEPT !.phase = "plan", !.rec = held, !.kind = k]
             new == IF k = "none" THEN NoTask ELSE plan
  <2>1. /\ plan \in Tasks /\ plan.phase = "plan" /\ plan.rec = held /\ plan.kind = k
    BY <1>1 DEF Tasks, NoTask, Phase, Time, RepairKinds
  <2> HIDE DEF plan
  <2>2. /\ new \in Tasks /\ new.phase \in {"none", "plan"}
        /\ new.phase = "plan" => new.kind # "none"
        /\ new.phase # "none" => new.rec = held
    BY <2>1, NothingTyped
  <2>3. task' = [task EXCEPT ![s] = new]
    BY <1>3 DEF plan
  <2> HIDE DEF new
  <2>4. /\ past' = past /\ repairs' \subseteq Proposals
        /\ new.phase \notin {"start", "fix"}
        /\ store' = base /\ (new.phase # "none" => new.rec = held)
    BY <1>1, <1>3, <2>2
  <2>5. Effects(s) /\ task'[s] = new
    BY <2>2, <2>3, <2>4, WaitsEffects
  <2> QED BY <2>2, <2>5
<1> QED BY <1>2, <1>3 DEF Propose

\* The Agent is asked only here; asks counts it.
LEMMA InvestigateEffects ==
  ASSUME Sound, NEW s \in Services, NEW base, NEW held, Ready(s, base, held),
         NEW k \in RepairKinds \cup {"none"}, NEW at \in Nat,
         Investigate(s, base, held, k, at)
  PROVE  Effects(s) /\ asks' \in 0..DailyAsks
<1>1. /\ repairs \in SUBSET Proposals /\ asks \in 0..DailyAsks /\ DailyAsks \in Nat
  BY PatrolAssumption DEF Sound, TypeOK, Proposals
<1>2. CASE Propose(s, base, held, k) /\ UNCHANGED asks
  BY <1>1, <1>2, ProposeEffects
<1>3. CASE ~(Propose(s, base, held, k) /\ UNCHANGED asks)
  <2> DEFINE row == Latest(base[s], held)
             asked == [row EXCEPT !.asked = at]
             new == [NoTask EXCEPT !.phase = "ask", !.rec = asked, !.kind = k]
  <2>1. /\ asks < DailyAsks /\ asks' = asks + 1 /\ repairs' = repairs /\ past' = past
        /\ store' = [base EXCEPT ![s] = asked]
        /\ task' = [task EXCEPT ![s] = new]
    BY <1>3 DEF Investigate
  <2>2. /\ row \in Record /\ Kept(row, Source(s))
        /\ row.fixed = Source(s).fixed /\ row.paused = Source(s).paused
    BY LatestOf
  <2> HIDE DEF row
  <2>3. /\ asked \in Record /\ Kept(asked, Source(s))
        /\ asked.fixed = Source(s).fixed /\ asked.paused = Source(s).paused
    BY <2>2 DEF Record, Kept, Time
  <2> HIDE DEF asked
  <2>4. new \in Tasks /\ new.phase = "ask" /\ new.rec = asked
    BY <2>3 DEF Tasks, NoTask, Phase, Time, RepairKinds
  <2> HIDE DEF new
  <2>5. Effects(s)
    BY <1>1, <2>1, <2>3, <2>4, WritesEffects
  <2> QED BY <1>1, <2>1, <2>5
<1> QED BY <1>2, <1>3

\* A handler that holds a record works from the table as it is.
LEMMA HolderReady ==
  ASSUME Sound, NEW s \in Services, task[s].phase \notin {"none", "start", "fix"}
  PROVE  Ready(s, store, task[s].rec)
BY DEF Ready, Sound, TypeOK, Tasks

\* One that starts has just read its row and written that the owner is told.
LEMMA StarterReady ==
  ASSUME Sound, NEW s \in Services, task[s].phase = "start", store[s].status = "down"
  PROVE  LET held == [store[s] EXCEPT !.told = now]
         IN  held \in Record /\ Ready(s, [store EXCEPT ![s] = held], held)
<1> DEFINE held == [store[s] EXCEPT !.told = now]
           base == [store EXCEPT ![s] = held]
<1>1. store \in [Services -> Record] /\ now \in Nat /\ store[s] \in Record
  BY DEF Sound, TypeOK, Time
<1>2. store[s].row
  BY DEF Sound, Rowless, NoRow
<1>3. /\ held \in Record /\ Kept(held, store[s])
      /\ held.fixed = store[s].fixed /\ held.paused = store[s].paused
  BY <1>1, <1>2 DEF Record, Kept, Time
<1> HIDE DEF held
<1>4. /\ base \in [Services -> Record] /\ \A t \in Services \ {s} : base[t] = store[t]
      /\ base[s] = held
  BY <1>1, <1>3
<1> HIDE DEF base
<1>5. Ready(s, base, held)
  BY <1>2, <1>3, <1>4 DEF Ready
<1> QED BY <1>3, <1>5 DEF held, base


LEMMA KindTyped ==
  ASSUME NEW s \in Services, NEW reason
  PROVE  RepairKindFor(s, reason) \in RepairKinds \cup {"none"}
BY DEF RepairKindFor, RepairKinds

LEMMA StartEffects ==
  ASSUME Sound, NEW s \in Services, Start(s)
  PROVE  /\ Effects(s) /\ asks' \in 0..DailyAsks
         /\ task'[s].phase = "ask" => \A t \in Services : task[t].phase # "ask"
<1> DEFINE held == [store[s] EXCEPT !.told = now]
           base == [store EXCEPT ![s] = held]
           kind == RepairKindFor(s, held.reason)
<1>1. /\ task[s].phase = "start" /\ asks \in 0..DailyAsks /\ now \in Nat
      /\ repairs \in SUBSET Proposals /\ task \in [Services -> Tasks]
      /\ store \in [Services -> Record]
  BY DEF Start, Sound, TypeOK, Time, Proposals, Tasks
<1>2. CASE /\ task' = [task EXCEPT ![s] = NoTask]
           /\ UNCHANGED <<store, repairs, asks, past>>
  <2>1. /\ task' \in [Services -> Tasks] /\ \A t \in Services \ {s} : task'[t] = task[t]
        /\ task'[s] = NoTask
    BY <1>1, <1>2, NothingTyped
  <2>2. NotApproving(s)
    BY <1>2, <2>1, NothingTyped DEF NotApproving
  <2> QED BY <1>1, <1>2, <2>1, <2>2, NothingTyped DEF Effects
<1>3. ASSUME store[s].status = "down"
      PROVE  kind \in RepairKinds \cup {"none"} /\ held \in Record /\ Ready(s, base, held)
  BY <1>1, <1>3, StarterReady, KindTyped
<1>4. CASE /\ store[s].status = "down" /\ Propose(s, base, held, kind) /\ UNCHANGED asks
  <2> HIDE DEF held, base, kind
  <2> QED BY <1>1, <1>3, <1>4, ProposeEffects
<1>5. CASE /\ store[s].status = "down" /\ Investigate(s, base, held, kind, now)
           /\ \A t \in Services : task[t].phase \notin {"queue", "ask"}
  <2> HIDE DEF held, base, kind
  <2> QED BY <1>1, <1>3, <1>5, InvestigateEffects
<1>6. CASE /\ store[s].status = "down" /\ store' = base
           /\ task' = [task EXCEPT ![s] = [NoTask EXCEPT !.phase = "queue", !.rec = held,
                                                         !.kind = kind, !.at = now]]
           /\ UNCHANGED <<repairs, asks, past>>
  <2> DEFINE new == [NoTask EXCEPT !.phase = "queue", !.rec = held, !.kind = kind, !.at = now]
  <2>1. kind \in RepairKinds \cup {"none"} /\ held \in Record /\ Ready(s, base, held)
    BY <1>3, <1>6
  <2> HIDE DEF held, base, kind
  <2>2. new \in Tasks /\ new.phase = "queue" /\ new.rec = held
    BY <1>1, <2>1 DEF Tasks, NoTask, Phase, Time, RepairKinds
  <2>3. task' = [task EXCEPT ![s] = new] /\ store' = base /\ past' = past
        /\ repairs' \subseteq Proposals /\ asks' = asks
    BY <1>1, <1>6
  <2> HIDE DEF new
  <2>4. Effects(s) /\ task'[s] = new
    BY <2>1, <2>2, <2>3, WaitsEffects
  <2> QED BY <1>1, <2>2, <2>3, <2>4
<1> QED
  <2>1. \/ /\ task' = [task EXCEPT ![s] = NoTask]
           /\ UNCHANGED <<store, repairs, asks, past>>
        \/ store[s].status = "down" /\ Propose(s, base, held, kind) /\ UNCHANGED asks
        \/ /\ store[s].status = "down" /\ Investigate(s, base, held, kind, now)
           /\ \A t \in Services : task[t].phase \notin {"queue", "ask"}
        \/ /\ store[s].status = "down" /\ store' = base
           /\ task' = [task EXCEPT ![s] = [NoTask EXCEPT !.phase = "queue", !.rec = held,
                                                         !.kind = kind, !.at = now]]
           /\ UNCHANGED <<repairs, asks, past>>
    BY DEF Start
  <2> HIDE DEF held, base, kind
  <2> QED BY <2>1, <1>2, <1>4, <1>5, <1>6

LEMMA EndedEffects ==
  ASSUME Sound, NEW s \in Services, Failed(s) \/ Fixed(s)
  PROVE  Effects(s) /\ task'[s].phase = "none"
<1> DEFINE rec == task[s].rec
           r == IF store[s].row THEN store[s] ELSE rec
           row == [r EXCEPT !.row = TRUE]
           paused == [row EXCEPT !.paused = TRUE]
<1>1. /\ task[s].phase = "fix" /\ task \in [Services -> Tasks]
      /\ repairs \in SUBSET Proposals /\ store \in [Services -> Record] /\ rec \in Record
  BY DEF Failed, Fixed, Ended, Sound, TypeOK, Proposals, Tasks
<1>2. /\ task' = [task EXCEPT ![s] = NoTask] /\ repairs' \subseteq repairs
      /\ \/ store' = [store EXCEPT ![s] = row] /\ past' = past
         \/ store' = [store EXCEPT ![s] = store[s]] /\ past' = past
         \/ /\ store' = [store EXCEPT ![s] = paused]
            /\ past' = [past EXCEPT ![s].failed = TRUE]
  BY DEF Failed, Fixed, Ended, Latest
<1>3. /\ task' \in [Services -> Tasks] /\ \A t \in Services \ {s} : task'[t] = task[t]
      /\ task'[s] = NoTask /\ repairs' \subseteq Proposals
  BY <1>1, <1>2, NothingTyped
<1>4. r \in Record /\ r = Source(s)
  BY <1>1 DEF Source
<1> HIDE DEF r
<1>5. /\ row \in Record /\ Kept(row, r) /\ row.fixed = r.fixed /\ row.paused = r.paused
  BY <1>4 DEF Record, Kept
<1> HIDE DEF row
<1>6. /\ paused \in Record /\ Kept(paused, r) /\ paused.fixed = r.fixed /\ paused.paused
      /\ row.row /\ paused.row
  BY <1>5 DEF Record, Kept
<1> HIDE DEF paused
<1>7. /\ store' \in [Services -> Record] /\ \A t \in Services \ {s} : store'[t] = store[t]
      /\ \/ store'[s] = row /\ past' = past
         \/ store'[s] = store[s] /\ past' = past
         \/ store'[s] = paused /\ past' = [past EXCEPT ![s].failed = TRUE]
  BY <1>1, <1>2, <1>5, <1>6
<1>8. NotApproving(s)
  BY <1>3, <1>4, <1>5, <1>6, <1>7, NothingTyped DEF NotApproving
<1> QED BY <1>1, <1>3, <1>6, <1>7, <1>8, NothingTyped DEF Effects

LEMMA HolderEffects ==
  ASSUME Sound, NEW s \in Services,
         Dequeue(s) \/ Answered(s) \/ Planned(s) \/ NotPlanned(s)
  PROVE  /\ Effects(s) /\ asks' \in 0..DailyAsks
         /\ task'[s].phase = "ask" => \A t \in Services : task[t].phase # "ask"
<1> DEFINE held == task[s].rec
           kind == task[s].kind
<1>1. /\ task[s].phase \in {"queue", "ask", "plan"} /\ asks \in 0..DailyAsks
      /\ repairs \in SUBSET Proposals /\ task[s] \in Tasks /\ task \in [Services -> Tasks]
      /\ kind \in RepairKinds \cup {"none"} /\ task[s].at \in Nat /\ held \in Record
      /\ task[s].phase = "plan" => kind # "none"
      /\ store \in [Services -> Record]
  BY DEF Dequeue, Answered, Planned, NotPlanned, Sound, TypeOK, Time, Proposals, Tasks, Planning
<1>2. Ready(s, store, held)
  BY <1>1, HolderReady
<1> HIDE DEF held, kind
<1>3. CASE Dequeue(s)
  <2>1. Unlocked /\ Investigate(s, store, held, kind, task[s].at)
    BY <1>3 DEF Dequeue, held, kind
  <2> QED BY <1>1, <1>2, <2>1, InvestigateEffects DEF Unlocked
<1>4. CASE Answered(s)
  <2>1. Propose(s, store, held, kind) /\ asks' = asks
    BY <1>4 DEF Answered, held, kind
  <2> QED BY <1>1, <1>2, <2>1, ProposeEffects
<1>5. CASE Planned(s)
  <2> DEFINE new == [service |-> s, kind |-> kind, thread |-> held.told, st |-> "waiting"]
  <2>1. asks' = asks /\ task[s].phase = "plan"
    BY <1>5 DEF Planned
  <2>2. new \in Proposals
    BY <1>1, <2>1 DEF Proposals, Record, Time
  <2>3. \/ \E q \in repairs : AutoRepair(s, store, held, repairs, q)
        \/ AutoRepair(s, store, held, repairs \cup {new}, new)
    BY <1>5 DEF Planned, held, kind
  <2> HIDE DEF new
  <2>4. Effects(s) /\ task'[s].phase # "ask"
    BY <1>1, <1>2, <2>2, <2>3, AutoRepairEffects
  <2> QED BY <1>1, <2>1, <2>4
<1>6. CASE NotPlanned(s)
  <2> DEFINE row == Latest(store[s], held)
  <2>1. /\ task' = [task EXCEPT ![s] = NoTask] /\ repairs' = repairs /\ asks' = asks
        /\ past' = past /\ (store' = store \/ store' = [store EXCEPT ![s] = row])
    BY <1>6 DEF NotPlanned, held
  <2>2. /\ row \in Record /\ Kept(row, Source(s))
        /\ row.fixed = Source(s).fixed /\ row.paused = Source(s).paused
    BY <1>2, LatestOf
  <2> HIDE DEF row
  <2>3. Effects(s) /\ task'[s] = NoTask
    <3>1. CASE store' = store
      BY <1>1, <1>2, <2>1, <3>1, NothingTyped, WaitsEffects
    <3>2. CASE store' = [store EXCEPT ![s] = row]
      BY <1>1, <1>2, <2>1, <2>2, <3>2, NothingTyped, WritesEffects
    <3> QED BY <2>1, <3>1, <3>2
  <2> QED BY <1>1, <2>1, <2>3, NothingTyped
<1> QED BY <1>3, <1>4, <1>5, <1>6

\* The steps of a handler that make something of its row.
Steps(s) ==
  \/ Start(s) \/ Dequeue(s) \/ Answered(s) \/ Planned(s) \/ NotPlanned(s)
  \/ Fixed(s) \/ Failed(s)

LEMMA HandlerEffects ==
  ASSUME Sound, NEW s \in Services, Steps(s)
  PROVE  /\ Effects(s) /\ asks' \in 0..DailyAsks
         /\ task'[s].phase = "ask" => \A t \in Services : task[t].phase # "ask"
         /\ UNCHANGED <<streak, round, now, words, restarts>> /\ Free
<1>1. UNCHANGED <<streak, round, now, words, restarts>> /\ Free
  BY DEF Steps, Start, Dequeue, Answered, Planned, NotPlanned, Fixed, Failed, Ended
<1>2. CASE Start(s)
  BY <1>1, <1>2, StartEffects
<1>3. CASE Dequeue(s) \/ Answered(s) \/ Planned(s) \/ NotPlanned(s)
  BY <1>1, <1>3, HolderEffects
<1>4. CASE Fixed(s) \/ Failed(s)
  <2>1. asks' = asks
    BY <1>4, NothingTyped DEF Fixed, Failed, Ended
  <2> QED BY <1>1, <1>4, <2>1, EndedEffects DEF Sound, TypeOK
<1> QED BY <1>2, <1>3, <1>4 DEF Steps


-----------------------------------------------------------------------------
(* What a round makes of the table.                                        *)

\* A round has visited s: o is what became of the row it had read.
Visited(s, reason, sight, o) ==
  /\ Visits(s, round.rows[s], streak[s], reason, o)
  /\ sight \in Sights
  /\ store'[s] = IF o.end = "forgotten" THEN NoRow
                 ELSE IF o.rec = round.rows[s] THEN store[s]
                 ELSE [o.rec EXCEPT !.row = TRUE]
  /\ sight # "gone" \/ round.rows[s].row
  /\ streak'[s] = [bad |-> o.bad, good |-> o.good]
  /\ task'[s] = IF o.end = "confirmed" /\ task[s].phase = "none"
                THEN [NoTask EXCEPT !.phase = "start"] ELSE task[s]
  /\ past'[s] = Remember(s, reason, o.end, sight)

\* It has not.
Passed(s) ==
  /\ store'[s] = store[s] /\ streak'[s] = streak[s]
  /\ task'[s] = task[s] /\ past'[s] = past[s]

LEMMA FinishEffects ==
  ASSUME Sound, FinishRound
  PROVE  /\ DOMAIN store' = Services /\ DOMAIN streak' = Services
         /\ DOMAIN task' = Services /\ DOMAIN past' = Services
         /\ \A s \in Services :
              Passed(s) \/ \E reason, sight, o : Visited(s, reason, sight, o)
<1>1. PICK sights \in [Services -> Sights] :
       LET row(s) == round.rows[s]
           visited == {s \in Services \ round.hidden : sights[s] # "gone" \/ row(s).row}
           new == [s \in visited |-> Seen(s, row(s), sights[s])]
       IN  /\ store' = [s \in Services |->
                          CASE s \notin visited           -> store[s]
                            [] s \in visited /\ new[s].end = "forgotten" -> NoRow
                            [] s \in visited /\ new[s].end # "forgotten" ->
                                 IF new[s].rec = row(s) THEN store[s]
                                 ELSE [new[s].rec EXCEPT !.row = TRUE]]
           /\ streak' = [s \in Services |->
                           IF s \in visited
                           THEN [bad |-> new[s].bad, good |-> new[s].good]
                           ELSE streak[s]]
           /\ task' = [s \in Services |->
                         IF s \in visited /\ new[s].end = "confirmed" /\ task[s].phase = "none"
                         THEN [NoTask EXCEPT !.phase = "start"]
                         ELSE task[s]]
           /\ past' = [s \in Services |->
                         IF s \in visited
                         THEN Remember(s, Reason(row(s), sights[s]), new[s].end, sights[s])
                         ELSE past[s]]
  BY DEF FinishRound
<1> DEFINE visited == {s \in Services \ round.hidden :
                         sights[s] # "gone" \/ round.rows[s].row}
           new == [s \in visited |-> Seen(s, round.rows[s], sights[s])]
<1>2. /\ DOMAIN store' = Services /\ DOMAIN streak' = Services
      /\ DOMAIN task' = Services /\ DOMAIN past' = Services
  BY <1>1
<1>3. ASSUME NEW s \in Services, s \notin visited PROVE Passed(s)
  BY <1>1, <1>3 DEF Passed
<1>4. ASSUME NEW s \in Services, s \in visited
      PROVE  Visited(s, Reason(round.rows[s], sights[s]), sights[s],
                     Seen(s, round.rows[s], sights[s]))
  <2> DEFINE r == round.rows[s]
             sight == sights[s]
             reason == Reason(r, sight)
             o == Seen(s, r, sight)
  <2>1. r \in Record /\ sight \in Sights
    BY DEF Sound, TypeOK
  <2>2. Visits(s, r, streak[s], reason, o)
    BY <2>1, SeenVisits
  <2>3. new[s] = o /\ (sight # "gone" \/ r.row)
    BY <1>4
  <2>4. /\ store'[s] = IF o.end = "forgotten" THEN NoRow
                       ELSE IF o.rec = r THEN store[s] ELSE [o.rec EXCEPT !.row = TRUE]
    <3>1. store'[s] = CASE s \notin visited -> store[s]
                        [] s \in visited /\ new[s].end = "forgotten" -> NoRow
                        [] s \in visited /\ new[s].end # "forgotten" ->
                             IF new[s].rec = r THEN store[s]
                             ELSE [new[s].rec EXCEPT !.row = TRUE]
      BY <1>1
    <3> HIDE DEF visited, new, o, r
    <3> QED BY <1>4, <2>3, <3>1
  <2>5. /\ streak'[s] = [bad |-> new[s].bad, good |-> new[s].good]
        /\ task'[s] = IF new[s].end = "confirmed" /\ task[s].phase = "none"
                      THEN [NoTask EXCEPT !.phase = "start"] ELSE task[s]
        /\ past'[s] = Remember(s, reason, new[s].end, sight)
    BY <1>1, <1>4
  <2> QED BY <2>1, <2>2, <2>3, <2>4, <2>5 DEF Visited
<1> QED BY <1>2, <1>3, <1>4

\* What the row, the streak and the handler become, without the names of a round.
LEMMA VisitedTyped ==
  ASSUME Sound, NEW s \in Services, NEW reason, NEW sight, NEW o, Visited(s, reason, sight, o)
  PROVE  /\ store'[s] \in Record /\ streak'[s] \in Streaks /\ task'[s] \in Tasks
         /\ past'[s] \in Memories
         /\ store'[s] = store[s] \/ store'[s] = NoRow \/ store'[s].row
         /\ task'[s] = task[s] \/ task'[s].phase = "start"
<1>1. /\ store[s] \in Record /\ task[s] \in Tasks /\ past[s] \in Memories
      /\ ConfirmRounds \in Nat
  BY PatrolAssumption DEF Sound, TypeOK, Tasks, Memories
<1>2. /\ o.rec \in Record /\ o.bad \in 0..ConfirmRounds /\ o.good \in 0..RecoverRounds
  BY DEF Visited, Visits
<1> DEFINE put == [o.rec EXCEPT !.row = TRUE]
           start == [NoTask EXCEPT !.phase = "start"]
           p == IF o.end = "forgotten" THEN Dropped(s) ELSE past[s]
           bad == IF reason = "none" THEN 0
                  ELSE IF p.bad < ConfirmRounds THEN p.bad + 1 ELSE p.bad
           meant == p.meant /\ reason # "none"
           removed == p.removed /\ sight = "gone"
<1>3. put \in Record /\ put.row
  BY <1>2 DEF Record
<1>4. start \in Tasks /\ start.phase = "start"
  BY NothingTyped DEF Tasks, NoTask, Phase
<1>5. p \in Memories
  BY <1>1 DEF Dropped, Memories, Time
<1>6. past'[s] = [p EXCEPT !.bad = bad, !.meant = meant, !.removed = removed]
  BY DEF Visited, Remember
<1> HIDE DEF put, start, p
<1>7. bad \in 0..ConfirmRounds /\ meant \in BOOLEAN /\ removed \in BOOLEAN
  BY <1>1, <1>5 DEF Memories
<1> HIDE DEF bad, meant, removed
<1>8. past'[s] \in Memories
  BY <1>5, <1>6, <1>7 DEF Memories
<1>9. store'[s] = NoRow \/ store'[s] = store[s] \/ store'[s] = put
  BY DEF Visited, put
<1>10. task'[s] = task[s] \/ task'[s] = start
  BY DEF Visited, start
<1>11. streak'[s] \in Streaks
  BY <1>2 DEF Visited, Streaks
<1> QED BY <1>1, <1>3, <1>4, <1>8, <1>9, <1>10, <1>11, NothingTyped


\* A round that begins reads every row and drops those of hidden services.
LEMMA BeginEffects ==
  ASSUME Sound, BeginRound
  PROVE  /\ now' = now + 1 /\ UNCHANGED <<task, repairs, asks, words, restarts>>
         /\ ~round.on /\ round'.on /\ round'.rows = store' /\ round' \in Rounds
         /\ store' \in [Services -> Record] /\ streak' \in [Services -> Streaks]
         /\ past' \in [Services -> Memories]
         /\ \A s \in Services :
              \/ store'[s] = store[s] /\ streak'[s] = streak[s] /\ past'[s] = past[s]
              \/ /\ store'[s] = NoRow /\ streak'[s] = NoStreak /\ store[s].row
                 /\ past'[s] = [Dropped(s) EXCEPT !.bad = 0]
<1>1. PICK hidden \in SUBSET Services :
       LET dropped == {s \in hidden : store[s].row}
       IN  /\ round' = [on |-> TRUE, hidden |-> hidden,
                        rows |-> [s \in Services |-> IF s \in dropped THEN NoRow ELSE store[s]]]
           /\ store' = [s \in Services |-> IF s \in dropped THEN NoRow ELSE store[s]]
           /\ streak' = [s \in Services |-> IF s \in dropped THEN NoStreak ELSE streak[s]]
           /\ past' = [s \in Services |->
                         IF s \in dropped THEN [Dropped(s) EXCEPT !.bad = 0] ELSE past[s]]
  BY DEF BeginRound
<1> DEFINE dropped == {s \in hidden : store[s].row}
           table == [s \in Services |-> IF s \in dropped THEN NoRow ELSE store[s]]
           forgets == [s \in Services |-> [Dropped(s) EXCEPT !.bad = 0]]
<1>2. /\ round' = [on |-> TRUE, hidden |-> hidden, rows |-> table]
      /\ store' = table
      /\ streak' = [s \in Services |-> IF s \in dropped THEN NoStreak ELSE streak[s]]
      /\ past' = [s \in Services |-> IF s \in dropped THEN forgets[s] ELSE past[s]]
  BY <1>1
<1>3. /\ store \in [Services -> Record] /\ streak \in [Services -> Streaks]
      /\ past \in [Services -> Memories]
  BY DEF Sound, TypeOK, Streaks, Memories
<1>4. forgets \in [Services -> Memories]
  <2> SUFFICES ASSUME NEW s \in Services PROVE [Dropped(s) EXCEPT !.bad = 0] \in Memories
    OBVIOUS
  <2>1. Dropped(s) \in Memories
    BY <1>3 DEF Dropped, Memories, Time
  <2> QED BY <2>1, PatrolAssumption DEF Memories
<1>5. \A s \in Services : forgets[s] = [Dropped(s) EXCEPT !.bad = 0]
  OBVIOUS
<1>6. \A s \in dropped : store[s].row
  OBVIOUS
<1> HIDE DEF dropped, forgets
<1>7. table \in [Services -> Record]
  BY <1>3, NothingTyped
<1>8. round' \in Rounds /\ round'.on /\ round'.rows = store'
  <2> HIDE DEF table
  <2> QED BY <1>2, <1>7 DEF Rounds
<1>9. streak' \in [Services -> Streaks] /\ past' \in [Services -> Memories]
  BY <1>2, <1>3, <1>4, NothingTyped
<1>10. ASSUME NEW s \in Services
       PROVE  \/ store'[s] = store[s] /\ streak'[s] = streak[s] /\ past'[s] = past[s]
              \/ /\ store'[s] = NoRow /\ streak'[s] = NoStreak /\ store[s].row
                 /\ past'[s] = [Dropped(s) EXCEPT !.bad = 0]
  BY <1>2, <1>5, <1>6
<1>11. now' = now + 1 /\ UNCHANGED <<task, repairs, asks, words, restarts>> /\ ~round.on
  BY DEF BeginRound
<1> QED BY <1>2, <1>7, <1>8, <1>9, <1>10, <1>11

\* What the owner says of the switches of a service.
LEMMA SwitchEffects ==
  ASSUME Sound, NEW s \in Services, NEW auto \in BOOLEAN, NEW unstick \in BOOLEAN,
         SetAutoRepair(s, auto, unstick)
  PROVE  /\ store' \in [Services -> Record] /\ past' \in [Services -> Memories]
         /\ \A t \in Services \ {s} : store'[t] = store[t] /\ past'[t] = past[t]
         /\ LET row == store'[s]
                p == past'[s]
            IN  /\ row.row /\ row.auto = auto /\ row.unstick = unstick /\ ~row.paused
                /\ row.status = store[s].status /\ row.confirmed = store[s].confirmed
                /\ row.sure = store[s].sure /\ row.fixed = store[s].fixed
                /\ p.auto = auto /\ p.unstick = unstick /\ ~p.lost /\ ~p.failed /\ ~p.removed
                /\ p.meant = (past[s].meant /\ ~auto) /\ p.fixed = past[s].fixed
                /\ p.bad = past[s].bad
<1> DEFINE row == [store[s] EXCEPT !.row = TRUE, !.auto = auto, !.unstick = unstick,
                                   !.paused = FALSE]
           meant == past[s].meant /\ ~auto
           p == [past[s] EXCEPT !.auto = auto, !.unstick = unstick, !.lost = FALSE,
                                !.failed = FALSE, !.removed = FALSE, !.meant = meant]
<1>1. /\ store \in [Services -> Record] /\ past \in [Services -> Memories]
      /\ store[s] \in Record /\ past[s] \in Memories
  BY DEF Sound, TypeOK, Memories
<1>2. store' = [store EXCEPT ![s] = row] /\ past' = [past EXCEPT ![s] = p]
  BY <1>1 DEF SetAutoRepair
<1>3. /\ row \in Record /\ row.row /\ row.auto = auto /\ row.unstick = unstick /\ ~row.paused
      /\ row.status = store[s].status /\ row.confirmed = store[s].confirmed
      /\ row.sure = store[s].sure /\ row.fixed = store[s].fixed
  BY <1>1 DEF Record
<1>4. meant \in BOOLEAN
  OBVIOUS
<1> HIDE DEF row, meant
<1>5. /\ p \in Memories /\ p.auto = auto /\ p.unstick = unstick /\ ~p.lost /\ ~p.failed
      /\ ~p.removed /\ p.meant = meant /\ p.fixed = past[s].fixed /\ p.bad = past[s].bad
  BY <1>1, <1>4 DEF Memories
<1> HIDE DEF p
<1>6. /\ store' \in [Services -> Record] /\ past' \in [Services -> Memories]
      /\ \A t \in Services \ {s} : store'[t] = store[t] /\ past'[t] = past[t]
      /\ store'[s] = row /\ past'[s] = p
  BY <1>1, <1>2, <1>3, <1>5
<1> QED BY <1>3, <1>5, <1>6 DEF meant

LEMMA AcknowledgeEffects ==
  ASSUME Sound, NEW s \in Services, Acknowledge(s)
  PROVE  /\ store' \in [Services -> Record] /\ past' \in [Services -> Memories]
         /\ streak' \in [Services -> Streaks]
         /\ \A t \in Services \ {s} :
              store'[t] = store[t] /\ past'[t] = past[t] /\ streak'[t] = streak[t]
         /\ store[s].row /\ store'[s] = [store[s] EXCEPT !.status = "ack"]
         /\ past'[s] = [past[s] EXCEPT !.meant = TRUE] /\ streak'[s] = NoStreak
<1> DEFINE row == [store[s] EXCEPT !.status = "ack"]
           p == [past[s] EXCEPT !.meant = TRUE]
<1>1. /\ store \in [Services -> Record] /\ past \in [Services -> Memories]
      /\ store[s] \in Record /\ past[s] \in Memories /\ streak \in [Services -> Streaks]
  BY DEF Sound, TypeOK, Memories, Streaks
<1>2. /\ store' = [store EXCEPT ![s] = row] /\ past' = [past EXCEPT ![s] = p]
      /\ streak' = [streak EXCEPT ![s] = NoStreak] /\ store[s].row
  BY <1>1 DEF Acknowledge
<1>3. row \in Record /\ p \in Memories
  BY <1>1 DEF Record, Memories
<1> HIDE DEF row, p
<1>4. /\ store' \in [Services -> Record] /\ past' \in [Services -> Memories]
      /\ streak' \in [Services -> Streaks]
      /\ \A t \in Services \ {s} :
           store'[t] = store[t] /\ past'[t] = past[t] /\ streak'[t] = streak[t]
      /\ store'[s] = row /\ past'[s] = p /\ streak'[s] = NoStreak
  BY <1>1, <1>2, <1>3, NothingTyped
<1> QED BY <1>2, <1>4 DEF row, p

LEMMA ForgetEffects ==
  ASSUME Sound, NEW s \in Services, Forget(s)
  PROVE  /\ store' \in [Services -> Record] /\ past' \in [Services -> Memories]
         /\ streak' \in [Services -> Streaks] /\ task' \in [Services -> Tasks]
         /\ \A t \in Services \ {s} : /\ store'[t] = store[t] /\ past'[t] = past[t]
                                      /\ streak'[t] = streak[t] /\ task'[t] = task[t]
         /\ store'[s] = NoRow /\ streak'[s] = NoStreak /\ task'[s] = NoTask
         /\ past'[s] = [NoPast EXCEPT !.removed = TRUE]
         /\ repairs' \subseteq repairs
<1> DEFINE p == [NoPast EXCEPT !.removed = TRUE]
<1>1. /\ store \in [Services -> Record] /\ past \in [Services -> Memories]
      /\ task \in [Services -> Tasks] /\ streak \in [Services -> Streaks]
  BY DEF Sound, TypeOK, Memories, Streaks, Tasks
<1>2. p \in Memories
  BY NothingTyped DEF Memories
<1> HIDE DEF p
<1>3. /\ store' = [store EXCEPT ![s] = NoRow] /\ past' = [past EXCEPT ![s] = p]
      /\ streak' = [streak EXCEPT ![s] = NoStreak] /\ task' = [task EXCEPT ![s] = NoTask]
      /\ repairs' \subseteq repairs
  BY DEF Forget, p
<1>4. /\ store' \in [Services -> Record] /\ past' \in [Services -> Memories]
      /\ streak' \in [Services -> Streaks] /\ task' \in [Services -> Tasks]
      /\ \A t \in Services \ {s} : /\ store'[t] = store[t] /\ past'[t] = past[t]
                                   /\ streak'[t] = streak[t] /\ task'[t] = task[t]
      /\ store'[s] = NoRow /\ streak'[s] = NoStreak /\ task'[s] = NoTask
      /\ past'[s] = p
  BY <1>1, <1>2, <1>3, NothingTyped
<1> QED BY <1>3, <1>4 DEF p

\* The steps that only change what is proposed.
Proposing(s) == AgentProposes(s) \/ Chat(s) \/ \E q \in repairs : Decide(q)

LEMMA ProposingEffects ==
  ASSUME Sound, NEW s \in Services, Proposing(s)
  PROVE  /\ UNCHANGED <<store, streak, round, task, now, asks, restarts, past>>
         /\ repairs' \subseteq Proposals /\ words' \in 0..MaxWords
<1>1. /\ repairs \subseteq Proposals /\ words \in 0..MaxWords /\ MaxWords \in Nat
      /\ task[s] \in Tasks
  BY PatrolAssumption DEF Sound, TypeOK, Proposals, Tasks
<1>2. \A k \in RepairKinds, n \in Nat :
        [service |-> s, kind |-> k, thread |-> n, st |-> "waiting"] \in Proposals
  BY DEF Proposals, Time
<1>3. CASE AgentProposes(s)
  <2>1. task[s].rec.told \in Nat
    BY <1>1 DEF Tasks, Record, Time
  <2> QED BY <1>1, <1>2, <1>3, <2>1, KindTyped DEF AgentProposes
<1>4. CASE Chat(s)
  BY <1>1, <1>2, <1>4, KindTyped DEF Chat, Word
<1>5. ASSUME NEW q \in repairs, Decide(q)
      PROVE  /\ UNCHANGED <<store, streak, round, task, now, asks, restarts, past>>
             /\ repairs' \subseteq Proposals /\ words' \in 0..MaxWords
  <2> DEFINE open == [q EXCEPT !.st = "working"]
  <2>1. open \in Proposals
    BY <1>1 DEF Proposals
  <2>2. repairs' = repairs \ {q} \/ repairs' = (repairs \ {q}) \cup {open}
    BY <1>5 DEF Decide
  <2> HIDE DEF open
  <2> QED BY <1>1, <1>5, <2>1, <2>2 DEF Decide
<1> QED BY <1>3, <1>4, <1>5 DEF Proposing

\* Every step is one of those.
LEMMA EveryStep ==
  ASSUME Sound, [Next]_vars
  PROVE  \/ BeginRound \/ FinishRound \/ Restart \/ UNCHANGED vars
         \/ \E s \in Services :
              \/ Steps(s) \/ Proposing(s) \/ Acknowledge(s) \/ Forget(s)
              \/ \E auto, unstick \in BOOLEAN : SetAutoRepair(s, auto, unstick)
<1>1. ASSUME NEW q \in repairs, Decide(q) PROVE \E s \in Services : Proposing(s)
  <2>1. q.service \in Services
    BY DEF Sound, TypeOK
  <2> QED BY <1>1, <2>1 DEF Proposing
<1> QED BY <1>1 DEF Next, Handle, Owner, Steps, Proposing

-----------------------------------------------------------------------------
(* Types hold, and one outage is investigated at a time.                   *)

LEMMA SoundStep ==
  ASSUME Sound, [Next]_vars
  PROVE  Sound'
<1>1. /\ store \in [Services -> Record] /\ streak \in [Services -> Streaks]
      /\ round \in Rounds /\ task \in [Services -> Tasks] /\ repairs \subseteq Proposals
      /\ now \in Nat /\ asks \in 0..DailyAsks /\ words \in 0..MaxWords
      /\ restarts \in 0..MaxRestarts /\ past \in [Services -> Memories]
      /\ MaxWords \in Nat /\ MaxRestarts \in Nat /\ Stable \in Nat
  BY PatrolAssumption
     DEF Sound, TypeOK, Streaks, Rounds, Tasks, Proposals, Memories, Time
<1>2. /\ now >= Stable + 1 /\ \A s \in Services : ~store[s].row => store[s] = NoRow
      /\ \A s \in Services : task[s].phase = "plan" => task[s].kind # "none"
      /\ \A s, t \in Services : task[s].phase = "ask" /\ task[t].phase = "ask" => s = t
  BY DEF Sound, Clock, Rowless, Planning, OneInvestigation
<1> DEFINE Good == /\ store' \in [Services -> Record] /\ streak' \in [Services -> Streaks]
                   /\ round' \in Rounds /\ task' \in [Services -> Tasks]
                   /\ repairs' \subseteq Proposals
                   /\ now' \in Nat /\ now' >= Stable + 1
                   /\ asks' \in 0..DailyAsks /\ words' \in 0..MaxWords
                   /\ restarts' \in 0..MaxRestarts /\ past' \in [Services -> Memories]
                   /\ \A s \in Services : ~store'[s].row => store'[s] = NoRow
                   /\ \A s \in Services : task'[s].phase = "plan" => task'[s].kind # "none"
                   /\ \A s, t \in Services :
                        task'[s].phase = "ask" /\ task'[t].phase = "ask" => s = t
<1> SUFFICES Good
  BY DEF Sound, TypeOK, Streaks, Rounds, Tasks, Proposals, Memories, Time, Clock, Rowless,
         Planning, OneInvestigation
<1>3. CASE BeginRound
  BY <1>1, <1>2, <1>3, BeginEffects
<1>4. CASE FinishRound
  <2>1. /\ round' = NoRound /\ UNCHANGED <<repairs, now, asks, words, restarts>>
    BY <1>4 DEF FinishRound
  <2>2. /\ store' = [s \in Services |-> store'[s]] /\ streak' = [s \in Services |-> streak'[s]]
        /\ task' = [s \in Services |-> task'[s]] /\ past' = [s \in Services |-> past'[s]]
    BY <1>4 DEF FinishRound
  <2>3. ASSUME NEW s \in Services
        PROVE  /\ store'[s] \in Record /\ streak'[s] \in Streaks /\ task'[s] \in Tasks
               /\ past'[s] \in Memories
               /\ store'[s] = store[s] \/ store'[s] = NoRow \/ store'[s].row
               /\ task'[s] = task[s] \/ task'[s].phase = "start"
    <3>1. CASE Passed(s)
      BY <1>1, <3>1 DEF Passed
    <3>2. CASE \E reason, sight, o : Visited(s, reason, sight, o)
      BY <3>2, VisitedTyped
    <3> QED BY <1>4, <3>1, <3>2, FinishEffects
  <2>4. /\ store' \in [Services -> Record] /\ streak' \in [Services -> Streaks]
        /\ task' \in [Services -> Tasks] /\ past' \in [Services -> Memories]
    BY <2>2, <2>3
  <2> QED BY <1>1, <1>2, <2>1, <2>3, <2>4, NothingTyped
<1>5. CASE Restart
  <2>1. /\ round' = NoRound /\ task' = [s \in Services |-> NoTask]
        /\ streak' = [s \in Services |-> NoStreak] /\ restarts' \in 0..MaxRestarts
        /\ UNCHANGED <<store, repairs, now, asks, words, past>>
    BY <1>1, <1>5 DEF Restart
  <2> QED BY <1>1, <1>2, <2>1, NothingTyped
<1>6. CASE UNCHANGED vars
  BY <1>1, <1>2, <1>6 DEF vars
<1>7. ASSUME NEW s \in Services, Steps(s) PROVE Good
  <2>1. /\ Effects(s) /\ asks' \in 0..DailyAsks
        /\ task'[s].phase = "ask" => \A t \in Services : task[t].phase # "ask"
        /\ UNCHANGED <<streak, round, now, words, restarts>>
    BY <1>7, HandlerEffects
  <2>2. /\ store' \in [Services -> Record] /\ \A t \in Services \ {s} : store'[t] = store[t]
        /\ task' \in [Services -> Tasks] /\ \A t \in Services \ {s} : task'[t] = task[t]
        /\ repairs' \subseteq Proposals
        /\ task'[s].phase = "plan" => task'[s].kind # "none"
        /\ store'[s].row \/ store'[s] = store[s]
        /\ Approving(s) \/ NotApproving(s)
    BY <2>1 DEF Effects
  <2>3. past' \in [Services -> Memories]
    <3> DEFINE p == [past[s] EXCEPT !.fixed = now, !.failed = FALSE]
               q == [past[s] EXCEPT !.failed = TRUE]
    <3>1. past' = past \/ past' = [past EXCEPT ![s] = p] \/ past' = [past EXCEPT ![s] = q]
      BY <1>1, <2>2 DEF Approving, NotApproving
    <3>2. p \in Memories /\ q \in Memories
      BY <1>1 DEF Memories, Time
    <3> HIDE DEF p, q
    <3> QED BY <1>1, <3>1, <3>2
  <2>4. /\ \A t \in Services : ~store'[t].row => store'[t] = NoRow
        /\ \A t \in Services : task'[t].phase = "plan" => task'[t].kind # "none"
        /\ \A t, u \in Services : task'[t].phase = "ask" /\ task'[u].phase = "ask" => t = u
    BY <1>2, <2>1, <2>2
  <2>5. /\ store' \in [Services -> Record] /\ streak' \in [Services -> Streaks]
        /\ round' \in Rounds /\ task' \in [Services -> Tasks] /\ repairs' \subseteq Proposals
        /\ now' \in Nat /\ now' >= Stable + 1 /\ asks' \in 0..DailyAsks
        /\ words' \in 0..MaxWords /\ restarts' \in 0..MaxRestarts
    BY <1>1, <1>2, <2>1, <2>2
  <2> QED
    BY <2>3, <2>4, <2>5
<1>8. ASSUME NEW s \in Services, Proposing(s) PROVE Good
  <2>1. /\ UNCHANGED <<store, streak, round, task, now, asks, restarts, past>>
        /\ repairs' \subseteq Proposals /\ words' \in 0..MaxWords
    BY <1>8, ProposingEffects
  <2> QED
    BY <1>1, <1>2, <2>1
<1>9. ASSUME NEW s \in Services, Acknowledge(s) PROVE Good
  <2>1. /\ UNCHANGED <<round, task, repairs, now, asks, restarts>> /\ words' \in 0..MaxWords
    BY <1>1, <1>9 DEF Acknowledge, Word
  <2>2. /\ store' \in [Services -> Record] /\ past' \in [Services -> Memories]
        /\ streak' \in [Services -> Streaks]
        /\ \A t \in Services \ {s} : store'[t] = store[t]
        /\ store[s].row /\ store'[s] = [store[s] EXCEPT !.status = "ack"]
    BY <1>9, AcknowledgeEffects
  <2>3. store'[s].row
    BY <1>1, <2>2 DEF Record
  <2> QED
    BY <1>1, <1>2, <2>1, <2>2, <2>3
<1>10. ASSUME NEW s \in Services, Forget(s) PROVE Good
  <2>1. UNCHANGED <<round, now, asks, restarts>> /\ words' \in 0..MaxWords
    BY <1>1, <1>10 DEF Forget, Word
  <2>2. /\ store' \in [Services -> Record] /\ past' \in [Services -> Memories]
        /\ streak' \in [Services -> Streaks] /\ task' \in [Services -> Tasks]
        /\ \A t \in Services \ {s} : store'[t] = store[t] /\ task'[t] = task[t]
        /\ store'[s] = NoRow /\ task'[s] = NoTask /\ repairs' \subseteq repairs
    BY <1>10, ForgetEffects
  <2> QED
    BY <1>1, <1>2, <2>1, <2>2, NothingTyped
<1>11. ASSUME NEW s \in Services, NEW auto \in BOOLEAN, NEW unstick \in BOOLEAN,
              SetAutoRepair(s, auto, unstick)
       PROVE  Good
  <2>1. /\ UNCHANGED <<streak, round, task, repairs, now, asks, restarts>>
        /\ words' \in 0..MaxWords
    BY <1>1, <1>11 DEF SetAutoRepair, Word
  <2>2. /\ store' \in [Services -> Record] /\ past' \in [Services -> Memories]
        /\ \A t \in Services \ {s} : store'[t] = store[t]
        /\ store'[s].row
    BY <1>11, SwitchEffects
  <2> QED
    BY <1>1, <1>2, <2>1, <2>2
<1> QED
  BY <1>3, <1>4, <1>5, <1>6, <1>7, <1>8, <1>9, <1>10, <1>11, EveryStep

\* Every row, handler and count of the patrol stays in its bounds, the count of
\* investigations of the day among them.
THEOREM PatrolTyped == Spec => []TypeOK
<1>1. Spec => []Sound
  BY SoundAtFirst, SoundStep, PTL DEF Spec
<1>2. Sound => TypeOK
  BY DEF Sound
<1> QED BY <1>1, <1>2, PTL

\* The Agent is asked about one outage at a time, however many services are down
\* and however rounds, the owner and restarts come in between.
THEOREM OneAtATime == Spec => []OneInvestigation
<1>1. Spec => []Sound
  BY SoundAtFirst, SoundStep, PTL DEF Spec
<1>2. Sound => OneInvestigation
  BY DEF Sound
<1> QED BY <1>1, <1>2, PTL


-----------------------------------------------------------------------------
(* An outage is confirmed by as many rounds as it takes.                   *)

\* The patrol's own count is never ahead of the rounds that saw it abnormal.
Counted == \A s \in Services : streak[s].bad <= past[s].bad

\* No outage was confirmed in the future, nor in the round that is at work, and
\* a handler that holds one of just now has it from the table.
Dating ==
  \A s \in Services :
    /\ store[s].confirmed <= now
    /\ round.on => store[s].confirmed < now /\ round.rows[s].confirmed < now
    /\ task[s].phase # "none" =>
         /\ task[s].rec.confirmed <= now
         /\ task[s].rec.confirmed = now => store[s].confirmed = now
         /\ round.on => task[s].rec.confirmed < now

\* The step confirms an outage of s only if its count says so.
Confirmed(s) ==
  store'[s].status = "down" /\ store'[s].confirmed = now /\ store[s].confirmed # now
  => past'[s].bad >= ConfirmRounds

LEMMA CountedAtFirst == Init => Counted /\ Dating
BY NothingTyped, PatrolAssumption
   DEF Init, Counted, Dating, NoStreak, NoPast, NoRow, NoRound, NoTask

LEMMA Numbers ==
  ASSUME Sound, NEW s \in Services
  PROVE  /\ store[s].confirmed \in Nat /\ round.rows[s].confirmed \in Nat
         /\ task[s].rec.confirmed \in Nat /\ now \in Nat /\ now > 0
         /\ streak[s].bad \in Nat /\ past[s].bad \in 0..ConfirmRounds
         /\ ConfirmRounds \in Nat /\ NoRow.confirmed = 0 /\ NoStreak.bad = 0 /\ NoPast.bad = 0
<1>1. /\ store[s] \in Record /\ round.rows[s] \in Record /\ task[s].rec \in Record
      /\ streak[s] \in Streaks /\ past[s] \in Memories /\ now \in Nat /\ now >= Stable + 1
  BY DEF Sound, TypeOK, Clock, Tasks, Memories, Streaks, Time
<1> QED BY <1>1, PatrolAssumption DEF Record, Time, Streaks, Memories, NoRow, NoStreak, NoPast

LEMMA VisitedCounts ==
  ASSUME Sound, Counted, Dating, round.on, NEW s \in Services, NEW reason, NEW sight, NEW o,
         Visited(s, reason, sight, o)
  PROVE  /\ streak'[s].bad <= past'[s].bad
         /\ store'[s].confirmed <= now /\ Confirmed(s)
         /\ task'[s].phase # "none" => task'[s].rec.confirmed < now
<1>1. /\ store[s].confirmed \in Nat /\ store[s].confirmed < now
      /\ round.rows[s].confirmed \in Nat /\ round.rows[s].confirmed < now
      /\ now \in Nat /\ now > 0 /\ streak[s].bad \in Nat /\ past[s].bad \in 0..ConfirmRounds
      /\ streak[s].bad <= past[s].bad /\ ConfirmRounds \in Nat /\ NoRow.confirmed = 0
  BY Numbers DEF Dating, Counted
<1>2. /\ o.rec \in Record /\ o.bad \in 0..ConfirmRounds
      /\ o.end = "confirmed" => o.rec.confirmed = now /\ o.bad >= ConfirmRounds
      /\ o.end # "confirmed" =>
           o.rec.confirmed = 0 \/ o.rec.confirmed = round.rows[s].confirmed
      /\ reason = "none" => o.bad = 0
      /\ reason # "none" => o.bad <= streak[s].bad + 1
  BY DEF Visited, Visits
<1>3. past'[s].bad = IF reason = "none" THEN 0
                     ELSE IF past[s].bad < ConfirmRounds THEN past[s].bad + 1 ELSE past[s].bad
  <2> DEFINE p == IF o.end = "forgotten" THEN Dropped(s) ELSE past[s]
  <2>1. past[s] \in Memories
    BY DEF Sound, TypeOK, Memories
  <2>2. p \in Memories /\ p.bad = past[s].bad
    BY <2>1 DEF Dropped, Memories, Time
  <2>3. past'[s] = [p EXCEPT
          !.bad = IF reason = "none" THEN 0 ELSE IF @ < ConfirmRounds THEN @ + 1 ELSE @,
          !.meant = @ /\ reason # "none", !.removed = @ /\ sight = "gone"]
    BY DEF Visited, Remember
  <2> HIDE DEF p
  <2> QED BY <2>2, <2>3 DEF Memories
<1>4. streak'[s].bad = o.bad /\ o.bad <= past'[s].bad
  BY <1>1, <1>2, <1>3 DEF Visited
<1> DEFINE put == [o.rec EXCEPT !.row = TRUE]
<1>5. /\ put.confirmed = o.rec.confirmed
      /\ store'[s] = NoRow \/ store'[s] = store[s] \/ store'[s] = put
  BY <1>2 DEF Visited, Record
<1> HIDE DEF put
<1>6. store'[s].confirmed <= now /\ Confirmed(s)
  <2>1. CASE o.end = "confirmed"
    BY <1>1, <1>2, <1>3, <1>4, <1>5, <2>1 DEF Confirmed
  <2>2. CASE o.end # "confirmed"
    BY <1>1, <1>2, <1>5, <2>2 DEF Confirmed
  <2> QED BY <2>1, <2>2
<1>7. task'[s].phase # "none" => task'[s].rec.confirmed < now
  BY <1>1 DEF Visited, Dating, NoTask
<1> QED BY <1>4, <1>6, <1>7

LEMMA CountedStep ==
  ASSUME Sound, Counted, Dating, [Next]_vars
  PROVE  Counted' /\ Dating' /\ \A s \in Services : Confirmed(s)
<1> DEFINE Good(t) == /\ streak'[t].bad <= past'[t].bad
                      /\ store'[t].confirmed <= now'
                      /\ round'.on => /\ store'[t].confirmed < now'
                                      /\ round'.rows[t].confirmed < now'
                      /\ task'[t].phase # "none" =>
                           /\ task'[t].rec.confirmed <= now'
                           /\ task'[t].rec.confirmed = now' => store'[t].confirmed = now'
                           /\ round'.on => task'[t].rec.confirmed < now'
                      /\ Confirmed(t)
<1> SUFFICES ASSUME NEW t \in Services PROVE Good(t)
  BY DEF Counted, Dating
<1>1. /\ store[t].confirmed \in Nat /\ round.rows[t].confirmed \in Nat
      /\ task[t].rec.confirmed \in Nat /\ now \in Nat /\ now > 0
      /\ streak[t].bad \in Nat /\ past[t].bad \in Nat
      /\ NoRow.confirmed = 0 /\ NoStreak.bad = 0
  BY Numbers
<1>2. /\ streak[t].bad <= past[t].bad /\ store[t].confirmed <= now
      /\ round.on => store[t].confirmed < now /\ round.rows[t].confirmed < now
      /\ task[t].phase # "none" =>
           /\ task[t].rec.confirmed <= now
           /\ task[t].rec.confirmed = now => store[t].confirmed = now
           /\ round.on => task[t].rec.confirmed < now
  BY DEF Counted, Dating
<1>3. past \in [Services -> Memories] /\ store \in [Services -> Record]
  BY DEF Sound, TypeOK, Memories
<1>4. CASE BeginRound
  <2>1. /\ now' = now + 1 /\ task' = task /\ round'.rows = store'
        /\ \/ store'[t] = store[t] /\ streak'[t] = streak[t] /\ past'[t] = past[t]
           \/ /\ store'[t] = NoRow /\ streak'[t] = NoStreak
              /\ past'[t] = [Dropped(t) EXCEPT !.bad = 0]
    BY <1>4, BeginEffects
  <2>2. Dropped(t) \in Memories
    BY <1>3 DEF Dropped, Memories, Time
  <2> DEFINE p == [Dropped(t) EXCEPT !.bad = 0]
  <2>3. p.bad = 0
    BY <2>2 DEF Memories
  <2> HIDE DEF p
  <2>4. \/ store'[t] = store[t] /\ streak'[t] = streak[t] /\ past'[t] = past[t]
        \/ store'[t] = NoRow /\ streak'[t] = NoStreak /\ past'[t] = p
    BY <2>1 DEF p
  <2>5. streak'[t].bad <= past'[t].bad
    BY <1>1, <1>2, <2>3, <2>4
  <2>6. store'[t].confirmed \in Nat /\ store'[t].confirmed <= now
    BY <1>1, <1>2, <2>4
  <2>7. Confirmed(t)
    BY <1>1, <2>4 DEF Confirmed
  <2> QED BY <1>1, <1>2, <2>1, <2>5, <2>6, <2>7
<1>5. CASE FinishRound
  <2>1. round.on /\ round' = NoRound /\ now' = now
    BY <1>5 DEF FinishRound
  <2>2. ~round'.on
    BY <2>1 DEF NoRound
  <2>3. CASE Passed(t)
    BY <1>1, <1>2, <2>1, <2>2, <2>3 DEF Passed, Confirmed
  <2>4. CASE \E reason, sight, o : Visited(t, reason, sight, o)
    <3>1. /\ streak'[t].bad <= past'[t].bad
          /\ store'[t].confirmed <= now /\ Confirmed(t)
          /\ task'[t].phase # "none" => task'[t].rec.confirmed < now
      BY <2>1, <2>4, VisitedCounts
    <3>2. task'[t].phase # "none" => task'[t].rec.confirmed \in Nat
      BY <1>1, <2>4 DEF Visited, NoTask, NoRow
    <3> QED BY <1>1, <2>1, <2>2, <3>1, <3>2
  <2> QED BY <1>5, <2>3, <2>4, FinishEffects
<1>6. CASE Restart
  <2>1. /\ round' = NoRound /\ task'[t] = NoTask /\ streak'[t] = NoStreak
        /\ UNCHANGED <<store, now, past>>
    BY <1>6 DEF Restart
  <2> QED BY <1>1, <1>2, <2>1, NothingTyped DEF NoRound, Confirmed
<1>7. CASE UNCHANGED vars
  BY <1>1, <1>2, <1>7 DEF vars, Confirmed
<1>8. ASSUME NEW s \in Services, Steps(s) PROVE Good(t)
  <2>1. Effects(s) /\ UNCHANGED <<streak, round, now, words, restarts>>
    BY <1>8, HandlerEffects
  <2>2. past'[t].bad = past[t].bad
    <3>1. \/ past' = past \/ past' = [past EXCEPT ![s].failed = TRUE]
          \/ past' = [past EXCEPT ![s].fixed = now, ![s].failed = FALSE]
      BY <2>1 DEF Effects, Approving, NotApproving
    <3> QED BY <1>3, <3>1 DEF Memories
  <2>3. CASE t # s
    BY <1>1, <1>2, <2>1, <2>2, <2>3 DEF Effects, Confirmed
  <2>4. CASE t = s
    <3>1. /\ task[s].phase # "none"
          /\ store'[s] = store[s] \/ Kept(store'[s], Source(s))
          /\ task'[s].phase # "none" =>
               \/ task'[s].rec = store'[s]
               \/ store'[s] = store[s] /\ task'[s].rec = task[s].rec
      BY <2>1 DEF Effects, Approving, NotApproving
    <3>2. \/ store'[s].confirmed = store[s].confirmed
          \/ store'[s].confirmed = task[s].rec.confirmed
      BY <3>1 DEF Kept, Source
    <3>3. /\ store'[s].confirmed \in Nat /\ store'[s].confirmed <= now
          /\ store'[s].confirmed = now => store[s].confirmed = now
          /\ round.on => store'[s].confirmed < now
      BY <1>1, <1>2, <2>4, <3>1, <3>2
    <3> QED BY <1>1, <1>2, <2>1, <2>2, <2>4, <3>1, <3>3 DEF Confirmed
  <2> QED BY <2>3, <2>4
<1>9. ASSUME NEW s \in Services, Proposing(s) PROVE Good(t)
  BY <1>1, <1>2, <1>9, ProposingEffects DEF Confirmed
<1>10. ASSUME NEW s \in Services, Acknowledge(s) PROVE Good(t)
  <2>1. /\ store'[t].confirmed = store[t].confirmed
        /\ past'[t].bad = past[t].bad
        /\ streak'[t] = streak[t] \/ streak'[t] = NoStreak
    <3>1. [store[t] EXCEPT !.status = "ack"].confirmed = store[t].confirmed
      BY <1>3 DEF Record
    <3>2. [past[t] EXCEPT !.meant = TRUE].bad = past[t].bad
      BY <1>3 DEF Memories
    <3> QED BY <1>10, <3>1, <3>2, AcknowledgeEffects
  <2>2. UNCHANGED <<round, task, now>>
    BY <1>10 DEF Acknowledge
  <2> QED BY <1>1, <1>2, <2>1, <2>2 DEF Confirmed
<1>11. ASSUME NEW s \in Services, Forget(s) PROVE Good(t)
  <2>1. UNCHANGED <<round, now>>
    BY <1>11 DEF Forget
  <2>2. CASE t # s
    BY <1>1, <1>2, <1>11, <2>1, <2>2, ForgetEffects DEF Confirmed
  <2>3. CASE t = s
    <3>1. /\ store'[t].confirmed = 0 /\ streak'[t].bad = 0 /\ task'[t].phase = "none"
          /\ past'[t].bad = 0
      BY <1>1, <1>11, <2>3, ForgetEffects, NothingTyped DEF NoPast
    <3> QED BY <1>1, <1>2, <2>1, <3>1 DEF Confirmed
  <2> QED BY <2>2, <2>3
<1>12. ASSUME NEW s \in Services, NEW auto \in BOOLEAN, NEW unstick \in BOOLEAN,
              SetAutoRepair(s, auto, unstick)
       PROVE  Good(t)
  <2>1. store'[t].confirmed = store[t].confirmed /\ past'[t].bad = past[t].bad
    BY <1>12, SwitchEffects
  <2>2. UNCHANGED <<streak, round, task, now>>
    BY <1>12 DEF SetAutoRepair
  <2> QED BY <1>1, <1>2, <2>1, <2>2 DEF Confirmed
<1> HIDE DEF Good
<1> QED BY <1>4, <1>5, <1>6, <1>7, <1>8, <1>9, <1>10, <1>11, <1>12, EveryStep

\* An outage is confirmed only after as many rounds in a row as the program asks
\* for have looked at the service and seen it abnormal, whatever the owner does
\* between them.
THEOREM ConfirmedInTime == Spec => ConfirmedByRounds
<1> DEFINE Inv == Sound /\ Counted /\ Dating
<1>1. Init => Inv
  BY SoundAtFirst, CountedAtFirst
<1>2. Inv /\ [Next]_vars => Inv'
  BY SoundStep, CountedStep
<1>3. Inv /\ [Next]_vars =>
        [\A s \in Services :
           store'[s].status = "down" /\ store'[s].confirmed = now /\ store[s].confirmed # now
           => past'[s].bad >= ConfirmRounds]_vars
  BY CountedStep DEF Confirmed
<1> HIDE DEF Inv
<1> QED BY <1>1, <1>2, <1>3, PTL DEF Spec, ConfirmedByRounds


-----------------------------------------------------------------------------
(* What the owner is promised while nothing runs beside a round.  With      *)
(* Overlap a round writes back what it read before its probes, and none of  *)
(* this holds.                                                             *)

\* A round that awaits its probes has the rows of the table.
Fresh == round.on => round.rows = store

\* Of one service, with its row, its handler and what was said of it:
\* a handler whose row is gone has been at work when a round dropped it;
HeldRow(row, h, p) == h.phase \notin {"none", "start"} /\ ~row.row => p.lost

\* the switches are where the owner has put them;
Switched(row, p) == ~p.lost => (row.auto => p.auto) /\ (row.unstick => p.unstick)

\* what is meant is marked so, or nobody watches it;
Marked(s, row, p) ==
  p.meant => row.row /\ (row.status = "ack" \/ (row.status = "ok" /\ ~Watched(s, row)))

\* what is removed has neither row nor handler;
Removed(row, h, p) == p.removed => ~row.row /\ h.phase = "none"

\* the row knows the last automatic repair, and whether it has failed.
Repaired(row, p) ==
  /\ p.fixed # 0 => row.row /\ row.fixed = p.fixed
  /\ p.failed => row.row /\ row.paused

Promise(s, row, h, p) ==
  /\ HeldRow(row, h, p) /\ Switched(row, p) /\ Marked(s, row, p)
  /\ Removed(row, h, p) /\ Repaired(row, p)

Promised == \A s \in Services : Promise(s, store[s], task[s], past[s])

\* An approval of a repair of s is as the owner has it.
Allowed(s) ==
  Approves(s) =>
    /\ ~past[s].lost => past[s].auto /\ (task'[s].rec.reason = "stuck" => past[s].unstick)
    /\ past[s].fixed = 0 \/ now - past[s].fixed >= FixCooldown
    /\ ~past[s].failed

LEMMA PromisedAtFirst == Init => Promised /\ Fresh
<1> SUFFICES ASSUME Init PROVE Promised /\ Fresh
  OBVIOUS
<1>1. Fresh
  BY DEF Init, Fresh, NoRound
<1>2. ASSUME NEW s \in Services PROVE Promise(s, store[s], task[s], past[s])
  <2>1. store[s] = NoRow /\ task[s] = NoTask /\ past[s] = NoPast
    BY DEF Init
  <2>2. /\ NoTask.phase = "none" /\ ~NoRow.auto /\ ~NoRow.unstick /\ ~NoRow.row
        /\ ~NoPast.meant /\ ~NoPast.removed /\ NoPast.fixed = 0 /\ ~NoPast.failed
    BY DEF NoTask, NoRow, NoPast
  <2> QED BY <2>1, <2>2 DEF Promise, HeldRow, Switched, Marked, Removed, Repaired
<1> QED BY <1>1, <1>2 DEF Promised

LEMMA FreshStep ==
  ASSUME ~Overlap, Sound, Fresh, [Next]_vars
  PROVE  Fresh'
<1>1. CASE BeginRound
  BY <1>1, BeginEffects DEF Fresh
<1>2. CASE FinishRound \/ Restart
  <2>1. round' = NoRound
    BY <1>2 DEF FinishRound, Restart
  <2>2. ~round'.on
    BY <2>1 DEF NoRound
  <2> QED BY <2>2 DEF Fresh
<1>3. CASE UNCHANGED vars
  BY <1>3 DEF Fresh, vars
<1>4. ASSUME NEW s \in Services,
             \/ Steps(s) \/ Acknowledge(s) \/ Forget(s)
             \/ \E auto, unstick \in BOOLEAN : SetAutoRepair(s, auto, unstick)
      PROVE  Fresh'
  <2>1. round' = round /\ Free
    BY <1>4, HandlerEffects DEF Acknowledge, Forget, SetAutoRepair, Word
  <2> QED BY <2>1 DEF Fresh, Free
<1>5. ASSUME NEW s \in Services, Proposing(s) PROVE Fresh'
  BY <1>5, ProposingEffects DEF Fresh
<1> QED BY <1>1, <1>2, <1>3, <1>4, <1>5, EveryStep

\* A row a round has dropped.
LEMMA DroppedPromise ==
  ASSUME Sound, NEW s \in Services, NEW p, p \in Memories, Promise(s, store[s], task[s], past[s]),
         ~p.meant, ~p.failed, p.fixed = 0, p.lost = (past[s].lost \/ task[s].phase # "none"),
         p.removed => past[s].removed
  PROVE  Promise(s, NoRow, task[s], p)
<1>1. ~NoRow.auto /\ ~NoRow.unstick /\ ~NoRow.row
  BY DEF NoRow
<1> QED BY <1>1 DEF Promise, HeldRow, Switched, Marked, Removed, Repaired

LEMMA VisitedPromise ==
  ASSUME Sound, round.rows = store, NEW s \in Services, NEW reason, NEW sight, NEW o,
         Promise(s, store[s], task[s], past[s]), Visited(s, reason, sight, o)
  PROVE  Promise(s, store'[s], task'[s], past'[s])
<1>1. /\ past[s] \in Memories /\ store[s] \in Record /\ task[s] \in Tasks
  BY DEF Sound, TypeOK, Memories, Tasks
<1>2. /\ o.rec \in Record /\ Kin(o.rec, store[s])
      /\ reason # "none" /\ (\/ store[s].status = "ack"
                             \/ store[s].status = "ok" /\ ~Watched(s, store[s]))
         => o.rec.status = "ack" \/ (o.rec.status = "ok" /\ ~Watched(s, o.rec))
      /\ sight # "gone" \/ store[s].row
  BY DEF Visited, Visits
<1> DEFINE bad(b) == IF reason = "none" THEN 0 ELSE IF b < ConfirmRounds THEN b + 1 ELSE b
           p == IF o.end = "forgotten" THEN Dropped(s) ELSE past[s]
           q == [p EXCEPT !.bad = bad(p.bad), !.meant = p.meant /\ reason # "none",
                          !.removed = p.removed /\ sight = "gone"]
<1>3. past'[s] = q
  BY DEF Visited, Remember
<1>4. /\ p \in Memories
      /\ o.end # "forgotten" => p = past[s]
      /\ o.end = "forgotten" => /\ ~p.meant /\ ~p.failed /\ p.fixed = 0
                                /\ p.lost = (past[s].lost \/ task[s].phase # "none")
                                /\ p.removed = past[s].removed
  BY <1>1 DEF Dropped, Memories, Time
<1> HIDE DEF p, bad
<1>5. /\ q.auto = p.auto /\ q.unstick = p.unstick /\ q.lost = p.lost
      /\ q.failed = p.failed /\ q.fixed = p.fixed
      /\ q.meant = (p.meant /\ reason # "none") /\ q.removed = (p.removed /\ sight = "gone")
  BY <1>4 DEF Memories
<1>6. past'[s] \in Memories
  BY VisitedTyped
<1> HIDE DEF q
<1>7. task'[s] = task[s] \/ task'[s].phase = "start"
  BY VisitedTyped
<1>8. ~q.removed
  BY <1>2, <1>4, <1>5 DEF Promise, Removed
<1>9. CASE o.end = "forgotten"
  <2>1. store'[s] = NoRow /\ task'[s] = task[s]
    BY <1>9 DEF Visited
  <2> QED BY <1>3, <1>4, <1>5, <1>6, <1>8, <1>9, <2>1, DroppedPromise
<1>10. CASE o.end # "forgotten"
  <2> DEFINE put == [o.rec EXCEPT !.row = TRUE]
  <2>1. store'[s] = store[s] \/ store'[s] = put
    BY <1>10 DEF Visited
  <2>2. /\ put.row /\ put.auto = store[s].auto /\ put.unstick = store[s].unstick
        /\ put.paused = store[s].paused /\ put.fixed = store[s].fixed
        /\ put.status = o.rec.status /\ put.sure = o.rec.sure
    BY <1>2 DEF Record, Kin
  <2>3. Watched(s, put) = Watched(s, o.rec)
    BY <1>2, <2>2 DEF Watched, Kin
  <2> HIDE DEF put
  <2>4. Marked(s, store'[s], q)
    <3>1. CASE store'[s] = put
      BY <1>2, <1>4, <1>5, <1>10, <2>2, <2>3, <3>1 DEF Promise, Marked
    <3>2. CASE store'[s] = store[s]
      BY <1>4, <1>5, <1>10, <3>2 DEF Promise, Marked
    <3> QED BY <2>1, <3>1, <3>2
  <2>5. Switched(store'[s], q) /\ Repaired(store'[s], q)
    BY <1>4, <1>5, <1>10, <2>1, <2>2 DEF Promise, Switched, Repaired
  <2>6. HeldRow(store'[s], task'[s], q)
    BY <1>4, <1>5, <1>7, <1>10, <2>1, <2>2 DEF Promise, HeldRow
  <2> QED BY <1>3, <1>8, <2>4, <2>5, <2>6 DEF Promise, Removed
<1> QED BY <1>9, <1>10


\* The handler writes what the owner has said of a row that is there, and puts
\* back a row that is not only where a round has dropped it.
LEMMA EffectsPromise ==
  ASSUME Sound, NEW s \in Services, Effects(s), Promise(s, store[s], task[s], past[s])
  PROVE  Promise(s, store'[s], task'[s], past'[s]) /\ Allowed(s)
<1>1. /\ past \in [Services -> Memories] /\ past[s] \in Memories /\ now > 0
  BY Numbers DEF Sound, TypeOK, Memories
<1>2. /\ task[s].phase # "none" /\ task'[s].phase # "start"
      /\ store'[s].row \/ store'[s] = store[s]
      /\ store[s].row \/ task[s].phase # "start" \/ store'[s] = store[s]
      /\ task'[s].phase # "none" =>
           \/ store'[s].row \/ (store'[s] = store[s] /\ task[s].phase # "start")
  BY DEF Effects
<1>3. ~past[s].removed
  BY <1>2 DEF Promise, Removed
<1>4. ~store[s].row /\ task[s].phase # "start" => past[s].lost /\ ~past[s].meant
                                   /\ past[s].fixed = 0 /\ ~past[s].failed
  BY <1>1, <1>2 DEF Promise, HeldRow, Marked, Repaired
<1>5. store[s].row => Source(s) = store[s]
  BY DEF Source
<1>6. ASSUME Kept(store'[s], Source(s)), store[s].row \/ task[s].phase # "start",
             NEW p, p.auto = past[s].auto, p.unstick = past[s].unstick,
             p.lost = past[s].lost, p.meant = past[s].meant, p.removed = past[s].removed
      PROVE  /\ HeldRow(store'[s], task'[s], p) /\ Switched(store'[s], p)
             /\ Marked(s, store'[s], p) /\ Removed(store'[s], task'[s], p)
  <2>1. store'[s].row
    BY <1>6 DEF Kept
  <2>2. Switched(store'[s], p)
    BY <1>4, <1>5, <1>6 DEF Kept, Promise, Switched
  <2>3. Marked(s, store'[s], p)
    <3>1. CASE store[s].row
      <4>1. Watched(s, store'[s]) = Watched(s, store[s])
        BY <1>5, <1>6, <3>1 DEF Kept, Watched
      <4> QED BY <1>5, <1>6, <2>1, <3>1, <4>1 DEF Kept, Promise, Marked
    <3>2. CASE ~store[s].row
      BY <1>4, <1>6, <3>2 DEF Marked
    <3> QED BY <3>1, <3>2
  <2> QED BY <1>3, <1>6, <2>1, <2>2, <2>3 DEF HeldRow, Removed
<1>7. CASE Approving(s)
  <2> DEFINE p == [past[s] EXCEPT !.fixed = now, !.failed = FALSE]
  <2>1. /\ task'[s].phase = "fix" /\ task[s].phase # "fix" /\ MayRepair(Source(s))
        /\ Kept(store'[s], Source(s)) /\ store'[s].fixed = now
        /\ task'[s].rec = store'[s] /\ past'[s] = p
    BY <1>1, <1>7 DEF Approving
  <2>2. /\ p.auto = past[s].auto /\ p.unstick = past[s].unstick /\ p.lost = past[s].lost
        /\ p.meant = past[s].meant /\ p.removed = past[s].removed
        /\ p.fixed = now /\ ~p.failed
    BY <1>1 DEF Memories
  <2> HIDE DEF p
  <2>3. store[s].row \/ task[s].phase # "start"
    BY <1>2, <2>1 DEF Kept
  <2>4. /\ HeldRow(store'[s], task'[s], p) /\ Switched(store'[s], p)
        /\ Marked(s, store'[s], p) /\ Removed(store'[s], task'[s], p)
    BY <1>6, <2>1, <2>2, <2>3
  <2>5. Repaired(store'[s], p)
    BY <2>1, <2>2 DEF Kept, Repaired
  <2>6. Allowed(s)
    <3>1. task'[s].rec.reason = Source(s).reason
      BY <2>1 DEF Kept
    <3>2. CASE store[s].row
      BY <1>5, <2>1, <3>1, <3>2 DEF Allowed, MayRepair, Promise, Switched, Repaired
    <3>3. CASE ~store[s].row
      BY <1>4, <2>3, <3>3 DEF Allowed
    <3> QED BY <3>2, <3>3
  <2> QED BY <2>1, <2>4, <2>5, <2>6 DEF Promise
<1>8. CASE NotApproving(s)
  <2> DEFINE q == [past[s] EXCEPT !.failed = TRUE]
  <2>1. /\ q.auto = past[s].auto /\ q.unstick = past[s].unstick /\ q.lost = past[s].lost
        /\ q.meant = past[s].meant /\ q.removed = past[s].removed
        /\ q.fixed = past[s].fixed /\ q.failed
    BY <1>1 DEF Memories
  <2>2. \/ past'[s] = past[s]
        \/ past'[s] = q /\ store'[s].row /\ store'[s].paused
    BY <1>1, <1>8 DEF NotApproving
  <2> HIDE DEF q
  <2>3. Allowed(s)
    BY <1>8 DEF NotApproving, Allowed, Approves
  <2> DEFINE p == past'[s]
  <2>4. /\ p.auto = past[s].auto /\ p.unstick = past[s].unstick /\ p.lost = past[s].lost
        /\ p.meant = past[s].meant /\ p.removed = past[s].removed /\ p.fixed = past[s].fixed
        /\ p.failed => past[s].failed \/ (store'[s].row /\ store'[s].paused)
    BY <2>1, <2>2
  <2> HIDE DEF p
  <2>5. CASE store'[s] = store[s]
    <3>1. HeldRow(store'[s], task'[s], p)
      BY <1>2, <1>4, <2>4, <2>5 DEF HeldRow
    <3>2. /\ Switched(store'[s], p) /\ Marked(s, store'[s], p)
          /\ Removed(store'[s], task'[s], p)
      BY <1>3, <2>4, <2>5 DEF Promise, Switched, Marked, Removed
    <3>3. Repaired(store'[s], p)
      BY <2>4, <2>5 DEF Promise, Repaired
    <3> QED BY <2>3, <3>1, <3>2, <3>3 DEF Promise, p
  <2>6. CASE store'[s] # store[s]
    <3>1. /\ Kept(store'[s], Source(s)) /\ store'[s].fixed = Source(s).fixed
          /\ Source(s).paused => store'[s].paused
      BY <1>8, <2>6 DEF NotApproving
    <3>2. store[s].row \/ task[s].phase # "start"
      BY <1>2, <2>6
    <3>3. /\ HeldRow(store'[s], task'[s], p) /\ Switched(store'[s], p)
          /\ Marked(s, store'[s], p) /\ Removed(store'[s], task'[s], p)
      BY <1>6, <2>4, <3>1, <3>2
    <3>4. Repaired(store'[s], p)
      <4>1. store'[s].row
        BY <3>1 DEF Kept
      <4>2. CASE store[s].row
        BY <1>5, <2>4, <3>1, <4>1, <4>2 DEF Promise, Repaired
      <4>3. CASE ~store[s].row
        BY <1>4, <2>4, <3>2, <4>1, <4>3 DEF Repaired
      <4> QED BY <4>2, <4>3
    <3> QED BY <2>3, <3>3, <3>4 DEF Promise, p
  <2> QED BY <2>5, <2>6
<1> QED BY <1>7, <1>8 DEF Effects


LEMMA PromisedStep ==
  ASSUME ~Overlap, Sound, Fresh, Promised, [Next]_vars
  PROVE  Promised' /\ \A s \in Services : Allowed(s)
<1> DEFINE Good(t) == Promise(t, store'[t], task'[t], past'[t]) /\ Allowed(t)
<1> SUFFICES ASSUME NEW t \in Services PROVE Good(t)
  <2>1. ASSUME NEW t \in Services, Good(t)
        PROVE  Promise(t, store[t], task[t], past[t])'
    BY <2>1 DEF Promise, HeldRow, Switched, Marked, Removed, Repaired, Watched
  <2> QED BY <2>1 DEF Promised
<1>1. /\ Promise(t, store[t], task[t], past[t]) /\ past[t] \in Memories
      /\ store[t] \in Record /\ task[t] \in Tasks
  BY DEF Promised, Sound, TypeOK, Memories, Tasks
<1>2. ASSUME task'[t].phase = "fix" => task[t].phase = "fix" PROVE Allowed(t)
  BY <1>2 DEF Allowed, Approves
<1>3. ASSUME store'[t] = store[t], task'[t] = task[t], past'[t] = past[t] PROVE Good(t)
  BY <1>1, <1>2, <1>3
<1>4. CASE BeginRound
  <2> DEFINE p == [Dropped(t) EXCEPT !.bad = 0]
  <2>1. /\ task' = task
        /\ \/ store'[t] = store[t] /\ past'[t] = past[t]
           \/ store'[t] = NoRow /\ past'[t] = p
    BY <1>4, BeginEffects
  <2>2. /\ Dropped(t) \in Memories /\ ~Dropped(t).meant /\ ~Dropped(t).failed
        /\ Dropped(t).fixed = 0 /\ Dropped(t).removed = past[t].removed
        /\ Dropped(t).lost = (past[t].lost \/ task[t].phase # "none")
    BY <1>1 DEF Dropped, Memories, Time
  <2>3. /\ p \in Memories /\ ~p.meant /\ ~p.failed /\ p.fixed = 0
        /\ p.removed = past[t].removed
        /\ p.lost = (past[t].lost \/ task[t].phase # "none")
    BY <2>2, PatrolAssumption DEF Memories
  <2> HIDE DEF p
  <2>4. Promise(t, NoRow, task[t], p)
    BY <1>1, <2>3, DroppedPromise
  <2>5. task'[t].phase = task[t].phase
    BY <2>1
  <2> QED BY <1>2, <1>3, <2>1, <2>4, <2>5
<1>5. CASE FinishRound
  <2>1. round.rows = store
    BY <1>5 DEF Fresh, FinishRound
  <2>2. CASE Passed(t)
    BY <1>3, <2>2 DEF Passed
  <2>3. CASE \E reason, sight, o : Visited(t, reason, sight, o)
    <3>1. Promise(t, store'[t], task'[t], past'[t])
      BY <1>1, <2>1, <2>3, VisitedPromise
    <3>2. task'[t] = task[t] \/ task'[t].phase = "start"
      BY <2>3, VisitedTyped
    <3> QED BY <1>2, <3>1, <3>2
  <2> QED BY <1>5, <2>2, <2>3, FinishEffects
<1>6. CASE Restart
  <2>1. store'[t] = store[t] /\ task'[t] = NoTask /\ past'[t] = past[t]
    BY <1>6 DEF Restart
  <2> QED
    BY <1>1, <1>2, <2>1, NothingTyped DEF Promise, HeldRow, Removed
<1>7. CASE UNCHANGED vars
  BY <1>3, <1>7 DEF vars
<1>8. ASSUME NEW s \in Services, Steps(s) PROVE Good(t)
  <2>1. Effects(s)
    BY <1>8, HandlerEffects
  <2>2. CASE t = s
    BY <1>1, <2>1, <2>2, EffectsPromise
  <2>3. CASE t # s
    <3>1. past \in [Services -> Memories]
      BY DEF Sound, TypeOK, Memories
    <3>2. /\ store'[t] = store[t] /\ task'[t] = task[t] /\ past'[t] = past[t]
      BY <2>1, <2>3, <3>1 DEF Effects, Approving, NotApproving
    <3> QED BY <1>3, <3>2
  <2> QED BY <2>2, <2>3
<1>9. ASSUME NEW s \in Services, Proposing(s) PROVE Good(t)
  BY <1>3, <1>9, ProposingEffects
<1>10. ASSUME NEW s \in Services, Acknowledge(s) PROVE Good(t)
  <2>1. task' = task
    BY <1>10 DEF Acknowledge
  <2>2. CASE t # s
    BY <1>3, <1>10, <2>1, <2>2, AcknowledgeEffects
  <2>3. CASE t = s
    <3> DEFINE row == [store[t] EXCEPT !.status = "ack"]
               p == [past[t] EXCEPT !.meant = TRUE]
    <3>1. store[t].row /\ store'[t] = row /\ past'[t] = p
      BY <1>10, <2>3, AcknowledgeEffects
    <3>2. /\ row.row = store[t].row /\ row.status = "ack" /\ row.auto = store[t].auto
          /\ row.unstick = store[t].unstick /\ row.fixed = store[t].fixed
          /\ row.paused = store[t].paused
      BY <1>1 DEF Record
    <3>3. /\ p.auto = past[t].auto /\ p.unstick = past[t].unstick /\ p.lost = past[t].lost
          /\ p.removed = past[t].removed /\ p.fixed = past[t].fixed
          /\ p.failed = past[t].failed
      BY <1>1 DEF Memories
    <3> HIDE DEF row, p
    <3>4. Promise(t, row, task[t], p)
      BY <1>1, <3>1, <3>2, <3>3 DEF Promise, HeldRow, Switched, Marked, Removed, Repaired
    <3> QED BY <1>2, <2>1, <3>1, <3>4
  <2> QED BY <2>2, <2>3
<1>11. ASSUME NEW s \in Services, Forget(s) PROVE Good(t)
  <2>1. CASE t # s
    BY <1>3, <1>11, <2>1, ForgetEffects
  <2>2. CASE t = s
    <3> DEFINE p == [NoPast EXCEPT !.removed = TRUE]
    <3>1. store'[t] = NoRow /\ task'[t] = NoTask /\ past'[t] = p
      BY <1>11, <2>2, ForgetEffects
    <3>2. ~p.meant /\ p.fixed = 0 /\ ~p.failed
      BY DEF NoPast
    <3>3. ~NoRow.auto /\ ~NoRow.unstick /\ ~NoRow.row
      BY DEF NoRow
    <3> HIDE DEF p
    <3>4. Promise(t, NoRow, NoTask, p)
      BY <3>2, <3>3, NothingTyped
         DEF Promise, HeldRow, Switched, Marked, Removed, Repaired
    <3> QED BY <1>2, <3>1, <3>4, NothingTyped
  <2> QED BY <2>1, <2>2
<1>12. ASSUME NEW s \in Services, NEW auto \in BOOLEAN, NEW unstick \in BOOLEAN,
              SetAutoRepair(s, auto, unstick)
       PROVE  Good(t)
  <2>1. task' = task
    BY <1>12 DEF SetAutoRepair
  <2>2. CASE t # s
    BY <1>3, <1>12, <2>1, <2>2, SwitchEffects
  <2>3. CASE t = s
    <3> DEFINE row == store'[t]
               p == past'[t]
    <3>1. /\ row.row /\ row.auto = auto /\ row.unstick = unstick /\ ~row.paused
          /\ row.status = store[t].status /\ row.sure = store[t].sure
          /\ row.fixed = store[t].fixed
          /\ p.auto = auto /\ p.unstick = unstick /\ ~p.lost /\ ~p.failed /\ ~p.removed
          /\ p.meant = (past[t].meant /\ ~auto) /\ p.fixed = past[t].fixed
      BY <1>12, <2>3, SwitchEffects
    <3> HIDE DEF row, p
    <3>2. Marked(t, row, p)
      BY <1>1, <3>1 DEF Promise, Marked, Watched
    <3>3. Promise(t, row, task[t], p)
      BY <1>1, <3>1, <3>2 DEF Promise, HeldRow, Switched, Removed, Repaired
    <3> QED BY <1>2, <2>1, <3>3 DEF row, p
  <2> QED BY <2>2, <2>3
<1> HIDE DEF Good
<1> QED BY <1>4, <1>5, <1>6, <1>7, <1>8, <1>9, <1>10, <1>11, <1>12, EveryStep

Undisturbed == Sound /\ Fresh /\ Promised

LEMMA UndisturbedHolds ==
  ASSUME ~Overlap
  PROVE  Spec => []Undisturbed
<1>1. Init => Undisturbed
  BY SoundAtFirst, PromisedAtFirst DEF Undisturbed
<1>2. Undisturbed /\ [Next]_vars => Undisturbed'
  BY SoundStep, FreshStep, PromisedStep DEF Undisturbed
<1> QED BY <1>1, <1>2, PTL DEF Spec

LEMMA UndisturbedAllows ==
  ASSUME ~Overlap, Undisturbed, [Next]_vars, NEW s \in Services
  PROVE  Allowed(s)
BY PromisedStep DEF Undisturbed

\* What the owner calls intended counts as no outage until the service was seen
\* running again, he asks for automatic repairs, or a round drops the row.
THEOREM MeantIsMarked ==
  ASSUME ~Overlap
  PROVE  Spec => []MeantIsKept
<1>1. Undisturbed => MeantIsKept
  BY DEF Undisturbed, Promised, Promise, Marked, MeantIsKept
<1> QED BY <1>1, UndisturbedHolds, PTL

\* A service he has removed stays without a row until the map shows it again or
\* he sets its switch: no handler that was at work puts it back.
THEOREM RemovedStays ==
  ASSUME ~Overlap
  PROVE  Spec => []RemovedIsGone
<1>1. Undisturbed => RemovedIsGone
  BY DEF Undisturbed, Promised, Promise, Removed, RemovedIsGone
<1> QED BY <1>1, UndisturbedHolds, PTL

\* The patrol approves a repair only as the owner's last word on the switches
\* has it, however long the handler has waited since.
THEOREM SwitchDecides ==
  ASSUME ~Overlap
  PROVE  Spec => OnlyAsAllowed
<1>1. Undisturbed /\ [Next]_vars =>
        [\A s \in Services : Approves(s) /\ ~past[s].lost =>
           /\ past[s].auto
           /\ task'[s].rec.reason = "stuck" => past[s].unstick]_vars
  BY UndisturbedAllows DEF Allowed
<1> QED BY <1>1, UndisturbedHolds, PTL DEF Spec, OnlyAsAllowed

\* Between two automatic repairs of a service lies the cooldown.
THEOREM CooldownHolds ==
  ASSUME ~Overlap
  PROVE  Spec => AutoRepairsApart
<1>1. Undisturbed /\ [Next]_vars =>
        [\A s \in Services : Approves(s) =>
           past[s].fixed = 0 \/ now - past[s].fixed >= FixCooldown]_vars
  BY UndisturbedAllows DEF Allowed
<1> QED BY <1>1, UndisturbedHolds, PTL DEF Spec, AutoRepairsApart

\* After an automatic repair has failed there is none until the owner has
\* touched the switch.
THEOREM FailurePauses ==
  ASSUME ~Overlap
  PROVE  Spec => PauseHolds
<1>1. Undisturbed /\ [Next]_vars =>
        [\A s \in Services : Approves(s) => ~past[s].failed]_vars
  BY UndisturbedAllows DEF Allowed
<1> QED BY <1>1, UndisturbedHolds, PTL DEF Spec, PauseHolds

=============================================================================
