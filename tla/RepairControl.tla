---------------------------- MODULE RepairControl ----------------------------
(***************************************************************************)
(* How a repair is proposed, approved, rejected, expired, executed and     *)
(* declared interrupted by several sessions that share one SQLite store.   *)
(*                                                                         *)
(* A session is one call chain of the program: a request handler of the    *)
(* local web, a thread of its pool, a handler of the gateway process, the  *)
(* command line or the patrol.  Every step below ends with one operation   *)
(* on the store, so the model interleaves sessions exactly where the code  *)
(* lets them interleave.  Sessions in Loop share one event loop: between   *)
(* two awaits only one of them runs.  The others (threads, processes)      *)
(* interleave with everybody at every store operation.                     *)
(***************************************************************************)
EXTENDS RepairStatus, FiniteSets

CONSTANTS
  Repairs,     \* operation identifiers
  NoRepair,    \* a session that is about no repair
  Services,    \* service keys
  ServiceOf,   \* the service each repair is about
  Keys,        \* idempotency keys: a service, a kind of repair and a target
  KeyOf,       \* the key of each repair
  Sessions,    \* call chains
  Loop,        \* the sessions that run on one event loop
  AuthWindow,  \* REPAIR_AUTHORIZATION_SECONDS
  RateWindow,  \* REPAIR_RATE_WINDOW_SECONDS
  RateLimit,   \* REPAIR_RATE_LIMIT
  Interrupt,   \* interrupted_after_seconds
  StepTime,    \* longest await of an execution: command timeout, verify limit
  Suspends,    \* TRUE when the machine may sleep, so that the clock jumps
  LastStart,   \* bound: no proposal and no approval begins after this time
  MaxTime,     \* bound: the clock stops here
  MaxDeaths    \* bound: how many sessions are killed or cancelled

ASSUME ControlAssumption ==
  /\ NoRepair \notin Repairs
  /\ ServiceOf \in [Repairs -> Services]
  /\ KeyOf \in [Repairs -> Keys]
  /\ Loop \subseteq Sessions
  /\ AuthWindow \in Nat \ {0}
  /\ RateWindow \in Nat
  /\ RateLimit \in Nat \ {0}
  /\ Interrupt \in Nat
  /\ StepTime \in Nat \ {0}
  /\ StepTime <= Interrupt
  /\ Suspends \in BOOLEAN
  /\ LastStart \in Nat
  /\ MaxTime \in Nat
  /\ MaxDeaths \in Nat

VARIABLES
  store,   \* the repairs table: one record per operation identifier
  now,     \* the wall clock
  pc,      \* where each session is
  call,    \* the service call a session is in, with its local variables
  rec,     \* the record it holds in memory
  deaths,  \* how many sessions have been killed
  grants,  \* history: approvals written, per repair
  claims   \* history: every execution that was claimed

vars == <<store, now, pc, call, rec, deaths, grants, claims>>

-----------------------------------------------------------------------------
(* Records and local variables.                                            *)

Time == Nat

\* A record: when it was created, when its approval ends, when its execution
\* started and when it was last touched.  The clock starts at 1, so 0 stands
\* for a time that has not been set.
Record == [status : Status, created : Time, expires : Time,
           started : Time, updated : Time]

NoRow == [status |-> "none", created |-> 0, expires |-> 0,
          started |-> 0, updated |-> 0]

\* The points between two awaits of a session.
Sync == {"submit", "expire", "write", "audit", "decide", "recover",
         "recoverEnd", "settle", "claim", "succeed", "rollback", "cleanup"}

\* The points at which a session awaits, or does not run at all.
Await == {"idle", "granted", "precheck", "run", "verify"}

\* What a session is there for.  An approval turns into an execution, and a
\* claimed execution into a repair.
Job == {"none", "propose", "poll", "approve", "reject", "execute", "repair"}

\* The local variables of a service call: what it is for, the repair it is
\* about, the row it is writing, the time it read, the approval it carries out,
\* the status a failure is to end in, the rows left in the loop it is in and
\* the rows list_all returned to it.
NoSnap == [r \in Repairs |-> NoRow]

NoCall == [job |-> "none", rep |-> NoRepair, row |-> NoRepair, at |-> 0,
           ticket |-> 0, end |-> "rolled_back", todo |-> {}, snap |-> NoSnap]

Call == [job : Job, rep : Repairs \cup {NoRepair}, row : Repairs \cup {NoRepair},
         at : Time, ticket : Nat, end : {"rolled_back", "cleanup_failed"},
         todo : SUBSET Repairs, snap : [Repairs -> Record]]

\* What transition_operation does to a record.
Moved(record, to, at) == [record EXCEPT !.status = to, !.updated = at]

\* Mistake: a waiting repair expires only if it is looked at on the minute.
DueExactly(at) == {r \in Repairs : /\ store[r].status = Waiting
                                   /\ store[r].created + AuthWindow = at}

\* Waiting repairs whose ten minutes are over, as expire_due lists them.
Due(at) == {r \in Repairs : /\ store[r].status = Waiting
                            /\ store[r].created + AuthWindow <= at}

\* Mistake: a long repair counts as interrupted even while it is looked after.
StaleByAge(at) == {r \in Repairs : /\ store[r].status \in Active
                                   /\ store[r].created + Interrupt < at}

\* Mistake: a repair interrupted while it was rolled back is forgotten.
StaleRunning(at) == {r \in Repairs : /\ store[r].status \in {"executing", "verifying"}
                                     /\ store[r].updated + Interrupt < at}

\* Active repairs nobody touched for too long, as recover_interrupted lists them.
Stale(at) == {r \in Repairs : /\ store[r].status \in Active
                              /\ store[r].updated + Interrupt < at}

\* Mistake: only a repair nobody has decided on keeps the key busy.
OpenWaiting(k) == {r \in Repairs : KeyOf[r] = k /\ store[r].status = Waiting}

\* The repairs that keep an idempotency key busy.
Open(k) == {r \in Repairs : /\ KeyOf[r] = k
                            /\ store[r].status \notin Terminal \cup {"none"}}

\* Mistake: a repair can be decided on again.
DecidableAgain(row) == row.status # "none"

\* A decision is accepted while the repair waits for it.
Decidable(row) == row.status = Waiting

\* Mistake: the last moment of an approval counts twice.
TooLateLate(record) == record.expires < now

\* The approval has run out.
TooLate(record) == record.expires <= now

\* A session is at work on a repair: it has claimed it and not ended.
Acting(s, r) == call[s].job = "repair" /\ call[s].rep = r

\* A session of the event loop runs only while no other one is between awaits.
Turn(s) == s \in Loop => \A t \in Loop \ {s} : pc[t] \in Await

Goto(s, p) == pc' = [pc EXCEPT ![s] = p]

Put(r, record) == store' = [store EXCEPT ![r] = record]

Hold(s, record) == rec' = [rec EXCEPT ![s] = record]

Local(s, values) == call' = [call EXCEPT ![s] = values]

\* The session's call is over, with a result or an exception.
Return(s) == /\ Goto(s, "idle")
             /\ Local(s, NoCall)
             /\ Hold(s, NoRow)

Init ==
  /\ store = [r \in Repairs |-> NoRow]
  /\ now = 1
  /\ pc = [s \in Sessions |-> "idle"]
  /\ call = [s \in Sessions |-> NoCall]
  /\ rec = [s \in Sessions |-> NoRow]
  /\ deaths = 0
  /\ grants = [r \in Repairs |-> 0]
  /\ claims = {}

-----------------------------------------------------------------------------
(* Proposing: RepairService.propose, after the planner has made the plan.  *)

\* submit looks the idempotency key up and finds no unfinished repair; an
\* unfinished one is returned as it is, which changes nothing.
Propose(s, r) ==
  /\ pc[s] = "idle"
  /\ Turn(s)
  /\ now <= LastStart
  /\ store[r].status = "none"
  /\ \A t \in Sessions : call[t].rep # r
  /\ Open(KeyOf[r]) = {}
  /\ Goto(s, "submit")
  /\ Local(s, [call[s] EXCEPT !.job = "propose", !.rep = r])
  /\ Hold(s, [NoRow EXCEPT !.status = Waiting, !.created = now, !.updated = now])
  /\ UNCHANGED <<store, now, deaths, grants, claims>>

\* Mistake: the plan is stored as it is, before the policy has been applied.
SubmitPlanned(s) ==
  /\ pc[s] = "submit"
  /\ Put(call[s].rep, [rec[s] EXCEPT !.status = "planned"])
  /\ Return(s)
  /\ UNCHANGED <<now, deaths, grants, claims>>

Submit(s) ==
  /\ pc[s] = "submit"
  /\ Put(call[s].rep, rec[s])
  /\ Return(s)
  /\ UNCHANGED <<now, deaths, grants, claims>>

-----------------------------------------------------------------------------
(* A service call: list or get ("poll"), approve or reject.  Each reads    *)
(* the clock once and first expires what is due.                           *)

Begin(s, job, r) ==
  /\ pc[s] = "idle"
  /\ Turn(s)
  /\ \/ job = "poll" /\ r = NoRepair
     \/ /\ job \in {"approve", "reject"}
        /\ now <= LastStart
        /\ r \in Repairs
        /\ store[r].status # "none"
  /\ Goto(s, "expire")
  /\ Local(s, [call[s] EXCEPT !.job = job, !.rep = r, !.at = now,
                              !.todo = Due(now)])
  /\ UNCHANGED <<store, now, rec, deaths, grants, claims>>

\* expire_once reads the row again and accepts it while it can still expire.
ExpireRow(s, r) ==
  /\ pc[s] = "expire"
  /\ r \in call[s].todo
  /\ store[r].status \in {Waiting, Granted}
  /\ Goto(s, "write")
  /\ Hold(s, Moved(store[r], Lapsed, call[s].at))
  /\ Local(s, [call[s] EXCEPT !.row = r, !.todo = @ \ {r}])
  /\ UNCHANGED <<store, now, deaths, grants, claims>>

\* Otherwise it raises, and with it the whole service call.
ExpireFails(s, r) ==
  /\ pc[s] = "expire"
  /\ r \in call[s].todo
  /\ store[r].status \notin {Waiting, Granted}
  /\ Return(s)
  /\ UNCHANGED <<store, now, deaths, grants, claims>>

\* Nothing is due any more: list and get go on to recover_interrupted, which
\* lists the table again; a decision goes on to read its repair.
ExpireDone(s) ==
  /\ pc[s] = "expire"
  /\ call[s].todo = {}
  /\ \/ /\ call[s].job = "poll"
        /\ Goto(s, "recover")
        /\ Local(s, [call[s] EXCEPT !.todo = Stale(call[s].at), !.snap = store])
     \/ /\ call[s].job # "poll"
        /\ Goto(s, "decide")
        /\ UNCHANGED call
  /\ UNCHANGED <<store, now, rec, deaths, grants, claims>>

\* approve_once and reject_once read the row last; what _waiting read just
\* before can only have made the call fail earlier.
Decide(s) ==
  LET row == store[call[s].rep]
  IN  /\ pc[s] = "decide"
      /\ Decidable(row)
      /\ Goto(s, "write")
      /\ Local(s, [call[s] EXCEPT !.row = call[s].rep])
      /\ IF call[s].job = "approve"
         THEN Hold(s, [Moved(row, Granted, call[s].at)
                         EXCEPT !.expires = call[s].at + AuthWindow])
         ELSE Hold(s, Moved(row, "rejected", call[s].at))
      /\ UNCHANGED <<store, now, deaths, grants, claims>>

DecideFails(s) ==
  /\ pc[s] = "decide"
  /\ ~Decidable(store[call[s].rep])
  /\ Return(s)
  /\ UNCHANGED <<store, now, deaths, grants, claims>>

\* AuthorizationService puts the record: an upsert of the whole row, whatever
\* the row has become since it was read.
Write(s) ==
  /\ pc[s] = "write"
  /\ Put(call[s].row, rec[s])
  /\ Goto(s, "audit")
  /\ IF rec[s].status = Granted
     THEN /\ grants' = [grants EXCEPT ![call[s].row] = @ + 1]
          /\ Local(s, [call[s] EXCEPT !.ticket = grants[call[s].row] + 1])
     ELSE UNCHANGED <<grants, call>>
  /\ UNCHANGED <<now, rec, deaths, claims>>

\* RepairService puts the same record once more, with the audit event.  An
\* approval has been answered now and its execution is scheduled.
Audit(s) ==
  /\ pc[s] = "audit"
  /\ Put(call[s].row, rec[s])
  /\ \/ /\ rec[s].status = Lapsed
        /\ Goto(s, "expire")
        /\ UNCHANGED <<call, rec>>
     \/ /\ rec[s].status = Granted
        /\ Goto(s, "granted")
        /\ Local(s, [call[s] EXCEPT !.job = "execute"])
        /\ Hold(s, NoRow)
     \/ /\ rec[s].status = "rejected"
        /\ Return(s)
  /\ UNCHANGED <<now, deaths, grants, claims>>

-----------------------------------------------------------------------------
(* recover_interrupted, called by list, get and execute: it rolls back from *)
(* the rows it listed, without reading them again.                          *)

\* A row that was already rolling back is not moved a second time.
RecoverRow(s, r) ==
  LET row == call[s].snap[r]
  IN  /\ pc[s] = "recover"
      /\ r \in call[s].todo
      /\ Goto(s, "recoverEnd")
      /\ Local(s, [call[s] EXCEPT !.row = r])
      /\ IF row.status = "rolling_back"
         THEN UNCHANGED store
         ELSE Put(r, Moved(row, "rolling_back", now))
      /\ UNCHANGED <<now, rec, deaths, grants, claims>>

RecoverEnd(s) ==
  LET r == call[s].row
  IN  /\ pc[s] = "recoverEnd"
      /\ Put(r, Moved(call[s].snap[r], "cleanup_failed", now))
      /\ Goto(s, "recover")
      /\ Local(s, [call[s] EXCEPT !.todo = @ \ {r}])
      /\ UNCHANGED <<now, rec, deaths, grants, claims>>

RecoverDone(s) ==
  /\ pc[s] = "recover"
  /\ call[s].todo = {}
  /\ \/ /\ call[s].job = "poll"
        /\ Return(s)
     \/ /\ call[s].job = "execute"
        /\ Goto(s, "claim")
        /\ UNCHANGED <<call, rec>>
  /\ UNCHANGED <<store, now, deaths, grants, claims>>

-----------------------------------------------------------------------------
(* RepairWorkflow.execute, the background task of an approval.             *)

\* Mistake: an execution that comes too late leaves the record as it is.
FetchLazily(s) ==
  LET row == store[call[s].rep]
  IN  /\ pc[s] = "granted"
      /\ Turn(s)
      /\ \/ /\ row.status # Granted \/ TooLate(row)
            /\ Return(s)
         \/ /\ row.status = Granted
            /\ ~TooLate(row)
            /\ UNCHANGED call
            /\ Goto(s, "precheck") /\ Hold(s, row)
      /\ UNCHANGED <<store, now, deaths, grants, claims>>

\* The execution begins: it reads its record.  Nothing to do unless the
\* record is authorized; an approval that is too old is given up.
Fetch(s) ==
  LET row == store[call[s].rep]
  IN  /\ pc[s] = "granted"
      /\ Turn(s)
      /\ \/ /\ row.status # Granted
            /\ Return(s)
         \/ /\ row.status = Granted
            /\ UNCHANGED call
            /\ IF TooLate(row)
               THEN Goto(s, "settle") /\ Hold(s, Moved(row, Lapsed, now))
               ELSE Goto(s, "precheck") /\ Hold(s, row)
      /\ UNCHANGED <<store, now, deaths, grants, claims>>

\* The live check found the service as it was approved.  The clock is read
\* again, and interrupted repairs are looked for before the claim.
Pass(s) ==
  /\ pc[s] = "precheck"
  /\ Turn(s)
  /\ IF TooLate(rec[s])
     THEN /\ Goto(s, "settle")
          /\ Hold(s, Moved(rec[s], Lapsed, now))
          /\ UNCHANGED call
     ELSE /\ Goto(s, "recover")
          /\ Local(s, [call[s] EXCEPT !.at = now, !.todo = Stale(now),
                                     !.snap = store])
          /\ UNCHANGED rec
  /\ UNCHANGED <<store, now, deaths, grants, claims>>

\* The live check refused: the repair is cancelled unless it has moved on.
Refuse(s) ==
  /\ pc[s] = "precheck"
  /\ Turn(s)
  /\ \/ /\ store[call[s].rep].status # Granted
        /\ Return(s)
     \/ /\ store[call[s].rep].status = Granted
        /\ Goto(s, "settle")
        /\ Hold(s, Moved(rec[s], "cancelled", now))
        /\ UNCHANGED call
  /\ UNCHANGED <<store, now, deaths, grants, claims>>

\* An execution that never starts puts its last record.
Settle(s) ==
  /\ pc[s] = "settle"
  /\ Put(call[s].rep, rec[s])
  /\ Return(s)
  /\ UNCHANGED <<now, deaths, grants, claims>>

\* Mistake: the claim does not look at the other rows.
BusyNever == FALSE

\* This computer is at work on some repair, as far as the table knows.
Busy == \E x \in Repairs : store[x].status \in Active

\* Executions of the service that the table knows of in the rate window.
Counted(s) ==
  {r \in Repairs : /\ ServiceOf[r] = ServiceOf[call[s].rep]
                   /\ store[r].started # 0
                   /\ store[r].started + RateWindow >= call[s].at}

\* Mistake: one execution too many is let through.
RateReachedLate(s) == Cardinality(Counted(s)) > RateLimit

RateReached(s) == Cardinality(Counted(s)) >= RateLimit

\* claim_execution: one transaction that finds the row authorized, no other
\* row active and the rate limit kept, and writes the row as executing.
Claim(s) ==
  LET r == call[s].rep
      executing == [Moved(rec[s], "executing", now) EXCEPT !.started = call[s].at]
  IN  /\ pc[s] = "claim"
      /\ store[r].status = Granted
      /\ ~Busy
      /\ ~RateReached(s)
      /\ Put(r, executing)
      /\ Hold(s, executing)
      /\ Goto(s, "run")
      /\ Local(s, [call[s] EXCEPT !.job = "repair"])
      /\ claims' = claims \cup {[rep |-> r, ticket |-> call[s].ticket,
                                 at |-> call[s].at, until |-> rec[s].expires]}
      /\ UNCHANGED <<now, deaths, grants>>

\* STATE_CONFLICT: somebody else has taken the repair.
ClaimLost(s) ==
  /\ pc[s] = "claim"
  /\ store[call[s].rep].status # Granted
  /\ Return(s)
  /\ UNCHANGED <<store, now, deaths, grants, claims>>

\* BUSY and RATE_LIMITED: the repair is cancelled, in a put of its own.
ClaimRefused(s) ==
  /\ pc[s] = "claim"
  /\ store[call[s].rep].status = Granted
  /\ Busy \/ RateReached(s)
  /\ Goto(s, "settle")
  /\ Hold(s, Moved(rec[s], "cancelled", now))
  /\ UNCHANGED <<store, now, call, deaths, grants, claims>>

\* The session puts the record it holds, moved to a status, and goes on.
PutOwn(s, to, next) ==
  LET own == Moved(rec[s], to, now)
  IN  /\ Put(call[s].rep, own)
      /\ Hold(s, own)
      /\ Goto(s, next)
      /\ UNCHANGED <<now, deaths, grants, claims>>

\* Mistake: a failed command is tried again on the same approval.
CommandRetries(s) ==
  /\ pc[s] = "run"
  /\ Turn(s)
  /\ PutOwn(s, Granted, "precheck")
  /\ Local(s, [call[s] EXCEPT !.job = "execute"])

\* A command, or the launch of the program, has ended well and is recorded.
Command(s) ==
  /\ pc[s] = "run"
  /\ Turn(s)
  /\ PutOwn(s, "executing", "run")
  /\ UNCHANGED call

\* A command has failed or a container was not ready in time: there is nothing
\* to undo.
CommandFails(s) ==
  /\ pc[s] = "run"
  /\ Turn(s)
  /\ PutOwn(s, "executing", "rollback")
  /\ UNCHANGED call

\* The program could not be launched, which is not recorded first.
LaunchFails(s) ==
  /\ pc[s] = "run"
  /\ Turn(s)
  /\ PutOwn(s, "rolling_back", "cleanup")
  /\ UNCHANGED call

\* What was launched has its record and is verified now.
BeginVerify(s) ==
  /\ pc[s] = "run"
  /\ Turn(s)
  /\ PutOwn(s, "verifying", "verify")
  /\ UNCHANGED call

\* Mistake: the repair is called done before its verification is recorded.
VerifyPassesEarly(s) ==
  /\ pc[s] = "verify"
  /\ Turn(s)
  /\ PutOwn(s, "succeeded", "succeed")
  /\ UNCHANGED call

VerifyPasses(s) ==
  /\ pc[s] = "verify"
  /\ Turn(s)
  /\ PutOwn(s, "verifying", "succeed")
  /\ UNCHANGED call

\* What was launched is stopped; stopping it may fail, too.
VerifyFails(s) ==
  /\ pc[s] = "verify"
  /\ Turn(s)
  /\ PutOwn(s, "verifying", "rollback")
  /\ \E end \in {"rolled_back", "cleanup_failed"} :
       Local(s, [call[s] EXCEPT !.end = end])

Finish(s, to) ==
  /\ Put(call[s].rep, Moved(rec[s], to, now))
  /\ Return(s)
  /\ UNCHANGED <<now, deaths, grants, claims>>

Succeed(s) == pc[s] = "succeed" /\ Finish(s, "succeeded")

Rollback(s) ==
  /\ pc[s] = "rollback"
  /\ PutOwn(s, "rolling_back", "cleanup")
  /\ UNCHANGED call

Cleanup(s) ==
  /\ pc[s] = "cleanup"
  /\ Finish(s, call[s].end)

\* An exception: execute reads the row again.  Before the claim it leaves
\* alone a row that is no longer authorized; otherwise it rolls back from the
\* row it read, which raises once more when the table of moves forbids it.  An
\* exception of that handler itself leaves the row as it is: Die stands for it.
Raise(s) ==
  LET row == store[call[s].rep]
      moved == \/ call[s].job = "execute" /\ row.status # Granted
               \/ /\ "rolling_back" \notin Allowed[row.status]
                  /\ row.status # "rolling_back"
  IN  /\ call[s].job \in {"execute", "repair"}
      /\ pc[s] # "granted"
      /\ pc[s] \in {"rollback", "cleanup"} => call[s].end = "rolled_back"
      /\ Turn(s)
      /\ \/ moved /\ Return(s)
         \/ /\ ~moved
            /\ Hold(s, row)
            /\ Goto(s, IF row.status = "rolling_back" THEN "cleanup" ELSE "rollback")
            /\ Local(s, [call[s] EXCEPT !.end = "cleanup_failed"])
      /\ UNCHANGED <<store, now, deaths, grants, claims>>

-----------------------------------------------------------------------------
(* The environment.                                                        *)

\* A process is killed or a task cancelled: what it held in memory is gone.
\* Bound: never so late that the clock stops before the death can be noticed.
Die(s) ==
  /\ pc[s] # "idle"
  /\ deaths < MaxDeaths
  /\ now + Interrupt < MaxTime
  /\ deaths' = deaths + 1
  /\ Return(s)
  /\ UNCHANGED <<store, now, grants, claims>>

\* Time passes.  Unless the machine sleeps, no command and no verification of
\* an execution takes longer than StepTime, so it puts its record that often.
Tick ==
  /\ now < MaxTime
  /\ \/ Suspends
     \/ \A s \in Sessions : call[s].job = "repair" => now < rec[s].updated + StepTime
  /\ now' = now + 1
  /\ UNCHANGED <<store, pc, call, rec, deaths, grants, claims>>

\* What a session does once it has begun.
Step(s) ==
  \/ Submit(s)
  \/ \E r \in Repairs : ExpireRow(s, r) \/ ExpireFails(s, r) \/ RecoverRow(s, r)
  \/ ExpireDone(s) \/ Decide(s) \/ DecideFails(s) \/ Write(s) \/ Audit(s)
  \/ RecoverEnd(s) \/ RecoverDone(s)
  \/ Fetch(s) \/ Pass(s) \/ Refuse(s) \/ Settle(s)
  \/ Claim(s) \/ ClaimLost(s) \/ ClaimRefused(s)
  \/ Command(s) \/ CommandFails(s) \/ LaunchFails(s) \/ BeginVerify(s)
  \/ VerifyPasses(s) \/ VerifyFails(s) \/ Succeed(s) \/ Rollback(s) \/ Cleanup(s)

Poll(s) == Begin(s, "poll", NoRepair)

Request(s) ==
  \/ Poll(s)
  \/ \E r \in Repairs : Propose(s, r) \/ Begin(s, "approve", r) \/ Begin(s, "reject", r)

Next ==
  \/ \E s \in Sessions : Step(s) \/ Request(s) \/ Raise(s) \/ Die(s)
  \/ Tick

\* The interleaving alone: what the safety properties are about.
Safe == Init /\ [][Next]_vars

\* Every call that has begun goes on: the event loop serves its ready queue in
\* order, so a task that is ready again and again is not passed over for ever
\* (strong fairness), and so it is with a request to list the repairs, which
\* an open page sends every five seconds.  The clock goes on.
Spec ==
  /\ Safe
  /\ \A s \in Sessions : SF_vars(Step(s))
  /\ SF_vars(\E s \in Sessions : Poll(s))
  /\ WF_vars(Tick)

-----------------------------------------------------------------------------
(* What the code promises.                                                 *)

TypeOK ==
  /\ store \in [Repairs -> Record]
  /\ now \in Time
  /\ pc \in [Sessions -> Sync \cup Await]
  /\ call \in [Sessions -> Call]
  /\ rec \in [Sessions -> Record]
  /\ deaths \in 0..MaxDeaths
  /\ grants \in [Repairs -> Nat]
  /\ claims \subseteq [rep : Repairs, ticket : Nat, at : Time, until : Time]

\* One approval is spent on one execution at most, whatever the sessions do
\* and however their store operations interleave (contracts.py: "one approval
\* repairs only once").
OneRunPerApproval ==
  \A c, d \in claims : c.rep = d.rep /\ c.ticket = d.ticket => c = d

\* An execution starts only on an approval that was written before, and at a
\* time at which that approval is valid.
RunsOnlyApproved ==
  \A c \in claims : c.ticket \in 1..grants[c.rep] /\ c.at < c.until

\* This computer works on one repair at a time.
OneAtATime ==
  \A s, t \in Sessions : \A q, r \in Repairs :
     Acting(s, q) /\ Acting(t, r) => s = t

\* A repair is executed at most once, however often it is approved.
ExecutedOnce ==
  \A c, d \in claims : c.rep = d.rep => c = d

\* A rejected repair has not been started and is not being started.
RejectedNeverRuns ==
  \A r \in Repairs : store[r].status = "rejected" =>
     /\ \A c \in claims : c.rep # r
     /\ \A s \in Sessions : ~Acting(s, r)

\* The table says of a repair somebody is at work on that it is active: this
\* is what the claim of the next one relies on.
WorkIsVisible ==
  \A s \in Sessions : \A r \in Repairs :
     Acting(s, r) => store[r].status \in Active

\* Only an execution whose session is gone is declared interrupted.
LiveIsNotInterrupted ==
  \A s, t \in Sessions : \A r \in Repairs :
     /\ pc[s] \in {"recover", "recoverEnd"}
     /\ r \in call[s].todo
     => ~Acting(t, r)

\* No service is worked on more often than the limit in any rate window.
RateKept ==
  \A c \in claims :
     Cardinality({d \in claims : /\ ServiceOf[d.rep] = ServiceOf[c.rep]
                                 /\ d.at <= c.at
                                 /\ d.at + RateWindow >= c.at}) <= RateLimit

\* One unfinished repair per idempotency key (compute_repair_idempotency_key:
\* of the unfinished repairs of one target only one is kept).
OneOpenPerKey ==
  \A q, r \in Repairs :
     /\ KeyOf[q] = KeyOf[r]
     /\ store[q].status \notin Terminal \cup {"none"}
     /\ store[r].status \notin Terminal \cup {"none"}
     => q = r

\* A finished repair is never reopened or rewritten.
FinalStaysFinal ==
  [][\A r \in Repairs : store[r].status \in Terminal => store'[r] = store[r]]_store

\* An approval does not stay valid for ever: it is used, cancelled or expires
\* (contracts.py: an approval is valid for ten minutes).
ApprovalEnds ==
  \A r \in Repairs :
     store[r].status = Granted ~> store[r].status # Granted

\* This holds as long as nobody is killed between an approval and its use.
ApprovalEndsUnlessKilled ==
  \A r \in Repairs :
     store[r].status = Granted ~> (store[r].status # Granted \/ deaths > 0)

=============================================================================
