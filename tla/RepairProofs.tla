---------------------------- MODULE RepairProofs ----------------------------
(***************************************************************************)
(* RepairControl for any number of repairs, services and sessions: on one   *)
(* event loop or in many threads and processes its types, and one approval, *)
(* one execution, however the sessions interleave and the clock jumps; when *)
(* all sessions run on one event loop and the machine does not sleep, its   *)
(* safety properties, and that it implements RepairPromise.                 *)
(***************************************************************************)
EXTENDS RepairInvariant, RepairKeepsPromise, FiniteSetTheorems, TLAPS

-----------------------------------------------------------------------------
(* What the building blocks of the actions do to the types.                *)

\* transition_operation makes a record of a record.
LEMMA MovedType ==
  ASSUME NEW record \in Record, NEW to \in Status, NEW at \in Time
  PROVE  Moved(record, to, at) \in Record
BY DEF Moved, Record

\* What the type invariant says of one session.
LEMMA Typed ==
  ASSUME Shape, NEW s \in Sessions
  PROVE  /\ call[s] \in Call
         /\ rec[s] \in Record
         /\ now \in Time
         /\ \A r \in Repairs : store[r] \in Record
         /\ Placed(s)
BY DEF Shape, TypeOK

\* The end of a call.
LEMMA ReturnType ==
  ASSUME Shape, NEW s \in Sessions, Return(s)
  PROVE  /\ pc' \in [Sessions -> Sync \cup Await]
         /\ call' \in [Sessions -> Call]
         /\ rec' \in [Sessions -> Record]
         /\ \A t \in Sessions : Placed(t)'
<1>1. NoRow \in Record
  BY DEF NoRow, Record, Time, Status
<1>2. NoCall \in Call
  BY <1>1 DEF NoCall, NoSnap, Call, Job, Time
<1>3. \A t \in Sessions : Placed(t)'
  BY DEF Shape, TypeOK, Return, Goto, Local, Hold, NoCall, Placed
<1>4. QED
  BY <1>1, <1>2, <1>3 DEF Shape, TypeOK, Return, Goto, Local, Hold, Await

\* A put of a record leaves a table of records.
LEMMA PutType ==
  ASSUME Shape, NEW r, NEW x \in Record, Put(r, x)
  PROVE  store' \in [Repairs -> Record]
BY DEF Shape, TypeOK, Put

\* A session that takes a record holds it.
LEMMA HoldType ==
  ASSUME Shape, NEW s \in Sessions, NEW x \in Record, Hold(s, x)
  PROVE  rec' \in [Sessions -> Record] /\ rec'[s] = x
BY DEF Shape, TypeOK, Hold

\* A session that sets its locals has them.
LEMMA LocalType ==
  ASSUME Shape, NEW s \in Sessions, NEW c \in Call, Local(s, c)
  PROVE  call' \in [Sessions -> Call] /\ call'[s] = c
BY DEF Shape, TypeOK, Local

\* A session that goes on is where it went.
LEMMA GotoType ==
  ASSUME Shape, NEW s \in Sessions, NEW p \in Sync \cup Await, Goto(s, p)
  PROVE  pc' \in [Sessions -> Sync \cup Await] /\ pc'[s] = p
BY DEF Shape, TypeOK, Goto

\* A put of the record a session holds keeps the types.
LEMMA PutOwnType ==
  ASSUME Shape, NEW s \in Sessions, NEW to \in Status, NEW next \in Sync \cup Await,
         PutOwn(s, to, next)
  PROVE  /\ store' \in [Repairs -> Record]
         /\ rec' \in [Sessions -> Record]
         /\ pc' \in [Sessions -> Sync \cup Await]
         /\ UNCHANGED <<now, deaths, grants, claims>>
<1>1. Moved(rec[s], to, now) \in Record
  BY Typed, MovedType
<1>2. QED
  BY <1>1, PutType, HoldType, GotoType DEF PutOwn

\* What a session does leaves the others where they are.
LEMMA OthersPlaced ==
  ASSUME Shape, NEW s \in Sessions, Placed(s)',
         \A t \in Sessions \ {s} : /\ pc'[t] = pc[t]
                                   /\ call'[t] = call[t]
                                   /\ rec'[t] = rec[t]
  PROVE  \A t \in Sessions : Placed(t)'
<1> SUFFICES ASSUME NEW t \in Sessions \ {s} PROVE Placed(t)'
  OBVIOUS
<1>1. Placed(t)
  BY DEF Shape
<1>2. QED BY <1>1 DEF Placed

-----------------------------------------------------------------------------
(* Types and places, one lemma per action.                                 *)

\* Propose: a proposal is planned under a key that is free.
LEMMA ShapePropose ==
  ASSUME Shape, NEW s \in Sessions, NEW r \in Repairs, Propose(s, r)
  PROVE  Shape'
<1>1. [NoRow EXCEPT !.status = Waiting, !.created = now, !.updated = now] \in Record
  BY Typed DEF NoRow, Record, Time, Status
<1>2. [call[s] EXCEPT !.job = "propose", !.rep = r] \in Call
  BY Typed DEF Call, Job
<1>3. /\ rec' \in [Sessions -> Record]
      /\ call' \in [Sessions -> Call]
      /\ pc' \in [Sessions -> Sync \cup Await]
  BY <1>1, <1>2, HoldType, LocalType, GotoType DEF Propose, Sync
<1>4. \A t \in Sessions : Placed(t)'
  BY DEF Shape, TypeOK, Propose, Goto, Hold, Local, NoCall, Placed, Call
<1>5. QED BY <1>3, <1>4 DEF Shape, TypeOK, Propose

\* Submit: the proposal is stored.
LEMMA ShapeSubmit ==
  ASSUME Shape, NEW s \in Sessions, Submit(s)
  PROVE  Shape'
BY Typed, ReturnType, PutType DEF Shape, TypeOK, Submit

\* Begin: a call reads the clock and lists what is due.
LEMMA ShapeBegin ==
  ASSUME Shape, NEW s \in Sessions, NEW job, NEW r, Begin(s, job, r)
  PROVE  Shape'
<1> DEFINE c == [call[s] EXCEPT !.job = job, !.rep = r, !.at = now, !.todo = Due(now)]
<1>1. /\ job \in {"poll", "approve", "reject"}
      /\ r \in Repairs \cup {NoRepair}
      /\ job # "poll" => r \in Repairs
      /\ pc[s] = "idle"
  BY DEF Begin
<1>2. c \in Call
  BY <1>1, Typed DEF Call, Job, Due
<1>3. /\ call' \in [Sessions -> Call] /\ call'[s] = c
      /\ pc' \in [Sessions -> Sync \cup Await] /\ pc'[s] = "expire"
  BY <1>2, LocalType, GotoType DEF Begin, Sync
<1>4. c.job = job /\ c.rep = r /\ c.ticket = 0
  BY <1>1, Typed DEF Call, Placed, NoCall
<1>5. Placed(s)'
  BY <1>1, <1>3, <1>4 DEF Placed
<1>6. \A t \in Sessions : Placed(t)'
  BY <1>5, OthersPlaced DEF Shape, TypeOK, Begin, Goto, Local
<1>7. QED BY <1>3, <1>6 DEF Shape, TypeOK, Begin

\* ExpireRow: a row that is due is moved in memory.
LEMMA ShapeExpireRow ==
  ASSUME Shape, NEW s \in Sessions, NEW r \in Repairs, ExpireRow(s, r)
  PROVE  Shape'
<1> DEFINE c == [call[s] EXCEPT !.row = r, !.todo = @ \ {r}]
           held == Moved(store[r], Lapsed, call[s].at)
<1>1. held \in Record /\ held.status = Lapsed
  <2>1. held \in Record
    BY Typed, MovedType DEF Call, Status, Terminal
  <2>2. QED BY <2>1, Typed DEF Moved, Record
<1>2. c \in Call
  BY Typed DEF Call
<1>3. /\ call' \in [Sessions -> Call] /\ call'[s] = c
      /\ rec' \in [Sessions -> Record] /\ rec'[s] = held
      /\ pc' \in [Sessions -> Sync \cup Await] /\ pc'[s] = "write"
  BY <1>1, <1>2, LocalType, HoldType, GotoType DEF ExpireRow, Sync
<1>4. /\ c.job = call[s].job /\ c.rep = call[s].rep
      /\ c.row = r /\ c.ticket = call[s].ticket
  BY Typed DEF Call
<1>5. Placed(s)'
  BY <1>1, <1>3, <1>4, Typed DEF Placed, ExpireRow, Granted, Lapsed
<1>6. \A t \in Sessions : Placed(t)'
  BY <1>5, OthersPlaced DEF Shape, TypeOK, ExpireRow, Goto, Local, Hold
<1>7. QED BY <1>3, <1>6 DEF Shape, TypeOK, ExpireRow

\* ExpireFails: the row has moved on and the call ends.
LEMMA ShapeExpireFails ==
  ASSUME Shape, NEW s \in Sessions, NEW r \in Repairs, ExpireFails(s, r)
  PROVE  Shape'
BY ReturnType DEF Shape, TypeOK, ExpireFails

\* ExpireDone: the call goes on to interrupted repairs or to its decision.
LEMMA ShapeExpireDone ==
  ASSUME Shape, NEW s \in Sessions, ExpireDone(s)
  PROVE  Shape'
<1> DEFINE c == [call[s] EXCEPT !.todo = Stale(call[s].at), !.snap = store]
<1>1. CASE call[s].job = "poll"
  <2>1. c \in Call
    BY Typed DEF Shape, TypeOK, Call, Stale
  <2>2. /\ call' \in [Sessions -> Call] /\ call'[s] = c
        /\ pc' \in [Sessions -> Sync \cup Await] /\ pc'[s] = "recover"
    BY <1>1, <2>1, LocalType, GotoType DEF ExpireDone, Sync
  <2>3. c.job = call[s].job /\ c.rep = call[s].rep /\ c.ticket = call[s].ticket
    BY Typed DEF Call
  <2>4. Placed(s)'
    BY <1>1, <2>2, <2>3, Typed DEF Placed, ExpireDone
  <2>5. \A t \in Sessions : Placed(t)'
    BY <1>1, <2>4, OthersPlaced DEF Shape, TypeOK, ExpireDone, Goto, Local
  <2>6. QED BY <2>2, <2>5 DEF Shape, TypeOK, ExpireDone
<1>2. CASE call[s].job # "poll"
  <2>1. call' = call /\ pc' \in [Sessions -> Sync \cup Await] /\ pc'[s] = "decide"
    BY <1>2, GotoType DEF ExpireDone, Sync
  <2>2. Placed(s)'
    BY <1>2, <2>1, Typed DEF Placed, ExpireDone
  <2>3. \A t \in Sessions : Placed(t)'
    BY <1>2, <2>2, OthersPlaced DEF Shape, TypeOK, ExpireDone, Goto
  <2>4. QED BY <2>1, <2>3 DEF Shape, TypeOK, ExpireDone
<1>3. QED BY <1>1, <1>2

\* Decide: the approved or rejected record is made in memory.
LEMMA ShapeDecide ==
  ASSUME Shape, NEW s \in Sessions, Decide(s)
  PROVE  Shape'
<1> DEFINE row == store[call[s].rep]
           granted == [Moved(row, Granted, call[s].at) EXCEPT !.expires = call[s].at + AuthWindow]
           rejected == Moved(row, "rejected", call[s].at)
           held == IF call[s].job = "approve" THEN granted ELSE rejected
           c == [call[s] EXCEPT !.row = call[s].rep]
<1>1. call[s].rep \in Repairs /\ row \in Record /\ call[s].at \in Nat
  BY Typed DEF Decide, Placed, Call, Time
<1>2. call[s].at + AuthWindow \in Time
  BY <1>1, ControlAssumption DEF Time
<1>3. granted \in Record /\ granted.status = Granted
  BY <1>1, <1>2 DEF Moved, Record, Time, Status
<1>4. rejected \in Record /\ rejected.status = "rejected"
  BY <1>1 DEF Moved, Record, Time, Status, Terminal
<1>5. c \in Call
  BY <1>1, Typed DEF Call
<1>6. /\ call' \in [Sessions -> Call] /\ call'[s] = c
      /\ rec' \in [Sessions -> Record] /\ rec'[s] = held
      /\ pc' \in [Sessions -> Sync \cup Await] /\ pc'[s] = "write"
  BY <1>3, <1>4, <1>5, LocalType, HoldType, GotoType DEF Decide, Sync
<1>7. /\ c.job = call[s].job /\ c.rep = call[s].rep
      /\ c.row = call[s].rep /\ c.ticket = call[s].ticket
  BY Typed DEF Call
<1>8. held.status = IF call[s].job = "approve" THEN Granted ELSE "rejected"
  BY <1>3, <1>4
<1>9. Placed(s)'
  BY <1>1, <1>6, <1>7, <1>8, Typed DEF Placed, Decide, Granted, Lapsed
<1>10. \A t \in Sessions : Placed(t)'
  BY <1>9, OthersPlaced DEF Shape, TypeOK, Decide, Goto, Local, Hold
<1>11. QED BY <1>6, <1>10 DEF Shape, TypeOK, Decide

\* DecideFails: the repair has been decided on and the call ends.
LEMMA ShapeDecideFails ==
  ASSUME Shape, NEW s \in Sessions, DecideFails(s)
  PROVE  Shape'
BY ReturnType DEF Shape, TypeOK, DecideFails

\* Write: the record replaces the row, and an approval gets its number.
LEMMA ShapeWrite ==
  ASSUME Shape, NEW s \in Sessions, Write(s)
  PROVE  Shape'
<1> DEFINE c == [call[s] EXCEPT !.ticket = grants[call[s].row] + 1]
<1>1. call[s].row \in Repairs /\ grants[call[s].row] \in Nat
  BY Typed DEF Shape, TypeOK, Write, Placed
<1>2. /\ store' \in [Repairs -> Record]
      /\ pc' \in [Sessions -> Sync \cup Await] /\ pc'[s] = "audit"
  BY Typed, PutType, GotoType DEF Write, Sync
<1>3. CASE rec[s].status = Granted
  <2>1. c \in Call /\ c.ticket # 0
    BY <1>1, Typed DEF Call
  <2>2. call' \in [Sessions -> Call] /\ call'[s] = c
    BY <1>3, <2>1, LocalType DEF Write
  <2>3. grants' \in [Repairs -> Nat]
    BY <1>1, <1>3 DEF Shape, TypeOK, Write
  <2>4. c.job = call[s].job /\ c.rep = call[s].rep /\ c.row = call[s].row
    BY Typed DEF Call
  <2>5. Placed(s)'
    BY <1>2, <1>3, <2>1, <2>2, <2>4, Typed DEF Placed, Write, Granted
  <2>6. \A t \in Sessions : Placed(t)'
    BY <1>3, <2>5, OthersPlaced DEF Shape, TypeOK, Write, Goto, Local
  <2>7. QED BY <1>2, <2>2, <2>3, <2>6 DEF Shape, TypeOK, Write
<1>4. CASE rec[s].status # Granted
  <2>1. Placed(s)'
    BY <1>2, <1>4, Typed DEF Placed, Write
  <2>2. \A t \in Sessions : Placed(t)'
    BY <1>4, <2>1, OthersPlaced DEF Shape, TypeOK, Write, Goto
  <2>3. QED BY <1>2, <1>4, <2>2 DEF Shape, TypeOK, Write
<1>5. QED BY <1>3, <1>4

\* Audit: the same record is put again, which changes nothing.
LEMMA ShapeAudit ==
  ASSUME Shape, NEW s \in Sessions, Audit(s)
  PROVE  Shape'
<1> DEFINE c == [call[s] EXCEPT !.job = "execute"]
<1>1. store' \in [Repairs -> Record]
  BY Typed, PutType DEF Audit
<1>2. CASE rec[s].status = Lapsed
  <2>1. call' = call /\ rec' = rec
    BY <1>2 DEF Audit, Granted, Lapsed
  <2>2. pc' \in [Sessions -> Sync \cup Await] /\ pc'[s] = "expire"
    BY <1>2, GotoType DEF Audit, Sync, Granted, Lapsed
  <2>3. Placed(s)'
    BY <1>2, <2>1, <2>2, Typed DEF Placed, Audit, Granted, Lapsed
  <2>4. \A t \in Sessions : Placed(t)'
    BY <1>2, <2>3, OthersPlaced DEF Shape, TypeOK, Audit, Goto, Granted, Lapsed
  <2>5. QED BY <1>1, <2>1, <2>2, <2>4 DEF Shape, TypeOK, Audit
<1>3. CASE rec[s].status = Granted
  <2>1. Goto(s, "granted") /\ Local(s, c) /\ Hold(s, NoRow)
    BY <1>3 DEF Audit, Granted, Lapsed
  <2>2. NoRow \in Record
    BY DEF NoRow, Record, Time, Status
  <2>3. c \in Call
    BY Typed DEF Call, Job
  <2>4. /\ pc' \in [Sessions -> Sync \cup Await] /\ pc'[s] = "granted"
        /\ rec' \in [Sessions -> Record]
        /\ call' \in [Sessions -> Call] /\ call'[s] = c
    BY <2>1, <2>2, <2>3, GotoType, HoldType, LocalType DEF Await
  <2>5. c.job = "execute" /\ c.rep = call[s].rep /\ c.ticket = call[s].ticket
    BY Typed DEF Call
  <2>6. Placed(s)'
    BY <1>3, <2>4, <2>5, Typed DEF Placed, Audit
  <2>7. \A t \in Sessions : Placed(t)'
    BY <2>1, <2>6, OthersPlaced DEF Shape, TypeOK, Goto, Local, Hold
  <2>8. QED BY <1>1, <2>4, <2>7 DEF Shape, TypeOK, Audit
<1>4. CASE rec[s].status = "rejected"
  BY <1>1, <1>4, ReturnType DEF Shape, TypeOK, Audit, Granted, Lapsed
<1>5. QED BY <1>2, <1>3, <1>4 DEF Audit

\* RecoverRow: an interrupted row is put as rolling back.
LEMMA ShapeRecoverRow ==
  ASSUME Shape, NEW s \in Sessions, NEW r \in Repairs, RecoverRow(s, r)
  PROVE  Shape'
<1> DEFINE c == [call[s] EXCEPT !.row = r]
           row == call[s].snap[r]
<1>1. c \in Call /\ row \in Record
  BY Typed DEF Call
<1>2. Moved(row, "rolling_back", now) \in Record
  BY <1>1, Typed, MovedType DEF Status, Active
<1>3. store' \in [Repairs -> Record]
  BY <1>2, PutType DEF RecoverRow, Shape, TypeOK
<1>4. /\ call' \in [Sessions -> Call] /\ call'[s] = c
      /\ pc' \in [Sessions -> Sync \cup Await] /\ pc'[s] = "recoverEnd"
  BY <1>1, LocalType, GotoType DEF RecoverRow, Sync
<1>5. /\ c.job = call[s].job /\ c.rep = call[s].rep
      /\ c.row = r /\ c.ticket = call[s].ticket
  BY Typed DEF Call
<1>6. Placed(s)'
  BY <1>4, <1>5, Typed DEF Placed, RecoverRow
<1>7. \A t \in Sessions : Placed(t)'
  BY <1>6, OthersPlaced DEF Shape, TypeOK, RecoverRow, Goto, Local
<1>8. QED BY <1>3, <1>4, <1>7 DEF Shape, TypeOK, RecoverRow

\* RecoverEnd: an interrupted row is put as not cleaned up.
LEMMA ShapeRecoverEnd ==
  ASSUME Shape, NEW s \in Sessions, RecoverEnd(s)
  PROVE  Shape'
<1> DEFINE r == call[s].row
           c == [call[s] EXCEPT !.todo = @ \ {r}]
<1>1. c \in Call /\ r \in Repairs /\ call[s].snap[r] \in Record
  BY Typed DEF Call, RecoverEnd, Placed
<1>2. Moved(call[s].snap[r], "cleanup_failed", now) \in Record
  BY <1>1, Typed, MovedType DEF Status, Terminal
<1>3. store' \in [Repairs -> Record]
  BY <1>2, PutType DEF RecoverEnd
<1>4. /\ call' \in [Sessions -> Call] /\ call'[s] = c
      /\ pc' \in [Sessions -> Sync \cup Await] /\ pc'[s] = "recover"
  BY <1>1, LocalType, GotoType DEF RecoverEnd, Sync
<1>5. c.job = call[s].job /\ c.rep = call[s].rep /\ c.ticket = call[s].ticket
  BY Typed DEF Call
<1>6. Placed(s)'
  BY <1>4, <1>5, Typed DEF Placed, RecoverEnd
<1>7. \A t \in Sessions : Placed(t)'
  BY <1>6, OthersPlaced DEF Shape, TypeOK, RecoverEnd, Goto, Local
<1>8. QED BY <1>3, <1>4, <1>7 DEF Shape, TypeOK, RecoverEnd

\* A step that moves a session on and may change the record it holds.
LEMMA MoveType ==
  ASSUME Shape, NEW s \in Sessions, NEW p \in Sync \cup Await, Goto(s, p),
         NEW x \in Record, Hold(s, x), UNCHANGED call, Placed(s)'
  PROVE  /\ pc' \in [Sessions -> Sync \cup Await]
         /\ rec' \in [Sessions -> Record]
         /\ \A t \in Sessions : Placed(t)'
BY GotoType, HoldType, OthersPlaced DEF Shape, TypeOK, Goto, Hold

\* RecoverDone: the call returns or goes on to its claim.
LEMMA ShapeRecoverDone ==
  ASSUME Shape, NEW s \in Sessions, RecoverDone(s)
  PROVE  Shape'
<1>1. CASE call[s].job = "poll"
  BY <1>1, ReturnType DEF Shape, TypeOK, RecoverDone
<1>2. CASE call[s].job = "execute"
  <2>1. /\ pc' \in [Sessions -> Sync \cup Await] /\ pc'[s] = "claim"
        /\ call' = call /\ rec' = rec
    BY <1>2, GotoType DEF RecoverDone, Sync
  <2>2. Placed(s)'
    BY <1>2, <2>1, Typed DEF Placed, RecoverDone
  <2>3. \A t \in Sessions : Placed(t)'
    BY <1>2, <2>2, OthersPlaced DEF Shape, TypeOK, RecoverDone, Goto
  <2>4. QED BY <2>1, <2>3 DEF Shape, TypeOK, RecoverDone
<1>3. QED BY <1>1, <1>2 DEF RecoverDone

\* An execution that has not started gives its record up.
LEMMA SettleType ==
  ASSUME Shape, NEW s \in Sessions, call[s].job = "execute", pc[s] # "audit",
         NEW record \in Record, NEW to \in {"cancelled", Lapsed},
         Goto(s, "settle"), Hold(s, Moved(record, to, now)),
         UNCHANGED <<store, now, call, deaths, grants, claims>>
  PROVE  Shape'
<1>1. Moved(record, to, now) \in Record
  BY Typed, MovedType DEF Status, Terminal
<1>2. pc'[s] = "settle" /\ "settle" \in Sync \cup Await
  BY GotoType DEF Sync
<1>3. Placed(s)'
  BY <1>2, Typed DEF Placed
<1>4. QED BY <1>1, <1>2, <1>3, MoveType DEF Shape, TypeOK

\* Fetch: the execution reads its record.
LEMMA ShapeFetch ==
  ASSUME Shape, NEW s \in Sessions, Fetch(s)
  PROVE  Shape'
<1> DEFINE row == store[call[s].rep]
<1>1. pc[s] = "granted" /\ call[s].job = "execute" /\ row \in Record
  BY Typed DEF Placed, Fetch
<1>2. CASE row.status # Granted
  BY <1>2, ReturnType DEF Shape, TypeOK, Fetch
<1>3. CASE row.status = Granted /\ TooLate(row)
  BY <1>1, <1>3, SettleType DEF Fetch
<1>4. CASE row.status = Granted /\ ~TooLate(row)
  <2>1. Goto(s, "precheck") /\ Hold(s, row) /\ call' = call
    BY <1>4 DEF Fetch
  <2>2. pc'[s] = "precheck" /\ "precheck" \in Sync \cup Await
    BY <2>1, GotoType DEF Await
  <2>3. Placed(s)'
    BY <1>1, <2>1, <2>2, Typed DEF Placed
  <2>4. QED BY <1>1, <2>1, <2>2, <2>3, MoveType DEF Shape, TypeOK, Fetch
<1>5. QED BY <1>2, <1>3, <1>4

\* Pass: the clock is read again and stale rows are listed.
LEMMA ShapePass ==
  ASSUME Shape, NEW s \in Sessions, Pass(s)
  PROVE  Shape'
<1> DEFINE c == [call[s] EXCEPT !.at = now, !.todo = Stale(now), !.snap = store]
<1>1. pc[s] = "precheck" /\ call[s].job = "execute" /\ rec[s] \in Record
  BY Typed DEF Placed, Pass
<1>2. CASE TooLate(rec[s])
  BY <1>1, <1>2, SettleType DEF Pass
<1>3. CASE ~TooLate(rec[s])
  <2>1. Goto(s, "recover") /\ Local(s, c) /\ rec' = rec
    BY <1>3 DEF Pass
  <2>2. c \in Call
    BY Typed DEF Shape, TypeOK, Call, Stale
  <2>3. /\ call' \in [Sessions -> Call] /\ call'[s] = c
        /\ pc' \in [Sessions -> Sync \cup Await] /\ pc'[s] = "recover"
    BY <2>1, <2>2, LocalType, GotoType DEF Sync
  <2>4. c.job = call[s].job /\ c.rep = call[s].rep /\ c.ticket = call[s].ticket
    BY Typed DEF Call
  <2>5. Placed(s)'
    BY <1>1, <2>1, <2>3, <2>4, Typed DEF Placed
  <2>6. \A t \in Sessions : Placed(t)'
    BY <2>1, <2>5, OthersPlaced DEF Shape, TypeOK, Goto, Local
  <2>7. QED BY <2>1, <2>3, <2>6 DEF Shape, TypeOK, Pass
<1>4. QED BY <1>2, <1>3

\* Refuse: a service that has changed cancels the repair.
LEMMA ShapeRefuse ==
  ASSUME Shape, NEW s \in Sessions, Refuse(s)
  PROVE  Shape'
<1>1. pc[s] = "precheck" /\ call[s].job = "execute" /\ rec[s] \in Record
  BY Typed DEF Placed, Refuse
<1>2. CASE store[call[s].rep].status # Granted
  BY <1>2, ReturnType DEF Shape, TypeOK, Refuse
<1>3. CASE store[call[s].rep].status = Granted
  BY <1>1, <1>3, SettleType DEF Refuse
<1>4. QED BY <1>2, <1>3

\* Settle: an execution that does not start puts its last record.
LEMMA ShapeSettle ==
  ASSUME Shape, NEW s \in Sessions, Settle(s)
  PROVE  Shape'
BY Typed, ReturnType, PutType DEF Shape, TypeOK, Settle

\* Claim: the row is written as executing, with its start.
LEMMA ShapeClaim ==
  ASSUME Shape, NEW s \in Sessions, Claim(s)
  PROVE  Shape'
<1> DEFINE executing == [Moved(rec[s], "executing", now) EXCEPT !.started = call[s].at]
           c == [call[s] EXCEPT !.job = "repair"]
<1>1. /\ executing \in Record
      /\ c \in Call /\ c.job = "repair" /\ c.rep = call[s].rep /\ c.ticket = call[s].ticket
  <2>1. Moved(rec[s], "executing", now) \in Record
    BY Typed, MovedType DEF Status, Active
  <2>2. executing \in Record
    BY <2>1, Typed DEF Record, Call
  <2>3. QED BY <2>2, Typed DEF Call, Job
<1>2. /\ store' \in [Repairs -> Record]
      /\ rec' \in [Sessions -> Record]
      /\ call' \in [Sessions -> Call] /\ call'[s] = c
      /\ pc' \in [Sessions -> Sync \cup Await] /\ pc'[s] = "run"
  BY <1>1, PutType, HoldType, LocalType, GotoType DEF Claim, Await
<1>3. call[s].rep \in Repairs /\ call[s].job = "execute" /\ call[s].ticket # 0
  BY Typed DEF Claim, Placed
<1>4. claims' \subseteq [rep : Repairs, ticket : Nat, at : Time, until : Time]
  BY <1>3, Typed DEF Shape, TypeOK, Claim, Call, Record
<1>5. Placed(s)'
  BY <1>1, <1>2, <1>3, Typed DEF Placed
<1>6. \A t \in Sessions : Placed(t)'
  BY <1>5, OthersPlaced DEF Shape, TypeOK, Claim, Goto, Local, Hold
<1>7. QED BY <1>2, <1>4, <1>6 DEF Shape, TypeOK, Claim

\* ClaimLost: somebody else has taken the repair and the call ends.
LEMMA ShapeClaimLost ==
  ASSUME Shape, NEW s \in Sessions, ClaimLost(s)
  PROVE  Shape'
BY ReturnType DEF Shape, TypeOK, ClaimLost

\* ClaimRefused: a busy computer or the rate limit cancels the repair.
LEMMA ShapeClaimRefused ==
  ASSUME Shape, NEW s \in Sessions, ClaimRefused(s)
  PROVE  Shape'
<1>1. pc[s] = "claim" /\ call[s].job = "execute" /\ rec[s] \in Record
  BY Typed DEF Placed, ClaimRefused
<1>2. QED BY <1>1, SettleType DEF ClaimRefused

\* A step of a session at work that puts its own record.
LEMMA ShapePutOwn ==
  ASSUME Shape, NEW s \in Sessions, NEW to \in Active,
         NEW next \in {"run", "verify", "succeed", "rollback", "cleanup"},
         PutOwn(s, to, next), UNCHANGED call, pc[s] # "audit",
         \/ call[s].job = "repair"
         \/ call[s].job = "execute" /\ next \in {"rollback", "cleanup"}
  PROVE  Shape'
<1>1. to \in Status /\ next \in Sync \cup Await
  BY DEF Status, Sync, Await
<1>2. pc'[s] = next
  BY <1>1, GotoType DEF PutOwn
<1>3. Placed(s)'
  BY <1>2, Typed DEF Placed
<1>4. \A t \in Sessions : Placed(t)'
  BY <1>3, OthersPlaced DEF Shape, TypeOK, PutOwn, Goto, Hold
<1>5. QED BY <1>1, <1>4, PutOwnType DEF Shape, TypeOK

\* Work: the steps of an execution that go on.
LEMMA ShapeWork ==
  ASSUME Shape, NEW s \in Sessions,
         \/ Command(s) \/ CommandFails(s) \/ LaunchFails(s)
         \/ BeginVerify(s) \/ VerifyPasses(s) \/ Rollback(s)
  PROVE  Shape'
<1>1. CASE Command(s)
  BY <1>1, ShapePutOwn, Typed DEF Command, Placed, Active
<1>2. CASE CommandFails(s)
  BY <1>2, ShapePutOwn, Typed DEF CommandFails, Placed, Active
<1>3. CASE BeginVerify(s)
  BY <1>3, ShapePutOwn, Typed DEF BeginVerify, Placed, Active
<1>4. CASE VerifyPasses(s)
  BY <1>4, ShapePutOwn, Typed DEF VerifyPasses, Placed, Active
<1>5. CASE Rollback(s)
  BY <1>5, ShapePutOwn, Typed DEF Rollback, Placed, Active
<1>6. CASE LaunchFails(s)
  BY <1>6, ShapePutOwn, Typed DEF LaunchFails, Placed, Active
<1>7. QED BY <1>1, <1>2, <1>3, <1>4, <1>5, <1>6

\* VerifyFails: the way the rollback is to end is chosen.
LEMMA ShapeVerifyFails ==
  ASSUME Shape, NEW s \in Sessions, VerifyFails(s)
  PROVE  Shape'
<1> DEFINE c(end) == [call[s] EXCEPT !.end = end]
<1>1. PICK end \in {"rolled_back", "cleanup_failed"} : Local(s, c(end))
  BY DEF VerifyFails
<1>2. /\ c(end) \in Call /\ c(end).job = call[s].job
      /\ c(end).rep = call[s].rep /\ c(end).ticket = call[s].ticket
  BY Typed DEF Call
<1>3. call' \in [Sessions -> Call] /\ call'[s] = c(end)
  BY <1>1, <1>2, LocalType
<1>4. /\ store' \in [Repairs -> Record]
      /\ rec' \in [Sessions -> Record]
      /\ pc' \in [Sessions -> Sync \cup Await]
      /\ UNCHANGED <<now, deaths, grants, claims>>
  BY PutOwnType DEF VerifyFails, Status, Active, Sync
<1>5. pc[s] = "verify" /\ pc'[s] = "rollback"
  BY GotoType DEF VerifyFails, PutOwn, Sync
<1>6. Placed(s)'
  BY <1>2, <1>3, <1>5, Typed DEF Placed
<1>7. \A t \in Sessions : Placed(t)'
  BY <1>1, <1>6, OthersPlaced DEF Shape, TypeOK, VerifyFails, PutOwn, Goto, Hold, Local
<1>8. QED BY <1>3, <1>4, <1>7 DEF Shape, TypeOK

\* Finish: the last put of an execution.
LEMMA ShapeFinish ==
  ASSUME Shape, NEW s \in Sessions, NEW to \in Terminal, Finish(s, to)
  PROVE  Shape'
<1>1. Moved(rec[s], to, now) \in Record
  BY Typed, MovedType DEF Status
<1>2. QED BY <1>1, ReturnType, PutType DEF Shape, TypeOK, Finish

\* Raise: an exception returns or rolls back from the row it reads.
LEMMA ShapeRaise ==
  ASSUME Shape, NEW s \in Sessions, Raise(s)
  PROVE  Shape'
<1> DEFINE row == store[call[s].rep]
           c == [call[s] EXCEPT !.end = "cleanup_failed"]
           p == IF row.status = "rolling_back" THEN "cleanup" ELSE "rollback"
<1>1. CASE Return(s)
  BY <1>1, ReturnType DEF Shape, TypeOK, Raise
<1>2. CASE ~Return(s)
  <2>1. Hold(s, row) /\ Goto(s, p) /\ Local(s, c)
    BY <1>2 DEF Raise
  <2>2. call[s].job \in {"execute", "repair"} /\ row \in Record
    BY Typed DEF Raise, Placed
  <2>3. /\ c \in Call /\ c.job = call[s].job
        /\ c.rep = call[s].rep /\ c.ticket = call[s].ticket
    BY Typed DEF Call
  <2>4. p \in {"cleanup", "rollback"} /\ p \in Sync \cup Await
    BY DEF Sync
  <2>5. /\ rec' \in [Sessions -> Record]
        /\ call' \in [Sessions -> Call] /\ call'[s] = c
        /\ pc' \in [Sessions -> Sync \cup Await] /\ pc'[s] = p
    BY <2>1, <2>2, <2>3, <2>4, HoldType, LocalType, GotoType
  <2>6. Placed(s)'
    BY <2>2, <2>3, <2>4, <2>5, Typed DEF Placed
  <2>7. \A t \in Sessions : Placed(t)'
    BY <2>1, <2>6, OthersPlaced DEF Shape, TypeOK, Goto, Hold, Local
  <2>8. QED BY <2>5, <2>7 DEF Shape, TypeOK, Raise
<1>3. QED BY <1>1, <1>2

\* Die: all locals are gone.
LEMMA ShapeDie ==
  ASSUME Shape, NEW s \in Sessions, Die(s)
  PROVE  Shape'
<1>1. deaths' \in 0..MaxDeaths
  BY ControlAssumption DEF Shape, TypeOK, Die
<1>2. QED BY <1>1, ReturnType DEF Shape, TypeOK, Die

\* Tick: only the clock moves.
LEMMA ShapeTick ==
  ASSUME Shape, Tick
  PROVE  Shape'
BY DEF Shape, TypeOK, Tick, Time, Placed

\* All the steps of a call keep the types and the places.
LEMMA ShapeStep ==
  ASSUME Shape, NEW s \in Sessions, Step(s)
  PROVE  Shape'
BY ShapeSubmit, ShapeExpireRow, ShapeExpireFails, ShapeRecoverRow, ShapeExpireDone,
   ShapeDecide, ShapeDecideFails, ShapeWrite, ShapeAudit, ShapeRecoverEnd,
   ShapeRecoverDone, ShapeFetch, ShapePass, ShapeRefuse, ShapeSettle, ShapeClaim,
   ShapeClaimLost, ShapeClaimRefused, ShapeWork, ShapeVerifyFails, ShapeFinish, Typed
   DEF Step, Succeed, Cleanup, Terminal, Call

\* The type invariant is inductive together with Placed.
LEMMA ShapeNext == Shape /\ [Next]_vars => Shape'
<1> SUFFICES ASSUME Shape, [Next]_vars PROVE Shape'
  OBVIOUS
<1>1. ASSUME NEW s \in Sessions, Step(s) PROVE Shape'
  BY <1>1, ShapeStep
<1>2. ASSUME NEW s \in Sessions, Request(s) PROVE Shape'
  BY <1>2, ShapePropose, ShapeBegin DEF Request, Poll
<1>3. ASSUME NEW s \in Sessions, Raise(s) \/ Die(s) PROVE Shape'
  BY <1>3, ShapeRaise, ShapeDie
<1>4. CASE Tick
  BY <1>4, ShapeTick
<1>5. CASE UNCHANGED vars
  BY <1>5 DEF vars, Shape, TypeOK, Placed
<1>6. QED BY <1>1, <1>2, <1>3, <1>4, <1>5 DEF Next

\* It holds at the start.
LEMMA ShapeInit == Init => Shape
<1> SUFFICES ASSUME Init PROVE Shape
  OBVIOUS
<1>1. NoRow \in Record /\ NoCall \in Call
  BY DEF NoRow, Record, Time, Status, NoCall, NoSnap, Call, Job
<1>2. TypeOK
  BY <1>1, ControlAssumption DEF Init, TypeOK, Await, Time
<1>3. \A s \in Sessions : Placed(s)
  BY DEF Init, Placed, NoCall
<1>4. QED BY <1>2, <1>3 DEF Shape

\* Every session is at a point its job leads to, and everything has its type,
\* whatever the deployment.
THEOREM TypeCorrect == Safe => []TypeOK
<1>1. Safe => []Shape
  BY ShapeInit, ShapeNext, PTL DEF Safe
<1>2. Shape => TypeOK
  BY DEF Shape
<1>3. QED BY <1>1, <1>2, PTL

-----------------------------------------------------------------------------
(* One approval, one execution.                                            *)

\* A session changes what it knows itself, and nothing of what others know.
LEMMA OthersKept ==
  ASSUME Shape, NEW s \in Sessions, Step(s) \/ Request(s) \/ Raise(s) \/ Die(s),
         NEW t \in Sessions \ {s}
  PROVE  pc'[t] = pc[t] /\ call'[t] = call[t] /\ rec'[t] = rec[t]
<1> USE DEF Shape, TypeOK, Goto, Local, Hold, Return
<1>1. CASE Request(s)
  BY <1>1 DEF Request, Poll, Propose, Begin
<1>2. CASE Raise(s) \/ Die(s)
  BY <1>2 DEF Raise, Die
<1>3. CASE Step(s)
  <2>1. CASE \E r \in Repairs : ExpireRow(s, r) \/ ExpireFails(s, r) \/ RecoverRow(s, r)
    BY <2>1 DEF ExpireRow, ExpireFails, RecoverRow
  <2>2. CASE Submit(s) \/ ExpireDone(s) \/ Decide(s) \/ DecideFails(s) \/ Write(s)
    BY <2>2 DEF Submit, ExpireDone, Decide, DecideFails, Write
  <2>3. CASE Audit(s) \/ RecoverEnd(s) \/ RecoverDone(s) \/ Fetch(s) \/ Pass(s) \/ Refuse(s)
    BY <2>3 DEF Audit, RecoverEnd, RecoverDone, Fetch, Pass, Refuse
  <2>4. CASE Settle(s) \/ Claim(s) \/ ClaimLost(s) \/ ClaimRefused(s)
    BY <2>4 DEF Settle, Claim, ClaimLost, ClaimRefused
  <2>5. CASE \/ Command(s) \/ CommandFails(s) \/ LaunchFails(s) \/ BeginVerify(s) \/ VerifyPasses(s)
             \/ VerifyFails(s) \/ Succeed(s) \/ Rollback(s) \/ Cleanup(s)
    BY <2>5 DEF Command, CommandFails, LaunchFails, BeginVerify, VerifyPasses, VerifyFails, Succeed,
                Rollback, Cleanup, PutOwn, Finish
  <2>6. QED BY <1>3, <2>1, <2>2, <2>3, <2>4, <2>5 DEF Step
<1>4. QED BY <1>1, <1>2, <1>3

\* What most steps do to the approval a session carries: it is kept or dropped.
Carries(s) ==
  /\ claims' = claims
  /\ grants' = grants
  /\ \/ call'[s].ticket = 0
     \/ /\ call'[s].ticket = call[s].ticket
        /\ call'[s].rep = call[s].rep
        /\ call'[s].job = "repair" <=> call[s].job = "repair"

\* A call that ends carries no approval.
LEMMA ReturnCarries ==
  ASSUME Shape, NEW s \in Sessions, Return(s), UNCHANGED <<grants, claims>>
  PROVE  Carries(s)
BY DEF Shape, TypeOK, Return, Local, NoCall, Carries

\* An action that may change the local variables, but not the job, the repair
\* or the approval.
LEMMA LocalCarries ==
  ASSUME Shape, NEW s \in Sessions, NEW c, Local(s, c), UNCHANGED <<grants, claims>>,
         c.ticket = call[s].ticket, c.rep = call[s].rep,
         c.job = "repair" <=> call[s].job = "repair"
  PROVE  Carries(s)
BY DEF Shape, TypeOK, Local, Carries

\* Only the put of an approval and a claim change what is carried.
LEMMA MostCarry ==
  ASSUME Shape, NEW s \in Sessions, Step(s) \/ Request(s) \/ Raise(s) \/ Die(s),
         ~Claim(s), Write(s) => rec[s].status # Granted
  PROVE  Carries(s)
<1>1. call[s] \in Call /\ Placed(s)
  BY Typed
<1>2. CASE Request(s)
  <2>1. ASSUME NEW r \in Repairs, Propose(s, r) PROVE Carries(s)
    <3> DEFINE c == [call[s] EXCEPT !.job = "propose", !.rep = r]
    <3>1. c.ticket = 0 /\ Local(s, c)
      BY <1>1, <2>1 DEF Propose, Call, Placed, NoCall
    <3>2. QED BY <2>1, <3>1 DEF Shape, TypeOK, Propose, Local, Carries
  <2>2. ASSUME NEW job, NEW r, Begin(s, job, r) PROVE Carries(s)
    <3> DEFINE c == [call[s] EXCEPT !.job = job, !.rep = r, !.at = now, !.todo = Due(now)]
    <3>1. c.ticket = 0 /\ Local(s, c)
      BY <1>1, <2>2 DEF Begin, Call, Placed, NoCall
    <3>2. QED BY <2>2, <3>1 DEF Shape, TypeOK, Begin, Local, Carries
  <2>3. QED BY <1>2, <2>1, <2>2 DEF Request, Poll
<1>3. CASE Raise(s)
  BY <1>1, <1>3, ReturnCarries, LocalCarries DEF Raise, Call
<1>4. CASE Die(s)
  BY <1>4, ReturnCarries DEF Die
<1>5. CASE Step(s)
  <2>1. ASSUME NEW r \in Repairs, ExpireRow(s, r) PROVE Carries(s)
    BY <1>1, <2>1, LocalCarries DEF ExpireRow, Call
  <2>2. ASSUME NEW r \in Repairs, ExpireFails(s, r) PROVE Carries(s)
    BY <2>2, ReturnCarries DEF ExpireFails
  <2>3. ASSUME NEW r \in Repairs, RecoverRow(s, r) PROVE Carries(s)
    BY <1>1, <2>3, LocalCarries DEF RecoverRow, Call
  <2>4. CASE Submit(s) \/ DecideFails(s) \/ Settle(s) \/ ClaimLost(s) \/ Succeed(s) \/ Cleanup(s)
    BY <2>4, ReturnCarries DEF Submit, DecideFails, Settle, ClaimLost, Succeed, Cleanup, Finish
  <2>5. CASE ExpireDone(s)
    BY <1>1, <2>5, LocalCarries DEF ExpireDone, Call, Carries
  <2>6. CASE Decide(s)
    BY <1>1, <2>6, LocalCarries DEF Decide, Call
  <2>7. CASE Write(s)
    BY <2>7 DEF Write, Carries
  <2>8. CASE Audit(s)
    <3>1. CASE Local(s, [call[s] EXCEPT !.job = "execute"])
      BY <1>1, <2>8, <3>1, LocalCarries DEF Audit, Call, Placed
    <3>2. CASE Return(s)
      BY <2>8, <3>2, ReturnCarries DEF Audit
    <3>3. CASE UNCHANGED call
      BY <2>8, <3>3 DEF Audit, Carries
    <3>4. QED BY <2>8, <3>1, <3>2, <3>3 DEF Audit
  <2>9. CASE RecoverEnd(s)
    BY <1>1, <2>9, LocalCarries DEF RecoverEnd, Call
  <2>10. CASE RecoverDone(s) \/ Fetch(s) \/ Refuse(s)
    BY <2>10, ReturnCarries DEF RecoverDone, Fetch, Refuse, Carries
  <2>11. CASE Pass(s)
    BY <1>1, <2>11, LocalCarries DEF Pass, Call, Carries
  <2>12. CASE ClaimRefused(s)
    BY <2>12 DEF ClaimRefused, Carries
  <2>13. CASE \/ Command(s) \/ CommandFails(s) \/ LaunchFails(s)
              \/ BeginVerify(s) \/ VerifyPasses(s) \/ Rollback(s)
    BY <2>13 DEF Command, CommandFails, LaunchFails, BeginVerify, VerifyPasses, Rollback,
                 PutOwn, Carries
  <2>14. CASE VerifyFails(s)
    BY <1>1, <2>14, LocalCarries DEF VerifyFails, PutOwn, Call
  <2>15. QED
    BY <1>5, <2>1, <2>2, <2>3, <2>4, <2>5, <2>6, <2>7, <2>8, <2>9, <2>10, <2>11, <2>12,
       <2>13, <2>14 DEF Step
<1>6. QED BY <1>2, <1>3, <1>4, <1>5

\* A session that carries on what it carried keeps the numbering intact.
LEMMA CarriedIsTicketed ==
  ASSUME Shape, Shape', TicketInv, NEW s \in Sessions, Carries(s),
         \A t \in Sessions \ {s} : call'[t] = call[t]
  PROVE  Ticketed' /\ OneRunPerApproval' /\ RunsOnlyApproved'
<1>1. \A t \in Sessions : call'[t].ticket # 0 =>
         call'[t].ticket = call[t].ticket /\ call'[t].rep = call[t].rep
  BY DEF Carries
<1>2. \A t \in Sessions : call'[t].job # "repair" /\ call'[t].ticket # 0 =>
         call[t].job # "repair"
  BY DEF Carries
<1>3. \A c \in claims : c.ticket # 0
  BY DEF Shape, TypeOK, TicketInv, RunsOnlyApproved
<1>4. grants' = grants /\ claims' = claims
  BY DEF Carries
<1>5. Ticketed'
  BY <1>1, <1>2, <1>3, <1>4 DEF TicketInv, Ticketed
<1>6. QED BY <1>4, <1>5 DEF TicketInv, OneRunPerApproval, RunsOnlyApproved

\* An approval gets a number nobody carries yet.
LEMMA WriteIsTicketed ==
  ASSUME Shape, Shape', TicketInv, NEW s \in Sessions, Write(s), rec[s].status = Granted
  PROVE  Ticketed' /\ OneRunPerApproval' /\ RunsOnlyApproved'
<1> DEFINE r == call[s].row
           n == grants[r] + 1
<1>1. r \in Repairs /\ r = call[s].rep /\ grants[r] \in Nat /\ call[s].ticket = 0
  BY Typed DEF Shape, TypeOK, Write, Placed, Granted
<1>2. grants' = [grants EXCEPT ![r] = n] /\ claims' = claims
  BY <1>1 DEF Shape, TypeOK, Write
<1>3. /\ call'[s].ticket = n /\ call'[s].rep = r /\ call'[s].job = call[s].job
      /\ \A t \in Sessions \ {s} : call'[t] = call[t]
  BY <1>1, Typed DEF Shape, TypeOK, Write, Local, Call
<1>4. \A q \in Repairs : grants[q] \in Nat /\ grants[q] <= grants'[q] /\ grants'[q] \in Nat
  BY <1>1, <1>2 DEF Shape, TypeOK
<1>5. \A t \in Sessions : call[t].ticket # 0 =>
         call[t].rep \in Repairs /\ call[t].ticket \in Nat
  BY Typed DEF Placed, Call
<1>6. \A c \in claims : c.rep \in Repairs /\ c.ticket \in 1..grants[c.rep]
  BY DEF Shape, TypeOK, TicketInv, RunsOnlyApproved
<1>7. \A t \in Sessions : call'[t].ticket # 0 => call'[t].ticket <= grants'[call'[t].rep]
  BY <1>1, <1>2, <1>3, <1>4, <1>5 DEF Shape, TypeOK, TicketInv, Ticketed
<1>8. \A t \in Sessions : call[t].ticket # 0 /\ call[t].rep = r => call[t].ticket < n
  BY <1>1, <1>5 DEF TicketInv, Ticketed
<1>9. \A t, u \in Sessions :
         t # u /\ call'[t].ticket # 0 /\ call'[t].rep = call'[u].rep =>
            call'[t].ticket # call'[u].ticket
  BY <1>1, <1>3, <1>8 DEF TicketInv, Ticketed
<1>10. \A t \in Sessions : \A c \in claims :
          call'[t].job # "repair" /\ c.rep = call'[t].rep => c.ticket # call'[t].ticket
  BY <1>1, <1>3, <1>6 DEF TicketInv, Ticketed
<1>11. RunsOnlyApproved'
  BY <1>2, <1>4, <1>6 DEF TicketInv, RunsOnlyApproved
<1>12. QED BY <1>2, <1>7, <1>9, <1>10, <1>11 DEF TicketInv, Ticketed, OneRunPerApproval

\* A claim spends an approval that was carried by this session alone.
LEMMA ClaimIsTicketed ==
  ASSUME Shape, Shape', TicketInv, NEW s \in Sessions, Claim(s)
  PROVE  Ticketed' /\ OneRunPerApproval' /\ RunsOnlyApproved'
<1> DEFINE r == call[s].rep
           d == [rep |-> r, ticket |-> call[s].ticket, at |-> call[s].at, until |-> rec[s].expires]
<1>1. /\ r \in Repairs /\ call[s].job = "execute"
      /\ call[s].ticket \in Nat /\ call[s].ticket # 0
  BY Typed DEF Claim, Placed, Call
<1>2. claims' = claims \cup {d} /\ grants' = grants
  BY DEF Claim
<1>3. /\ call'[s].ticket = call[s].ticket /\ call'[s].rep = r /\ call'[s].job = "repair"
      /\ \A t \in Sessions \ {s} : call'[t] = call[t]
  BY <1>1, Typed DEF Shape, TypeOK, Claim, Local, Call
<1>4. \A t \in Sessions : call'[t].ticket # 0 => call'[t].ticket <= grants'[call'[t].rep]
  BY <1>2, <1>3 DEF TicketInv, Ticketed
<1>5. \A t, u \in Sessions :
         t # u /\ call'[t].ticket # 0 /\ call'[t].rep = call'[u].rep =>
            call'[t].ticket # call'[u].ticket
  BY <1>3 DEF TicketInv, Ticketed
<1>6. \A t \in Sessions : \A c \in claims' :
         call'[t].job # "repair" /\ c.rep = call'[t].rep => c.ticket # call'[t].ticket
  BY <1>1, <1>2, <1>3 DEF TicketInv, Ticketed
<1>7. \A c \in claims : c.rep = r => c.ticket # call[s].ticket
  BY <1>1 DEF TicketInv, Ticketed
<1>8. OneRunPerApproval'
  BY <1>2, <1>7 DEF TicketInv, OneRunPerApproval
<1>9. d.ticket \in 1..grants[d.rep] /\ d.at < d.until
  BY <1>1 DEF Shape, TypeOK, Claim, TicketInv, Ticketed, InTime
<1>10. RunsOnlyApproved'
  BY <1>2, <1>9 DEF TicketInv, RunsOnlyApproved
<1>11. QED BY <1>4, <1>5, <1>6, <1>8, <1>10 DEF Ticketed

\* Whoever is about to claim has looked at the clock since it read its record.
LEMMA StaysInTime ==
  ASSUME Shape, InTime, NEW s \in Sessions, Step(s) \/ Request(s) \/ Raise(s) \/ Die(s)
  PROVE  InTime'
<1> DEFINE Before(p) == p \in {"recover", "recoverEnd", "claim"}
<1>1. \A t \in Sessions \ {s} : pc'[t] = pc[t] /\ call'[t] = call[t] /\ rec'[t] = rec[t]
  BY OthersKept
<1>2. CASE ~Before(pc'[s])
  BY <1>1, <1>2 DEF InTime
<1>3. ASSUME Before(pc'[s]), call'[s].job = "execute"
      PROVE  call'[s].at < rec'[s].expires
  <2>1. call[s] \in Call /\ Placed(s) /\ pc \in [Sessions -> Sync \cup Await]
        /\ call \in [Sessions -> Call] /\ rec \in [Sessions -> Record]
    BY Typed DEF Shape, TypeOK
  <2> USE <2>1 DEF Goto, Return
  <2>2. CASE Pass(s)
    <3>1. ~TooLate(rec[s]) /\ rec' = rec /\ call'[s].at = now
      BY <1>3, <2>2 DEF Pass, Local, Call
    <3>2. QED BY <2>2, <3>1, Typed DEF TooLate, Record, Time
  <2>3. ASSUME NEW r \in Repairs, RecoverRow(s, r) PROVE call'[s].at < rec'[s].expires
    <3>1. call'[s].at = call[s].at /\ call'[s].job = call[s].job /\ rec' = rec
      BY <2>3 DEF RecoverRow, Local, Call
    <3>2. QED BY <1>3, <2>3, <3>1 DEF InTime, RecoverRow
  <2>4. CASE RecoverEnd(s)
    <3>1. call'[s].at = call[s].at /\ call'[s].job = call[s].job /\ rec' = rec
      BY <2>4 DEF RecoverEnd, Local, Call
    <3>2. QED BY <1>3, <2>4, <3>1 DEF InTime, RecoverEnd
  <2>5. CASE RecoverDone(s)
    BY <1>3, <2>5 DEF InTime, RecoverDone
  <2>6. CASE ExpireDone(s)
    <3>1. CASE call[s].job = "poll"
      <4>1. call'[s].job = call[s].job
        BY <2>6, <3>1 DEF ExpireDone, Local, Call
      <4>2. QED BY <1>3, <3>1, <4>1
    <3>2. CASE call[s].job # "poll"
      BY <1>3, <2>6, <3>2 DEF ExpireDone
    <3>3. QED BY <3>1, <3>2
  <2>7. CASE Request(s) \/ Raise(s) \/ Die(s)
    BY <1>3, <2>7 DEF Request, Poll, Propose, Begin, Raise, Die
  <2>8. CASE \/ \E r \in Repairs : ExpireRow(s, r) \/ ExpireFails(s, r)
             \/ Submit(s) \/ Decide(s) \/ DecideFails(s) \/ Write(s) \/ Audit(s)
    BY <1>3, <2>8 DEF ExpireRow, ExpireFails, Submit, Decide, DecideFails, Write, Audit
  <2>9. CASE Fetch(s) \/ Refuse(s) \/ Settle(s) \/ Claim(s) \/ ClaimLost(s) \/ ClaimRefused(s)
    BY <1>3, <2>9 DEF Fetch, Refuse, Settle, Claim, ClaimLost, ClaimRefused
  <2>10. CASE \/ Command(s) \/ CommandFails(s) \/ LaunchFails(s) \/ BeginVerify(s) \/ VerifyPasses(s)
              \/ VerifyFails(s) \/ Succeed(s) \/ Rollback(s) \/ Cleanup(s)
    BY <1>3, <2>10 DEF Command, CommandFails, LaunchFails, BeginVerify, VerifyPasses, VerifyFails,
       Succeed, Rollback, Cleanup, PutOwn, Finish
  <2>11. QED
    BY <2>2, <2>3, <2>4, <2>5, <2>6, <2>7, <2>8, <2>9, <2>10 DEF Step
<1>4. QED BY <1>1, <1>2, <1>3 DEF InTime

\* The numbering of approvals is inductive, however the sessions interleave.
LEMMA TicketNext == Shape /\ Shape' /\ TicketInv /\ [Next]_vars => TicketInv'
<1> SUFFICES ASSUME Shape, Shape', TicketInv, [Next]_vars PROVE TicketInv'
  OBVIOUS
<1>1. ASSUME NEW s \in Sessions, Step(s) \/ Request(s) \/ Raise(s) \/ Die(s)
      PROVE  TicketInv'
  <2>1. InTime'
    BY <1>1, StaysInTime DEF TicketInv
  <2>2. CASE Claim(s)
    BY <2>1, <2>2, ClaimIsTicketed DEF TicketInv
  <2>3. CASE Write(s) /\ rec[s].status = Granted
    BY <2>1, <2>3, WriteIsTicketed DEF TicketInv
  <2>4. CASE ~Claim(s) /\ (Write(s) => rec[s].status # Granted)
    <3>1. Carries(s)
      BY <1>1, <2>4, MostCarry
    <3>2. \A t \in Sessions \ {s} : call'[t] = call[t]
      BY <1>1, OthersKept
    <3>3. QED BY <2>1, <3>1, <3>2, CarriedIsTicketed DEF TicketInv
  <2>5. QED BY <2>2, <2>3, <2>4
<1>2. CASE Tick
  BY <1>2 DEF Tick, TicketInv, Ticketed, InTime, OneRunPerApproval, RunsOnlyApproved
<1>3. CASE UNCHANGED vars
  BY <1>3 DEF vars, TicketInv, Ticketed, InTime, OneRunPerApproval, RunsOnlyApproved
<1>4. QED BY <1>1, <1>2, <1>3 DEF Next

\* Nothing is approved at the start.
LEMMA TicketInit == Init => TicketInv
BY DEF Init, NoCall, TicketInv, Ticketed, InTime, OneRunPerApproval, RunsOnlyApproved

\* The numbering holds in every reachable state.
LEMMA TicketInvariant == Safe => [](Shape /\ TicketInv)
BY ShapeInit, ShapeNext, TicketInit, TicketNext, PTL DEF Safe

\* One approval is spent on one execution at most, whatever the deployment.
THEOREM ApprovalSpentOnce == Safe => []OneRunPerApproval
BY TicketInvariant, PTL DEF TicketInv

\* Every execution rests on an approval that was given and had not run out.
THEOREM ApprovedAndInTime == Safe => []RunsOnlyApproved
BY TicketInvariant, PTL DEF TicketInv


-----------------------------------------------------------------------------
(* What a step does to the store.                                          *)

\* A record may be overwritten by x: where it may go and what has been started.
Onward(r, x) ==
  LET row == store[r]
  IN  \/ row.status = Waiting /\ x.status \in {Granted, "rejected", Lapsed} /\ x.started = 0
      \/ row.status = Granted /\ x.status \in {"cancelled", Lapsed, "rolling_back"}
                              /\ x.started = 0
      \/ row.status = Granted /\ x.status = "executing" /\ x.started # 0 /\ ~Busy
      \/ /\ row.status \in Active
         /\ x.started = row.started
         /\ \/ x.status \in Active \cup {"cleanup_failed"}
            \/ x.started # 0 /\ x.status \in {"succeeded", "rolled_back"}

\* A step leaves the store alone, stores a proposal or moves one record onward.
StoreStep(s) ==
  \/ store' = store
  \/ Submit(s)
  \/ \E r \in Repairs : \E x \in Record : Put(r, x) /\ Onward(r, x)

\* It does not touch the record of an execution of another session.
OthersSafe(s) ==
  \A t \in Sessions \ {s} : call[t].ticket # 0 => store'[call[t].rep] = store[call[t].rep]

\* What is shown of every action of a session.
Proper(s) == Informed(s)' /\ StoreStep(s) /\ OthersSafe(s)

\* No point is both between two awaits and at one.
LEMMA Disjoint == Sync \cap Await = {}
BY DEF Sync, Await

\* A session takes a step only while the others await.
LEMMA OthersAwait ==
  ASSUME OneLoop, Shape, Alone, NEW s \in Sessions, Step(s) \/ Request(s) \/ Raise(s),
         NEW t \in Sessions \ {s}
  PROVE  pc[t] \in Await
<1>1. CASE Turn(s)
  BY <1>1 DEF Turn, OneLoop
<1>2. CASE pc[s] \in Sync
  BY <1>2, Disjoint DEF Alone
<1>3. Turn(s) \/ pc[s] \in Sync
  BY DEF Step, Request, Poll, Propose, Begin, Raise, Submit, ExpireRow, ExpireFails, ExpireDone,
     Decide, DecideFails, Write, Audit, RecoverRow, RecoverEnd, RecoverDone, Fetch, Pass,
     Refuse, Settle, Claim, ClaimLost, ClaimRefused, Command, CommandFails, LaunchFails,
     BeginVerify, VerifyPasses, VerifyFails, Succeed, Rollback, Cleanup, Sync
<1>4. QED BY <1>1, <1>2, <1>3

\* What the invariant says of one session.
LEMMA Facts ==
  ASSUME Shape, LoopInv, NEW s \in Sessions
  PROVE  Informed(s) /\ Clocked /\ Untouched
BY DEF LoopInv

\* The row of an execution that has not been claimed, or of a repair at work.
LEMMA OwnedRow ==
  ASSUME Shape, LoopInv, NEW t \in Sessions, call[t].ticket # 0, pc[t] \in Await
  PROVE  /\ call[t].rep \in Repairs
         /\ \/ store[call[t].rep].status = Granted
            \/ Acting(t, call[t].rep) /\ store[call[t].rep].status \in Active
<1>1. call[t].job \in {"execute", "repair"} /\ pc[t] # "cleanup" /\ call[t].rep \in Repairs
  BY Typed DEF Placed, Await
<1>2. QED BY <1>1, Facts DEF Informed, Executing, Working, Acting

\* A session without a call has nothing to know.
LEMMA ReturnInformed ==
  ASSUME Shape, NEW s \in Sessions, Return(s)
  PROVE  Informed(s)'
BY DEF Shape, TypeOK, Return, Goto, Local, NoCall, Informed, Submitting, Deciding,
       Recovering, Executing, Working

\* A step that leaves the store alone disturbs nobody.
LEMMA QuietIsSafe ==
  ASSUME NEW s \in Sessions, store' = store
  PROVE  StoreStep(s) /\ OthersSafe(s)
BY DEF StoreStep, OthersSafe

\* Writing a row that nobody executes is safe for the others.
LEMMA IdleRowIsSafe ==
  ASSUME Shape, LoopInv, NEW s \in Sessions, \A t \in Sessions \ {s} : pc[t] \in Await,
         NEW r \in Repairs, NEW x, Put(r, x), store[r].status # Granted,
         \A t \in Sessions \ {s} : ~Acting(t, r)
  PROVE  OthersSafe(s)
BY OwnedRow DEF OthersSafe, Put, Shape, TypeOK

\* So is writing one's own.
LEMMA OwnRowIsSafe ==
  ASSUME Shape, LoopInv, NEW s \in Sessions, call[s].ticket # 0, NEW x, Put(call[s].rep, x)
  PROVE  OthersSafe(s)
BY DEF OthersSafe, Put, Shape, TypeOK, LoopInv, Separate

-----------------------------------------------------------------------------
(* One lemma per action.                                                   *)

\* Propose: a proposal is planned under a key that is free.
LEMMA ProperPropose ==
  ASSUME Shape, LoopInv, NEW s \in Sessions, NEW r \in Repairs, Propose(s, r)
  PROVE  Proper(s)
<1> DEFINE c == [call[s] EXCEPT !.job = "propose", !.rep = r]
           x == [NoRow EXCEPT !.status = Waiting, !.created = now, !.updated = now]
<1>1. /\ pc'[s] = "submit" /\ call'[s] = c /\ rec'[s] = x /\ store' = store
      /\ store[r].status = "none" /\ Open(KeyOf[r]) = {}
  BY DEF Shape, TypeOK, Propose, Goto, Local, Hold
<1>2. c.job = "propose" /\ c.rep = r /\ x.status = Waiting /\ x.started = 0
  BY Typed DEF Call, NoRow
<1>3. Informed(s)'
  BY <1>1, <1>2 DEF Informed, Submitting, Deciding, Recovering, Executing, Working, Open
<1>4. QED BY <1>1, <1>3, QuietIsSafe DEF Proper

\* Submit: the proposal is stored.
LEMMA ProperSubmit ==
  ASSUME Shape, LoopInv, NEW s \in Sessions, Submit(s),
         \A t \in Sessions \ {s} : pc[t] \in Await
  PROVE  Proper(s)
<1>1. /\ call[s].rep \in Repairs /\ store[call[s].rep].status = "none"
      /\ Put(call[s].rep, rec[s]) /\ Return(s)
  BY Typed, Facts DEF Submit, Placed, Informed, Submitting
<1>2. \A t \in Sessions \ {s} : ~Acting(t, call[s].rep)
  BY <1>1, Facts DEF Informed, Working, Acting, Active
<1>3. OthersSafe(s)
  BY <1>1, <1>2, IdleRowIsSafe DEF Granted
<1>4. QED BY <1>1, <1>3, ReturnInformed DEF Proper, StoreStep

\* Begin: a call reads the clock and lists what is due.
LEMMA ProperBegin ==
  ASSUME Shape, LoopInv, NEW s \in Sessions, NEW job, NEW r, Begin(s, job, r)
  PROVE  Proper(s)
<1> DEFINE c == [call[s] EXCEPT !.job = job, !.rep = r, !.at = now, !.todo = Due(now)]
<1>1. pc'[s] = "expire" /\ call'[s] = c /\ store' = store
  BY DEF Shape, TypeOK, Begin, Goto, Local
<1>2. c.job \in {"poll", "approve", "reject"} /\ c.todo = Due(now)
  BY Typed DEF Begin, Call
<1>3. Informed(s)'
  BY <1>1, <1>2 DEF Informed, Submitting, Deciding, Recovering, Executing, Working, Due
<1>4. QED BY <1>1, <1>3, QuietIsSafe DEF Proper

\* ExpireRow: a row that is due is moved in memory.
LEMMA ProperExpireRow ==
  ASSUME Shape, LoopInv, NEW s \in Sessions, NEW r \in Repairs, ExpireRow(s, r)
  PROVE  Proper(s)
<1> DEFINE c == [call[s] EXCEPT !.row = r, !.todo = @ \ {r}]
           x == Moved(store[r], Lapsed, call[s].at)
<1>1. pc[s] = "expire" /\ pc'[s] = "write" /\ call'[s] = c /\ rec'[s] = x /\ store' = store
  BY DEF Shape, TypeOK, ExpireRow, Goto, Local, Hold
<1>2. c.row = r /\ c.todo = call[s].todo \ {r} /\ c.job = call[s].job
  BY Typed DEF Call
<1>3. store[r].status = Waiting /\ \A q \in call[s].todo : store[q].status = Waiting
  BY <1>1, Facts DEF ExpireRow, Informed, Deciding
<1>4. x.started = 0
  BY <1>3, Typed, Facts DEF Moved, Record, Untouched
<1>5. call[s].job \in {"poll", "approve", "reject"}
  BY <1>1, Typed DEF Placed
<1>6. Informed(s)'
  BY <1>1, <1>2, <1>3, <1>4, <1>5
     DEF Informed, Submitting, Deciding, Recovering, Executing, Working
<1>7. QED BY <1>1, <1>6, QuietIsSafe DEF Proper

\* A call that ends without touching the store.
LEMMA ProperReturn ==
  ASSUME Shape, NEW s \in Sessions, Return(s), store' = store
  PROVE  Proper(s)
BY ReturnInformed, QuietIsSafe DEF Proper

\* Nobody is at work on what is stale.
LEMMA StaleIsIdle ==
  ASSUME OneLoop, Shape, LoopInv, NEW at \in Nat, at <= now, NEW r \in Stale(at),
         NEW t \in Sessions
  PROVE  ~Acting(t, r)
<1> SUFFICES ASSUME Acting(t, r) PROVE FALSE
  OBVIOUS
<1>1. r \in Repairs /\ store[r].updated + Interrupt < at
  BY DEF Stale
<1>2. store[r] = rec[t] /\ now <= rec[t].updated + StepTime
  BY Facts DEF Acting, Informed, Working
<1>3. rec[t].updated \in Nat /\ now \in Nat
  BY Typed DEF Record, Time
<1>4. QED BY <1>1, <1>2, <1>3, ControlAssumption

\* ExpireDone: the call goes on to interrupted repairs or to its decision.
LEMMA ProperExpireDone ==
  ASSUME OneLoop, Shape, LoopInv, NEW s \in Sessions, ExpireDone(s)
  PROVE  Proper(s)
<1> DEFINE c == [call[s] EXCEPT !.todo = Stale(call[s].at), !.snap = store]
<1>1. store' = store /\ rec' = rec /\ pc[s] = "expire" /\ call[s].todo = {}
  BY DEF ExpireDone
<1>2. CASE call[s].job = "poll"
  <2>1. pc'[s] = "recover" /\ call'[s] = c
    BY <1>2 DEF Shape, TypeOK, ExpireDone, Goto, Local
  <2>2. c.todo = Stale(call[s].at) /\ c.snap = store /\ c.job = "poll"
    BY <1>2, Typed DEF Call
  <2>3. \A r \in Stale(call[s].at) :
           store[r].status \in Active /\ \A t \in Sessions : ~Acting(t, r)
    <3>1. call[s].at \in Nat /\ call[s].at <= now
      BY Typed, Facts DEF Call, Time, Clocked
    <3>2. QED BY <3>1, StaleIsIdle DEF Stale
  <2>4. \A r \in Repairs, t \in Sessions : Acting(t, r)' => Acting(t, r)
    BY <1>2, <2>1, <2>2 DEF Shape, TypeOK, ExpireDone, Local, Acting
  <2>5. Stale(call[s].at) \subseteq Repairs
    BY DEF Stale
  <2>6. Informed(s)'
    BY <1>1, <2>1, <2>2, <2>3, <2>4, <2>5
       DEF Informed, Submitting, Deciding, Recovering, Executing, Working
  <2>7. QED BY <1>1, <2>6, QuietIsSafe DEF Proper
<1>3. CASE call[s].job # "poll"
  <2>1. pc'[s] = "decide" /\ call' = call
    BY <1>3 DEF Shape, TypeOK, ExpireDone, Goto
  <2>2. call[s].job \in {"poll", "approve", "reject"}
    BY <1>1, Typed DEF Placed
  <2>3. Informed(s)'
    BY <1>1, <2>1, <2>2 DEF Informed, Submitting, Deciding, Recovering, Executing, Working
  <2>4. QED BY <1>1, <2>3, QuietIsSafe DEF Proper
<1>4. QED BY <1>2, <1>3

\* Decide: the approved or rejected record is made in memory.
LEMMA ProperDecide ==
  ASSUME Shape, LoopInv, NEW s \in Sessions, Decide(s)
  PROVE  Proper(s)
<1> DEFINE row == store[call[s].rep]
           granted == [Moved(row, Granted, call[s].at) EXCEPT !.expires = call[s].at + AuthWindow]
           x == IF call[s].job = "approve" THEN granted ELSE Moved(row, "rejected", call[s].at)
           c == [call[s] EXCEPT !.row = call[s].rep]
<1>1. /\ pc[s] = "decide" /\ pc'[s] = "write" /\ call'[s] = c /\ rec'[s] = x /\ store' = store
      /\ row.status = Waiting
  BY DEF Shape, TypeOK, Decide, Decidable, Goto, Local, Hold
<1>2. /\ c.row = call[s].rep /\ c.todo = call[s].todo /\ c.job = call[s].job
      /\ call[s].todo = {}
  BY <1>1, Typed, Facts DEF Call, Informed, Deciding
<1>3. call[s].rep \in Repairs /\ row \in Record /\ call[s].job \in {"approve", "reject"}
  BY <1>1, Typed DEF Placed
<1>4. x.started = 0
  BY <1>1, <1>3, Facts DEF Moved, Record, Untouched
<1>5. Informed(s)'
  BY <1>1, <1>2, <1>3, <1>4 DEF Informed, Submitting, Deciding, Recovering, Executing, Working
<1>6. QED BY <1>1, <1>5, QuietIsSafe DEF Proper

\* Write: the record replaces the row, and an approval gets its number.
LEMMA ProperWrite ==
  ASSUME Shape, LoopInv, NEW s \in Sessions, Write(s),
         \A t \in Sessions \ {s} : pc[t] \in Await
  PROVE  Proper(s)
<1> DEFINE row == call[s].row
<1>1. /\ row \in Repairs /\ rec[s] \in Record
      /\ rec[s].status \in {Granted, "rejected", Lapsed}
      /\ call[s].job \in {"poll", "approve", "reject"}
  BY Typed DEF Write, Placed
<1>2. /\ store[row].status = Waiting /\ row \notin call[s].todo /\ rec[s].started = 0
      /\ \A r \in call[s].todo : store[r].status = Waiting
  BY Facts DEF Write, Informed, Deciding
<1>3. Put(row, rec[s]) /\ rec' = rec /\ pc'[s] = "audit"
  BY DEF Shape, TypeOK, Write, Goto
<1>4. Onward(row, rec[s])
  BY <1>1, <1>2 DEF Onward
<1>5. \A t \in Sessions \ {s} : ~Acting(t, row)
  BY <1>2, Facts DEF Informed, Working, Acting, Active, Waiting
<1>6. OthersSafe(s)
  BY <1>1, <1>2, <1>3, <1>5, IdleRowIsSafe DEF Waiting, Granted
<1>7. /\ call'[s].row = row /\ call'[s].todo = call[s].todo /\ call'[s].job = call[s].job
      /\ call[s].todo \subseteq Repairs
  BY Typed DEF Shape, TypeOK, Write, Local, Call
<1>8. store'[row] = rec[s] /\ \A r \in call[s].todo : store'[r] = store[r]
  BY <1>1, <1>2, <1>3, <1>7 DEF Shape, TypeOK, Put
<1>9. Informed(s)'
  BY <1>1, <1>2, <1>3, <1>7, <1>8
     DEF Informed, Submitting, Deciding, Recovering, Executing, Working
<1>10. QED BY <1>1, <1>3, <1>4, <1>6, <1>9 DEF Proper, StoreStep

\* Audit: the same record is put again, which changes nothing.
LEMMA ProperAudit ==
  ASSUME Shape, LoopInv, NEW s \in Sessions, Audit(s)
  PROVE  Proper(s)
<1> DEFINE row == call[s].row
           c == [call[s] EXCEPT !.job = "execute"]
<1>1. /\ pc[s] = "audit" /\ row \in Repairs /\ store[row] = rec[s]
      /\ call[s].job \in {"poll", "approve", "reject"}
      /\ rec[s].status = Granted => row = call[s].rep
      /\ \A r \in call[s].todo : store[r].status = Waiting
  BY Typed, Facts DEF Audit, Placed, Informed, Deciding
<1>2. store' = store
  BY <1>1 DEF Shape, TypeOK, Audit, Put
<1>3. CASE rec[s].status = Lapsed
  <2>1. pc'[s] = "expire" /\ call' = call
    BY <1>3 DEF Shape, TypeOK, Audit, Goto, Granted, Lapsed
  <2>2. Informed(s)'
    BY <1>1, <1>2, <2>1 DEF Informed, Submitting, Deciding, Recovering, Executing, Working
  <2>3. QED BY <1>2, <2>2, QuietIsSafe DEF Proper
<1>4. CASE rec[s].status = Granted
  <2>1. pc'[s] = "granted" /\ call'[s] = c
    BY <1>4 DEF Shape, TypeOK, Audit, Goto, Local, Granted, Lapsed
  <2>2. c.job = "execute" /\ c.rep = row
    BY <1>1, <1>4, Typed DEF Call
  <2>3. Informed(s)'
    BY <1>1, <1>2, <1>4, <2>1, <2>2
       DEF Informed, Submitting, Deciding, Recovering, Executing, Working
  <2>4. QED BY <1>2, <2>3, QuietIsSafe DEF Proper
<1>5. CASE rec[s].status = "rejected"
  BY <1>2, <1>5, ProperReturn DEF Audit, Granted, Lapsed
<1>6. QED BY <1>3, <1>4, <1>5 DEF Audit

\* What a session is about to roll back is active and nobody else's.
LEMMA Interrupted ==
  ASSUME Shape, LoopInv, NEW s \in Sessions, pc[s] \in {"recover", "recoverEnd"},
         NEW r \in call[s].todo
  PROVE  /\ r \in Repairs
         /\ store[r].status \in Active
         /\ call[s].snap[r] \in Record
         /\ call[s].snap[r].status \in Active
         /\ store[r].started = call[s].snap[r].started
         /\ \A t \in Sessions : ~Acting(t, r)
         /\ call[s].job = "execute" => r # call[s].rep
<1>1. r \in Repairs /\ call[s].snap[r] \in Record
  BY Typed DEF Call
<1>2. /\ store[r].status \in Active
      /\ call[s].snap[r].status \in Active
      /\ store[r].started = call[s].snap[r].started
      /\ \A t \in Sessions : ~Acting(t, r)
  BY Facts DEF Informed, Recovering
<1>3. call[s].job = "execute" => store[call[s].rep].status = Granted
  BY Facts DEF Informed, Executing
<1>4. QED BY <1>1, <1>2, <1>3 DEF Active, Granted

\* RecoverRow: an interrupted row is put as rolling back.
LEMMA ProperRecoverRow ==
  ASSUME Shape, LoopInv, NEW s \in Sessions, NEW r \in Repairs, RecoverRow(s, r),
         \A t \in Sessions \ {s} : pc[t] \in Await
  PROVE  Proper(s)
<1> DEFINE row == call[s].snap[r]
           x == Moved(row, "rolling_back", now)
           c == [call[s] EXCEPT !.row = r]
<1>1. pc[s] = "recover" /\ r \in call[s].todo /\ call[s].job \in {"poll", "execute"}
  BY Typed DEF RecoverRow, Placed
<1>2. /\ pc'[s] = "recoverEnd" /\ call'[s] = c /\ rec' = rec
      /\ store' = store \/ Put(r, x)
  BY DEF Shape, TypeOK, RecoverRow, Goto, Local
<1>3. /\ c.row = r /\ c.todo = call[s].todo /\ c.snap = call[s].snap
      /\ c.job = call[s].job /\ c.rep = call[s].rep
  BY Typed DEF Call
<1>4. x \in Record /\ x.status = "rolling_back" /\ x.started = row.started
  <2>1. x \in Record
    BY <1>1, Interrupted, Typed, MovedType DEF Status, Active
  <2>2. QED BY <1>1, <2>1, Interrupted DEF Moved, Record
<1>5. Onward(r, x)
  BY <1>1, <1>4, Interrupted DEF Onward, Active
<1>6. StoreStep(s)
  BY <1>2, <1>4, <1>5 DEF StoreStep
<1>7. OthersSafe(s)
  <2>1. store[r].status # Granted /\ \A t \in Sessions \ {s} : ~Acting(t, r)
    BY <1>1, Interrupted DEF Active, Granted
  <2>2. QED BY <1>2, <2>1, IdleRowIsSafe, QuietIsSafe
<1>8. /\ \A q \in Repairs : q # r => store'[q] = store[q]
      /\ store'[r].status \in Active /\ store'[r].started = store[r].started
  BY <1>1, <1>2, <1>4, Interrupted DEF Shape, TypeOK, Put, Active
<1>9. Recovering(s)'
  <2>1. \A q \in Repairs, t \in Sessions : Acting(t, q)' => Acting(t, q)
    BY <1>3 DEF Shape, TypeOK, RecoverRow, Local, Acting
  <2>2. \A q \in call[s].todo :
           /\ call[s].snap[q].status \in Active
           /\ store'[q].status \in Active
           /\ store'[q].started = call[s].snap[q].started
           /\ \A t \in Sessions : ~Acting(t, q)'
    BY <1>1, <1>8, <2>1, Interrupted
  <2>3. QED BY <1>1, <1>2, <1>3, <2>2 DEF Recovering
<1>10. Executing(s)'
  BY <1>1, <1>2, <1>3, <1>8, Interrupted, Typed, Facts DEF Informed, Executing, Placed
<1>11. Informed(s)'
  BY <1>1, <1>2, <1>3, <1>9, <1>10 DEF Informed, Submitting, Deciding, Working
<1>12. QED BY <1>6, <1>7, <1>11 DEF Proper

\* RecoverEnd: an interrupted row is put as not cleaned up.
LEMMA ProperRecoverEnd ==
  ASSUME Shape, LoopInv, NEW s \in Sessions, RecoverEnd(s),
         \A t \in Sessions \ {s} : pc[t] \in Await
  PROVE  Proper(s)
<1> DEFINE r == call[s].row
           x == Moved(call[s].snap[r], "cleanup_failed", now)
           c == [call[s] EXCEPT !.todo = @ \ {r}]
<1>1. pc[s] = "recoverEnd" /\ r \in call[s].todo /\ call[s].job \in {"poll", "execute"}
  BY Typed, Facts DEF RecoverEnd, Placed, Informed, Recovering
<1>2. pc'[s] = "recover" /\ call'[s] = c /\ rec' = rec /\ Put(r, x)
  BY DEF Shape, TypeOK, RecoverEnd, Goto, Local
<1>3. /\ c.todo = call[s].todo \ {r} /\ c.snap = call[s].snap
      /\ c.job = call[s].job /\ c.rep = call[s].rep
  BY Typed DEF Call
<1>4. x \in Record /\ x.status = "cleanup_failed" /\ x.started = call[s].snap[r].started
  <2>1. x \in Record
    BY <1>1, Interrupted, Typed, MovedType DEF Status, Terminal
  <2>2. QED BY <1>1, <2>1, Interrupted DEF Moved, Record
<1>5. Onward(r, x)
  BY <1>1, <1>4, Interrupted DEF Onward, Active
<1>6. r \in Repairs /\ store[r].status # Granted /\ \A t \in Sessions \ {s} : ~Acting(t, r)
  BY <1>1, Interrupted DEF Active, Granted
<1>7. StoreStep(s)
  BY <1>2, <1>4, <1>5, <1>6 DEF StoreStep
<1>8. OthersSafe(s)
  BY <1>2, <1>6, IdleRowIsSafe
<1>9. \A q \in Repairs : q # r => store'[q] = store[q]
  BY <1>2 DEF Shape, TypeOK, Put
<1>10. Recovering(s)'
  <2>1. \A q \in Repairs, t \in Sessions : Acting(t, q)' => Acting(t, q)
    BY <1>3 DEF Shape, TypeOK, RecoverEnd, Local, Acting
  <2>2. \A q \in call[s].todo \ {r} :
           /\ call[s].snap[q].status \in Active
           /\ store'[q].status \in Active
           /\ store'[q].started = call[s].snap[q].started
           /\ \A t \in Sessions : ~Acting(t, q)'
    BY <1>1, <1>9, <2>1, Interrupted
  <2>3. QED BY <1>2, <1>3, <2>2 DEF Recovering
<1>11. Executing(s)'
  BY <1>1, <1>2, <1>3, <1>9, Interrupted, Typed, Facts DEF Informed, Executing, Placed
<1>12. Informed(s)'
  BY <1>1, <1>2, <1>3, <1>10, <1>11 DEF Informed, Submitting, Deciding, Working
<1>13. QED BY <1>7, <1>8, <1>12 DEF Proper

\* RecoverDone: the call returns or goes on to its claim.
LEMMA ProperRecoverDone ==
  ASSUME Shape, LoopInv, NEW s \in Sessions, RecoverDone(s)
  PROVE  Proper(s)
<1>1. CASE call[s].job = "poll"
  BY <1>1, ProperReturn DEF RecoverDone
<1>2. CASE call[s].job = "execute"
  <2>1. pc[s] = "recover" /\ pc'[s] = "claim" /\ UNCHANGED <<call, rec, store>>
    BY <1>2 DEF Shape, TypeOK, RecoverDone, Goto
  <2>2. Informed(s)'
    BY <1>2, <2>1, Facts DEF Informed, Submitting, Deciding, Recovering, Executing, Working
  <2>3. QED BY <2>1, <2>2, QuietIsSafe DEF Proper
<1>3. QED BY <1>1, <1>2 DEF RecoverDone

\* An execution that gives up before its claim still owns an authorized record.
LEMMA ProperGiveUp ==
  ASSUME Shape, LoopInv, NEW s \in Sessions, call[s].job = "execute",
         store[call[s].rep].status = Granted,
         NEW record \in Record, record.started = 0, NEW to \in {"cancelled", Lapsed},
         Goto(s, "settle"), Hold(s, Moved(record, to, now)),
         UNCHANGED <<store, call>>
  PROVE  Proper(s)
<1>1. pc'[s] = "settle" /\ rec'[s].status = to /\ rec'[s].started = 0
  BY DEF Shape, TypeOK, Goto, Hold, Moved, Record
<1>2. Informed(s)'
  BY <1>1 DEF Informed, Submitting, Deciding, Recovering, Executing, Working
<1>3. QED BY <1>2, QuietIsSafe DEF Proper

\* Fetch: the execution reads its record.
LEMMA ProperFetch ==
  ASSUME Shape, LoopInv, NEW s \in Sessions, Fetch(s)
  PROVE  Proper(s)
<1> DEFINE row == store[call[s].rep]
<1>1. /\ pc[s] = "granted" /\ call[s].job = "execute"
      /\ call[s].rep \in Repairs /\ row \in Record
  BY Typed DEF Fetch, Placed
<1>2. CASE row.status # Granted
  BY <1>2, ProperReturn DEF Fetch
<1>3. CASE row.status = Granted /\ TooLate(row)
  BY <1>1, <1>3, Facts, ProperGiveUp DEF Fetch, Untouched
<1>4. CASE row.status = Granted /\ ~TooLate(row)
  <2>1. pc'[s] = "precheck" /\ rec'[s] = row /\ UNCHANGED <<store, call>>
    BY <1>4 DEF Shape, TypeOK, Fetch, Goto, Hold
  <2>2. Informed(s)'
    BY <1>1, <1>4, <2>1 DEF Informed, Submitting, Deciding, Recovering, Executing, Working
  <2>3. QED BY <2>1, <2>2, QuietIsSafe DEF Proper
<1>5. QED BY <1>2, <1>3, <1>4

\* Pass: the clock is read again and stale rows are listed.
LEMMA ProperPass ==
  ASSUME OneLoop, Shape, LoopInv, NEW s \in Sessions, Pass(s)
  PROVE  Proper(s)
<1> DEFINE c == [call[s] EXCEPT !.at = now, !.todo = Stale(now), !.snap = store]
<1>1. /\ pc[s] = "precheck" /\ call[s].job = "execute" /\ rec[s] \in Record
      /\ store[call[s].rep] = rec[s] /\ rec[s].status = Granted /\ rec[s].started = 0
  BY Typed, Facts DEF Pass, Placed, Informed, Executing, Untouched
<1>2. CASE TooLate(rec[s])
  BY <1>1, <1>2, ProperGiveUp DEF Pass
<1>3. CASE ~TooLate(rec[s])
  <2>1. pc'[s] = "recover" /\ call'[s] = c /\ UNCHANGED <<store, rec>>
    BY <1>3 DEF Shape, TypeOK, Pass, Goto, Local
  <2>2. /\ c.todo = Stale(now) /\ c.snap = store
        /\ c.job = "execute" /\ c.rep = call[s].rep
    BY <1>1, Typed DEF Call
  <2>3. \A r \in Stale(now) : store[r].status \in Active /\ \A t \in Sessions : ~Acting(t, r)
    <3>1. now \in Nat /\ now <= now
      BY Typed DEF Time
    <3>2. QED BY <3>1, StaleIsIdle DEF Stale
  <2>4. \A r \in Repairs, t \in Sessions : Acting(t, r)' => Acting(t, r)
    BY <1>1, <1>3, <2>1, <2>2 DEF Shape, TypeOK, Pass, Local, Acting
  <2>5. Stale(now) \subseteq Repairs
    BY DEF Stale
  <2>6. Informed(s)'
    BY <1>1, <2>1, <2>2, <2>3, <2>4, <2>5
       DEF Informed, Submitting, Deciding, Recovering, Executing, Working
  <2>7. QED BY <2>1, <2>6, QuietIsSafe DEF Proper
<1>4. QED BY <1>2, <1>3

\* Refuse: a service that has changed cancels the repair.
LEMMA ProperRefuse ==
  ASSUME Shape, LoopInv, NEW s \in Sessions, Refuse(s)
  PROVE  Proper(s)
<1>1. call[s].job = "execute" /\ rec[s] \in Record /\ rec[s].started = 0
  BY Typed, Facts DEF Refuse, Placed, Informed, Executing, Untouched
<1>2. CASE store[call[s].rep].status # Granted
  BY <1>2, ProperReturn DEF Refuse
<1>3. CASE store[call[s].rep].status = Granted
  BY <1>1, <1>3, ProperGiveUp DEF Refuse
<1>4. QED BY <1>2, <1>3

\* Settle: an execution that does not start puts its last record.
LEMMA ProperSettle ==
  ASSUME Shape, LoopInv, NEW s \in Sessions, Settle(s)
  PROVE  Proper(s)
<1>1. /\ call[s].job = "execute" /\ call[s].ticket # 0 /\ call[s].rep \in Repairs
      /\ store[call[s].rep].status = Granted
      /\ rec[s] \in Record /\ rec[s].status \in {"cancelled", Lapsed} /\ rec[s].started = 0
  BY Typed, Facts DEF Settle, Placed, Informed, Executing
<1>2. Onward(call[s].rep, rec[s])
  BY <1>1 DEF Onward
<1>3. Put(call[s].rep, rec[s]) /\ Return(s)
  BY DEF Settle
<1>4. QED BY <1>1, <1>2, <1>3, OwnRowIsSafe, ReturnInformed DEF Proper, StoreStep

\* Claim: the row is written as executing, with its start.
LEMMA ProperClaim ==
  ASSUME Shape, LoopInv, NEW s \in Sessions, Claim(s)
  PROVE  Proper(s)
<1> DEFINE r == call[s].rep
           x == [Moved(rec[s], "executing", now) EXCEPT !.started = call[s].at]
           c == [call[s] EXCEPT !.job = "repair"]
<1>1. /\ pc[s] = "claim" /\ r \in Repairs /\ call[s].ticket # 0
      /\ call[s].at # 0 /\ store[r].status = Granted /\ ~Busy
  BY Typed, Facts DEF Claim, Placed, Clocked, Dated
<1>2. x \in Record /\ x.status = "executing" /\ x.started = call[s].at /\ x.updated = now
  <2>1. Moved(rec[s], "executing", now) \in Record
    BY Typed, MovedType DEF Status, Active
  <2>2. /\ Moved(rec[s], "executing", now).status = "executing"
        /\ Moved(rec[s], "executing", now).updated = now
    BY Typed DEF Moved, Record
  <2>3. QED BY <2>1, <2>2, Typed DEF Record, Call
<1>3. /\ Put(r, x) /\ store'[r] = x /\ rec'[s] = x /\ call'[s] = c /\ pc'[s] = "run"
      /\ now' = now
  BY <1>1 DEF Shape, TypeOK, Claim, Put, Hold, Local, Goto
<1>4. c.job = "repair" /\ c.rep = r
  BY Typed DEF Call
<1>5. now <= now + StepTime
  BY Typed, ControlAssumption DEF Time
<1>6. Informed(s)'
  BY <1>1, <1>2, <1>3, <1>4, <1>5
     DEF Informed, Submitting, Deciding, Recovering, Executing, Working, Active
<1>7. Onward(r, x)
  BY <1>1, <1>2 DEF Onward
<1>8. QED BY <1>1, <1>2, <1>3, <1>6, <1>7, OwnRowIsSafe DEF Proper, StoreStep

\* ClaimLost: somebody else has taken the repair and the call ends.
LEMMA ProperClaimLost ==
  ASSUME Shape, LoopInv, NEW s \in Sessions, ClaimLost(s)
  PROVE  Proper(s)
BY ProperReturn DEF ClaimLost

\* ClaimRefused: a busy computer or the rate limit cancels the repair.
LEMMA ProperClaimRefused ==
  ASSUME Shape, LoopInv, NEW s \in Sessions, ClaimRefused(s)
  PROVE  Proper(s)
<1>1. call[s].job = "execute" /\ rec[s] \in Record /\ rec[s].started = 0
  BY Typed, Facts DEF ClaimRefused, Placed, Informed, Executing, Untouched
<1>2. QED BY <1>1, ProperGiveUp DEF ClaimRefused

\* A record its session moves to another active status.
LEMMA OwnMoved ==
  ASSUME Shape, NEW s \in Sessions, NEW to \in Status
  PROVE  /\ Moved(rec[s], to, now) \in Record
         /\ Moved(rec[s], to, now).status = to
         /\ Moved(rec[s], to, now).started = rec[s].started
         /\ Moved(rec[s], to, now).updated = now
<1>1. rec[s] \in Record /\ Moved(rec[s], to, now) \in Record
  BY Typed, MovedType
<1>2. QED BY <1>1 DEF Moved, Record

\* PutOwn: a put of the record the session holds, still active.
LEMMA ProperPutOwn ==
  ASSUME Shape, LoopInv, NEW s \in Sessions, call[s].job = "repair", NEW to \in Active,
         NEW next \in {"run", "verify", "succeed", "rollback", "cleanup"},
         PutOwn(s, to, next), call'[s].job = "repair", call'[s].rep = call[s].rep
  PROVE  Proper(s)
<1> DEFINE r == call[s].rep
           x == Moved(rec[s], to, now)
<1>1. /\ r \in Repairs /\ call[s].ticket # 0 /\ store[r] = rec[s]
      /\ rec[s].status \in Active /\ rec[s].started # 0
  BY Typed, Facts DEF Placed, Informed, Working
<1>2. x \in Record /\ x.status = to /\ x.started = rec[s].started /\ x.updated = now
  BY OwnMoved DEF Status
<1>3. /\ Put(r, x) /\ store'[r] = x /\ rec'[s] = x /\ pc'[s] = next /\ now' = now
  BY <1>1 DEF Shape, TypeOK, PutOwn, Put, Hold, Goto
<1>4. now <= now + StepTime
  BY Typed, ControlAssumption DEF Time
<1>5. Informed(s)'
  BY <1>1, <1>2, <1>3, <1>4
     DEF Informed, Submitting, Deciding, Recovering, Executing, Working
<1>6. Onward(r, x)
  BY <1>1, <1>2 DEF Onward
<1>7. QED BY <1>1, <1>2, <1>3, <1>5, <1>6, OwnRowIsSafe DEF Proper, StoreStep

\* Work: the steps of an execution that go on.
LEMMA ProperWork ==
  ASSUME Shape, LoopInv, NEW s \in Sessions,
         \/ Command(s) \/ CommandFails(s) \/ LaunchFails(s)
         \/ BeginVerify(s) \/ VerifyPasses(s) \/ VerifyFails(s)
  PROVE  Proper(s)
<1>1. call[s].job = "repair" /\ call[s] \in Call
  BY Typed DEF Command, CommandFails, LaunchFails, BeginVerify, VerifyPasses, VerifyFails, Placed
<1>2. CASE Command(s)
  BY <1>1, <1>2, ProperPutOwn DEF Command, Active
<1>3. CASE CommandFails(s)
  BY <1>1, <1>3, ProperPutOwn DEF CommandFails, Active
<1>4. CASE BeginVerify(s)
  BY <1>1, <1>4, ProperPutOwn DEF BeginVerify, Active
<1>5. CASE VerifyPasses(s)
  BY <1>1, <1>5, ProperPutOwn DEF VerifyPasses, Active
<1>6. CASE VerifyFails(s)
  <2>1. call'[s].job = "repair" /\ call'[s].rep = call[s].rep
    BY <1>1, <1>6 DEF Shape, TypeOK, VerifyFails, Local, Call
  <2>2. QED BY <1>1, <1>6, <2>1, ProperPutOwn DEF VerifyFails, Active
<1>7. CASE LaunchFails(s)
  BY <1>1, <1>7, ProperPutOwn DEF LaunchFails, Active
<1>8. QED BY <1>2, <1>3, <1>4, <1>5, <1>6, <1>7

\* Rollback: the session puts its record as rolling back.
LEMMA ProperRollback ==
  ASSUME Shape, LoopInv, NEW s \in Sessions, Rollback(s)
  PROVE  Proper(s)
<1> DEFINE r == call[s].rep
           x == Moved(rec[s], "rolling_back", now)
<1>1. CASE call[s].job = "repair"
  BY <1>1, ProperPutOwn DEF Rollback, Active
<1>2. CASE call[s].job = "execute"
  <2>1. /\ r \in Repairs /\ call[s].ticket # 0 /\ store[r] = rec[s]
        /\ store[r].status = Granted /\ call[s].end = "cleanup_failed"
    BY <1>2, Typed, Facts DEF Rollback, Placed, Informed, Executing
  <2>2. rec[s].started = 0
    BY <2>1, Facts DEF Untouched
  <2>3. x \in Record /\ x.status = "rolling_back" /\ x.started = 0
    BY <2>2, OwnMoved DEF Status, Active
  <2>4. /\ Put(r, x) /\ store'[r] = x /\ rec'[s] = x /\ pc'[s] = "cleanup" /\ call' = call
    BY <2>1 DEF Shape, TypeOK, Rollback, PutOwn, Put, Hold, Goto
  <2>5. Informed(s)'
    BY <1>2, <2>1, <2>3, <2>4
       DEF Informed, Submitting, Deciding, Recovering, Executing, Working
  <2>6. Onward(r, x)
    BY <2>1, <2>3 DEF Onward
  <2>7. QED BY <2>1, <2>3, <2>4, <2>5, <2>6, OwnRowIsSafe DEF Proper, StoreStep
<1>3. QED BY <1>1, <1>2, Typed DEF Rollback, Placed

\* Finish: the last put of an execution.
LEMMA ProperFinish ==
  ASSUME Shape, LoopInv, NEW s \in Sessions, Succeed(s) \/ Cleanup(s)
  PROVE  Proper(s)
<1> DEFINE r == call[s].rep
           to == IF pc[s] = "succeed" THEN "succeeded" ELSE call[s].end
           x == Moved(rec[s], to, now)
<1>1. Finish(s, to) /\ pc[s] \in {"succeed", "cleanup"}
  BY DEF Succeed, Cleanup
<1>2. to \in {"succeeded", "rolled_back", "cleanup_failed"}
  BY Typed DEF Call
<1>3. x \in Record /\ x.status = to /\ x.started = rec[s].started
  BY <1>2, OwnMoved DEF Status, Terminal
<1>4. /\ r \in Repairs /\ call[s].ticket # 0
      /\ \/ call[s].job = "repair"
         \/ pc[s] = "cleanup" /\ call[s].job = "execute"
  <2>1. Placed(s)
    BY Typed
  <2>2. CASE pc[s] = "succeed"
    BY <2>1, <2>2 DEF Placed
  <2>3. CASE pc[s] = "cleanup"
    BY <2>1, <2>3 DEF Placed
  <2>4. QED BY <1>1, <2>2, <2>3
<1>5. Onward(r, x)
  <2>1. CASE call[s].job = "repair"
    BY <1>2, <1>3, <2>1, Facts DEF Informed, Working, Onward
  <2>2. CASE pc[s] = "cleanup" /\ call[s].job = "execute"
    BY <1>3, <2>2, Facts DEF Informed, Executing, Onward, Active
  <2>3. QED BY <1>4, <2>1, <2>2
<1>6. Put(r, x) /\ Return(s)
  BY <1>1 DEF Finish
<1>7. QED BY <1>3, <1>4, <1>5, <1>6, OwnRowIsSafe, ReturnInformed DEF Proper, StoreStep

\* Raise: an exception returns or rolls back from the row it reads.
LEMMA ProperRaise ==
  ASSUME Shape, LoopInv, NEW s \in Sessions, Raise(s)
  PROVE  Proper(s)
<1> DEFINE row == store[call[s].rep]
           c == [call[s] EXCEPT !.end = "cleanup_failed"]
           p == IF row.status = "rolling_back" THEN "cleanup" ELSE "rollback"
<1>1. store' = store
  BY DEF Raise
<1>2. CASE Return(s)
  BY <1>1, <1>2, ProperReturn
<1>3. CASE ~Return(s)
  <2>1. /\ Hold(s, row) /\ Goto(s, p) /\ Local(s, c)
        /\ call[s].job = "execute" => row.status = Granted
    BY <1>3 DEF Raise
  <2>2. /\ rec'[s] = row /\ pc'[s] = p /\ call'[s] = c /\ now' = now
    BY <2>1 DEF Shape, TypeOK, Hold, Goto, Local, Raise
  <2>3. c.end = "cleanup_failed" /\ c.job = call[s].job /\ c.rep = call[s].rep
    BY Typed DEF Call
  <2>4. CASE call[s].job = "execute"
    <3>1. row.status = Granted /\ p = "rollback"
      BY <2>1, <2>4 DEF Granted
    <3>2. Informed(s)'
      BY <1>1, <2>2, <2>3, <2>4, <3>1
         DEF Informed, Submitting, Deciding, Recovering, Executing, Working
    <3>3. QED BY <1>1, <3>2, QuietIsSafe DEF Proper
  <2>5. CASE call[s].job = "repair"
    <3>1. row = rec[s] /\ Working(s)
      BY <2>5, Facts DEF Informed, Working
    <3>2. Informed(s)'
      BY <1>1, <2>2, <2>3, <2>5, <3>1
         DEF Informed, Submitting, Deciding, Recovering, Executing, Working
    <3>3. QED BY <1>1, <3>2, QuietIsSafe DEF Proper
  <2>6. QED BY <2>4, <2>5 DEF Raise
<1>4. QED BY <1>2, <1>3

-----------------------------------------------------------------------------
(* The invariant is inductive.                                             *)

\* All actions of a session together.
LEMMA ProperStep ==
  ASSUME OneLoop, Shape, LoopInv, NEW s \in Sessions, Step(s) \/ Request(s) \/ Raise(s)
  PROVE  Proper(s)
<1>1. \A t \in Sessions \ {s} : pc[t] \in Await
  BY OthersAwait DEF LoopInv
<1>2. CASE Request(s)
  BY <1>2, ProperPropose, ProperBegin DEF Request, Poll
<1>3. CASE Raise(s)
  BY <1>3, ProperRaise
<1>4. CASE Step(s)
  BY <1>1, <1>4, ProperSubmit, ProperExpireRow, ProperRecoverRow, ProperExpireDone,
     ProperDecide, ProperWrite, ProperAudit, ProperRecoverEnd, ProperRecoverDone,
     ProperFetch, ProperPass, ProperRefuse, ProperSettle, ProperClaim, ProperClaimLost,
     ProperClaimRefused, ProperWork, ProperRollback, ProperFinish, ProperReturn
     DEF Step, ExpireFails, DecideFails
<1>5. QED BY <1>2, <1>3, <1>4

\* What the awaiting sessions know stays true.
LEMMA OthersInformed ==
  ASSUME Shape, Shape', LoopInv, NEW s \in Sessions, OthersSafe(s), now' = now,
         NEW t \in Sessions \ {s}, pc[t] \in Await,
         pc'[t] = pc[t], call'[t] = call[t], rec'[t] = rec[t]
  PROVE  Informed(t)'
<1>1. /\ pc'[t] \in {"idle", "granted", "precheck", "run", "verify"}
      /\ Informed(t) /\ Placed(t)
  BY Facts, Typed DEF Await
<1>2. call[t].ticket # 0 => store'[call[t].rep] = store[call[t].rep]
  BY DEF OthersSafe
<1>3. Executing(t)'
  BY <1>1, <1>2 DEF Executing, Informed, Placed
<1>4. Working(t)'
  BY <1>1, <1>2 DEF Working, Informed, Placed
<1>5. QED BY <1>1, <1>3, <1>4 DEF Informed, Submitting, Deciding, Recovering

\* After a step every session still knows what it needs to know.
LEMMA StepInformed ==
  ASSUME OneLoop, Shape, Shape', LoopInv, NEW s \in Sessions,
         Step(s) \/ Request(s) \/ Raise(s), now' = now
  PROVE  \A t \in Sessions : Informed(t)'
<1>1. Proper(s)
  BY ProperStep
<1>2. \A t \in Sessions \ {s} :
         pc[t] \in Await /\ pc'[t] = pc[t] /\ call'[t] = call[t] /\ rec'[t] = rec[t]
  BY OthersAwait, OthersKept DEF LoopInv
<1>3. QED BY <1>1, <1>2, OthersInformed DEF Proper

\* Every record stays, is proposed or moves onward.
LEMMA StoreEffect ==
  ASSUME Shape, LoopInv, NEW s \in Sessions, StoreStep(s), NEW r \in Repairs
  PROVE  \/ store'[r] = store[r]
         \/ /\ Submit(s) /\ r = call[s].rep
            /\ store[r].status = "none" /\ Open(KeyOf[r]) = {}
            /\ store'[r].status = Waiting /\ store'[r].started = 0
         \/ Onward(r, store'[r])
<1>1. CASE Submit(s)
  BY <1>1, Facts DEF Shape, TypeOK, Submit, Put, Informed, Submitting
<1>2. ASSUME NEW q \in Repairs, NEW x \in Record, Put(q, x), Onward(q, x)
      PROVE  store'[r] = store[r] \/ Onward(r, store'[r])
  BY <1>2 DEF Shape, TypeOK, Put
<1>3. QED BY <1>1, <1>2 DEF StoreStep

\* What waits or is approved has not been started.
LEMMA StepUntouched ==
  ASSUME Shape, LoopInv, NEW s \in Sessions, StoreStep(s)
  PROVE  Untouched'
BY StoreEffect, Facts DEF Untouched, Onward, Active, Waiting, Granted, Lapsed

\* A claimed repair stays one that was claimed.
LEMMA OnceClaimed ==
  ASSUME Shape, LoopInv, NEW s \in Sessions, StoreStep(s), NEW r \in Repairs,
         store[r].status \in (Active \cup Terminal) \ {"rejected"}
  PROVE  store'[r].status \in (Active \cup Terminal) \ {"rejected"}
BY StoreEffect DEF Onward, Active, Terminal, Waiting, Granted, Lapsed

\* A step keeps a key with one unfinished repair at most.
LEMMA StepOneOpen ==
  ASSUME Shape, LoopInv, NEW s \in Sessions, StoreStep(s)
  PROVE  OneOpenPerKey'
<1>1. ASSUME NEW r \in Repairs, store'[r].status \notin Terminal \cup {"none"}
      PROVE  \/ store[r].status \notin Terminal \cup {"none"}
             \/ Submit(s) /\ r = call[s].rep /\ Open(KeyOf[r]) = {}
  BY <1>1, StoreEffect DEF Onward, Active, Terminal, Waiting, Granted, Lapsed
<1>2. ASSUME NEW q \in Repairs, NEW r \in Repairs, KeyOf[q] = KeyOf[r],
             store'[q].status \notin Terminal \cup {"none"},
             store'[r].status \notin Terminal \cup {"none"}
      PROVE  q = r
  <2>1. \/ store[q].status \notin Terminal \cup {"none"}
        \/ q = call[s].rep /\ Open(KeyOf[q]) = {}
    BY <1>1, <1>2
  <2>2. \/ store[r].status \notin Terminal \cup {"none"}
        \/ r = call[s].rep /\ Open(KeyOf[q]) = {}
    BY <1>1, <1>2
  <2>3. Open(KeyOf[q]) = {} => /\ store[q].status \in Terminal \cup {"none"}
                              /\ store[r].status \in Terminal \cup {"none"}
    BY <1>2 DEF Open
  <2>4. QED BY <1>2, <2>1, <2>2, <2>3 DEF LoopInv, OneOpenPerKey
<1>3. QED BY <1>2 DEF OneOpenPerKey

\* The local variables around a claim.
LEMMA ClaimCall ==
  ASSUME Shape, NEW s \in Sessions, Claim(s)
  PROVE  /\ call[s].rep \in Repairs /\ call[s].ticket # 0
         /\ call'[s].ticket = call[s].ticket /\ call'[s].rep = call[s].rep
         /\ call'[s].job = "repair"
BY Typed DEF Shape, TypeOK, Claim, Placed, Local, Call

\* The local variables around the put of an approval.
LEMMA WriteCall ==
  ASSUME Shape, NEW s \in Sessions, Write(s), rec[s].status = Granted
  PROVE  /\ call[s].rep \in Repairs /\ call[s].row = call[s].rep
         /\ call'[s].rep = call[s].rep /\ call'[s].job = "approve"
         /\ claims' = claims
<1>1. call[s].rep \in Repairs /\ call[s].row = call[s].rep /\ call[s].job = "approve"
  BY Typed DEF Write, Placed, Granted
<1>2. QED BY <1>1, Typed DEF Shape, TypeOK, Write, Local, Call

\* The claims, and who is at work: they change by a claim alone.
LEMMA StepClaims ==
  ASSUME OneLoop, Shape, Shape', LoopInv, NEW s \in Sessions,
         Step(s) \/ Request(s) \/ Raise(s), StoreStep(s)
  PROVE  Claimed' /\ ExecutedOnce' /\ OneAtATime'
<1>1. \A t \in Sessions \ {s} : pc[t] \in Await /\ call'[t] = call[t]
  BY OthersAwait, OthersKept DEF LoopInv
<1>2. \A c \in claims : c.rep \in Repairs
  BY DEF Shape, TypeOK
<1>3. CASE Claim(s)
  <2> DEFINE r == call[s].rep
             d == [rep |-> r, ticket |-> call[s].ticket, at |-> call[s].at,
                   until |-> rec[s].expires]
  <2>1. r \in Repairs /\ store[r].status = Granted /\ ~Busy /\ claims' = claims \cup {d}
    BY <1>3, ClaimCall DEF Claim
  <2>2. \A c \in claims : c.rep # r
    BY <2>1 DEF LoopInv, Claimed, Active, Terminal, Granted, Lapsed
  <2>3. ExecutedOnce'
    BY <2>1, <2>2 DEF LoopInv, ExecutedOnce
  <2>4. store'[r].status = "executing"
    BY <1>3, <2>1, Typed DEF Shape, TypeOK, Claim, Put, Moved, Record
  <2>5. Claimed'
    BY <1>2, <2>1, <2>4, OnceClaimed DEF LoopInv, Claimed, Active
  <2>6. \A t \in Sessions : \A q \in Repairs : ~Acting(t, q)
    BY <2>1, Facts DEF Busy, Informed, Working, Acting
  <2>7. OneAtATime'
    BY <1>1, <1>3, <2>6, ClaimCall DEF OneAtATime, Acting
  <2>8. QED BY <2>3, <2>5, <2>7
<1>4. CASE ~Claim(s)
  <2>1. claims' = claims /\ \A t \in Sessions, q \in Repairs : Acting(t, q)' => Acting(t, q)
    <3>1. CASE Write(s) /\ rec[s].status = Granted
      BY <1>1, <3>1, WriteCall DEF Acting
    <3>2. CASE Write(s) => rec[s].status # Granted
      <4>1. Carries(s)
        BY <1>4, <3>2, MostCarry
      <4>2. call'[s].job = "repair" => call'[s].ticket # 0
        BY DEF Shape, Placed
      <4>3. QED BY <1>1, <4>1, <4>2 DEF Carries, Acting
    <3>3. QED BY <3>1, <3>2
  <2>2. Claimed'
    BY <1>2, <2>1, OnceClaimed DEF LoopInv, Claimed
  <2>3. QED BY <2>1, <2>2 DEF LoopInv, ExecutedOnce, OneAtATime
<1>5. QED BY <1>3, <1>4

\* No two sessions execute the same repair: an approval is only written over
\* a waiting row, and what is executed does not wait.
LEMMA StepSeparate ==
  ASSUME OneLoop, Shape, Shape', LoopInv, NEW s \in Sessions,
         Step(s) \/ Request(s) \/ Raise(s)
  PROVE  Separate'
<1>1. \A t \in Sessions \ {s} : pc[t] \in Await /\ call'[t] = call[t]
  BY OthersAwait, OthersKept DEF LoopInv
<1>2. CASE Write(s) /\ rec[s].status = Granted
  <2>1. store[call[s].rep].status = Waiting
    BY <1>2, WriteCall, Facts DEF Write, Informed, Deciding
  <2>2. \A t \in Sessions \ {s} : call[t].ticket # 0 => call[t].rep # call[s].rep
    BY <1>1, <2>1, OwnedRow DEF Active, Waiting, Granted
  <2>3. QED BY <1>1, <1>2, <2>2, WriteCall DEF Separate, LoopInv
<1>3. CASE Claim(s)
  BY <1>1, <1>3, ClaimCall DEF Separate, LoopInv
<1>4. CASE ~Claim(s) /\ (Write(s) => rec[s].status # Granted)
  <2>1. Carries(s)
    BY <1>4, MostCarry
  <2>2. QED BY <1>1, <2>1 DEF Carries, Separate, LoopInv
<1>5. QED BY <1>2, <1>3, <1>4

\* A session goes by the time it has just read or has read before.
Dates(s) ==
  \/ call'[s].at = now
  \/ call'[s].at = call[s].at /\ (pc'[s] \in Dated => pc[s] \in Dated)
  \/ call'[s].at = 0 /\ pc'[s] = "idle"

\* A call that ends forgets the time it read.
LEMMA ReturnDates ==
  ASSUME Shape, NEW s \in Sessions, Return(s)
  PROVE  Dates(s)
BY DEF Shape, TypeOK, Return, Goto, Local, NoCall, Dates

\* A session that goes on keeps the time it read.
LEMMA GotoDates ==
  ASSUME Shape, NEW s \in Sessions, NEW p, Goto(s, p), p \in Dated => pc[s] \in Dated,
         call'[s].at = call[s].at
  PROVE  Dates(s)
BY DEF Shape, TypeOK, Goto, Dates

\* Where each action has the time from.
LEMMA StepDates ==
  ASSUME Shape, NEW s \in Sessions, Step(s) \/ Request(s) \/ Raise(s)
  PROVE  Dates(s)
<1>1. call[s] \in Call /\ call \in [Sessions -> Call]
  BY Typed DEF Shape, TypeOK
<1>2. CASE Request(s)
  <2>1. ASSUME NEW r \in Repairs, Propose(s, r) PROVE Dates(s)
    BY <1>1, <2>1, GotoDates DEF Propose, Local, Call, Dated
  <2>2. ASSUME NEW job, NEW r, Begin(s, job, r) PROVE Dates(s)
    BY <1>1, <2>2 DEF Begin, Local, Call, Dates
  <2>3. QED BY <1>2, <2>1, <2>2 DEF Request, Poll
<1>3. CASE Raise(s)
  BY <1>1, <1>3, ReturnDates, GotoDates DEF Raise, Local, Call, Dated
<1>4. CASE Step(s)
  <2>1. ASSUME NEW r \in Repairs, ExpireRow(s, r) PROVE Dates(s)
    BY <1>1, <2>1, GotoDates DEF ExpireRow, Local, Call, Dated
  <2>2. ASSUME NEW r \in Repairs, ExpireFails(s, r) PROVE Dates(s)
    BY <2>2, ReturnDates DEF ExpireFails
  <2>3. ASSUME NEW r \in Repairs, RecoverRow(s, r) PROVE Dates(s)
    BY <1>1, <2>3, GotoDates DEF RecoverRow, Local, Call, Dated
  <2>4. CASE Submit(s) \/ DecideFails(s) \/ Settle(s) \/ ClaimLost(s) \/ Succeed(s) \/ Cleanup(s)
    BY <2>4, ReturnDates DEF Submit, DecideFails, Settle, ClaimLost, Succeed, Cleanup, Finish
  <2>5. CASE ExpireDone(s)
    BY <1>1, <2>5, GotoDates DEF ExpireDone, Local, Call, Dated
  <2>6. CASE Decide(s)
    BY <1>1, <2>6, GotoDates DEF Decide, Local, Call, Dated
  <2>7. CASE Write(s)
    BY <1>1, <2>7, GotoDates DEF Write, Local, Call, Dated
  <2>8. CASE Audit(s)
    BY <1>1, <2>8, ReturnDates, GotoDates DEF Audit, Local, Call, Dated
  <2>9. CASE RecoverEnd(s)
    BY <1>1, <2>9, GotoDates DEF RecoverEnd, Local, Call, Dated
  <2>10. CASE RecoverDone(s)
    BY <2>10, ReturnDates, GotoDates DEF RecoverDone, Dated
  <2>11. CASE Fetch(s) \/ Refuse(s) \/ ClaimRefused(s)
    BY <2>11, ReturnDates, GotoDates DEF Fetch, Refuse, ClaimRefused, Dated
  <2>12. CASE Pass(s)
    <3>1. CASE TooLate(rec[s])
      BY <2>12, <3>1, GotoDates DEF Pass, Dated
    <3>2. CASE ~TooLate(rec[s])
      <4> DEFINE v == [call[s] EXCEPT !.at = now, !.todo = Stale(now), !.snap = store]
      <4>1. call' = [call EXCEPT ![s] = v]
        BY <2>12, <3>2 DEF Pass, Local
      <4>2. v.at = now
        BY <1>1 DEF Call
      <4> HIDE DEF v
      <4>3. call'[s].at = now
        BY <1>1, <4>1, <4>2
      <4>4. QED BY <4>3 DEF Dates
    <3>3. QED BY <3>1, <3>2
  <2>13. CASE Claim(s)
    BY <1>1, <2>13, GotoDates DEF Claim, Local, Call, Dated
  <2>14. CASE \/ Command(s) \/ CommandFails(s) \/ LaunchFails(s)
              \/ BeginVerify(s) \/ VerifyPasses(s) \/ Rollback(s)
    BY <2>14, GotoDates DEF Command, CommandFails, LaunchFails, BeginVerify, VerifyPasses, Rollback,
       PutOwn, Dated
  <2>15. CASE VerifyFails(s)
    BY <1>1, <2>15, GotoDates DEF VerifyFails, PutOwn, Local, Call, Dated
  <2>16. QED
    BY <1>4, <2>1, <2>2, <2>3, <2>4, <2>5, <2>6, <2>7, <2>8, <2>9, <2>10, <2>11, <2>12,
       <2>13, <2>14, <2>15 DEF Step
<1>5. QED BY <1>2, <1>3, <1>4

\* Nobody goes by a time that is still to come.
LEMMA StepClocked ==
  ASSUME Shape, Shape', LoopInv, NEW s \in Sessions, Step(s) \/ Request(s) \/ Raise(s),
         now' = now
  PROVE  Clocked'
<1>1. \A t \in Sessions \ {s} : pc'[t] = pc[t] /\ call'[t] = call[t]
  BY OthersKept
<1>2. Dates(s) /\ Clocked /\ now \in Nat
  BY StepDates, Facts, Typed DEF Time
<1>3. call'[s].at <= now /\ (pc'[s] \in Dated => call'[s].at # 0)
  BY <1>2 DEF Dates, Clocked, Dated
<1>4. QED BY <1>1, <1>2, <1>3 DEF Clocked

\* Only the clock moves the clock.
LEMMA StepNow ==
  ASSUME NEW s \in Sessions, Step(s) \/ Request(s) \/ Raise(s)
  PROVE  now' = now
BY DEF Step, Request, Poll, Propose, Begin, Raise, Submit, ExpireRow, ExpireFails, ExpireDone,
       Decide, DecideFails, Write, Audit, RecoverRow, RecoverEnd, RecoverDone, Fetch, Pass,
       Refuse, Settle, Claim, ClaimLost, ClaimRefused, Command, CommandFails, LaunchFails,
       BeginVerify, VerifyPasses, VerifyFails, Succeed, Rollback, Cleanup, PutOwn, Finish

\* A step of a session keeps the invariant.
LEMMA LoopStep ==
  ASSUME OneLoop, Shape, Shape', LoopInv, NEW s \in Sessions, Step(s) \/ Request(s) \/ Raise(s)
  PROVE  LoopInv'
<1>1. StoreStep(s)
  BY ProperStep DEF Proper
<1>2. Alone'
  <2>1. \A t \in Sessions \ {s} : pc'[t] = pc[t] /\ pc[t] \in Await
    BY OthersKept, OthersAwait DEF LoopInv
  <2>2. QED BY <2>1 DEF Alone
<1>3. QED
  BY <1>1, <1>2, StepNow, StepClocked, StepUntouched, StepClaims, StepSeparate, StepInformed,
     StepOneOpen DEF LoopInv

\* A session that is killed forgets what it knows.
LEMMA LoopDie ==
  ASSUME Shape, Shape', LoopInv, NEW s \in Sessions, Die(s)
  PROVE  LoopInv'
<1>1. UNCHANGED <<store, now, claims>> /\ Return(s)
  BY DEF Die
<1>2. /\ pc'[s] = "idle" /\ call'[s] = NoCall
      /\ \A t \in Sessions \ {s} : pc'[t] = pc[t] /\ call'[t] = call[t] /\ rec'[t] = rec[t]
  BY <1>1 DEF Shape, TypeOK, Return, Goto, Local, Hold
<1>3. \A t \in Sessions, r \in Repairs : Acting(t, r)' => Acting(t, r)
  BY <1>2 DEF Acting, NoCall
<1>4. ASSUME NEW t \in Sessions PROVE Informed(t)'
  <2>1. CASE t = s
    BY <1>1, <2>1, ReturnInformed
  <2>2. CASE t # s
    <3>1. Informed(t) /\ call[t].todo \subseteq Repairs
      BY Facts, Typed DEF Call
    <3>2. Recovering(t)'
      BY <1>1, <1>2, <1>3, <2>2, <3>1 DEF Informed, Recovering
    <3>3. QED
      BY <1>1, <1>2, <2>2, <3>1, <3>2
         DEF Informed, Submitting, Deciding, Executing, Working, Open
  <2>3. QED BY <2>1, <2>2
<1>5. Alone' /\ Separate'
  BY <1>2 DEF LoopInv, Alone, Separate, NoCall, Await
<1>6. Clocked'
  BY <1>1, <1>2, Typed DEF LoopInv, Clocked, NoCall, Dated, Time
<1>7. Untouched' /\ Claimed' /\ ExecutedOnce' /\ OneOpenPerKey'
  BY <1>1 DEF LoopInv, Untouched, Claimed, ExecutedOnce, OneOpenPerKey, Open
<1>8. OneAtATime'
  BY <1>3 DEF LoopInv, OneAtATime
<1>9. QED BY <1>4, <1>5, <1>6, <1>7, <1>8 DEF LoopInv

\* So does the clock, because an execution puts its record often enough.
LEMMA LoopTick ==
  ASSUME OneLoop, Shape, LoopInv, Tick
  PROVE  LoopInv'
<1>1. UNCHANGED <<store, pc, call, rec, claims>> /\ now' = now + 1 /\ now \in Nat
  BY Typed DEF Tick, Shape, TypeOK, Time
<1>2. \A s \in Sessions : Working(s)'
  <2>1. ASSUME NEW s \in Sessions, call[s].job = "repair"
        PROVE  now + 1 <= rec[s].updated + StepTime
    <3>1. now < rec[s].updated + StepTime
      BY <2>1 DEF Tick, OneLoop
    <3>2. rec[s].updated \in Nat
      BY Typed DEF Record, Time
    <3>3. QED BY <1>1, <3>1, <3>2, ControlAssumption
  <2>2. QED BY <1>1, <2>1, Facts DEF Informed, Working
<1>3. \A s \in Sessions : Informed(s)'
  BY <1>1, <1>2, Facts
     DEF Informed, Submitting, Deciding, Recovering, Executing, Open, Acting
<1>4. Clocked'
  BY <1>1, Typed DEF LoopInv, Clocked, Call, Time
<1>5. Alone' /\ Separate' /\ Untouched' /\ Claimed' /\ ExecutedOnce' /\ OneOpenPerKey' /\ OneAtATime'
  BY <1>1 DEF LoopInv, Alone, Separate, Untouched, Claimed, ExecutedOnce, OneOpenPerKey, Open,
              OneAtATime, Acting
<1>6. QED BY <1>3, <1>4, <1>5 DEF LoopInv

\* The invariant is inductive.
LEMMA LoopNext ==
  ASSUME OneLoop
  PROVE  Shape /\ Shape' /\ LoopInv /\ [Next]_vars => LoopInv'
<1> SUFFICES ASSUME Shape, Shape', LoopInv, [Next]_vars PROVE LoopInv'
  OBVIOUS
<1>1. CASE UNCHANGED vars
  BY <1>1 DEF vars, LoopInv, Alone, Clocked, Separate, Untouched, Claimed, ExecutedOnce,
              OneOpenPerKey, Open, OneAtATime, Acting, Informed, Submitting, Deciding,
              Recovering, Executing, Working
<1>2. QED BY <1>1, LoopStep, LoopDie, LoopTick DEF Next

\* It holds at the start.
LEMMA LoopInit == Init => LoopInv
<1> SUFFICES ASSUME Init PROVE LoopInv
  OBVIOUS
<1> USE DEF Init, NoRow, NoCall
<1>1. Alone /\ Clocked /\ Untouched /\ Claimed /\ Separate
  BY DEF Alone, Await, Clocked, Dated, Untouched, Claimed, Separate
<1>2. \A s \in Sessions : Informed(s)
  BY DEF Informed, Submitting, Deciding, Recovering, Executing, Working
<1>3. OneAtATime /\ ExecutedOnce /\ OneOpenPerKey
  BY DEF OneAtATime, Acting, ExecutedOnce, OneOpenPerKey, Open
<1>4. QED BY <1>1, <1>2, <1>3 DEF LoopInv

\* It holds on one event loop, on a machine that does not sleep.
LEMMA LoopInvariant ==
  ASSUME OneLoop
  PROVE  Safe => [](Shape /\ LoopInv)
BY ShapeInit, ShapeNext, LoopInit, LoopNext, PTL DEF Safe

-----------------------------------------------------------------------------
(* State properties.                                                       *)

\* This computer works on one repair at a time: the transaction of
\* claim_execution finds every other repair at work in the table.
THEOREM OneRepairAtATime ==
  ASSUME OneLoop
  PROVE  Safe => []OneAtATime
<1>1. Shape /\ LoopInv => OneAtATime
  BY DEF LoopInv
<1>2. QED BY <1>1, LoopInvariant, PTL

\* A repair is executed at most once, however often and by however many
\* callers it is approved (approve_once, claim_execution).
THEOREM RepairExecutedOnce ==
  ASSUME OneLoop
  PROVE  Safe => []ExecutedOnce
<1>1. Shape /\ LoopInv => ExecutedOnce
  BY DEF LoopInv
<1>2. QED BY <1>1, LoopInvariant, PTL

\* At most one unfinished repair has an idempotency key (submit).
THEOREM OneOpenRepairPerKey ==
  ASSUME OneLoop
  PROVE  Safe => []OneOpenPerKey
<1>1. Shape /\ LoopInv => OneOpenPerKey
  BY DEF LoopInv
<1>2. QED BY <1>1, LoopInvariant, PTL

\* A repair that reject_once has rejected was never claimed and nobody is at
\* work on it.
THEOREM RejectedRepairNeverRuns ==
  ASSUME OneLoop
  PROVE  Safe => []RejectedNeverRuns
<1>1. Shape /\ LoopInv => RejectedNeverRuns
  <2> SUFFICES ASSUME Shape, LoopInv, NEW r \in Repairs, store[r].status = "rejected"
               PROVE  /\ \A c \in claims : c.rep # r
                      /\ \A s \in Sessions : ~Acting(s, r)
    BY DEF RejectedNeverRuns
  <2>1. \A c \in claims : c.rep # r
    BY DEF LoopInv, Claimed
  <2>2. \A s \in Sessions : ~Acting(s, r)
    BY Facts DEF Informed, Working, Acting, Active
  <2>3. QED BY <2>1, <2>2
<1>2. QED BY <1>1, LoopInvariant, PTL

\* The row of a repair somebody is at work on says so, which is what
\* claim_execution relies on for the next one.
THEOREM WorkIsSeen ==
  ASSUME OneLoop
  PROVE  Safe => []WorkIsVisible
<1>1. Shape /\ LoopInv => WorkIsVisible
  BY Facts DEF WorkIsVisible, Informed, Working, Acting
<1>2. QED BY <1>1, LoopInvariant, PTL

\* recover_interrupted never ends a repair whose session is still at work.
THEOREM LiveRepairIsLeftAlone ==
  ASSUME OneLoop
  PROVE  Safe => []LiveIsNotInterrupted
<1>1. Shape /\ LoopInv => LiveIsNotInterrupted
  BY Facts DEF LiveIsNotInterrupted, Informed, Recovering
<1>2. QED BY <1>1, LoopInvariant, PTL

-----------------------------------------------------------------------------
(* How often a service is worked on.                                       *)

\* The executions of its service that RateKept counts for a claim.
Near(c) == {d \in claims : /\ ServiceOf[d.rep] = ServiceOf[c.rep]
                           /\ d.at <= c.at
                           /\ d.at + RateWindow >= c.at}

\* Only a claim adds to the claims.
LEMMA ClaimsSame ==
  ASSUME NEW s \in Sessions, Step(s) \/ Request(s) \/ Raise(s), ~Claim(s)
  PROVE  claims' = claims
BY DEF Step, Request, Poll, Propose, Begin, Raise, Submit, ExpireRow, ExpireFails, ExpireDone,
       Decide, DecideFails, Write, Audit, RecoverRow, RecoverEnd, RecoverDone, Fetch, Pass,
       Refuse, Settle, ClaimLost, ClaimRefused, Command, CommandFails, LaunchFails,
       BeginVerify, VerifyPasses, VerifyFails, Succeed, Rollback, Cleanup, PutOwn, Finish

\* What has been claimed keeps the time it was begun at.
LEMMA BegunStays ==
  ASSUME Shape, LoopInv, NEW s \in Sessions, StoreStep(s), NEW c \in claims
  PROVE  store'[c.rep].started = store[c.rep].started
<1>1. /\ c.rep \in Repairs
      /\ store[c.rep].status \in (Active \cup Terminal) \ {"rejected"}
  BY DEF Shape, TypeOK, LoopInv, Claimed
<1>2. QED
  BY <1>1, StoreEffect DEF Onward, Active, Terminal, Waiting, Granted, Lapsed

\* A step writes one row.
LEMMA BegunFinite ==
  ASSUME Shape, LoopInv, NEW s \in Sessions, StoreStep(s), IsFiniteSet(Begun)
  PROVE  IsFiniteSet(Begun')
<1>1. ASSUME NEW r, \A q \in Repairs : q # r => store'[q] = store[q]
      PROVE  IsFiniteSet(Begun')
  <2>1. Begun' \subseteq Begun \cup {r}
    BY <1>1 DEF Begun
  <2>2. IsFiniteSet(Begun \cup {r})
    BY FS_AddElement
  <2>3. QED BY <2>1, <2>2, FS_Subset
<1>2. CASE store' = store
  BY <1>2 DEF Begun
<1>3. CASE Submit(s)
  BY <1>1, <1>3 DEF Submit, Put, Shape, TypeOK
<1>4. CASE \E r \in Repairs : \E x \in Record : Put(r, x) /\ Onward(r, x)
  BY <1>1, <1>4 DEF Put, Shape, TypeOK
<1>5. QED BY <1>2, <1>3, <1>4 DEF StoreStep

\* A session that goes by a time it has read is alone, so nothing is claimed
\* until it has claimed itself.
LEMMA StepReckoned ==
  ASSUME OneLoop, Shape, Shape', LoopInv, NEW s \in Sessions,
         Step(s) \/ Request(s) \/ Raise(s), Reckoned
  PROVE  Reckoned'
<1>1. StoreStep(s) /\ now' = now /\ Dates(s)
  BY ProperStep, StepNow, StepDates DEF Proper
<1>2. \A t \in Sessions \ {s} : pc[t] \in Await /\ pc'[t] = pc[t] /\ call'[t] = call[t]
  BY OthersAwait, OthersKept DEF LoopInv
<1>3. IsFiniteSet(Begun')
  BY <1>1, BegunFinite DEF Reckoned
<1>4. \A t \in Sessions \ {s} : pc'[t] \notin Dated
  BY <1>2 DEF Await, Dated
<1>5. CASE Claim(s)
  <2> DEFINE r == call[s].rep
             d == [rep |-> r, ticket |-> call[s].ticket, at |-> call[s].at,
                   until |-> rec[s].expires]
  <2>1. /\ r \in Repairs /\ claims' = claims \cup {d}
        /\ pc[s] = "claim" /\ call[s].at # 0 /\ call[s].at <= now /\ pc'[s] = "run"
    BY <1>5, ClaimCall, Facts DEF Claim, Clocked, Dated, Goto, Shape, TypeOK
  <2>2. store'[r].started = call[s].at
    <3> DEFINE x == [Moved(rec[s], "executing", now) EXCEPT !.started = call[s].at]
    <3>1. store' = [store EXCEPT ![r] = x]
      BY <1>5 DEF Claim, Put
    <3>2. x.started = call[s].at
      BY Typed DEF Moved, Record
    <3> HIDE DEF x
    <3>3. QED BY <2>1, <3>1, <3>2 DEF Shape, TypeOK
  <2>3. \A c \in claims : c.at # 0 /\ c.at <= now /\ store'[c.rep].started = c.at
    BY <1>1, BegunStays DEF Reckoned
  <2>4. pc'[s] \notin Dated
    BY <2>1 DEF Dated
  <2>5. QED BY <1>1, <1>3, <1>4, <2>1, <2>2, <2>3, <2>4 DEF Reckoned
<1>6. CASE ~Claim(s)
  <2>1. claims' = claims
    BY <1>6, ClaimsSame
  <2>2. \A c \in claims : c.at # 0 /\ c.at <= now /\ store'[c.rep].started = c.at
    BY <1>1, BegunStays DEF Reckoned
  <2>3. pc'[s] \in Dated => \A c \in claims : c.at <= call'[s].at
    BY <1>1, <2>2 DEF Dates, Reckoned, Dated
  <2>4. QED BY <1>1, <1>3, <1>4, <2>1, <2>2, <2>3 DEF Reckoned
<1>7. QED BY <1>5, <1>6

\* What claim_execution counts in the table are all the executions there were.
LEMMA ClaimCounts ==
  ASSUME Shape, LoopInv, Reckoned, NEW s \in Sessions, Claim(s), NEW D,
         D \subseteq {d \in claims : /\ ServiceOf[d.rep] = ServiceOf[call[s].rep]
                                     /\ d.at + RateWindow >= call[s].at}
  PROVE  /\ IsFiniteSet(D)
         /\ Cardinality(D) + 1 <= RateLimit
<1> DEFINE f == [d \in D |-> d.rep]
<1>1. \A d \in D : f[d] \in Counted(s)
  BY DEF Counted, Reckoned, Shape, TypeOK
<1>2. \A c, d \in D : f[c] = f[d] => c = d
  BY DEF LoopInv, ExecutedOnce
<1>3. f \in Injection(D, Counted(s))
  BY <1>1, <1>2 DEF Injection, IsInjective
<1>4. IsFiniteSet(Counted(s))
  <2>1. Counted(s) \subseteq Begun
    BY DEF Counted, Begun
  <2>2. QED BY <2>1, FS_Subset DEF Reckoned
<1>5. IsFiniteSet(D) /\ Cardinality(D) <= Cardinality(Counted(s))
  <2> HIDE DEF f
  <2>1. QED BY <1>3, <1>4, FS_Injection
<1>6. Cardinality(D) \in Nat /\ Cardinality(Counted(s)) \in Nat
  BY <1>4, <1>5, FS_CardinalityType
<1>7. Cardinality(Counted(s)) < RateLimit
  BY <1>6, ControlAssumption DEF Claim, RateReached
<1>8. QED BY <1>5, <1>6, <1>7, ControlAssumption

\* A claim keeps the limit, for itself and for those made at the same time.
LEMMA StepRate ==
  ASSUME OneLoop, Shape, Shape', LoopInv, NEW s \in Sessions,
         Step(s) \/ Request(s) \/ Raise(s), Reckoned, RateKept
  PROVE  RateKept'
<1>1. CASE Claim(s)
  <2> DEFINE r == call[s].rep
             d == [rep |-> r, ticket |-> call[s].ticket, at |-> call[s].at,
                   until |-> rec[s].expires]
             D == {b \in claims : /\ ServiceOf[b.rep] = ServiceOf[r]
                                  /\ b.at + RateWindow >= call[s].at}
  <2>1. claims' = claims \cup {d} /\ pc[s] = "claim"
    BY <1>1 DEF Claim
  <2>2. d.rep = r /\ d.at = call[s].at
    OBVIOUS
  <2>3. /\ \A c \in claims : c.at <= d.at
        /\ \A c \in claims : c.at \in Nat
        /\ d.at \in Nat /\ RateWindow \in Nat
    BY <2>1, Typed, ControlAssumption DEF Reckoned, Dated, Shape, TypeOK, Call, Time
  <2>4. IsFiniteSet(D) /\ Cardinality(D) + 1 <= RateLimit /\ Cardinality(D) \in Nat
    BY <1>1, ClaimCounts, FS_CardinalityType
  <2>5. Cardinality(D \cup {d}) <= RateLimit
    <3> HIDE DEF D, d
    <3>1. IsFiniteSet(D)
      BY <2>4
    <3>2. Cardinality(D \cup {d}) = IF d \in D THEN Cardinality(D) ELSE Cardinality(D) + 1
      BY <3>1, FS_AddElement, Zenon
    <3>3. RateLimit \in Nat
      BY ControlAssumption
    <3>4. QED BY <2>4, <3>2, <3>3
  <2>6. ASSUME NEW c \in claims', c.at = d.at, ServiceOf[c.rep] = ServiceOf[d.rep]
        PROVE  Near(c)' = D \cup {d}
    <3>1. \A b \in claims' : b \in Near(c)' <=> b \in D \cup {d}
      BY <2>1, <2>2, <2>3, <2>6 DEF Near
    <3>2. QED BY <2>1, <3>1 DEF Near
  <2>7. ASSUME NEW c \in claims, ~(c.at = d.at /\ ServiceOf[c.rep] = ServiceOf[d.rep])
        PROVE  Near(c)' = Near(c)
    BY <2>1, <2>2, <2>3, <2>7 DEF Near
  <2>8. \A c \in claims' : Cardinality(Near(c)') <= RateLimit
    <3> HIDE DEF D, d
    <3>1. QED BY <2>1, <2>5, <2>6, <2>7 DEF RateKept, Near
  <2>9. QED BY <2>8 DEF RateKept, Near
<1>2. CASE ~Claim(s)
  BY <1>2, ClaimsSame DEF RateKept
<1>3. QED BY <1>1, <1>2

\* The invariant is inductive.
LEMMA RateNext ==
  ASSUME OneLoop
  PROVE  Shape /\ Shape' /\ LoopInv /\ RateInv /\ [Next]_vars => RateInv'
<1> SUFFICES ASSUME Shape, Shape', LoopInv, RateInv, [Next]_vars PROVE RateInv'
  OBVIOUS
<1>1. ASSUME NEW s \in Sessions, Step(s) \/ Request(s) \/ Raise(s)
      PROVE  RateInv'
  BY <1>1, StepReckoned, StepRate DEF RateInv
<1>2. ASSUME NEW s \in Sessions, Die(s)
      PROVE  RateInv'
  <2>1. UNCHANGED <<store, now, claims>> /\ Return(s)
    BY <1>2 DEF Die
  <2>2. /\ pc'[s] \notin Dated
        /\ \A t \in Sessions \ {s} : pc'[t] = pc[t] /\ call'[t] = call[t]
    BY <2>1 DEF Shape, TypeOK, Return, Goto, Local, Dated
  <2>3. QED BY <2>1, <2>2 DEF RateInv, Reckoned, RateKept, Begun
<1>3. CASE Tick
  <2>1. UNCHANGED <<store, pc, call, claims>> /\ now' = now + 1 /\ now \in Nat
    BY <1>3 DEF Tick, Shape, TypeOK, Time
  <2>2. \A c \in claims : c.at \in Nat
    BY DEF Shape, TypeOK, Time
  <2>3. Reckoned'
    BY <2>1, <2>2 DEF RateInv, Reckoned, Begun
  <2>4. QED BY <2>1, <2>3 DEF RateInv, RateKept
<1>4. CASE UNCHANGED vars
  BY <1>4 DEF vars, RateInv, Reckoned, RateKept, Begun
<1>5. QED BY <1>1, <1>2, <1>3, <1>4 DEF Next

\* In any rate window, a service is worked on no more often than the limit:
\* the transaction of claim_execution counts what was begun before, and an
\* execution that ends, however it ends, keeps the time it was begun at.
THEOREM RepairsAreRare ==
  ASSUME OneLoop
  PROVE  Safe => []RateKept
<1>1. Init => RateInv
  <2> SUFFICES ASSUME Init PROVE RateInv
    OBVIOUS
  <2>1. Begun = {} /\ claims = {}
    BY DEF Init, Begun, NoRow
  <2>2. QED BY <2>1, FS_EmptySet DEF RateInv, Reckoned, RateKept
<1>2. Shape /\ Shape' /\ LoopInv /\ RateInv /\ [Next]_vars => RateInv'
  BY RateNext
<1>3. RateInv => RateKept
  BY DEF RateInv
<1>4. QED BY <1>1, <1>2, <1>3, LoopInvariant, PTL DEF Safe

-----------------------------------------------------------------------------
(* Steps.                                                                  *)

\* Every step of the control is a step on the store as StoreStep has it.
LEMMA NextOnStore ==
  ASSUME OneLoop, Shape, LoopInv, [Next]_vars
  PROVE  store' = store \/ \E s \in Sessions : StoreStep(s)
<1>1. CASE UNCHANGED vars
  BY <1>1 DEF vars
<1>2. CASE Tick
  BY <1>2 DEF Tick
<1>3. ASSUME NEW s \in Sessions, Step(s) \/ Request(s) \/ Raise(s)
      PROVE  StoreStep(s)
  BY <1>3, ProperStep DEF Proper
<1>4. ASSUME NEW s \in Sessions, Die(s)
      PROVE  store' = store
  BY <1>4 DEF Die
<1>5. QED BY <1>1, <1>2, <1>3, <1>4 DEF Next

\* A finished repair is neither reopened nor rewritten by any put.
THEOREM FinishedRepairStays ==
  ASSUME OneLoop
  PROVE  Safe => FinalStaysFinal
<1>1. Shape /\ LoopInv /\ [Next]_vars =>
        [\A r \in Repairs : store[r].status \in Terminal => store'[r] = store[r]]_store
  <2> SUFFICES ASSUME Shape, LoopInv, [Next]_vars, store' # store,
                      NEW r \in Repairs, store[r].status \in Terminal
               PROVE  store'[r] = store[r]
    OBVIOUS
  <2>1. PICK s \in Sessions : StoreStep(s)
    BY NextOnStore
  <2>2. QED BY <2>1, StoreEffect DEF Onward, Active, Terminal, Waiting, Granted, Lapsed
<1>2. QED BY <1>1, LoopInvariant, PTL DEF Safe, FinalStaysFinal

-----------------------------------------------------------------------------
(* Refinement.                                                             *)

Stage == [r \in Repairs |-> StageOf(store[r])]

\* How a move of a record looks to the owner of the repair.
LEMMA OnwardStage ==
  ASSUME NEW r \in Repairs, NEW x, Onward(r, x)
  PROVE  \/ StageOf(x) = StageOf(store[r])
         \/ /\ StageOf(store[r]) = "waiting"
            /\ StageOf(x) \in {"approved", "rejected", "lapsed"}
         \/ /\ StageOf(store[r]) = "approved"
            /\ StageOf(x) \in {"cancelled", "lapsed", "unclear"}
         \/ /\ StageOf(store[r]) = "approved" /\ ~Busy
            /\ StageOf(x) = "working"
         \/ /\ StageOf(store[r]) = "working"
            /\ StageOf(x) \in {"fixed", "failed", "unclear"}
<1> USE DEF StageOf, Active, Waiting, Granted, Lapsed
<1> DEFINE row == store[r]
<1>1. CASE row.status = Waiting /\ x.status \in {Granted, "rejected", Lapsed} /\ x.started = 0
  BY <1>1
<1>2. CASE /\ row.status = Granted /\ x.status \in {"cancelled", Lapsed, "rolling_back"}
           /\ x.started = 0
  BY <1>2
<1>3. CASE row.status = Granted /\ x.status = "executing" /\ x.started # 0 /\ ~Busy
  BY <1>3
<1>4. CASE /\ row.status \in Active
           /\ x.started = row.started
           /\ \/ x.status \in Active \cup {"cleanup_failed"}
              \/ x.started # 0 /\ x.status \in {"succeeded", "rolled_back"}
  BY <1>4
<1>5. QED BY <1>1, <1>2, <1>3, <1>4 DEF Onward

\* Writing one row changes the stage of one repair.
LEMMA PutStage ==
  ASSUME Shape, NEW r \in Repairs, NEW x, Put(r, x)
  PROVE  Stage' = [Stage EXCEPT ![r] = StageOf(x)]
BY DEF Shape, TypeOK, Put, Stage

\* A computer that is not busy works on nothing.
LEMMA IdleStage ==
  ASSUME Shape, ~Busy, NEW q \in Repairs
  PROVE  Stage[q] # "working"
<1>1. store[q].status \in Status \ Active
  BY DEF Shape, TypeOK, Record, Busy
<1>2. QED
  BY <1>1 DEF Stage, StageOf, Status, Terminal, Active, Waiting, Granted, Lapsed

\* No repair exists at the start, in either specification.
LEMMA StagesInit == Init => P!Init
BY DEF Init, P!Init, NoRow, StageOf, Waiting, Granted, Lapsed, Active

\* A step of the control is a step of the promise or leaves all stages alone.
LEMMA StagesNext ==
  ASSUME OneLoop, Shape, LoopInv, [Next]_vars
  PROVE  [P!Next]_Stage
<1> SUFFICES ASSUME store' # store PROVE [P!Next]_Stage
  BY DEF Stage
<1>1. PICK s \in Sessions : StoreStep(s)
  BY NextOnStore
<1>2. CASE Submit(s)
  <2> DEFINE r == call[s].rep
  <2>1. /\ r \in Repairs /\ store[r].status = "none"
        /\ Put(r, rec[s]) /\ rec[s].status = Waiting
    BY <1>2, Typed, Facts DEF Submit, Placed, Informed, Submitting
  <2>2. Stage[r] = "none" /\ Stage' = [Stage EXCEPT ![r] = "waiting"]
    BY <2>1, PutStage DEF Stage, StageOf, Waiting, Granted, Active, Lapsed
  <2>3. P!Propose(r)
    BY <2>2 DEF P!Propose, P!Becomes, Stage
  <2>4. QED BY <2>1, <2>3 DEF P!Next
<1>3. ASSUME NEW r \in Repairs, NEW x \in Record, Put(r, x), Onward(r, x)
      PROVE  [P!Next]_Stage
  <2>1. Stage[r] = StageOf(store[r]) /\ Stage' = [Stage EXCEPT ![r] = StageOf(x)]
    BY <1>3, PutStage DEF Stage
  <2>2. CASE StageOf(x) = StageOf(store[r])
    BY <2>1, <2>2 DEF Stage
  <2>3. CASE StageOf(store[r]) = "waiting" /\ StageOf(x) \in {"approved", "rejected", "lapsed"}
    <3>1. P!Decide(r)
      BY <2>1, <2>3 DEF P!Decide, P!Becomes, Stage
    <3>2. QED BY <3>1 DEF P!Next
  <2>4. CASE StageOf(store[r]) = "approved" /\ StageOf(x) \in {"cancelled", "lapsed", "unclear"}
    <3>1. P!GiveUp(r)
      BY <2>1, <2>4 DEF P!GiveUp, P!Becomes, Stage
    <3>2. QED BY <3>1 DEF P!Next
  <2>5. CASE StageOf(store[r]) = "approved" /\ ~Busy /\ StageOf(x) = "working"
    <3>1. P!Start(r)
      BY <2>1, <2>5, IdleStage DEF P!Start, P!Becomes, Stage
    <3>2. QED BY <3>1 DEF P!Next
  <2>6. CASE StageOf(store[r]) = "working" /\ StageOf(x) \in {"fixed", "failed", "unclear"}
    <3>1. P!End(r)
      BY <2>1, <2>6 DEF P!End, P!Becomes, Stage
    <3>2. QED BY <3>1 DEF P!Next
  <2>7. QED BY <1>3, <2>2, <2>3, <2>4, <2>5, <2>6, OnwardStage
<1>4. QED BY <1>1, <1>2, <1>3 DEF StoreStep

\* The control implements the promise: every repair goes through the stages
\* its owner was told of, and work on it starts only while no other is at work.
THEOREM ControlKeepsPromise ==
  ASSUME OneLoop
  PROVE  Safe => StagesKept
<1>1. Shape /\ LoopInv /\ [Next]_vars => [P!Next]_Stage
  BY StagesNext
<1>2. QED BY <1>1, StagesInit, LoopInvariant, PTL DEF Safe, StagesKept, P!Safe, Stage

=============================================================================
