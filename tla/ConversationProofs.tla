------------------------- MODULE ConversationProofs -------------------------
(***************************************************************************)
(* What a conversation keeps for any number of runs, notices, repairs,      *)
(* restarts and failed writes: the types and the bookkeeping of runs, that  *)
(* a deleted conversation stays deleted, that a result is told once, and    *)
(* that a restart goes by all that was said and stored.                     *)
(***************************************************************************)
EXTENDS Conversation, WellFoundedInduction, TLAPS

-----------------------------------------------------------------------------
(* Sequences                                                               *)

(* Appending keeps what was there. *)
LEMMA Appended ==
    ASSUME NEW S, NEW s \in Seq(S), NEW e \in S
    PROVE  /\ Append(s, e) \in Seq(S)
           /\ Append(s, e) # <<>>
           /\ DOMAIN Append(s, e) = DOMAIN s \cup {Len(s) + 1}
           /\ Len(s) + 1 \notin DOMAIN s
           /\ Append(s, e)[Len(s) + 1] = e
           /\ \A j \in DOMAIN s : Append(s, e)[j] = s[j]
OBVIOUS

(* Taking the last one back keeps the others. *)
LEMMA TakenBack ==
    ASSUME NEW S, NEW s \in Seq(S), s # <<>>
    PROVE  /\ Front(s) \in Seq(S)
           /\ DOMAIN Front(s) = DOMAIN s \ {Len(s)}
           /\ Len(s) \in DOMAIN s
           /\ Last(s) = s[Len(s)]
           /\ \A j \in DOMAIN Front(s) : Front(s)[j] = s[j] /\ j < Len(s)
BY DEF Front, Last

(* Replacing one element. *)
LEMMA Replaced ==
    ASSUME NEW S, NEW s \in Seq(S), NEW i \in DOMAIN s, NEW e \in S
    PROVE  /\ [s EXCEPT ![i] = e] \in Seq(S)
           /\ DOMAIN [s EXCEPT ![i] = e] = DOMAIN s
OBVIOUS

(* A function over the places of a sequence is a sequence. *)
LEMMA SamePlaces ==
    ASSUME NEW S, NEW T, NEW s \in Seq(S), NEW f,
           DOMAIN f = DOMAIN s, f = [j \in DOMAIN s |-> f[j]],
           \A j \in DOMAIN s : f[j] \in T
    PROVE  f \in Seq(T)
<1>1. Len(s) \in Nat /\ DOMAIN s = 1..Len(s)
  OBVIOUS
<1>2. f \in [1..Len(s) -> T]
  BY <1>1
<1>3. QED
  BY <1>1, <1>2

(* A set of places that is not empty has a last one. *)
LEMMA LastPlace ==
    ASSUME NEW n \in Nat, NEW S, S \subseteq 1..n, S # {}
    PROVE  \E j \in S : \A k \in S : k <= j
<1> DEFINE R == OpToRel(<, Nat)
           T == {n - k : k \in S}
<1>1. T \subseteq Nat /\ T # {}
  <2> HIDE DEF R
  <2>1. \A k \in S : n - k \in Nat
    OBVIOUS
  <2>2. T \subseteq Nat
    BY <2>1
  <2>3. PICK k \in S : TRUE
    OBVIOUS
  <2>4. n - k \in T
    OBVIOUS
  <2>5. QED BY <2>2, <2>4
<1>2. IsWellFoundedOn(R, Nat)
  BY NatLessThanWellFounded
<1>3. \A x, y \in Nat : y < x => <<y, x>> \in R
  BY DEF OpToRel
<1> HIDE DEF R
<1>4. PICK x \in T : \A y \in T : ~(<<y, x>> \in R)
  <2> HIDE DEF T
  <2>1. QED BY <1>1, <1>2, WFMin
<1>5. \A y \in T : ~(y < x)
  BY <1>1, <1>3, <1>4
<1>6. PICK j \in S : x = n - j
  OBVIOUS
<1>7. ASSUME NEW k \in S PROVE k <= j
  <2>1. ~(n - k < n - j) /\ k \in Int /\ j \in Int
    BY <1>5, <1>6
  <2>2. QED BY <2>1
<1>8. QED
  BY <1>7

-----------------------------------------------------------------------------
(* Runs and rows                                                           *)

(* No two entries of a list of runs are the same run. *)
Distinct(s) == \A j, k \in DOMAIN s : s[j].id = s[k].id => j = k
DistinctRows(t) == \A j, k \in DOMAIN t : t[j].run.id = t[k].run.id => j = k

(* A run that is there has its place. *)
LEMMA PlaceIs ==
    ASSUME NEW s, NEW k \in DOMAIN s
    PROVE  Place(s, s[k].id) \in DOMAIN s /\ s[Place(s, s[k].id)].id = s[k].id
BY DEF Place

(* Changing a run keeps its place and the others. *)
LEMMA ChangedRun ==
    ASSUME NEW s \in Seq(Run), NEW r \in Run, Distinct(s),
           NEW k \in DOMAIN s, s[k].id = r.id
    PROVE  /\ Place(s, r.id) = k
           /\ Changed(s, r) \in Seq(Run)
           /\ DOMAIN Changed(s, r) = DOMAIN s
           /\ Changed(s, r)[k] = r
           /\ \A j \in DOMAIN s : j # k => Changed(s, r)[j] = s[j]
           /\ \A j \in DOMAIN s : Changed(s, r)[j].id = s[j].id
           /\ Distinct(Changed(s, r))
<1>1. Place(s, r.id) = k
  BY PlaceIs DEF Distinct
<1>2. Changed(s, r) = [s EXCEPT ![k] = r]
  BY <1>1 DEF Changed
<1>3. Changed(s, r) \in Seq(Run) /\ DOMAIN Changed(s, r) = DOMAIN s
  BY <1>2, Replaced
<1>4. Changed(s, r)[k] = r /\ \A j \in DOMAIN s : j # k => Changed(s, r)[j] = s[j]
  BY <1>2
<1>5. \A j \in DOMAIN s : Changed(s, r)[j].id = s[j].id
  BY <1>4
<1>6. Distinct(Changed(s, r))
  BY <1>3, <1>5 DEF Distinct
<1>7. QED
  BY <1>1, <1>3, <1>4, <1>5, <1>6

(* Writing a row leaves one row for each run. *)
LEMMA WrittenRow ==
    ASSUME NEW t \in Seq(Row), NEW row \in Row
    PROVE  /\ Written(t, row) \in Seq(Row)
           /\ Written(t, row) # <<>>
           /\ \A j \in DOMAIN Written(t, row) :
                \/ Written(t, row)[j] = row
                \/ j \in DOMAIN t /\ Written(t, row)[j] = t[j]
           /\ DistinctRows(t) => DistinctRows(Written(t, row))
<1>1. CASE \E j \in DOMAIN t : t[j].run.id = row.run.id
  <2> DEFINE w == [j \in DOMAIN t |-> IF t[j].run.id = row.run.id THEN row ELSE t[j]]
  <2>1. Written(t, row) = w
    BY <1>1 DEF Written
  <2>2. \A j \in DOMAIN t : w[j] \in Row
    OBVIOUS
  <2>3. w \in Seq(Row)
    <3>1. DOMAIN w = DOMAIN t /\ w = [j \in DOMAIN t |-> w[j]]
      OBVIOUS
    <3> HIDE DEF w
    <3>2. QED BY <2>2, <3>1, SamePlaces
  <2>4. w # <<>>
    BY <1>1
  <2>5. \A j \in DOMAIN w : w[j].run.id = t[j].run.id
    OBVIOUS
  <2>6. DistinctRows(t) => DistinctRows(w)
    BY <2>5 DEF DistinctRows
  <2>7. \A j \in DOMAIN w : w[j] = row \/ (j \in DOMAIN t /\ w[j] = t[j])
    OBVIOUS
  <2> HIDE DEF w
  <2>8. QED BY <2>1, <2>3, <2>4, <2>6, <2>7
<1>2. CASE ~\E j \in DOMAIN t : t[j].run.id = row.run.id
  <2>1. Written(t, row) = Append(t, row)
    BY <1>2 DEF Written
  <2>2. \A j \in DOMAIN Append(t, row) :
          \/ j = Len(t) + 1 /\ Append(t, row)[j] = row
          \/ j \in DOMAIN t /\ Append(t, row)[j] = t[j]
    BY Appended
  <2>3. Append(t, row) \in Seq(Row) /\ Append(t, row) # <<>>
    BY Appended
  <2>4. DistinctRows(t) => DistinctRows(Append(t, row))
    BY <1>2, <2>2 DEF DistinctRows
  <2>5. QED BY <2>1, <2>2, <2>3, <2>4
<1>3. QED
  BY <1>1, <1>2

-----------------------------------------------------------------------------
(* The bookkeeping of runs                                                 *)

(* Run numbers are used once, and the run whose write is awaited is there:  *)
(* at work before its first write, without a coroutine at its last.         *)
Bookkeeping ==
    /\ Distinct(runs) /\ DistinctRows(rows)
    /\ \A j \in DOMAIN runs : runs[j].id <= begun
    /\ \A j \in DOMAIN rows : rows[j].run.id <= begun
    /\ note # Quiet => note.row.run.id <= begun
    /\ loop # Free =>
         /\ \E j \in DOMAIN runs : /\ runs[j].id = loop.row.run.id
                                   /\ loop.step = "goal" => runs[j].status = "running"
         /\ loop.step = "goal" /\ loop.prev # 0 =>
                \E j \in DOMAIN runs : runs[j].id = loop.prev
         /\ loop.step = "final" => loop.row.run.id \notin tasks

Inv == Types /\ TasksRun /\ Bookkeeping

(* What the types say of the parts. *)
LEMMA Parts ==
    ASSUME Types
    PROVE  /\ begun \in Nat
           /\ \A j \in DOMAIN runs : runs[j] \in Run /\ runs[j].id \in Nat
           /\ \A j \in DOMAIN rows : /\ rows[j] \in Row /\ rows[j].run \in Run
                                     /\ rows[j].run.id \in Nat
           /\ loop # Free => /\ loop.row \in Row /\ loop.step \in LoopSteps
                             /\ loop.row.run \in Run /\ loop.row.run.id \in Nat
                             /\ loop.prev \in {0} \cup Ids
           /\ note # Quiet => /\ note.row \in Row /\ note.of \in Repairs
                              /\ note.row.run \in Run /\ note.row.run.id \in Nat
           /\ loop = Free => loop.step = "free"
<1>1. \A r \in Run : r.id \in Nat
  BY DEF Run, Ids
<1>2. \A r \in Row : r.run \in Run
  BY DEF Row
<1>3. begun \in Nat
  BY ConversationAssumption DEF Types
<1>4. \A j \in DOMAIN runs : runs[j] \in Run
  BY DEF Types
<1>5. \A j \in DOMAIN rows : rows[j] \in Row
  BY DEF Types
<1>6. loop # Free => loop.row \in Row /\ loop.step \in LoopSteps /\ loop.prev \in {0} \cup Ids
  BY DEF Types
<1>7. note # Quiet => note.row \in Row /\ note.of \in Repairs
  BY DEF Types
<1>8. loop = Free => loop.step = "free"
  BY DEF Free
<1>9. QED
  BY <1>1, <1>2, <1>3, <1>4, <1>5, <1>6, <1>7, <1>8

(* A copy of the conversation is a row. *)
LEMMA CopyIsRow ==
    ASSUME NEW r \in Run, NEW ms \in Seq(Message), NEW ts \in SUBSET Repairs
    PROVE  /\ Copy(r, ms, ts) \in Row
           /\ Copy(r, ms, ts).run = r
           /\ Copy(r, ms, ts).said = ms
           /\ Copy(r, ms, ts).told = ts
BY DEF Copy, Row

(* A write that the event loop begins. *)
LEMMA AwaitType ==
    ASSUME NEW step \in LoopSteps, NEW r \in Run, NEW ms \in Seq(Message),
           NEW prev \in {0} \cup Ids, told \in SUBSET Repairs, Await(step, r, ms, prev)
    PROVE  /\ loop' \in [step : LoopSteps, row : Row, prev : {0} \cup Ids]
           /\ loop' # Free
           /\ loop'.row = Copy(r, ms, told) /\ loop'.row.run = r
           /\ loop'.step = step /\ loop'.prev = prev
<1>1. Copy(r, ms, told) \in Row /\ Copy(r, ms, told).run = r
  BY CopyIsRow
<1>2. loop' = [step |-> step, row |-> Copy(r, ms, told), prev |-> prev]
  BY DEF Await
<1>3. step # "free"
  BY DEF LoopSteps
<1>4. QED
  BY <1>1, <1>2, <1>3 DEF Free

(* A run is begun. *)
LEMMA BeginKeeps ==
    ASSUME Inv, loop = Free, NEW t \in Targets, NEW from \in {0} \cup Ids,
           from # 0 => \E j \in DOMAIN runs : runs[j].id = from,
           Begin(t, from)
    PROVE  Inv'
<1> DEFINE r == [id |-> begun + 1, status |-> "running", done |-> FALSE, by |-> 0,
                 target |-> t]
           q == [kind |-> "asked", of |-> begun + 1]
<1> USE DEF Inv
<1>1. begun + 1 \in Ids /\ begun + 1 \in Nat
  BY ConversationAssumption DEF Begin, Types, Ids
<1>2. r \in Run
  BY <1>1 DEF Run, Statuses
<1>3. q \in Message
  BY <1>1 DEF Message
<1>4. runs' = Append(runs, r) /\ said' = Append(said, q) /\ begun' = begun + 1
  BY DEF Begin
<1> HIDE DEF r, q
<1>5. runs' \in Seq(Run) /\ said' \in Seq(Message)
  BY <1>2, <1>3, <1>4, Appended DEF Types
<1>6. DOMAIN runs' = DOMAIN runs \cup {Len(runs) + 1} /\ Len(runs) + 1 \notin DOMAIN runs
      /\ runs'[Len(runs) + 1] = r /\ \A j \in DOMAIN runs : runs'[j] = runs[j]
  BY <1>2, <1>4, Appended DEF Types
<1>7. Await("goal", r, said', from) /\ "goal" \in LoopSteps
  BY DEF Begin, LoopSteps, r
<1>8. /\ loop' \in [step : LoopSteps, row : Row, prev : {0} \cup Ids]
      /\ loop' # Free /\ loop'.row.run = r /\ loop'.step = "goal" /\ loop'.prev = from
  BY <1>2, <1>5, <1>7, AwaitType DEF Types
<1>9. r.id = begun + 1 /\ r.status = "running"
  BY DEF r
<1>10. past' \in [stored : SUBSET Message, crossed : BOOLEAN, mixed : BOOLEAN,
                   deleted : BOOLEAN]
  BY DEF Begin, Types
<1>11. Types'
  <2>1. begun' \in 0..MaxRuns
    BY <1>1, <1>4, ConversationAssumption DEF Ids
  <2>2. UNCHANGED <<here, told, tasks, rows, note, finished, notices, deaths, failures>>
    BY DEF Begin
  <2>3. /\ (here \in BOOLEAN /\ told \in SUBSET Repairs /\ tasks \in SUBSET Ids)'
        /\ (rows \in Seq(Row) /\ note \in [of : Repairs, row : Row] \cup {Quiet})'
        /\ (finished \in SUBSET Repairs /\ notices \in 0..MaxNotices)'
        /\ (deaths \in 0..MaxDeaths /\ failures \in 0..MaxFailures)'
    BY <2>2 DEF Types
  <2>4. loop' \in [step : LoopSteps, row : Row, prev : {0} \cup Ids] \cup {Free}
    BY <1>8
  <2>5. QED BY <1>5, <1>10, <2>1, <2>3, <2>4, Zenon DEF Types
<1>12. TasksRun'
  <2>1. \A i \in tasks' : \E j \in DOMAIN runs' : runs'[j].id = i /\ runs'[j].status = "running"
    BY <1>6 DEF TasksRun, Begin
  <2>2. ASSUME NEW j \in DOMAIN runs', runs'[j].status = "running"
        PROVE  \/ runs'[j].id \in tasks'
               \/ loop'.step = "goal" /\ loop'.row.run.id = runs'[j].id
               \/ failures' > 0
    BY <1>6, <1>8, <2>2, Parts DEF TasksRun, Begin
  <2>3. QED BY <2>1, <2>2 DEF TasksRun
<1>13. Bookkeeping'
  <2>1. Distinct(runs)' /\ (\A j \in DOMAIN runs : runs[j].id <= begun)'
    BY <1>4, <1>6, <1>9, Parts DEF Bookkeeping, Distinct
  <2>2. rows' = rows /\ note' = note
    BY DEF Begin
  <2>3. /\ DistinctRows(rows)'
        /\ (\A j \in DOMAIN rows : rows[j].run.id <= begun)'
        /\ (note # Quiet => note.row.run.id <= begun)'
    BY <1>4, <2>2, Parts DEF Bookkeeping
  <2>4. \E j \in DOMAIN runs' : runs'[j].id = loop'.row.run.id /\ runs'[j].status = "running"
    BY <1>6, <1>8, <1>9
  <2>5. loop'.prev # 0 => \E j \in DOMAIN runs' : runs'[j].id = loop'.prev
    BY <1>6, <1>8
  <2>6. QED BY <1>8, <2>1, <2>3, <2>4, <2>5 DEF Bookkeeping
<1>14. QED
  BY <1>11, <1>12, <1>13

(* A variable that stays keeps its type. *)
LEMMA Same ==
    ASSUME Types
    PROVE  /\ here' = here => here' \in BOOLEAN
           /\ said' = said => said' \in Seq(Message)
           /\ told' = told => told' \in SUBSET Repairs
           /\ runs' = runs => runs' \in Seq(Run)
           /\ tasks' = tasks => tasks' \in SUBSET Ids
           /\ rows' = rows => rows' \in Seq(Row)
           /\ loop' = loop =>
                loop' \in [step : LoopSteps, row : Row, prev : {0} \cup Ids] \cup {Free}
           /\ note' = note => note' \in [of : Repairs, row : Row] \cup {Quiet}
           /\ finished' = finished => finished' \in SUBSET Repairs
           /\ begun' = begun => begun' \in 0..MaxRuns
           /\ notices' = notices => notices' \in 0..MaxNotices
           /\ deaths' = deaths => deaths' \in 0..MaxDeaths
           /\ failures' = failures => failures' \in 0..MaxFailures
           /\ past' = past => past' \in [stored : SUBSET Message, crossed : BOOLEAN,
                                         mixed : BOOLEAN, deleted : BOOLEAN]
BY Zenon DEF Types

(* A run that is there is the one its number finds. *)
LEMMA RunIsThere ==
    ASSUME Inv, NEW k \in DOMAIN runs
    PROVE  RunOf(runs[k].id) = runs[k]
BY PlaceIs DEF RunOf, Inv, Bookkeeping, Distinct

(* A run with a coroutine is there, and runs. *)
LEMMA TaskIsThere ==
    ASSUME Inv, NEW i \in tasks
    PROVE  \E k \in DOMAIN runs : /\ runs[k].id = i /\ runs[k].status = "running"
                                  /\ RunOf(i) = runs[k] /\ runs[k] \in Run
<1>1. PICK k \in DOMAIN runs : runs[k].id = i /\ runs[k].status = "running"
  BY DEF Inv, TasksRun
<1>2. RunOf(i) = runs[k] /\ runs[k] \in Run
  BY <1>1, RunIsThere, Parts DEF Inv
<1>3. QED
  BY <1>1, <1>2

(* What a run said on the way is written. *)
LEMMA ProgressKeeps ==
    ASSUME Inv, NEW i \in Ids, SaveProgress(i)
    PROVE  Inv'
<1>1. PICK k \in DOMAIN runs : /\ runs[k].id = i /\ runs[k].status = "running"
                               /\ RunOf(i) = runs[k] /\ runs[k] \in Run
  BY TaskIsThere DEF SaveProgress
<1>2. /\ loop' \in [step : LoopSteps, row : Row, prev : {0} \cup Ids]
      /\ loop' # Free /\ loop'.row.run = runs[k] /\ loop'.step = "progress"
      /\ loop'.prev = 0
  BY <1>1, AwaitType DEF SaveProgress, Inv, Types, LoopSteps
<1>3. /\ here' = here /\ said' = said /\ told' = told /\ runs' = runs /\ tasks' = tasks
      /\ rows' = rows /\ note' = note /\ finished' = finished /\ begun' = begun
      /\ notices' = notices /\ deaths' = deaths /\ failures' = failures /\ past' = past
      /\ loop = Free
  BY DEF SaveProgress
<1>4. loop' \in [step : LoopSteps, row : Row, prev : {0} \cup Ids] \cup {Free}
  BY <1>2
<1>5. Types'
  BY <1>3, <1>4, Same, Zenon DEF Types, Inv
<1>6. TasksRun'
  BY <1>3, Parts DEF TasksRun, Inv
<1>7. Bookkeeping'
  BY <1>1, <1>2, <1>3 DEF Bookkeeping, Inv
<1>8. QED
  BY <1>5, <1>6, <1>7 DEF Inv

(* A run comes to an end, and its last write is awaited if the conversation *)
(* is still there.                                                         *)
LEMMA EndKeeps ==
    ASSUME Inv, loop = Free, NEW i \in tasks,
           NEW r \in Run, r.id = i, r.status # "running",
           NEW step \in {"final", "failed"},
           tasks' = tasks \ {i}, runs' = Changed(runs, r), said' \in Seq(Message),
           loop' = Free \/ Await(step, r, said', 0),
           UNCHANGED <<here, told, rows, note, finished, begun, notices, deaths,
                       failures, past>>
    PROVE  Inv'
<1>1. PICK k \in DOMAIN runs : runs[k].id = i /\ runs[k].status = "running"
  BY TaskIsThere
<1>2. Distinct(runs) /\ runs \in Seq(Run)
  BY DEF Inv, Bookkeeping, Types
<1>3. /\ runs' \in Seq(Run) /\ DOMAIN runs' = DOMAIN runs /\ runs'[k] = r
      /\ \A j \in DOMAIN runs : j # k => runs'[j] = runs[j]
      /\ \A j \in DOMAIN runs : runs'[j].id = runs[j].id
      /\ Distinct(runs')
  BY <1>1, <1>2, ChangedRun
<1>4. step \in LoopSteps /\ step # "goal"
  BY DEF LoopSteps
<1>5. loop' # Free =>
        /\ loop' \in [step : LoopSteps, row : Row, prev : {0} \cup Ids]
        /\ loop'.row.run = r /\ loop'.step # "goal"
  BY <1>4, AwaitType DEF Inv, Types
<1>6. loop' \in [step : LoopSteps, row : Row, prev : {0} \cup Ids] \cup {Free}
  BY <1>5
<1>7. /\ here' = here /\ told' = told /\ rows' = rows /\ note' = note
      /\ finished' = finished /\ begun' = begun /\ notices' = notices
      /\ deaths' = deaths /\ failures' = failures /\ past' = past
  OBVIOUS
<1>8. tasks' \in SUBSET Ids
  BY DEF Inv, Types
<1>9. Types'
  BY <1>3, <1>6, <1>7, <1>8, Same, Zenon DEF Types, Inv
<1>10. TasksRun'
  <2>1. ASSUME NEW h \in tasks'
        PROVE  \E j \in DOMAIN runs' : runs'[j].id = h /\ runs'[j].status = "running"
    <3>1. PICK j \in DOMAIN runs : runs[j].id = h /\ runs[j].status = "running"
      BY TaskIsThere
    <3>2. j # k
      BY <1>1, <3>1
    <3>3. QED BY <1>3, <3>1, <3>2
  <2>2. ASSUME NEW j \in DOMAIN runs', runs'[j].status = "running"
        PROVE  runs'[j].id \in tasks' \/ failures' > 0
    <3>1. j # k /\ j \in DOMAIN runs /\ runs'[j] = runs[j]
      BY <1>3, <2>2
    <3>2. runs[j].id \in tasks \/ failures > 0
      BY <2>2, <3>1, Parts DEF Inv, TasksRun
    <3>3. runs[j].id # i
      BY <1>1, <1>2, <3>1 DEF Distinct
    <3>4. QED BY <1>7, <3>1, <3>2, <3>3
  <2>3. QED BY <2>1, <2>2 DEF TasksRun
<1>11. Bookkeeping'
  <2>1. (\A j \in DOMAIN runs : runs[j].id <= begun)'
    BY <1>3, <1>7 DEF Inv, Bookkeeping
  <2>2. loop' # Free => /\ loop'.row.run.id = i /\ loop'.row.run.id \notin tasks'
                        /\ \E j \in DOMAIN runs' : runs'[j].id = loop'.row.run.id
    BY <1>3, <1>5
  <2>3. QED BY <1>3, <1>5, <1>7, <2>1, <2>2 DEF Inv, Bookkeeping
<1>12. QED
  BY <1>9, <1>10, <1>11 DEF Inv

(* A run answers. *)
LEMMA AnswerKeeps ==
    ASSUME Inv, NEW i \in Ids, NEW done \in BOOLEAN, Answer(i, done)
    PROVE  Inv'
<1> DEFINE r == [RunOf(i) EXCEPT !.status = "completed", !.done = done]
<1>1. i \in tasks /\ loop = Free
  BY DEF Answer
<1>2. PICK k \in DOMAIN runs : runs[k].id = i /\ RunOf(i) = runs[k] /\ runs[k] \in Run
  BY <1>1, TaskIsThere
<1>3. r \in Run /\ r.id = i /\ r.status # "running"
  BY <1>2 DEF Run, Statuses
<1>4. said' \in Seq(Message)
  <2>1. [kind |-> "answered", of |-> i] \in Message
    BY DEF Message, Ids
  <2>2. said' = Append(said, [kind |-> "answered", of |-> i]) \/ said' = said
    BY DEF Answer
  <2>3. said \in Seq(Message)
    BY DEF Inv, Types
  <2>4. QED BY <2>1, <2>2, <2>3, Appended
<1>5. loop' = Free \/ Await("final", r, said', 0)
  BY DEF Answer
<1>6. /\ tasks' = tasks \ {i} /\ runs' = Changed(runs, r)
      /\ UNCHANGED <<here, told, rows, note, finished, begun, notices, deaths,
                     failures, past>>
  BY DEF Answer
<1> HIDE DEF r
<1>7. QED
  BY <1>1, <1>3, <1>4, <1>5, <1>6, EndKeeps

(* A run fails. *)
LEMMA FailKeeps ==
    ASSUME Inv, NEW i \in Ids, Fail(i)
    PROVE  Inv'
<1> DEFINE r == [RunOf(i) EXCEPT !.status = "failed"]
<1>1. i \in tasks /\ loop = Free
  BY DEF Fail
<1>2. PICK k \in DOMAIN runs : runs[k].id = i /\ RunOf(i) = runs[k] /\ runs[k] \in Run
  BY <1>1, TaskIsThere
<1>3. r \in Run /\ r.id = i /\ r.status # "running"
  BY <1>2 DEF Run, Statuses
<1>4. said' = said /\ said' \in Seq(Message)
  BY DEF Inv, Types, Fail
<1>5. loop' = Free \/ Await("failed", r, said', 0)
  BY <1>4 DEF Fail
<1>6. /\ tasks' = tasks \ {i} /\ runs' = Changed(runs, r)
      /\ UNCHANGED <<here, told, rows, note, finished, begun, notices, deaths,
                     failures, past>>
  BY DEF Fail
<1> HIDE DEF r
<1>7. QED
  BY <1>1, <1>3, <1>4, <1>5, <1>6, EndKeeps

(* A note is carried by a run that is there then, and changes no other.     *)
LEMMA CarriedBy ==
    ASSUME Inv, Carried(AnyTarget)
    PROVE  /\ Carrier(AnyTarget) \in Run
           /\ begun' \in 0..MaxRuns /\ begun <= begun'
           /\ runs' \in Seq(Run) /\ Distinct(runs')
           /\ \A j \in DOMAIN runs : j \in DOMAIN runs' /\ runs'[j] = runs[j]
           /\ \A j \in DOMAIN runs' : \/ j \in DOMAIN runs /\ runs'[j] = runs[j]
                                      \/ runs'[j].status = "noted"
           /\ \A j \in DOMAIN runs' : runs'[j].id <= begun'
           /\ \E j \in DOMAIN runs' : runs'[j].id = Carrier(AnyTarget).id
<1>1. begun \in 0..MaxRuns /\ begun \in Nat /\ MaxRuns \in Nat /\ runs \in Seq(Run)
  BY ConversationAssumption, Parts DEF Inv, Types
<1>2. Distinct(runs) /\ \A j \in DOMAIN runs : runs[j].id <= begun
  BY DEF Inv, Bookkeeping
<1>3. CASE runs = <<>>
  <2> DEFINE c == [id |-> begun + 1, status |-> "noted", done |-> FALSE, by |-> 0,
                   target |-> AnyTarget]
  <2>1. Carrier(AnyTarget) = c
    BY <1>3 DEF Carrier
  <2>2. AnyTarget \in Targets
    BY ConversationAssumption DEF AnyTarget
  <2>3. begun < MaxRuns /\ begun' = begun + 1
    BY <1>3 DEF Carried
  <2>4. c \in Run
    BY <1>1, <2>2, <2>3 DEF Run, Statuses, Ids
  <2>5. runs' = <<c>> /\ c.id = begun + 1 /\ c.status = "noted"
    BY <1>3, <2>1 DEF Carried
  <2> HIDE DEF c
  <2>6. runs' \in Seq(Run) /\ DOMAIN runs' = {1} /\ runs'[1] = c
    BY <2>4, <2>5
  <2>7. Distinct(runs')
    BY <2>6 DEF Distinct
  <2>8. QED BY <1>1, <1>3, <2>1, <2>3, <2>4, <2>5, <2>6, <2>7
<1>4. CASE runs # <<>>
  <2>1. runs' = runs /\ begun' = begun /\ Carrier(AnyTarget) = runs[Len(runs)]
    BY <1>4 DEF Carried, Carrier, Latest
  <2>2. Len(runs) \in DOMAIN runs /\ runs[Len(runs)] \in Run
    BY <1>1, <1>4
  <2>3. QED BY <1>1, <1>2, <2>1, <2>2
<1>5. QED
  BY <1>3, <1>4

(* The patrol says something. *)
LEMMA NoticeKeeps ==
    ASSUME Inv, Notice
    PROVE  Inv'
<1> DEFINE c == Carrier(AnyTarget)
<1>1. loop = Free /\ Carried(AnyTarget)
  BY DEF Notice
<1>2. /\ c \in Run /\ begun' \in 0..MaxRuns /\ begun <= begun'
      /\ runs' \in Seq(Run) /\ Distinct(runs')
      /\ \A j \in DOMAIN runs : j \in DOMAIN runs' /\ runs'[j] = runs[j]
      /\ \A j \in DOMAIN runs' : \/ j \in DOMAIN runs /\ runs'[j] = runs[j]
                                 \/ runs'[j].status = "noted"
      /\ \A j \in DOMAIN runs' : runs'[j].id <= begun'
      /\ \E j \in DOMAIN runs' : runs'[j].id = c.id
  BY <1>1, CarriedBy
<1>3. Await("notice", c, said', 0)
  BY DEF Notice
<1> HIDE DEF c
<1>4. notices' \in 0..MaxNotices /\ notices' \in Nat /\ notices' = notices + 1
  BY ConversationAssumption DEF Notice, Inv, Types
<1>5. said' \in Seq(Message)
  <2>1. [kind |-> "notice", of |-> notices + 1] \in Message
    BY <1>4 DEF Message
  <2>2. QED BY <2>1, Appended DEF Notice, Inv, Types
<1>6. /\ loop' \in [step : LoopSteps, row : Row, prev : {0} \cup Ids]
      /\ loop' # Free /\ loop'.row.run = c /\ loop'.step = "notice" /\ loop'.prev = 0
  BY <1>2, <1>3, <1>5, AwaitType DEF Inv, Types, LoopSteps
<1>7. loop' \in [step : LoopSteps, row : Row, prev : {0} \cup Ids] \cup {Free}
  BY <1>6
<1>8. /\ here' = here /\ told' = told /\ tasks' = tasks /\ rows' = rows /\ note' = note
      /\ finished' = finished /\ deaths' = deaths /\ failures' = failures /\ past' = past
  BY DEF Notice
<1>9. Types'
  BY <1>2, <1>4, <1>5, <1>7, <1>8, Same, Zenon DEF Types, Inv
<1>10. TasksRun'
  <2>1. \A j \in DOMAIN runs : runs[j].status = "running" =>
            runs[j].id \in tasks \/ failures > 0
    BY <1>1, Parts DEF Inv, TasksRun
  <2>2. \A i \in tasks : \E j \in DOMAIN runs : runs[j].id = i /\ runs[j].status = "running"
    BY TaskIsThere
  <2>3. QED BY <1>2, <1>8, <2>1, <2>2 DEF TasksRun
<1>11. Bookkeeping'
  <2>1. /\ DistinctRows(rows') /\ (\A j \in DOMAIN rows : rows[j].run.id <= begun)'
        /\ (note # Quiet => note.row.run.id <= begun)'
    <3>1. begun' \in Nat
      BY <1>2, ConversationAssumption
    <3>2. QED BY <1>2, <1>8, <3>1, Parts DEF Inv, Bookkeeping
  <2>2. QED BY <1>2, <1>6, <2>1 DEF Bookkeeping
<1>12. QED
  BY <1>9, <1>10, <1>11 DEF Inv

(* A result is told. *)
LEMMA TellKeeps ==
    ASSUME Inv, NEW p \in Repairs, Tell(p)
    PROVE  Inv'
<1> DEFINE c == Carrier(AnyTarget)
<1>1. Carried(AnyTarget)
  BY DEF Tell, TellNow
<1>2. /\ c \in Run /\ begun' \in 0..MaxRuns /\ begun <= begun'
      /\ runs' \in Seq(Run) /\ Distinct(runs')
      /\ \A j \in DOMAIN runs : j \in DOMAIN runs' /\ runs'[j] = runs[j]
      /\ \A j \in DOMAIN runs' : \/ j \in DOMAIN runs /\ runs'[j] = runs[j]
                                 \/ runs'[j].status = "noted"
      /\ \A j \in DOMAIN runs' : runs'[j].id <= begun'
      /\ \E j \in DOMAIN runs' : runs'[j].id = c.id
  BY <1>1, CarriedBy
<1>3. note' = [of |-> p, row |-> Copy(c, said', told')]
  BY DEF Tell, TellNow
<1> HIDE DEF c
<1>4. said' \in Seq(Message) /\ told' \in SUBSET Repairs
  <2>1. [kind |-> "result", of |-> p] \in Message
    BY DEF Message
  <2>2. QED BY <2>1, Appended DEF Tell, TellNow, Inv, Types
<1>5. /\ Copy(c, said', told') \in Row /\ Copy(c, said', told').run = c
  BY <1>2, <1>4, CopyIsRow
<1>6. /\ note' \in [of : Repairs, row : Row] \cup {Quiet}
      /\ note'.row.run = c
  BY <1>3, <1>5
<1>7. /\ here' = here /\ tasks' = tasks /\ rows' = rows /\ loop' = loop
      /\ finished' = finished /\ notices' = notices
      /\ deaths' = deaths /\ failures' = failures /\ past' = past
  BY DEF Tell, TellNow
<1>8. Types'
  BY <1>2, <1>4, <1>6, <1>7, Same, Zenon DEF Types, Inv
<1>9. TasksRun'
  <2>1. \A j \in DOMAIN runs : runs[j].status = "running" =>
            \/ runs[j].id \in tasks
            \/ loop.step = "goal" /\ loop.row.run.id = runs[j].id
            \/ failures > 0
    BY DEF Inv, TasksRun
  <2>2. \A i \in tasks : \E j \in DOMAIN runs : runs[j].id = i /\ runs[j].status = "running"
    BY TaskIsThere
  <2>3. QED BY <1>2, <1>7, <2>1, <2>2 DEF TasksRun
<1>10. Bookkeeping'
  <2>1. DistinctRows(rows') /\ (\A j \in DOMAIN rows : rows[j].run.id <= begun)'
    <3>1. begun' \in Nat
      BY <1>2, ConversationAssumption
    <3>2. QED BY <1>2, <1>7, <3>1, Parts DEF Inv, Bookkeeping
  <2>2. note'.row.run.id <= begun'
    BY <1>2, <1>6
  <2>3. loop # Free =>
          /\ \E j \in DOMAIN runs : /\ runs[j].id = loop.row.run.id
                                    /\ loop.step = "goal" => runs[j].status = "running"
          /\ loop.step = "goal" /\ loop.prev # 0 =>
                 \E j \in DOMAIN runs : runs[j].id = loop.prev
          /\ loop.step = "final" => loop.row.run.id \notin tasks
    BY DEF Inv, Bookkeeping
  <2>4. QED BY <1>2, <1>7, <2>1, <2>2, <2>3 DEF Bookkeeping
<1>11. QED
  BY <1>8, <1>9, <1>10 DEF Inv

(* What the history remembers of a row that was written. *)
LEMMA StoredType ==
    ASSUME Types, NEW row \in Row, past' = Stored(row)
    PROVE  past' \in [stored : SUBSET Message, crossed : BOOLEAN, mixed : BOOLEAN,
                      deleted : BOOLEAN]
<1>1. ToSet(row.said) \subseteq Message
  BY DEF ToSet, Row
<1>2. past.stored \cup ToSet(row.said) \in SUBSET Message
  BY <1>1 DEF Types
<1>3. QED
  BY <1>2 DEF Types, Stored

(* The write of the event loop is in the database. *)
LEMMA LoopWrittenKeeps ==
    ASSUME Inv, LoopWritten
    PROVE  Inv'
<1> DEFINE new == loop.row.run.id
<1>1. /\ loop # Free /\ loop.row \in Row /\ loop.row.run \in Run
      /\ new \in Nat /\ new \in Ids
  BY Parts DEF LoopWritten, Inv, Run
<1>2. rows' = Written(rows, loop.row) /\ past' = Stored(loop.row)
      /\ tasks' = IF loop.step = "goal" THEN tasks \cup {new} ELSE tasks
  BY DEF LoopWritten
<1>3. /\ here' = here /\ said' = said /\ told' = told /\ note' = note
      /\ finished' = finished /\ begun' = begun /\ notices' = notices
      /\ deaths' = deaths /\ failures' = failures
  BY DEF LoopWritten
<1>4. /\ rows' \in Seq(Row) /\ DistinctRows(rows')
      /\ \A j \in DOMAIN rows' : rows'[j] = loop.row \/ (j \in DOMAIN rows /\ rows'[j] = rows[j])
  BY <1>1, <1>2, WrittenRow DEF Inv, Types, Bookkeeping
<1>5. past' \in [stored : SUBSET Message, crossed : BOOLEAN, mixed : BOOLEAN,
                  deleted : BOOLEAN]
  BY <1>1, <1>2, StoredType DEF Inv
<1>6. tasks' \in SUBSET Ids
  BY <1>1, <1>2 DEF Inv, Types
<1>7. PICK k \in DOMAIN runs : runs[k].id = new /\ (loop.step = "goal" => runs[k].status = "running")
  BY <1>1 DEF Inv, Bookkeeping
<1>8. (\A j \in DOMAIN rows' : rows'[j].run.id <= begun) /\ (note # Quiet => note.row.run.id <= begun)
  BY <1>4, <1>7 DEF Inv, Bookkeeping
<1>9. CASE loop.step = "goal" /\ loop.prev # 0
  <2> DEFINE r == [RunOf(loop.prev) EXCEPT !.by = new]
  <2>1. PICK h \in DOMAIN runs : runs[h].id = loop.prev
    BY <1>1, <1>9 DEF Inv, Bookkeeping
  <2>2. RunOf(loop.prev) = runs[h] /\ runs[h] \in Run
    BY <2>1, RunIsThere, Parts DEF Inv
  <2>3. r \in Run /\ r.id = runs[h].id /\ r.status = runs[h].status
    BY <1>1, <2>2 DEF Run
  <2>4. runs' = Changed(runs, r) /\ Await("link", r, said, 0)
    BY <1>9 DEF LoopWritten
  <2> HIDE DEF r
  <2>5. Distinct(runs) /\ runs \in Seq(Run)
    BY DEF Inv, Bookkeeping, Types
  <2>6. /\ runs' \in Seq(Run) /\ DOMAIN runs' = DOMAIN runs /\ runs'[h] = r
        /\ \A j \in DOMAIN runs : j # h => runs'[j] = runs[j]
        /\ \A j \in DOMAIN runs : runs'[j].id = runs[j].id
        /\ Distinct(runs')
    BY <2>1, <2>3, <2>4, <2>5, ChangedRun
  <2>7. \A j \in DOMAIN runs : runs'[j].status = runs[j].status
    BY <2>3, <2>6
  <2>8. /\ loop' \in [step : LoopSteps, row : Row, prev : {0} \cup Ids]
        /\ loop' # Free /\ loop'.row.run = r /\ loop'.step = "link" /\ loop'.prev = 0
    BY <2>3, <2>4, AwaitType DEF Inv, Types, LoopSteps
  <2>9. loop' \in [step : LoopSteps, row : Row, prev : {0} \cup Ids] \cup {Free}
    BY <2>8
  <2>10. Types'
    BY <1>3, <1>4, <1>5, <1>6, <2>6, <2>9, Same, Zenon DEF Types, Inv
  <2>11. TasksRun'
    <3>1. \A i \in tasks' : \E j \in DOMAIN runs : runs[j].id = i /\ runs[j].status = "running"
      BY <1>2, <1>7, <1>9, TaskIsThere
    <3>2. \A j \in DOMAIN runs : runs[j].status = "running" =>
              runs[j].id \in tasks' \/ failures > 0
      BY <1>2, <1>9 DEF Inv, TasksRun
    <3>3. QED BY <1>3, <2>6, <2>7, <3>1, <3>2 DEF TasksRun
  <2>12. Bookkeeping'
    BY <1>3, <1>4, <1>8, <2>1, <2>3, <2>6, <2>8 DEF Inv, Bookkeeping
  <2>13. QED BY <2>10, <2>11, <2>12 DEF Inv
<1>10. CASE ~(loop.step = "goal" /\ loop.prev # 0)
  <2>1. loop' = Free /\ runs' = runs
    BY <1>10 DEF LoopWritten
  <2>2. loop' \in [step : LoopSteps, row : Row, prev : {0} \cup Ids] \cup {Free}
    BY <2>1
  <2>3. Types'
    BY <1>3, <1>4, <1>5, <1>6, <2>1, <2>2, Same, Zenon DEF Types, Inv
  <2>4. TasksRun'
    <3>1. \A i \in tasks' : \E j \in DOMAIN runs : runs[j].id = i /\ runs[j].status = "running"
      BY <1>2, <1>7, TaskIsThere
    <3>2. \A j \in DOMAIN runs : runs[j].status = "running" =>
              runs[j].id \in tasks' \/ failures > 0
      BY <1>2 DEF Inv, TasksRun
    <3>3. QED BY <1>3, <2>1, <3>1, <3>2 DEF TasksRun
  <2>5. Bookkeeping'
    BY <1>3, <1>4, <1>8, <2>1 DEF Inv, Bookkeeping
  <2>6. QED BY <2>3, <2>4, <2>5 DEF Inv
<1>11. QED
  BY <1>9, <1>10

(* The write of the event loop fails. *)
LEMMA LoopWriteFailsKeeps ==
    ASSUME Inv, LoopWriteFails
    PROVE  Inv'
<1>1. loop # Free /\ loop.row \in Row /\ loop.row.run \in Run
  BY Parts DEF LoopWriteFails, Inv
<1>2. failures' \in 0..MaxFailures /\ failures' > 0
  BY ConversationAssumption DEF LoopWriteFails, Inv, Types
<1>3. said' \in Seq(Message)
  BY DEF LoopWriteFails, Inv, Types, Front
<1>4. /\ here' = here /\ told' = told /\ tasks' = tasks /\ rows' = rows /\ note' = note
      /\ finished' = finished /\ begun' = begun /\ notices' = notices
      /\ deaths' = deaths /\ past' = past
  BY DEF LoopWriteFails
<1>5. PICK k \in DOMAIN runs : runs[k].id = loop.row.run.id
  BY <1>1 DEF Inv, Bookkeeping
<1>6. CASE loop.step = "final"
  <2> DEFINE r == [loop.row.run EXCEPT !.status = "failed"]
  <2>1. r \in Run /\ r.id = runs[k].id
    BY <1>1, <1>5 DEF Run, Statuses
  <2>2. runs' = Changed(runs, r) /\ Await("failed", r, said, 0)
    BY <1>6 DEF LoopWriteFails
  <2> HIDE DEF r
  <2>3. Distinct(runs) /\ runs \in Seq(Run) /\ runs[k].id \notin tasks
    BY <1>1, <1>5, <1>6 DEF Inv, Bookkeeping, Types
  <2>4. /\ runs' \in Seq(Run) /\ DOMAIN runs' = DOMAIN runs /\ runs'[k] = r
        /\ \A j \in DOMAIN runs : j # k => runs'[j] = runs[j]
        /\ \A j \in DOMAIN runs : runs'[j].id = runs[j].id
        /\ Distinct(runs')
    BY <2>1, <2>2, <2>3, ChangedRun
  <2>5. /\ loop' \in [step : LoopSteps, row : Row, prev : {0} \cup Ids]
        /\ loop' # Free /\ loop'.row.run = r /\ loop'.step = "failed" /\ loop'.prev = 0
    BY <2>1, <2>2, AwaitType DEF Inv, Types, LoopSteps
  <2>6. loop' \in [step : LoopSteps, row : Row, prev : {0} \cup Ids] \cup {Free}
    BY <2>5
  <2>7. Types'
    BY <1>2, <1>3, <1>4, <2>4, <2>6, Same, Zenon DEF Types, Inv
  <2>8. TasksRun'
    BY <1>2, <1>4, <2>3, <2>4 DEF Inv, TasksRun
  <2>9. Bookkeeping'
    BY <1>4, <2>1, <2>4, <2>5 DEF Inv, Bookkeeping
  <2>10. QED BY <2>7, <2>8, <2>9 DEF Inv
<1>7. CASE loop.step # "final"
  <2>1. loop' = Free /\ runs' = runs
    BY <1>7 DEF LoopWriteFails
  <2>2. loop' \in [step : LoopSteps, row : Row, prev : {0} \cup Ids] \cup {Free}
    BY <2>1
  <2>3. Types'
    BY <1>2, <1>3, <1>4, <2>1, <2>2, Same, Zenon DEF Types, Inv
  <2>4. TasksRun' /\ Bookkeeping'
    BY <1>2, <1>4, <2>1 DEF Inv, TasksRun, Bookkeeping
  <2>5. QED BY <2>3, <2>4 DEF Inv
<1>8. QED
  BY <1>6, <1>7

(* The conversation is deleted, or its rows are not. *)
LEMMA DeleteKeeps ==
    ASSUME Inv, Delete \/ DeleteFails
    PROVE  Inv'
<1>1. /\ said' = said /\ told' = told /\ runs' = runs /\ tasks' = tasks /\ loop' = loop
      /\ note' = note /\ finished' = finished /\ begun' = begun /\ notices' = notices
      /\ deaths' = deaths /\ loop = Free /\ here' \in BOOLEAN
  BY DEF Delete, DeleteFails
<1>2. rows' = <<>> \/ rows' = rows
  BY DEF Delete, DeleteFails
<1>3. rows' \in Seq(Row)
  <2>1. <<>> \in Seq(Row) /\ rows \in Seq(Row)
    BY DEF Inv, Types
  <2>2. QED BY <1>2, <2>1
<1>4. failures' \in 0..MaxFailures /\ failures' >= failures
  BY ConversationAssumption DEF Delete, DeleteFails, Inv, Types
<1>5. past' \in [stored : SUBSET Message, crossed : BOOLEAN, mixed : BOOLEAN,
                  deleted : BOOLEAN]
  <2>1. CASE Delete
    <3>1. past' = [past EXCEPT !.deleted = TRUE, !.stored = {}]
      BY <2>1, Zenon DEF Delete
    <3>2. QED BY <3>1, Zenon DEF Inv, Types
  <2>2. CASE DeleteFails
    BY <2>2 DEF DeleteFails, Inv, Types
  <2>3. QED BY <2>1, <2>2
<1>6. Types'
  BY <1>1, <1>3, <1>4, <1>5, Same, Zenon DEF Types, Inv
<1>7. TasksRun'
  <2>1. failures \in Nat /\ failures' \in Nat
    BY <1>4, ConversationAssumption DEF Inv, Types
  <2>2. QED BY <1>1, <1>4, <2>1 DEF Inv, TasksRun
<1>8. Bookkeeping'
  BY <1>1, <1>2 DEF Inv, Bookkeeping, DistinctRows
<1>9. QED
  BY <1>6, <1>7, <1>8 DEF Inv

(* A repair ends somewhere else. *)
LEMMA RepairEndsKeeps ==
    ASSUME Inv, NEW p \in Repairs, RepairEnds(p)
    PROVE  Inv'
<1>1. /\ here' = here /\ said' = said /\ told' = told /\ runs' = runs /\ tasks' = tasks
      /\ rows' = rows /\ loop' = loop /\ note' = note /\ begun' = begun
      /\ notices' = notices /\ deaths' = deaths /\ failures' = failures /\ past' = past
  BY DEF RepairEnds
<1>2. finished' \in SUBSET Repairs
  BY DEF RepairEnds, Inv, Types
<1>3. Types'
  BY <1>1, <1>2, Same, Zenon DEF Types, Inv
<1>4. TasksRun' /\ Bookkeeping'
  BY <1>1 DEF Inv, TasksRun, Bookkeeping
<1>5. QED
  BY <1>3, <1>4 DEF Inv

(* A result that was told is in the database. *)
LEMMA ToldWrittenKeeps ==
    ASSUME Inv, ToldWritten
    PROVE  Inv'
<1>1. /\ here' = here /\ said' = said /\ told' = told /\ runs' = runs /\ tasks' = tasks
      /\ loop' = loop /\ finished' = finished /\ begun' = begun
      /\ notices' = notices /\ deaths' = deaths /\ failures' = failures
      /\ note # Quiet /\ note' = Quiet
      /\ rows' = Written(rows, note.row) /\ past' = Stored(note.row)
  BY DEF ToldWritten
<1>2. note.row \in Row
  BY <1>1, Parts DEF Inv
<1>3. /\ rows' \in Seq(Row) /\ DistinctRows(rows')
      /\ \A j \in DOMAIN rows' : rows'[j] = note.row \/ (j \in DOMAIN rows /\ rows'[j] = rows[j])
  BY <1>1, <1>2, WrittenRow DEF Inv, Types, Bookkeeping
<1>4. past' \in [stored : SUBSET Message, crossed : BOOLEAN, mixed : BOOLEAN,
                  deleted : BOOLEAN]
  BY <1>1, <1>2, StoredType DEF Inv
<1>5. note' \in [of : Repairs, row : Row] \cup {Quiet}
  BY <1>1
<1>6. Types'
  BY <1>1, <1>3, <1>4, <1>5, Same, Zenon DEF Types, Inv
<1>7. TasksRun' /\ Bookkeeping'
  BY <1>1, <1>3 DEF Inv, TasksRun, Bookkeeping
<1>8. QED
  BY <1>6, <1>7 DEF Inv

(* A result that could not be written is taken back. *)
LEMMA ToldWriteFailsKeeps ==
    ASSUME Inv, ToldWriteFails
    PROVE  Inv'
<1>1. /\ here' = here /\ runs' = runs /\ tasks' = tasks /\ rows' = rows
      /\ loop' = loop /\ finished' = finished /\ begun' = begun
      /\ notices' = notices /\ deaths' = deaths /\ note' = Quiet
  BY DEF ToldWriteFails
<1>2. failures' \in 0..MaxFailures /\ failures' > 0
  BY ConversationAssumption DEF ToldWriteFails, Inv, Types
<1>3. said' \in Seq(Message)
  BY DEF ToldWriteFails, Inv, Types, Front
<1>4. told' \in SUBSET Repairs
  BY DEF ToldWriteFails, Inv, Types
<1>5. past' \in [stored : SUBSET Message, crossed : BOOLEAN, mixed : BOOLEAN,
                  deleted : BOOLEAN]
  <2>1. past' = past \/ past' = [past EXCEPT !.mixed = TRUE]
    BY Zenon DEF ToldWriteFails
  <2>2. QED BY <2>1, Zenon DEF Inv, Types
<1>6. note' \in [of : Repairs, row : Row] \cup {Quiet}
  BY <1>1
<1>7. Types'
  BY <1>1, <1>2, <1>3, <1>4, <1>5, <1>6, Same, Zenon DEF Types, Inv
<1>8. TasksRun' /\ Bookkeeping'
  BY <1>1, <1>2 DEF Inv, TasksRun, Bookkeeping
<1>9. QED
  BY <1>7, <1>8 DEF Inv

(* The program is started again: the rows keep their runs, and none of them *)
(* runs.                                                                   *)
LEMMA InterruptedRows ==
    ASSUME NEW t \in Seq(Row)
    PROVE  /\ Interrupted(t) \in Seq(Row) /\ DOMAIN Interrupted(t) = DOMAIN t
           /\ \A j \in DOMAIN t : /\ Interrupted(t)[j].run.id = t[j].run.id
                                  /\ Interrupted(t)[j].run.status # "running"
                                  /\ Interrupted(t)[j].said = t[j].said
                                  /\ Interrupted(t)[j].told = t[j].told
                                  /\ Interrupted(t)[j].run \in Run
<1> DEFINE f == Interrupted(t)
<1>1. DOMAIN f = DOMAIN t /\ f = [j \in DOMAIN t |-> f[j]]
  BY DEF Interrupted
<1>2. ASSUME NEW j \in DOMAIN t
      PROVE  /\ f[j] \in Row /\ f[j].run.id = t[j].run.id /\ f[j].run.status # "running"
             /\ f[j].said = t[j].said /\ f[j].told = t[j].told /\ f[j].run \in Run
  <2>1. t[j] \in Row /\ t[j].run \in Run
    <3>1. t[j] \in Row
      OBVIOUS
    <3>2. QED BY <3>1 DEF Row
  <2>2. CASE t[j].run.status = "running"
    <3> DEFINE q == [t[j] EXCEPT !.run.status = "interrupted"]
    <3>1. f[j] = q
      BY <2>2 DEF Interrupted
    <3>2. /\ q \in Row /\ q.run.id = t[j].run.id /\ q.run.status # "running"
          /\ q.said = t[j].said /\ q.told = t[j].told /\ q.run \in Run
      BY <2>1 DEF Row, Run, Statuses
    <3> HIDE DEF f, q
    <3>3. QED BY <3>1, <3>2, Zenon
  <2>3. CASE t[j].run.status # "running"
    <3>1. f[j] = t[j]
      BY <2>3 DEF Interrupted
    <3> HIDE DEF f
    <3>2. /\ t[j] \in Row /\ t[j].run.id = t[j].run.id /\ t[j].run.status # "running"
          /\ t[j].said = t[j].said /\ t[j].told = t[j].told /\ t[j].run \in Run
      BY <2>1, <2>3, Zenon
    <3>3. QED BY <3>1, <3>2, SMT
  <2>4. QED BY <2>2, <2>3
<1> HIDE DEF f
<1>3. f \in Seq(Row)
  BY <1>1, <1>2, SamePlaces
<1>4. QED
  BY <1>1, <1>2, <1>3 DEF f

(* The row a restart goes by is there, if there is one. *)
LEMMA RestoredIs ==
    ASSUME NEW t \in Seq(Row)
    PROVE  /\ t = <<>> => Restored(t).said = <<>> /\ Restored(t).told = {}
           /\ t # <<>> => /\ Len(t) \in DOMAIN t /\ Restored(t) = t[Len(t)]
                          /\ t[Len(t)] \in Row
           /\ Restored(t).said \in Seq(Message) /\ Restored(t).told \in SUBSET Repairs
<1>1. CASE t = <<>>
  <2>1. Restored(t) = [run |-> 0, said |-> <<>>, told |-> {}]
    BY <1>1 DEF Restored, Copy
  <2>2. Restored(t).said = <<>> /\ Restored(t).told = {}
    BY <2>1
  <2>3. <<>> \in Seq(Message) /\ {} \in SUBSET Repairs
    OBVIOUS
  <2>4. QED BY <1>1, <2>2, <2>3, Zenon
<1>2. CASE t # <<>>
  <2>1. Len(t) \in DOMAIN t /\ t[Len(t)] \in Row
    BY <1>2
  <2>2. Restored(t) = t[Len(t)]
    BY <1>2 DEF Restored
  <2>3. \A x \in Row : x.said \in Seq(Message) /\ x.told \in SUBSET Repairs
    BY DEF Row
  <2>4. QED BY <1>2, <2>1, <2>2, <2>3, Zenon
<1>3. QED
  BY <1>1, <1>2

(* A restart keeps the bookkeeping: it is read from the rows. *)
LEMMA RestartKeeps ==
    ASSUME Inv, Restart
    PROVE  Inv'
<1>1. /\ finished' = finished /\ begun' = begun /\ notices' = notices
      /\ failures' = failures /\ past' = past
      /\ tasks' = {} /\ loop' = Free /\ note' = Quiet
      /\ rows' = Interrupted(rows) /\ runs' = [j \in DOMAIN rows |-> rows'[j].run]
      /\ said' = Restored(rows).said /\ told' = Restored(rows).told
      /\ here' \in BOOLEAN
  BY DEF Restart
<1>2. rows \in Seq(Row)
  BY DEF Inv, Types
<1>3. /\ rows' \in Seq(Row) /\ DOMAIN rows' = DOMAIN rows
      /\ \A j \in DOMAIN rows : /\ rows'[j].run.id = rows[j].run.id
                                /\ rows'[j].run.status # "running"
                                /\ rows'[j].run \in Run
  BY <1>1, <1>2, InterruptedRows
<1>4. /\ runs' \in Seq(Run) /\ DOMAIN runs' = DOMAIN rows
      /\ \A j \in DOMAIN rows : runs'[j] = rows'[j].run
  BY <1>1, <1>2, <1>3, SamePlaces
<1>5. said' \in Seq(Message) /\ told' \in SUBSET Repairs
  BY <1>1, <1>2, RestoredIs
<1>6. deaths' \in 0..MaxDeaths
  BY ConversationAssumption DEF Restart, Inv, Types
<1>7. /\ tasks' \in SUBSET Ids
      /\ loop' \in [step : LoopSteps, row : Row, prev : {0} \cup Ids] \cup {Free}
      /\ note' \in [of : Repairs, row : Row] \cup {Quiet}
  BY <1>1
<1>8. Types'
  BY <1>1, <1>3, <1>4, <1>5, <1>6, <1>7, Same, Zenon DEF Types, Inv
<1>9. TasksRun'
  BY <1>1, <1>3, <1>4 DEF TasksRun
<1>10. Bookkeeping'
  BY <1>1, <1>3, <1>4 DEF Inv, Bookkeeping, Distinct, DistinctRows
<1>11. QED
  BY <1>8, <1>9, <1>10 DEF Inv

(* Every step keeps the invariant. *)
LEMMA StepKeeps ==
    ASSUME Inv, [ConversationNext]_talkVars
    PROVE  Inv'
<1>1. CASE UNCHANGED talkVars
  <2>1. /\ here' = here /\ said' = said /\ told' = told /\ runs' = runs /\ tasks' = tasks
        /\ rows' = rows /\ loop' = loop /\ note' = note /\ finished' = finished
        /\ begun' = begun /\ notices' = notices /\ deaths' = deaths
        /\ failures' = failures /\ past' = past
    BY <1>1 DEF talkVars
  <2>2. Types'
    BY <2>1, Same, Zenon DEF Types, Inv
  <2>3. TasksRun' /\ Bookkeeping'
    BY <2>1 DEF Inv, TasksRun, Bookkeeping
  <2>4. QED BY <2>2, <2>3 DEF Inv
<1>2. ASSUME NEW t \in Targets, StartRun(t) PROVE Inv'
  <2> DEFINE from == IF Pending(t) = {} THEN 0
                     ELSE runs[CHOOSE j \in Pending(t) : \A k \in Pending(t) : k <= j].id
  <2>1. from \in {0} \cup Ids /\ (from # 0 => \E j \in DOMAIN runs : runs[j].id = from)
    <3>1. CASE Pending(t) = {}
      BY <3>1
    <3>2. CASE Pending(t) # {}
      <4>1. PICK j \in Pending(t) : \A k \in Pending(t) : k <= j
        <5>1. runs \in Seq(Run) /\ Pending(t) \subseteq DOMAIN runs
          BY DEF Inv, Types, Pending
        <5>2. Pending(t) \subseteq 1..Len(runs) /\ Len(runs) \in Nat
          BY <5>1
        <5>3. QED BY <3>2, <5>2, LastPlace
      <4>2. from = runs[j].id \/ \E k \in Pending(t) : from = runs[k].id
        BY <3>2, <4>1
      <4>3. \A k \in Pending(t) : k \in DOMAIN runs /\ runs[k].id \in Ids
        BY Parts DEF Pending, Inv, Run
      <4>4. QED BY <4>2, <4>3
    <3>3. QED BY <3>1, <3>2
  <2>2. loop = Free /\ Begin(t, from)
    BY <1>2 DEF StartRun
  <2> HIDE DEF from
  <2>3. QED BY <2>1, <2>2, BeginKeeps
<1>3. ASSUME NEW j \in DOMAIN runs, ResumeRun(j) PROVE Inv'
  <2>1. runs[j].target \in Targets /\ runs[j].id \in Ids
    BY Parts DEF Inv, Run
  <2>2. loop = Free /\ Begin(runs[j].target, runs[j].id)
    BY <1>3 DEF ResumeRun
  <2>3. QED BY <2>1, <2>2, BeginKeeps
<1>4. ASSUME NEW i \in Ids, RunEnds(i) PROVE Inv'
  BY <1>4, AnswerKeeps, FailKeeps DEF RunEnds
<1>5. QED
  BY <1>1, <1>2, <1>3, <1>4, ProgressKeeps, NoticeKeeps, LoopWrittenKeeps,
     LoopWriteFailsKeeps, DeleteKeeps, RepairEndsKeeps, TellKeeps, ToldWrittenKeeps,
     ToldWriteFailsKeeps, RestartKeeps
     DEF ConversationNext, LoopWrite, ToldWrite

(* It holds at the start. *)
LEMMA InitKeeps == ConversationInit => Inv
<1> SUFFICES ASSUME ConversationInit PROVE Inv
  OBVIOUS
<1>1. /\ here = TRUE /\ said = <<>> /\ told = {} /\ runs = <<>> /\ tasks = {} /\ rows = <<>>
      /\ loop = Free /\ note = Quiet /\ finished = {}
      /\ begun = 0 /\ notices = 0 /\ deaths = 0 /\ failures = 0
  BY DEF ConversationInit
<1>2. said \in Seq(Message) /\ runs \in Seq(Run) /\ rows \in Seq(Row)
  BY <1>1
<1>3. begun \in 0..MaxRuns /\ notices \in 0..MaxNotices
      /\ deaths \in 0..MaxDeaths /\ failures \in 0..MaxFailures
  BY <1>1, ConversationAssumption
<1>4. past \in [stored : SUBSET Message, crossed : BOOLEAN, mixed : BOOLEAN, deleted : BOOLEAN]
  <2>1. past = [stored |-> {}, crossed |-> FALSE, mixed |-> FALSE, deleted |-> FALSE]
    BY DEF ConversationInit
  <2>2. {} \in SUBSET Message /\ FALSE \in BOOLEAN
    OBVIOUS
  <2>3. QED BY <2>1, <2>2, Zenon
<1>5. here \in BOOLEAN /\ told \in SUBSET Repairs /\ tasks \in SUBSET Ids /\ finished \in SUBSET Repairs
  BY <1>1
<1>6. /\ loop \in [step : LoopSteps, row : Row, prev : {0} \cup Ids] \cup {Free}
      /\ note \in [of : Repairs, row : Row] \cup {Quiet}
  BY <1>1
<1>7. Types
  BY <1>2, <1>3, <1>4, <1>5, <1>6, Zenon DEF Types
<1>8. TasksRun
  BY <1>1 DEF TasksRun
<1>9. Bookkeeping
  BY <1>1 DEF Bookkeeping, Distinct, DistinctRows
<1>10. QED
  BY <1>7, <1>8, <1>9 DEF Inv

(* However many runs, repairs, notices, restarts and failed writes there    *)
(* are, the conversation keeps its types, a coroutine belongs to a run that *)
(* runs, and no run runs without one but after a first write that is yet to *)
(* come or failed (agent/conversation.py, _start_run, _execute, _restore).  *)
THEOREM ConversationTyped == ConversationSpec => []ConversationTypeOK
<1>1. ConversationInit /\ [][ConversationNext]_talkVars => []Inv
  BY InitKeeps, StepKeeps, PTL
<1>2. Inv => ConversationTypeOK
  BY DEF Inv, ConversationTypeOK
<1>3. QED
  BY <1>1, <1>2, PTL DEF ConversationSpec

-----------------------------------------------------------------------------
(* A deleted conversation                                                  *)

(* Once it was deleted, and no row came back, nothing is in memory that     *)
(* could be written.                                                       *)
Gone == past.deleted /\ rows = <<>> => ~here /\ loop = Free

(* What a step does to the history. *)
LEMMA PastOf ==
    ASSUME Inv, ConversationNext
    PROVE  \/ past' = past
           \/ past' = [past EXCEPT !.crossed = TRUE]
           \/ past' = [past EXCEPT !.mixed = TRUE]
           \/ Delete \/ LoopWritten \/ ToldWritten
<1>1. ASSUME NEW t \in Targets, NEW from, Begin(t, from)
      PROVE  past' = past \/ past' = [past EXCEPT !.crossed = TRUE]
  BY <1>1, Zenon DEF Begin
<1>2. ASSUME NEW j \in DOMAIN runs, ResumeRun(j)
      PROVE  past' = past \/ past' = [past EXCEPT !.crossed = TRUE]
  <2>1. runs[j].target \in Targets
    BY Parts DEF Inv, Run
  <2>2. QED BY <1>1, <1>2, <2>1 DEF ResumeRun
<1>3. ASSUME NEW t \in Targets, StartRun(t)
      PROVE  past' = past \/ past' = [past EXCEPT !.crossed = TRUE]
  BY <1>1, <1>3 DEF StartRun
<1>4. ASSUME ToldWriteFails
      PROVE  past' = past \/ past' = [past EXCEPT !.mixed = TRUE]
  BY <1>4, Zenon DEF ToldWriteFails
<1>5. ASSUME NEW i \in Ids, SaveProgress(i) \/ RunEnds(i)
      PROVE  past' = past
  BY <1>5 DEF SaveProgress, RunEnds, Answer, Fail
<1>6. ASSUME NEW p \in Repairs, RepairEnds(p) \/ Tell(p)
      PROVE  past' = past
  BY <1>6 DEF RepairEnds, Tell, TellNow
<1>7. ASSUME Notice \/ LoopWriteFails \/ DeleteFails \/ Restart
      PROVE  past' = past
  BY <1>7 DEF Notice, LoopWriteFails, DeleteFails, Restart
<1>8. QED
  BY <1>2, <1>3, <1>4, <1>5, <1>6, <1>7 DEF ConversationNext, LoopWrite, ToldWrite

(* Only deleting makes it deleted. *)
LEMMA DeletedBefore ==
    ASSUME Inv, ConversationNext, past'.deleted, ~Delete
    PROVE  past.deleted \/ rows' # <<>>
<1>1. CASE past' = past
  BY <1>1
<1>2. CASE past' = [past EXCEPT !.crossed = TRUE] \/ past' = [past EXCEPT !.mixed = TRUE]
  <2>1. past'.deleted = past.deleted
    BY <1>2, Zenon DEF Inv, Types
  <2>2. QED BY <2>1
<1>3. CASE LoopWritten \/ ToldWritten
  <2>1. PICK row \in Row : rows' = Written(rows, row)
    BY <1>3, Parts DEF LoopWritten, ToldWritten, Inv
  <2>2. QED BY <2>1, WrittenRow DEF Inv, Types
<1>4. QED
  BY <1>1, <1>2, <1>3, PastOf

(* Nothing but a result that waits brings a deleted conversation back. *)
LEMMA GoneKeeps ==
    ASSUME Inv, Gone, [ConversationNext]_talkVars
    PROVE  /\ Gone'
           /\ past.deleted /\ rows = <<>> /\ note = Quiet => rows' = <<>> /\ ~here'
<1>1. CASE UNCHANGED talkVars
  BY <1>1 DEF talkVars, Gone
<1>2. CASE Delete
  BY <1>2 DEF Delete, Gone
<1>3. CASE ConversationNext /\ ~Delete
  <2>1. CASE past.deleted /\ rows = <<>>
    <3>1. ~here /\ loop = Free
      BY <2>1 DEF Gone
    <3>2. (rows' = <<>> /\ ~here' /\ loop' = Free) \/ ToldWritten
      <4>1. \A t \in Targets : ~StartRun(t)
        BY <3>1 DEF StartRun
      <4>2. \A j \in DOMAIN runs : ~ResumeRun(j)
        BY <3>1 DEF ResumeRun
      <4>3. ~Notice /\ ~LoopWrite /\ ~DeleteFails /\ \A i \in Ids : ~SaveProgress(i)
        BY <3>1 DEF Notice, LoopWrite, LoopWritten, LoopWriteFails, DeleteFails, SaveProgress
      <4>4. \A p \in Repairs : ~Tell(p)
        BY <3>1 DEF Tell, TellNow
      <4>5. ASSUME NEW i \in Ids, RunEnds(i) PROVE rows' = <<>> /\ ~here' /\ loop' = Free
        <5>1. rows' = rows /\ here' = here /\ (here \/ loop' = Free)
          <6>1. ASSUME NEW done \in BOOLEAN, Answer(i, done)
                PROVE  rows' = rows /\ here' = here /\ (here \/ loop' = Free)
            BY <6>1, Zenon DEF Answer
          <6>2. ASSUME Fail(i) PROVE rows' = rows /\ here' = here /\ (here \/ loop' = Free)
            BY <6>2, Zenon DEF Fail
          <6>3. QED BY <4>5, <6>1, <6>2, Zenon DEF RunEnds
        <5>2. QED BY <2>1, <3>1, <5>1, Zenon
      <4>6. ASSUME NEW p \in Repairs, RepairEnds(p)
            PROVE  rows' = <<>> /\ ~here' /\ loop' = Free
        BY <2>1, <3>1, <4>6 DEF RepairEnds
      <4>7. ASSUME ToldWriteFails PROVE rows' = <<>> /\ ~here' /\ loop' = Free
        BY <2>1, <3>1, <4>7 DEF ToldWriteFails
      <4>8. ASSUME Restart PROVE rows' = <<>> /\ ~here' /\ loop' = Free
        <5>1. DOMAIN Interrupted(rows) = DOMAIN rows /\ Interrupted(rows) \in Seq(Row)
          BY InterruptedRows DEF Inv, Types
        <5>2. Interrupted(rows) = <<>>
          BY <2>1, <5>1
        <5>3. rows' = Interrupted(rows) /\ loop' = Free
          BY <4>8, Zenon DEF Restart
        <5>4. here' = (rows # <<>>)
          BY <4>8, Zenon DEF Restart
        <5>5. QED BY <2>1, <5>2, <5>3, <5>4, Zenon
      <4>9. QED
        BY <1>3, <4>1, <4>2, <4>3, <4>4, <4>5, <4>6, <4>7, <4>8
           DEF ConversationNext, ToldWrite
    <3>3. CASE ToldWritten
      <4>1. rows' # <<>>
        BY <3>3, Parts, WrittenRow DEF ToldWritten, Inv, Types
      <4>2. QED BY <3>3, <4>1 DEF Gone, ToldWritten
    <3>4. QED BY <3>2, <3>3 DEF Gone
  <2>2. CASE ~(past.deleted /\ rows = <<>>)
    <3>1. ASSUME past'.deleted, rows' = <<>> PROVE rows = <<>>
      <4>1. ASSUME NEW row \in Row PROVE Written(rows, row) # <<>>
        BY WrittenRow DEF Inv, Types
      <4>2. ~LoopWritten /\ ~ToldWritten
        BY <3>1, <4>1, Parts DEF LoopWritten, ToldWritten, Inv
      <4>3. ASSUME Restart PROVE rows = <<>>
        <5>1. DOMAIN Interrupted(rows) = DOMAIN rows /\ rows \in Seq(Row)
          BY InterruptedRows DEF Inv, Types
        <5>2. Interrupted(rows) = <<>>
          BY <3>1, <4>3 DEF Restart
        <5>3. QED BY <5>1, <5>2
      <4>4. ASSUME NEW t \in Targets, StartRun(t) PROVE rows' = rows
        BY <4>4 DEF StartRun, Begin
      <4>5. ASSUME NEW j \in DOMAIN runs, ResumeRun(j) PROVE rows' = rows
        BY <4>5 DEF ResumeRun, Begin
      <4>6. ASSUME NEW i \in Ids, SaveProgress(i) \/ RunEnds(i) PROVE rows' = rows
        BY <4>6 DEF SaveProgress, RunEnds, Answer, Fail
      <4>7. ASSUME NEW p \in Repairs, RepairEnds(p) \/ Tell(p) PROVE rows' = rows
        BY <4>7 DEF RepairEnds, Tell, TellNow
      <4>8. ASSUME Notice \/ LoopWriteFails \/ DeleteFails \/ ToldWriteFails
            PROVE  rows' = rows
        BY <4>8 DEF Notice, LoopWriteFails, DeleteFails, ToldWriteFails
      <4>9. QED
        BY <1>3, <3>1, <4>2, <4>3, <4>4, <4>5, <4>6, <4>7, <4>8
           DEF ConversationNext, LoopWrite, ToldWrite
    <3>2. past'.deleted /\ rows' = <<>> => past.deleted
      BY <1>3, DeletedBefore
    <3>3. QED BY <2>2, <3>1, <3>2 DEF Gone
  <2>3. QED BY <2>1, <2>2
<1>4. QED
  BY <1>1, <1>2, <1>3

(* A conversation that was deleted is not written again, by no run that     *)
(* still works and by no result that is handed over; only a result that     *)
(* waited for the database when it was deleted brings it back               *)
(* (delete_thread, _persist).                                              *)
THEOREM DeletedIsGone == ConversationSpec => DeletedStaysDeleted
<1>1. ConversationInit => Gone
  <2>1. ConversationInit => loop = Free /\ here /\ rows = <<>> /\ ~past.deleted
    BY DEF ConversationInit
  <2>2. QED BY <2>1 DEF Gone
<1>2. Inv /\ Gone /\ [ConversationNext]_talkVars => Gone'
  BY GoneKeeps
<1>3. Inv /\ Gone /\ [ConversationNext]_talkVars =>
        [past.deleted /\ rows = <<>> /\ note = Quiet => rows' = <<>> /\ ~here']_talkVars
  BY GoneKeeps
<1>4. ConversationInit /\ [][ConversationNext]_talkVars => []Inv
  BY InitKeeps, StepKeeps, PTL
<1>5. QED
  BY <1>1, <1>2, <1>3, <1>4, PTL DEF ConversationSpec, DeletedStaysDeleted

-----------------------------------------------------------------------------
(* A result is told once                                                   *)

(* No result stands twice, and each that stands is marked as told. *)
Once(ms, ts) ==
    /\ \A j, k \in DOMAIN ms : ms[j] = ms[k] /\ ms[j].kind = "result" => j = k
    /\ \A j \in DOMAIN ms : ms[j].kind = "result" => ms[j].of \in ts

(* It is so in memory and in every copy of it; a notice that waits for the  *)
(* database is the last message, and a result that waits is the last        *)
(* result.                                                                 *)
Straight ==
    /\ Once(said, told)
    /\ \A j \in DOMAIN rows : Once(rows[j].said, rows[j].told)
    /\ loop # Free => Once(loop.row.said, loop.row.told)
    /\ note # Quiet => Once(note.row.said, note.row.told)
    /\ loop.step = "notice" => note = Quiet /\ said # <<>> /\ Last(said).kind = "notice"
    /\ note # Quiet /\ here =>
         \E k \in DOMAIN said :
            /\ said[k] = [kind |-> "result", of |-> note.of]
            /\ \A j \in DOMAIN said : said[j].kind = "result" => j <= k

(* Once two threads took each other's message back, that is remembered. *)
LEMMA MixedStays ==
    ASSUME Inv, ConversationNext, past.mixed
    PROVE  past'.mixed
<1>1. CASE past' = past
  BY <1>1
<1>2. CASE past' = [past EXCEPT !.crossed = TRUE]
  <2>1. past'.mixed = past.mixed
    BY <1>2, Zenon DEF Inv, Types
  <2>2. QED BY <2>1
<1>3. CASE past' = [past EXCEPT !.mixed = TRUE]
  <2>1. past'.mixed = TRUE
    BY <1>3, Zenon DEF Inv, Types
  <2>2. QED BY <2>1
<1>4. CASE Delete
  <2>1. past' = [past EXCEPT !.deleted = TRUE, !.stored = {}]
    BY <1>4, Zenon DEF Delete
  <2>2. past'.mixed = past.mixed
    BY <2>1, Zenon DEF Inv, Types
  <2>3. QED BY <2>2
<1>5. CASE LoopWritten \/ ToldWritten
  <2>1. PICK row : past' = Stored(row)
    BY <1>5 DEF LoopWritten, ToldWritten
  <2>2. past' = [past EXCEPT !.stored = @ \cup ToSet(row.said)]
    BY <2>1, Zenon DEF Stored
  <2>3. past'.mixed = past.mixed
    BY <2>2, Zenon DEF Inv, Types
  <2>4. QED BY <2>3
<1>6. QED
  BY <1>1, <1>2, <1>3, <1>4, <1>5, PastOf

(* Something that is no result is said. *)
LEMMA OnceMore ==
    ASSUME NEW ms \in Seq(Message), NEW ts, Once(ms, ts), NEW m \in Message,
           m.kind # "result"
    PROVE  Once(Append(ms, m), ts)
BY Appended DEF Once

(* A result that was not told is told. *)
LEMMA OnceTold ==
    ASSUME NEW ms \in Seq(Message), NEW ts, Once(ms, ts), NEW p \in Repairs, p \notin ts
    PROVE  Once(Append(ms, [kind |-> "result", of |-> p]), ts \cup {p})
<1> DEFINE m == [kind |-> "result", of |-> p]
<1>1. m \in Message /\ m.of = p
  BY DEF Message
<1> HIDE DEF m
<1>2. /\ DOMAIN Append(ms, m) = DOMAIN ms \cup {Len(ms) + 1} /\ Len(ms) + 1 \notin DOMAIN ms
      /\ Append(ms, m)[Len(ms) + 1] = m /\ \A j \in DOMAIN ms : Append(ms, m)[j] = ms[j]
  BY <1>1, Appended
<1>3. \A j \in DOMAIN ms : ms[j].kind = "result" => ms[j] # m
  BY <1>1 DEF Once
<1>4. Once(Append(ms, m), ts \cup {p})
  BY <1>1, <1>2, <1>3 DEF Once
<1>5. QED
  BY <1>4 DEF m

(* The last message is taken back. *)
LEMMA OnceLess ==
    ASSUME NEW ms \in Seq(Message), ms # <<>>, NEW ts, Once(ms, ts)
    PROVE  /\ Once(Front(ms), ts)
           /\ \A p : Last(ms) = [kind |-> "result", of |-> p] => Once(Front(ms), ts \ {p})
<1>1. /\ DOMAIN Front(ms) = DOMAIN ms \ {Len(ms)} /\ Len(ms) \in DOMAIN ms
      /\ Last(ms) = ms[Len(ms)] /\ \A j \in DOMAIN Front(ms) : Front(ms)[j] = ms[j]
  BY TakenBack
<1>2. Once(Front(ms), ts)
  BY <1>1 DEF Once
<1>3. ASSUME NEW p, Last(ms) = [kind |-> "result", of |-> p]
      PROVE  \A j \in DOMAIN Front(ms) : Front(ms)[j].kind = "result" => Front(ms)[j].of # p
  <2>1. ASSUME NEW j \in DOMAIN Front(ms), ms[j].kind = "result", ms[j].of = p
        PROVE  FALSE
    <3>1. ms[j] \in Message /\ j # Len(ms) /\ j \in DOMAIN ms
      BY <1>1
    <3>2. ms[j] = [kind |-> "result", of |-> p]
      BY <2>1, <3>1 DEF Message
    <3>3. QED BY <1>1, <1>3, <2>1, <3>1, <3>2 DEF Once
  <2>2. QED BY <1>1, <2>1
<1>4. QED
  BY <1>2, <1>3 DEF Once

(* What waits is a copy of what is in memory. *)
LEMMA AwaitOnce ==
    ASSUME NEW step, NEW r, NEW ms, NEW prev, Await(step, r, ms, prev), Once(ms, told)
    PROVE  Once(loop'.row.said, loop'.row.told) /\ loop'.step = step
<1>1. loop' = [step |-> step, row |-> [run |-> r, said |-> ms, told |-> told], prev |-> prev]
  BY DEF Await, Copy
<1>2. loop'.row.said = ms /\ loop'.row.told = told /\ loop'.step = step
  BY <1>1
<1>3. QED
  BY <1>2

(* Saying more leaves a result that waits the last result. *)
LEMMA SaidMore ==
    ASSUME Inv, Straight, NEW m \in Message, m.kind # "result", said' = Append(said, m),
           told' = told, note' = note, here' = here
    PROVE  /\ Once(said', told') /\ said' # <<>> /\ Last(said') = m
           /\ note' # Quiet /\ here' =>
                \E k \in DOMAIN said' :
                   /\ said'[k] = [kind |-> "result", of |-> note'.of]
                   /\ \A j \in DOMAIN said' : said'[j].kind = "result" => j <= k
<1>1. said \in Seq(Message)
  BY DEF Inv, Types
<1>2. /\ said' \in Seq(Message) /\ said' # <<>>
      /\ DOMAIN said' = DOMAIN said \cup {Len(said) + 1} /\ said'[Len(said) + 1] = m
      /\ \A j \in DOMAIN said : said'[j] = said[j]
  BY <1>1, Appended
<1>3. Once(said', told')
  BY <1>1, OnceMore DEF Straight
<1>4. Last(said') = m
  BY <1>1 DEF Last
<1>5. ASSUME note' # Quiet, here'
      PROVE  \E k \in DOMAIN said' :
                /\ said'[k] = [kind |-> "result", of |-> note'.of]
                /\ \A j \in DOMAIN said' : said'[j].kind = "result" => j <= k
  <2>1. PICK k \in DOMAIN said :
            /\ said[k] = [kind |-> "result", of |-> note.of]
            /\ \A j \in DOMAIN said : said[j].kind = "result" => j <= k
    BY <1>5 DEF Straight
  <2>2. QED BY <1>2, <2>1
<1>6. QED
  BY <1>2, <1>3, <1>4, <1>5

(* Where nothing is said and no note comes or goes, the last result stays.  *)
LEMMA SaidSame ==
    ASSUME Straight, said' = said, told' = told, note' = note, here' => here
    PROVE  /\ Once(said', told')
           /\ note' # Quiet => Once(note'.row.said, note'.row.told)
           /\ note' # Quiet /\ here' =>
                \E k \in DOMAIN said' :
                   /\ said'[k] = [kind |-> "result", of |-> note'.of]
                   /\ \A j \in DOMAIN said' : said'[j].kind = "result" => j <= k
BY DEF Straight

(* A row that is right leaves the rows right. *)
LEMMA RowsOnce ==
    ASSUME Inv, Straight, NEW row \in Row, Once(row.said, row.told),
           rows' = Written(rows, row)
    PROVE  \A j \in DOMAIN rows' : Once(rows'[j].said, rows'[j].told)
<1>1. rows \in Seq(Row)
  BY DEF Inv, Types
<1>2. \A j \in DOMAIN rows' : rows'[j] = row \/ (j \in DOMAIN rows /\ rows'[j] = rows[j])
  BY <1>1, WrittenRow
<1>3. \A j \in DOMAIN rows : Once(rows[j].said, rows[j].told)
  BY DEF Straight
<1>4. QED
  BY <1>2, <1>3

(* A question is asked. *)
LEMMA BeginStraight ==
    ASSUME Inv, Straight, NEW t \in Targets, NEW from, Begin(t, from)
    PROVE  Straight'
<1> DEFINE q == [kind |-> "asked", of |-> begun + 1]
<1>1. q \in Message /\ q.kind # "result"
  BY Parts DEF Inv, Message
<1>2. /\ said' = Append(said, q) /\ told' = told /\ note' = note /\ here' = here
      /\ rows' = rows
  BY DEF Begin
<1>3. PICK r : Await("goal", r, said', from)
  BY DEF Begin
<1> HIDE DEF q
<1>4. /\ Once(said', told')
      /\ note' # Quiet /\ here' =>
           \E k \in DOMAIN said' :
              /\ said'[k] = [kind |-> "result", of |-> note'.of]
              /\ \A j \in DOMAIN said' : said'[j].kind = "result" => j <= k
  BY <1>1, <1>2, SaidMore
<1>5. Once(loop'.row.said, loop'.row.told) /\ loop'.step = "goal"
  BY <1>2, <1>3, <1>4, AwaitOnce
<1>6. QED
  BY <1>2, <1>4, <1>5 DEF Straight

(* What a run did on the way is written. *)
LEMMA ProgressStraight ==
    ASSUME Inv, Straight, NEW i \in Ids, SaveProgress(i)
    PROVE  Straight'
<1>1. said' = said /\ told' = told /\ note' = note /\ here' = here /\ rows' = rows
  BY DEF SaveProgress
<1>2. Await("progress", RunOf(i), said, 0)
  BY DEF SaveProgress
<1>3. Once(loop'.row.said, loop'.row.told) /\ loop'.step = "progress"
  BY <1>2, AwaitOnce DEF Straight
<1>4. QED
  BY <1>1, <1>3, SaidSame DEF Straight

(* A run ends, with an answer or without. *)
LEMMA EndStraight ==
    ASSUME Inv, Straight, NEW i \in Ids, RunEnds(i)
    PROVE  Straight'
<1>1. ASSUME NEW done \in BOOLEAN, Answer(i, done) PROVE Straight'
  <2> DEFINE m == [kind |-> "answered", of |-> i]
  <2>1. m \in Message /\ m.kind # "result"
    BY DEF Message, Ids
  <2>2. told' = told /\ note' = note /\ here' = here /\ rows' = rows
    BY <1>1 DEF Answer
  <2>3. said' = IF here THEN Append(said, m) ELSE said
    BY <1>1, Zenon DEF Answer
  <2>4. PICK r : IF here THEN Await("final", r, said', 0) ELSE loop' = Free
    BY <1>1, Zenon DEF Answer
  <2> HIDE DEF m
  <2>5. /\ Once(said', told')
        /\ note' # Quiet /\ here' =>
             \E k \in DOMAIN said' :
                /\ said'[k] = [kind |-> "result", of |-> note'.of]
                /\ \A j \in DOMAIN said' : said'[j].kind = "result" => j <= k
    BY <2>1, <2>2, <2>3, SaidMore, SaidSame
  <2>6. loop' # Free => Once(loop'.row.said, loop'.row.told) /\ loop'.step = "final"
    BY <2>2, <2>4, <2>5, AwaitOnce
  <2>7. loop'.step # "notice"
    BY <2>6 DEF Free
  <2>8. QED BY <2>2, <2>5, <2>6, <2>7 DEF Straight
<1>2. ASSUME Fail(i) PROVE Straight'
  <2>1. said' = said /\ told' = told /\ note' = note /\ here' = here /\ rows' = rows
    BY <1>2 DEF Fail
  <2>2. PICK r : IF here THEN Await("failed", r, said, 0) ELSE loop' = Free
    BY <1>2, Zenon DEF Fail
  <2>3. loop' # Free => Once(loop'.row.said, loop'.row.told) /\ loop'.step = "failed"
    BY <2>2, AwaitOnce DEF Straight
  <2>4. loop'.step # "notice"
    BY <2>3 DEF Free
  <2>5. QED BY <2>1, <2>3, <2>4, SaidSame DEF Straight
<1>3. QED
  BY <1>1, <1>2, Zenon DEF RunEnds

(* The patrol says something. *)
LEMMA NoticeStraight ==
    ASSUME Inv, Straight, Notice
    PROVE  Straight'
<1> DEFINE m == [kind |-> "notice", of |-> notices + 1]
<1>1. m \in Message /\ m.kind # "result" /\ m.kind = "notice"
  <2>1. notices \in Nat
    BY ConversationAssumption DEF Inv, Types
  <2>2. QED BY <2>1 DEF Message
<1>2. /\ said' = Append(said, m) /\ told' = told /\ note' = note /\ here' = here
      /\ rows' = rows /\ note = Quiet /\ Await("notice", Carrier(AnyTarget), said', 0)
  BY DEF Notice
<1> HIDE DEF m
<1>3. Once(said', told') /\ said' # <<>> /\ Last(said') = m
  BY <1>1, <1>2, SaidMore
<1>4. Once(loop'.row.said, loop'.row.told)
  BY <1>2, <1>3, AwaitOnce
<1>5. QED
  BY <1>1, <1>2, <1>3, <1>4 DEF Straight

(* The write of the event loop succeeds. *)
LEMMA LoopWrittenStraight ==
    ASSUME Inv, Straight, LoopWritten
    PROVE  Straight'
<1>1. /\ said' = said /\ told' = told /\ note' = note /\ here' = here /\ loop # Free
      /\ rows' = Written(rows, loop.row)
  BY DEF LoopWritten
<1>2. loop.row \in Row /\ Once(loop.row.said, loop.row.told)
  BY <1>1, Parts DEF Inv, Straight
<1>3. \A j \in DOMAIN rows' : Once(rows'[j].said, rows'[j].told)
  BY <1>1, <1>2, RowsOnce
<1>4. loop' = Free \/ \E r : Await("link", r, said, 0)
  BY Zenon DEF LoopWritten
<1>5. loop' # Free => Once(loop'.row.said, loop'.row.told) /\ loop'.step = "link"
  BY <1>4, AwaitOnce DEF Straight
<1>6. loop'.step # "notice"
  BY <1>5 DEF Free
<1>7. QED
  BY <1>1, <1>3, <1>5, <1>6, SaidSame DEF Straight

(* It fails, and a notice is taken back. *)
LEMMA LoopWriteFailsStraight ==
    ASSUME Inv, Straight, LoopWriteFails
    PROVE  Straight'
<1>1. told' = told /\ note' = note /\ here' = here /\ rows' = rows
  BY DEF LoopWriteFails
<1>2. CASE loop.step = "notice"
  <2>1. said' = Front(said) /\ loop' = Free
    BY <1>2 DEF LoopWriteFails
  <2>2. note = Quiet /\ said # <<>> /\ said \in Seq(Message) /\ Once(said, told)
    BY <1>2 DEF Straight, Inv, Types
  <2>3. Once(said', told')
    BY <1>1, <2>1, <2>2, OnceLess
  <2>4. loop'.step # "notice"
    BY <2>1 DEF Free
  <2>5. QED BY <1>1, <2>1, <2>2, <2>3, <2>4 DEF Straight
<1>3. CASE loop.step # "notice"
  <2>1. said' = said
    BY <1>3 DEF LoopWriteFails
  <2>2. loop' = Free \/ \E r : Await("failed", r, said, 0)
    BY Zenon DEF LoopWriteFails
  <2>3. loop' # Free => Once(loop'.row.said, loop'.row.told) /\ loop'.step = "failed"
    BY <2>2, AwaitOnce DEF Straight
  <2>4. loop'.step # "notice"
    BY <2>3 DEF Free
  <2>5. QED BY <1>1, <2>1, <2>3, <2>4, SaidSame DEF Straight
<1>4. QED
  BY <1>2, <1>3

(* The conversation is deleted, or its rows are not. *)
LEMMA DeleteStraight ==
    ASSUME Inv, Straight, Delete \/ DeleteFails
    PROVE  Straight'
<1>1. said' = said /\ told' = told /\ note' = note /\ ~here' /\ loop' = loop
      /\ (rows' = <<>> \/ rows' = rows)
  BY DEF Delete, DeleteFails
<1>2. \A j \in DOMAIN rows' : Once(rows'[j].said, rows'[j].told)
  BY <1>1 DEF Straight
<1>3. QED
  BY <1>1, <1>2, SaidSame DEF Straight

(* A repair ends somewhere else. *)
LEMMA RepairEndsStraight ==
    ASSUME Inv, Straight, NEW p \in Repairs, RepairEnds(p)
    PROVE  Straight'
<1>1. said' = said /\ told' = told /\ note' = note /\ here' = here /\ loop' = loop
      /\ rows' = rows
  BY DEF RepairEnds
<1>2. QED
  BY <1>1 DEF Straight

(* A result is told that was not told before. *)
LEMMA TellStraight ==
    ASSUME Inv, Straight, NEW p \in Repairs, Tell(p)
    PROVE  Straight'
<1> DEFINE m == [kind |-> "result", of |-> p]
<1>1. /\ said' = Append(said, m) /\ told' = told \cup {p} /\ p \notin told
      /\ loop.step # "notice" /\ loop' = loop /\ rows' = rows
      /\ note' = [of |-> p, row |-> Copy(Carrier(AnyTarget), said', told')]
  BY DEF Tell, TellNow
<1>2. said \in Seq(Message) /\ Once(said, told) /\ m \in Message
  BY DEF Inv, Types, Straight, Message
<1>3. Once(said', told')
  BY <1>1, <1>2, OnceTold
<1>4. note'.of = p /\ note'.row.said = said' /\ note'.row.told = told'
  BY <1>1 DEF Copy
<1>5. \E k \in DOMAIN said' :
         said'[k] = m /\ \A j \in DOMAIN said' : said'[j].kind = "result" => j <= k
  <2> HIDE DEF m
  <2>1. DOMAIN said' = 1..(Len(said) + 1) /\ said'[Len(said) + 1] = m /\ Len(said) \in Nat
    BY <1>1, <1>2
  <2>2. QED BY <2>1
<1>6. QED
  BY <1>1, <1>3, <1>4, <1>5 DEF Straight

(* A result is in the database. *)
LEMMA ToldWrittenStraight ==
    ASSUME Inv, Straight, ToldWritten
    PROVE  Straight'
<1>1. /\ said' = said /\ told' = told /\ note' = Quiet /\ note # Quiet /\ loop' = loop
      /\ rows' = Written(rows, note.row)
  BY DEF ToldWritten
<1>2. note.row \in Row /\ Once(note.row.said, note.row.told)
  BY <1>1, Parts DEF Inv, Straight
<1>3. \A j \in DOMAIN rows' : Once(rows'[j].said, rows'[j].told)
  BY <1>1, <1>2, RowsOnce
<1>4. QED
  BY <1>1, <1>3 DEF Straight

(* It could not be written: its message and its mark go together. *)
LEMMA ToldWriteFailsStraight ==
    ASSUME Inv, Straight, ToldWriteFails, ~past'.mixed
    PROVE  Straight'
<1>1. rows' = rows /\ loop' = loop /\ note' = Quiet /\ note # Quiet
  BY DEF ToldWriteFails
<1>2. loop.step # "notice"
  BY <1>1 DEF Straight
<1>3. CASE ~here
  <2>1. said' = said /\ told' = told
    BY <1>3 DEF ToldWriteFails
  <2>2. QED BY <1>1, <1>2, <2>1 DEF Straight
<1>4. CASE here
  <2>1. said' = Front(said) /\ told' = told \ {note.of}
    BY <1>4 DEF ToldWriteFails
  <2>2. Last(said).kind = "result"
    <3>1. ASSUME Last(said).kind # "result" PROVE FALSE
      <4>1. past' = [past EXCEPT !.mixed = TRUE]
        BY <1>4, <3>1, Zenon DEF ToldWriteFails
      <4>2. past'.mixed = TRUE
        BY <4>1, Zenon DEF Inv, Types
      <4>3. QED BY <4>2
    <3>2. QED BY <3>1
  <2>3. PICK k \in DOMAIN said :
            /\ said[k] = [kind |-> "result", of |-> note.of]
            /\ \A j \in DOMAIN said : said[j].kind = "result" => j <= k
    BY <1>1, <1>4 DEF Straight
  <2>4. said \in Seq(Message) /\ Once(said, told)
    BY DEF Inv, Types, Straight
  <2>5. said # <<>> /\ Last(said) = said[Len(said)] /\ Len(said) \in DOMAIN said
    <3>1. said # <<>>
      BY <2>3
    <3>2. QED BY <2>4, <3>1, TakenBack
  <2>6. k = Len(said)
    BY <2>2, <2>3, <2>4, <2>5
  <2>7. Once(said', told')
    BY <2>1, <2>3, <2>4, <2>5, <2>6, OnceLess
  <2>8. QED BY <1>1, <1>2, <2>7 DEF Straight
<1>5. QED
  BY <1>3, <1>4

(* A restart goes by one of the rows, and each of them is right. *)
LEMMA RestartStraight ==
    ASSUME Inv, Straight, Restart
    PROVE  Straight'
<1>1. rows \in Seq(Row)
  BY DEF Inv, Types
<1>2. /\ loop' = Free /\ note' = Quiet /\ rows' = Interrupted(rows)
      /\ said' = Restored(rows).said /\ told' = Restored(rows).told
  BY DEF Restart
<1>3. \A j \in DOMAIN rows : Once(rows[j].said, rows[j].told)
  BY DEF Straight
<1>4. \A j \in DOMAIN rows' : Once(rows'[j].said, rows'[j].told)
  BY <1>1, <1>2, <1>3, InterruptedRows
<1>5. Once(said', told')
  <2>1. CASE rows = <<>>
    <3>1. said' = <<>>
      BY <1>1, <1>2, <2>1, RestoredIs
    <3>2. QED BY <3>1 DEF Once
  <2>2. CASE rows # <<>>
    <3>1. Len(rows) \in DOMAIN rows /\ said' = rows[Len(rows)].said /\ told' = rows[Len(rows)].told
      BY <1>1, <1>2, <2>2, RestoredIs
    <3>2. QED BY <1>3, <3>1
  <2>3. QED BY <2>1, <2>2
<1>6. loop'.step # "notice"
  BY <1>2 DEF Free
<1>7. QED
  BY <1>2, <1>4, <1>5, <1>6 DEF Straight

(* Every step leaves it straight, or mixed. *)
LEMMA StraightKeeps ==
    ASSUME Inv, past.mixed \/ Straight, [ConversationNext]_talkVars
    PROVE  past'.mixed \/ Straight'
<1>1. CASE UNCHANGED talkVars
  BY <1>1 DEF talkVars, Straight
<1>2. ASSUME ConversationNext, ~past'.mixed PROVE Straight'
  <2>1. Straight
    BY <1>2, MixedStays
  <2>2. ASSUME NEW t \in Targets, StartRun(t) PROVE Straight'
    BY <2>1, <2>2, BeginStraight DEF StartRun
  <2>3. ASSUME NEW j \in DOMAIN runs, ResumeRun(j) PROVE Straight'
    <3>1. runs[j].target \in Targets
      BY Parts DEF Inv, Run
    <3>2. QED BY <2>1, <2>3, <3>1, BeginStraight DEF ResumeRun
  <2>4. QED
    BY <1>2, <2>1, <2>2, <2>3, ProgressStraight, EndStraight, NoticeStraight,
       LoopWrittenStraight, LoopWriteFailsStraight, DeleteStraight, RepairEndsStraight,
       TellStraight, ToldWrittenStraight, ToldWriteFailsStraight, RestartStraight
       DEF ConversationNext, LoopWrite, ToldWrite
<1>3. QED
  BY <1>1, <1>2

(* However often the result of a repair is handed over, before and after    *)
(* restarts and failed writes, it stands in the conversation once at most,  *)
(* unless a write failed after something else was said (_append_note).      *)
THEOREM ResultToldOnce == ConversationSpec => []ToldOnce
<1>1. ConversationInit => Straight
  <2>1. ConversationInit => said = <<>> /\ rows = <<>> /\ loop = Free /\ note = Quiet
    BY DEF ConversationInit
  <2>2. QED BY <2>1 DEF Straight, Once, Free
<1>2. Inv /\ (past.mixed \/ Straight) /\ [ConversationNext]_talkVars =>
        (past.mixed \/ Straight)'
  BY StraightKeeps
<1>3. (past.mixed \/ Straight) => ToldOnce
  BY DEF ToldOnce, Straight, Once
<1>4. ConversationInit /\ [][ConversationNext]_talkVars => []Inv
  BY InitKeeps, StepKeeps, PTL
<1>5. QED
  BY <1>1, <1>2, <1>3, <1>4, PTL DEF ConversationSpec

-----------------------------------------------------------------------------
(* What was once in the database                                           *)

(* What was said, but for the results of repairs. *)
Talk(ms) == {m \in ToSet(ms) : m.kind # "result"}
StoredTalk == {m \in past.stored : m.kind # "result"}

Rising(s) == \A j, k \in DOMAIN s : j < k => s[j].id < s[k].id
RisingRows(t) == \A j, k \in DOMAIN t : j < k => t[j].run.id < t[k].run.id
NewestIn(t, id) == \A j \in DOMAIN t : t[j].run.id <= id
RowIn(t, id) == \E j \in DOMAIN t : t[j].run.id = id
RunIn(s, id) == \E j \in DOMAIN s : s[j].id = id
NewestOf(s, id) == \A j \in DOMAIN s : s[j].id <= id

(* Runs and rows stand in the order in which they were begun; only the      *)
(* latest run can be at work, and a run that is over has its row.           *)
Lined ==
    /\ RisingRows(rows)
    /\ here => /\ Rising(runs)
               /\ \A j \in DOMAIN rows : RunIn(runs, rows[j].run.id)
               /\ \A i \in tasks : NewestOf(runs, i) /\ RowIn(rows, i)
               /\ \A j \in DOMAIN runs :
                    runs[j].status \notin {"running", "noted"} => RowIn(rows, runs[j].id)

(* What the event loop is about to write is the latest run, or the task it  *)
(* took up, with everything that was said.                                  *)
LoopInOrder ==
    loop # Free =>
       /\ here
       /\ Talk(loop.row.said) = Talk(said)
       /\ loop.step # "link" => NewestOf(runs, loop.row.run.id)
       /\ loop.step = "goal" => /\ tasks = {} /\ note = Quiet
                                /\ loop.prev # 0 => RowIn(rows, loop.prev)
       /\ loop.step = "notice" => /\ note = Quiet /\ said # <<>>
                                  /\ StoredTalk \subseteq Talk(Front(said))
       /\ loop.step \in {"link", "progress"} => tasks # {}
       /\ loop.step \in {"link", "final"} => RowIn(rows, loop.row.run.id)
       /\ loop.step = "link" => Talk(said) \subseteq Talk(rows[Len(rows)].said)

(* So is a note, and the conversation is at rest until it is written. *)
NoteInOrder ==
    note # Quiet =>
       /\ tasks = {}
       /\ NewestIn(rows, note.row.run.id)
       /\ StoredTalk \subseteq Talk(note.row.said)
       /\ here => /\ NewestOf(runs, note.row.run.id) /\ RunIn(runs, note.row.run.id)
                  /\ said # <<>> /\ Last(said).kind = "result"
                  /\ Talk(note.row.said) = Talk(said)

Kept ==
    /\ rows # <<>> => StoredTalk \subseteq Talk(rows[Len(rows)].said)
    /\ here => StoredTalk \subseteq Talk(said)

InOneOrder == Lined /\ LoopInOrder /\ NoteInOrder /\ Kept

(* More is said. *)
LEMMA TalkMore ==
    ASSUME NEW ms \in Seq(Message), NEW m \in Message
    PROVE  /\ Append(ms, m) \in Seq(Message) /\ Append(ms, m) # <<>>
           /\ Last(Append(ms, m)) = m /\ Front(Append(ms, m)) = ms
           /\ Talk(ms) \subseteq Talk(Append(ms, m))
           /\ m.kind = "result" => Talk(Append(ms, m)) = Talk(ms)
<1>1. /\ Append(ms, m) \in Seq(Message) /\ Append(ms, m) # <<>>
      /\ DOMAIN Append(ms, m) = DOMAIN ms \cup {Len(ms) + 1}
      /\ Append(ms, m)[Len(ms) + 1] = m
      /\ \A j \in DOMAIN ms : Append(ms, m)[j] = ms[j]
  BY Appended
<1>2. Last(Append(ms, m)) = m /\ Front(Append(ms, m)) = ms
  BY DEF Last, Front
<1>3. ToSet(Append(ms, m)) = ToSet(ms) \cup {m}
  BY <1>1 DEF ToSet
<1>4. QED
  BY <1>1, <1>2, <1>3 DEF Talk

(* A result is taken back. *)
LEMMA TalkLess ==
    ASSUME NEW ms \in Seq(Message), ms # <<>>, Last(ms).kind = "result"
    PROVE  Front(ms) \in Seq(Message) /\ Talk(Front(ms)) = Talk(ms)
<1>1. /\ Front(ms) \in Seq(Message) /\ DOMAIN Front(ms) = DOMAIN ms \ {Len(ms)}
      /\ Len(ms) \in DOMAIN ms /\ Last(ms) = ms[Len(ms)]
      /\ \A j \in DOMAIN Front(ms) : Front(ms)[j] = ms[j]
  BY TakenBack
<1>2. ToSet(ms) = ToSet(Front(ms)) \cup {Last(ms)}
  BY <1>1 DEF ToSet
<1>3. QED
  BY <1>1, <1>2 DEF Talk

(* A write adds what it copies to what was stored. *)
LEMMA TalkStored ==
    ASSUME Inv, NEW row, past' = Stored(row)
    PROVE  StoredTalk' = StoredTalk \cup Talk(row.said) /\ past'.crossed = past.crossed
<1>1. past' = [past EXCEPT !.stored = @ \cup ToSet(row.said)]
  BY DEF Stored
<1>2. past'.stored = past.stored \cup ToSet(row.said) /\ past'.crossed = past.crossed
  BY <1>1, Zenon DEF Inv, Types
<1>3. QED
  BY <1>2 DEF StoredTalk, Talk

(* Rows stay in their order if the newest is written, or one that is there. *)
LEMMA WrittenOrder ==
    ASSUME NEW t \in Seq(Row), NEW row \in Row, RisingRows(t),
           NewestIn(t, row.run.id) \/ RowIn(t, row.run.id)
    PROVE  /\ RisingRows(Written(t, row)) /\ Written(t, row) # <<>>
           /\ RowIn(Written(t, row), row.run.id)
           /\ \A id : RowIn(t, id) => RowIn(Written(t, row), id)
           /\ \A j \in DOMAIN Written(t, row) :
                 Written(t, row)[j].run.id = row.run.id
                 \/ \E k \in DOMAIN t : t[k].run.id = Written(t, row)[j].run.id
           /\ NewestIn(t, row.run.id) => Written(t, row)[Len(Written(t, row))] = row
           /\ \/ Written(t, row)[Len(Written(t, row))] = row
              \/ t # <<>> /\ Written(t, row)[Len(Written(t, row))] = t[Len(t)]
<1>1. /\ \A j \in DOMAIN t : t[j] \in Row /\ t[j].run.id \in Nat
      /\ row.run.id \in Nat
  <2>1. \A x \in Row : x.run.id \in Nat
    BY DEF Row, Run, Ids
  <2>2. \A j \in DOMAIN t : t[j] \in Row
    OBVIOUS
  <2>3. QED BY <2>1, <2>2
<1>2. CASE RowIn(t, row.run.id)
  <2> DEFINE w == [j \in DOMAIN t |-> IF t[j].run.id = row.run.id THEN row ELSE t[j]]
  <2>1. Written(t, row) = w
    BY <1>2 DEF Written, RowIn
  <2>2. DOMAIN w = DOMAIN t /\ \A j \in DOMAIN t : w[j].run.id = t[j].run.id
    OBVIOUS
  <2>3. w \in Seq(Row) /\ Len(w) = Len(t) /\ Len(t) \in DOMAIN t
    <3>1. \A j \in DOMAIN t : w[j] \in Row
      BY <1>1
    <3>2. w \in Seq(Row)
      <4>1. w = [j \in DOMAIN t |-> w[j]]
        OBVIOUS
      <4> HIDE DEF w
      <4>2. QED BY <2>2, <3>1, <4>1, SamePlaces
    <3>3. Len(t) \in DOMAIN t
      BY <1>2 DEF RowIn
    <3> HIDE DEF w
    <3>4. QED BY <2>2, <3>2, <3>3
  <2>4. \A j \in DOMAIN t : w[j] = row \/ w[j] = t[j]
    OBVIOUS
  <2>5. NewestIn(t, row.run.id) => t[Len(t)].run.id = row.run.id
    <3> SUFFICES ASSUME NewestIn(t, row.run.id) PROVE t[Len(t)].run.id = row.run.id
      OBVIOUS
    <3>1. PICK k \in DOMAIN t : t[k].run.id = row.run.id
      BY <1>2 DEF RowIn
    <3>2. k = Len(t) \/ k < Len(t)
      OBVIOUS
    <3>3. t[Len(t)].run.id <= row.run.id
      BY <2>3 DEF NewestIn
    <3>4. QED BY <1>1, <2>3, <3>1, <3>2, <3>3 DEF RisingRows
  <2>6. t[Len(t)].run.id = row.run.id => w[Len(t)] = row
    BY <2>3
  <2> HIDE DEF w
  <2>7. RisingRows(w) /\ w # <<>>
    BY <2>2, <2>3 DEF RisingRows
  <2>8. \A id : RowIn(t, id) => RowIn(w, id)
    BY <2>2 DEF RowIn
  <2>9. QED
    BY <1>2, <2>1, <2>2, <2>3, <2>4, <2>5, <2>6, <2>7, <2>8
<1>3. CASE ~RowIn(t, row.run.id)
  <2> DEFINE w == Append(t, row)
  <2>1. Written(t, row) = w
    BY <1>3 DEF Written, RowIn
  <2>2. /\ w \in Seq(Row) /\ w # <<>> /\ DOMAIN w = DOMAIN t \cup {Len(t) + 1}
        /\ w[Len(t) + 1] = row /\ Len(w) = Len(t) + 1
        /\ \A j \in DOMAIN t : w[j] = t[j] /\ j < Len(t) + 1
    OBVIOUS
  <2> HIDE DEF w
  <2>3. \A j \in DOMAIN t : t[j].run.id < row.run.id
    BY <1>1, <1>3 DEF NewestIn, RowIn
  <2>4. RisingRows(w)
    <3> SUFFICES ASSUME NEW j \in DOMAIN w, NEW k \in DOMAIN w, j < k
                 PROVE  w[j].run.id < w[k].run.id
      BY DEF RisingRows
    <3>1. j \in DOMAIN t
      BY <2>2
    <3>2. CASE k \in DOMAIN t
      BY <2>2, <3>1, <3>2 DEF RisingRows
    <3>3. CASE k = Len(t) + 1
      BY <2>2, <2>3, <3>1, <3>3
    <3>4. QED BY <2>2, <3>2, <3>3
  <2>5. RowIn(w, row.run.id) /\ \A id : RowIn(t, id) => RowIn(w, id)
    BY <2>2 DEF RowIn
  <2>6. QED
    BY <2>1, <2>2, <2>4, <2>5
<1>4. QED
  BY <1>2, <1>3

(* The newest run is the last, and the runs before it are older. *)
LEMMA NewestIsLast ==
    ASSUME Inv, Rising(runs), NEW k \in DOMAIN runs, NewestOf(runs, runs[k].id)
    PROVE  k = Len(runs) /\ Latest = runs[k] /\ runs # <<>>
<1>1. runs \in Seq(Run) /\ \A j \in DOMAIN runs : runs[j].id \in Nat
  BY Parts DEF Inv, Types
<1>2. Len(runs) \in DOMAIN runs /\ runs # <<>>
  BY <1>1
<1>3. ~(k < Len(runs))
  BY <1>1, <1>2 DEF Rising, NewestOf
<1>4. k = Len(runs)
  BY <1>1, <1>3
<1>5. QED
  BY <1>2, <1>4 DEF Latest

LEMMA LastIsNewest ==
    ASSUME Inv, Rising(runs), runs # <<>>
    PROVE  NewestOf(runs, Latest.id) /\ RunIn(runs, Latest.id)
<1>1. runs \in Seq(Run) /\ \A j \in DOMAIN runs : runs[j].id \in Nat
  BY Parts DEF Inv, Types
<1>2. Len(runs) \in DOMAIN runs
  BY <1>1
<1>3. ASSUME NEW j \in DOMAIN runs PROVE runs[j].id <= runs[Len(runs)].id
  <2>1. j = Len(runs) \/ j < Len(runs)
    BY <1>1
  <2>2. QED BY <1>1, <1>2, <2>1 DEF Rising
<1>4. QED
  BY <1>2, <1>3 DEF Latest, NewestOf, RunIn

(* A conversation that is not answering is at rest. *)
LEMMA AtRest ==
    ASSUME Inv, InOneOrder, here, ~Answering
    PROVE  tasks = {} /\ loop.step \notin {"goal", "link", "progress"}
<1>1. ASSUME NEW k \in DOMAIN runs, NewestOf(runs, runs[k].id), runs[k].status = "running"
      PROVE  FALSE
  <2>1. Latest = runs[k] /\ runs # <<>>
    BY <1>1, NewestIsLast DEF InOneOrder, Lined
  <2>2. QED BY <1>1, <2>1 DEF Answering
<1>2. tasks = {}
  <2>1. ASSUME NEW i \in tasks PROVE FALSE
    <3>1. PICK k \in DOMAIN runs : runs[k].id = i /\ runs[k].status = "running"
      BY TaskIsThere
    <3>2. QED BY <1>1, <3>1 DEF InOneOrder, Lined
  <2>2. QED BY <2>1
<1>3. loop.step # "goal"
  <2>1. ASSUME loop.step = "goal" PROVE FALSE
    <3>1. loop # Free
      BY <2>1 DEF Free
    <3>2. PICK k \in DOMAIN runs : runs[k].id = loop.row.run.id /\ runs[k].status = "running"
      BY <2>1, <3>1 DEF Inv, Bookkeeping
    <3>3. NewestOf(runs, runs[k].id)
      BY <2>1, <3>1, <3>2 DEF InOneOrder, LoopInOrder
    <3>4. QED BY <1>1, <3>2, <3>3
  <2>2. QED BY <2>1
<1>4. loop.step \notin {"link", "progress"}
  BY <1>2 DEF Free, InOneOrder, LoopInOrder
<1>5. QED
  BY <1>2, <1>3, <1>4

(* What waits is a copy of what is in memory. *)
LEMMA AwaitIs ==
    ASSUME NEW step, step # "free", NEW r, NEW ms, NEW prev, Await(step, r, ms, prev)
    PROVE  /\ loop' # Free /\ loop'.step = step /\ loop'.prev = prev
           /\ loop'.row.run = r /\ loop'.row.said = ms
<1>1. loop' = [step |-> step, row |-> [run |-> r, said |-> ms, told |-> told], prev |-> prev]
  BY DEF Await, Copy
<1>2. QED
  BY <1>1 DEF Free

(* Nothing that was stored is lost where nothing is stored. *)
LEMMA SameStored ==
    ASSUME past' = past
    PROVE  StoredTalk' = StoredTalk
BY DEF StoredTalk

(* A run is begun while nothing else is at work. *)
LEMMA BeginOrder ==
    ASSUME Inv, InOneOrder, ~past'.crossed, here, loop = Free,
           NEW t \in Targets, NEW from, from # 0 => RowIn(rows, from), Begin(t, from)
    PROVE  InOneOrder'
<1> DEFINE r == [id |-> begun + 1, status |-> "running", done |-> FALSE, by |-> 0,
                 target |-> t]
           q == [kind |-> "asked", of |-> begun + 1]
<1>1. begun \in Nat /\ runs \in Seq(Run) /\ said \in Seq(Message)
      /\ \A j \in DOMAIN runs : runs[j].id \in Nat /\ runs[j].id <= begun
  BY Parts DEF Inv, Types, Bookkeeping
<1>2. r \in Run /\ r.id = begun + 1 /\ r.status = "running"
  <2>1. begun + 1 \in Ids
    BY ConversationAssumption DEF Begin, Inv, Types, Ids
  <2>2. QED BY <2>1 DEF Run, Statuses
<1>3. q \in Message
  BY <1>1 DEF Message
<1>4. /\ runs' = Append(runs, r) /\ said' = Append(said, q) /\ Await("goal", r, said', from)
      /\ here' = here /\ tasks' = tasks /\ rows' = rows /\ note' = note
  BY DEF Begin
<1>5. tasks = {} /\ note = Quiet /\ past' = past
  <2>1. ASSUME tasks # {} \/ note # Quiet PROVE FALSE
    <3>1. past' = [past EXCEPT !.crossed = TRUE]
      BY <2>1 DEF Begin
    <3>2. past'.crossed = TRUE
      BY <3>1, Zenon DEF Inv, Types
    <3>3. QED BY <3>2
  <2>2. QED BY <2>1 DEF Begin
<1> HIDE DEF r, q
<1>6. DOMAIN runs' = DOMAIN runs \cup {Len(runs) + 1} /\ Len(runs) + 1 \notin DOMAIN runs
      /\ runs'[Len(runs) + 1] = r
      /\ \A j \in DOMAIN runs : runs'[j] = runs[j] /\ j < Len(runs) + 1
  <2>1. \A j \in DOMAIN runs : j < Len(runs) + 1
    BY <1>1
  <2>2. QED BY <1>1, <1>2, <1>4, <2>1, Appended
<1>7. /\ loop' # Free /\ loop'.step = "goal" /\ loop'.prev = from
      /\ loop'.row.run = r /\ loop'.row.said = said'
  BY <1>4, AwaitIs
<1>8. Talk(said) \subseteq Talk(said')
  BY <1>1, <1>3, <1>4, TalkMore
<1>9. StoredTalk' = StoredTalk
  BY <1>5, SameStored
<1>10. Lined'
  <2>1. Rising(runs')
    <3> SUFFICES ASSUME NEW j \in DOMAIN runs', NEW k \in DOMAIN runs', j < k
                 PROVE  runs'[j].id < runs'[k].id
      BY DEF Rising
    <3>1. \A h \in DOMAIN runs : h \in Nat
      BY <1>1
    <3>2. j \in DOMAIN runs
      BY <1>1, <1>6, <3>1
    <3>3. CASE k \in DOMAIN runs
      BY <1>6, <3>2, <3>3 DEF InOneOrder, Lined, Rising
    <3>4. CASE k = Len(runs) + 1
      BY <1>1, <1>2, <1>6, <3>2, <3>4
    <3>5. QED BY <1>6, <3>3, <3>4
  <2>2. \A j \in DOMAIN rows' : RunIn(runs', rows'[j].run.id)
    BY <1>4, <1>6 DEF InOneOrder, Lined, RunIn
  <2>3. \A j \in DOMAIN runs' :
          runs'[j].status \notin {"running", "noted"} => RowIn(rows', runs'[j].id)
    BY <1>2, <1>4, <1>6 DEF InOneOrder, Lined
  <2>4. QED BY <1>4, <1>5, <2>1, <2>2, <2>3 DEF InOneOrder, Lined
<1>11. LoopInOrder'
  <2>1. NewestOf(runs', loop'.row.run.id)
    BY <1>1, <1>2, <1>6, <1>7 DEF NewestOf
  <2>2. QED BY <1>4, <1>5, <1>7, <2>1 DEF LoopInOrder
<1>12. NoteInOrder'
  BY <1>4, <1>5 DEF NoteInOrder
<1>13. Kept'
  BY <1>4, <1>8, <1>9 DEF InOneOrder, Kept
<1>14. QED
  BY <1>10, <1>11, <1>12, <1>13 DEF InOneOrder

(* What a run did on the way is written. *)
LEMMA ProgressOrder ==
    ASSUME Inv, InOneOrder, NEW i \in Ids, SaveProgress(i)
    PROVE  InOneOrder'
<1>1. /\ said' = said /\ runs' = runs /\ note' = note /\ here' = here /\ rows' = rows
      /\ tasks' = tasks /\ past' = past /\ i \in tasks /\ here
      /\ Await("progress", RunOf(i), said, 0)
  BY DEF SaveProgress
<1>2. RunOf(i).id = i
  BY <1>1, TaskIsThere
<1>3. /\ loop' # Free /\ loop'.step = "progress"
      /\ loop'.row.run = RunOf(i) /\ loop'.row.said = said
  BY <1>1, AwaitIs
<1>4. note = Quiet
  BY <1>1 DEF InOneOrder, NoteInOrder
<1>5. StoredTalk' = StoredTalk
  BY <1>1, SameStored
<1>6. Lined'
  BY <1>1 DEF InOneOrder, Lined, RunIn, NewestOf
<1>7. NewestOf(runs', loop'.row.run.id)
  BY <1>1, <1>2, <1>3 DEF InOneOrder, Lined, NewestOf
<1>8. LoopInOrder'
  BY <1>1, <1>3, <1>7 DEF LoopInOrder
<1>9. NoteInOrder' /\ Kept'
  BY <1>1, <1>4, <1>5 DEF InOneOrder, NoteInOrder, Kept
<1>10. QED
  BY <1>6, <1>8, <1>9 DEF InOneOrder

(* A run ends, and what it said last is about to be written. *)
LEMMA EndOrder ==
    ASSUME Inv, InOneOrder, loop = Free, NEW i \in tasks,
           NEW r \in Run, r.id = i, NEW step \in {"final", "failed"},
           tasks' = tasks \ {i}, runs' = Changed(runs, r),
           Talk(said) \subseteq Talk(said'),
           here => Await(step, r, said', 0), ~here => loop' = Free,
           here' = here, rows' = rows, note' = note, past' = past
    PROVE  InOneOrder'
<1>1. PICK k \in DOMAIN runs : runs[k].id = i /\ runs[k].status = "running"
  BY TaskIsThere
<1>2. /\ DOMAIN runs' = DOMAIN runs /\ runs'[k] = r
      /\ \A j \in DOMAIN runs : j # k => runs'[j] = runs[j]
      /\ \A j \in DOMAIN runs : runs'[j].id = runs[j].id
  <2>1. Distinct(runs) /\ runs \in Seq(Run)
    BY DEF Inv, Bookkeeping, Types
  <2>2. QED BY <1>1, <2>1, ChangedRun
<1>3. note = Quiet
  BY DEF InOneOrder, NoteInOrder
<1>4. StoredTalk' = StoredTalk
  BY SameStored
<1>5. here => NewestOf(runs, i) /\ RowIn(rows, i)
  BY DEF InOneOrder, Lined
<1>6. here => /\ loop' # Free /\ loop'.step = step
              /\ loop'.row.run = r /\ loop'.row.said = said'
  BY AwaitIs
<1>7. Lined'
  <2>1. here => Rising(runs')
    BY <1>2 DEF InOneOrder, Lined, Rising
  <2>2. here => \A j \in DOMAIN rows : RunIn(runs', rows[j].run.id)
    BY <1>2 DEF InOneOrder, Lined, RunIn
  <2>3. here => \A h \in tasks' : NewestOf(runs', h) /\ RowIn(rows, h)
    BY <1>2 DEF InOneOrder, Lined, NewestOf
  <2>4. here => \A j \in DOMAIN runs' :
          runs'[j].status \notin {"running", "noted"} => RowIn(rows, runs'[j].id)
    BY <1>1, <1>2, <1>5 DEF InOneOrder, Lined
  <2>5. QED BY <2>1, <2>2, <2>3, <2>4 DEF InOneOrder, Lined
<1>8. LoopInOrder'
  <2>1. here => NewestOf(runs', loop'.row.run.id) /\ RowIn(rows, loop'.row.run.id)
    BY <1>2, <1>5, <1>6 DEF NewestOf
  <2>2. CASE here
    BY <1>6, <2>1, <2>2 DEF LoopInOrder
  <2>3. CASE ~here
    BY <2>3 DEF LoopInOrder
  <2>4. QED BY <2>2, <2>3
<1>9. NoteInOrder' /\ Kept'
  BY <1>3, <1>4 DEF InOneOrder, NoteInOrder, Kept
<1>10. QED
  BY <1>7, <1>8, <1>9 DEF InOneOrder

LEMMA RunEndsOrder ==
    ASSUME Inv, InOneOrder, NEW i \in Ids, RunEnds(i)
    PROVE  InOneOrder'
<1>1. ASSUME NEW done \in BOOLEAN, Answer(i, done) PROVE InOneOrder'
  <2> DEFINE r == [RunOf(i) EXCEPT !.status = "completed", !.done = done]
             m == [kind |-> "answered", of |-> i]
  <2>1. /\ i \in tasks /\ loop = Free /\ tasks' = tasks \ {i} /\ runs' = Changed(runs, r)
        /\ here' = here /\ rows' = rows /\ note' = note /\ past' = past
    BY <1>1 DEF Answer
  <2>2. r \in Run /\ r.id = i
    <3>1. RunOf(i) \in Run /\ RunOf(i).id = i
      BY <2>1, TaskIsThere
    <3>2. QED BY <3>1 DEF Run, Statuses
  <2>3. /\ here => Await("final", r, said', 0) /\ said' = Append(said, m)
        /\ ~here => loop' = Free /\ said' = said
    BY <1>1, Zenon DEF Answer
  <2>4. Talk(said) \subseteq Talk(said')
    <3>1. m \in Message /\ said \in Seq(Message)
      BY DEF Message, Ids, Inv, Types
    <3> HIDE DEF m
    <3>2. QED BY <2>3, <3>1, TalkMore
  <2> HIDE DEF r, m
  <2>5. QED BY <2>1, <2>2, <2>3, <2>4, EndOrder
<1>2. ASSUME Fail(i) PROVE InOneOrder'
  <2> DEFINE r == [RunOf(i) EXCEPT !.status = "failed"]
  <2>1. /\ i \in tasks /\ loop = Free /\ tasks' = tasks \ {i} /\ runs' = Changed(runs, r)
        /\ here' = here /\ rows' = rows /\ note' = note /\ past' = past /\ said' = said
    BY <1>2 DEF Fail
  <2>2. r \in Run /\ r.id = i
    <3>1. RunOf(i) \in Run /\ RunOf(i).id = i
      BY <2>1, TaskIsThere
    <3>2. QED BY <3>1 DEF Run, Statuses
  <2>3. /\ here => Await("failed", r, said', 0)
        /\ ~here => loop' = Free
    BY <1>2, <2>1, Zenon DEF Fail
  <2> HIDE DEF r
  <2>4. QED BY <2>1, <2>2, <2>3, EndOrder
<1>3. QED
  BY <1>1, <1>2, Zenon DEF RunEnds

(* A note is carried by the latest run.                                     *)
LEMMA CarriedOrder ==
    ASSUME Inv, InOneOrder, here, here' = here, rows' = rows, tasks' = tasks,
           tasks = {}, Carried(AnyTarget)
    PROVE  /\ Lined'
           /\ NewestOf(runs', Carrier(AnyTarget).id) /\ RunIn(runs', Carrier(AnyTarget).id)
           /\ NewestIn(rows, Carrier(AnyTarget).id)
           /\ \A id : RunIn(runs, id) /\ NewestOf(runs, id) => NewestOf(runs', id)
<1>1. CASE runs = <<>>
  <2> DEFINE c == [id |-> begun + 1, status |-> "noted", done |-> FALSE, by |-> 0,
                   target |-> AnyTarget]
  <2>1. Carrier(AnyTarget) = c /\ runs' = <<c>> /\ c.status = "noted"
    BY <1>1 DEF Carrier, Carried
  <2>2. c.id = begun + 1 /\ begun + 1 \in Nat
    BY Parts DEF Inv
  <2> HIDE DEF c
  <2>3. DOMAIN runs' = {1} /\ runs'[1] = c
    BY <2>1
  <2>4. \A id : ~RunIn(runs, id)
    BY <1>1 DEF RunIn
  <2>5. DOMAIN rows = {}
    BY <2>4 DEF InOneOrder, Lined
  <2>6. NewestOf(runs', c.id) /\ RunIn(runs', c.id) /\ NewestIn(rows, c.id)
    BY <2>2, <2>3, <2>5 DEF NewestOf, RunIn, NewestIn
  <2>7. Lined'
    BY <2>1, <2>3, <2>5 DEF InOneOrder, Lined, Rising
  <2>8. QED BY <2>1, <2>4, <2>6, <2>7
<1>2. CASE runs # <<>>
  <2>1. runs' = runs /\ Carrier(AnyTarget) = Latest
    BY <1>2 DEF Carried, Carrier
  <2>2. NewestOf(runs, Latest.id) /\ RunIn(runs, Latest.id)
    BY <1>2, LastIsNewest DEF InOneOrder, Lined
  <2>3. NewestIn(rows, Latest.id)
    BY <2>2 DEF InOneOrder, Lined, RunIn, NewestOf, NewestIn
  <2>4. Lined'
    BY <2>1 DEF InOneOrder, Lined
  <2>5. QED BY <2>1, <2>2, <2>3, <2>4
<1>3. QED
  BY <1>1, <1>2

(* The patrol says something. *)
LEMMA NoticeOrder ==
    ASSUME Inv, InOneOrder, Notice
    PROVE  InOneOrder'
<1> DEFINE m == [kind |-> "notice", of |-> notices + 1]
           c == Carrier(AnyTarget)
<1>1. /\ said' = Append(said, m) /\ note' = note /\ here' = here /\ here /\ past' = past
      /\ rows' = rows /\ tasks' = tasks /\ note = Quiet /\ ~Answering /\ Carried(AnyTarget)
      /\ Await("notice", c, said', 0)
  BY DEF Notice
<1>2. m \in Message /\ said \in Seq(Message)
  <2>1. notices \in Nat
    BY ConversationAssumption DEF Inv, Types
  <2>2. QED BY <2>1 DEF Message, Inv, Types
<1> HIDE DEF m
<1>3. tasks = {}
  BY <1>1, AtRest
<1>4. Lined' /\ NewestOf(runs', c.id)
  BY <1>1, <1>3, CarriedOrder
<1> HIDE DEF c
<1>5. /\ loop' # Free /\ loop'.step = "notice" /\ loop'.row.run = c /\ loop'.row.said = said'
  BY <1>1, AwaitIs
<1>6. said' # <<>> /\ Front(said') = said /\ Talk(said) \subseteq Talk(said')
  BY <1>1, <1>2, TalkMore
<1>7. StoredTalk' = StoredTalk /\ StoredTalk \subseteq Talk(said)
  BY <1>1, SameStored DEF InOneOrder, Kept
<1>8. LoopInOrder'
  BY <1>1, <1>4, <1>5, <1>6, <1>7 DEF LoopInOrder
<1>9. NoteInOrder' /\ Kept'
  BY <1>1, <1>6, <1>7 DEF InOneOrder, NoteInOrder, Kept
<1>10. QED
  BY <1>4, <1>8, <1>9 DEF InOneOrder

(* A result is told. *)
LEMMA TellOrder ==
    ASSUME Inv, InOneOrder, NEW p \in Repairs, Tell(p)
    PROVE  InOneOrder'
<1> DEFINE m == [kind |-> "result", of |-> p]
           c == Carrier(AnyTarget)
<1>1. /\ said' = Append(said, m) /\ here' = here /\ here /\ past' = past /\ loop' = loop
      /\ rows' = rows /\ tasks' = tasks /\ note = Quiet /\ ~Answering /\ Carried(AnyTarget)
      /\ note' = [of |-> p, row |-> Copy(c, said', told')] /\ loop.step # "notice"
  BY DEF Tell, TellNow
<1>2. m \in Message /\ said \in Seq(Message) /\ m.kind = "result"
  BY DEF Message, Inv, Types
<1> HIDE DEF m
<1>3. tasks = {} /\ loop.step \notin {"goal", "link", "progress"}
  BY <1>1, AtRest
<1>4. /\ Lined' /\ NewestOf(runs', c.id) /\ RunIn(runs', c.id) /\ NewestIn(rows, c.id)
      /\ \A id : RunIn(runs, id) /\ NewestOf(runs, id) => NewestOf(runs', id)
  BY <1>1, <1>3, CarriedOrder
<1> HIDE DEF c
<1>5. note'.row.run = c /\ note'.row.said = said'
  BY <1>1 DEF Copy
<1>6. said' # <<>> /\ Last(said').kind = "result" /\ Talk(said') = Talk(said)
  BY <1>1, <1>2, TalkMore
<1>7. StoredTalk' = StoredTalk /\ StoredTalk \subseteq Talk(said)
  BY <1>1, SameStored DEF InOneOrder, Kept
<1>8. LoopInOrder'
  <2>1. CASE loop = Free
    BY <1>1, <2>1 DEF LoopInOrder
  <2>2. CASE loop # Free
    <3>1. RunIn(runs, loop.row.run.id)
      BY <2>2 DEF Inv, Bookkeeping, RunIn
    <3>2. NewestOf(runs', loop.row.run.id)
      BY <1>3, <1>4, <2>2, <3>1 DEF InOneOrder, LoopInOrder
    <3>3. QED BY <1>1, <1>3, <1>6, <2>2, <3>2 DEF InOneOrder, LoopInOrder
  <2>3. QED BY <2>1, <2>2
<1>9. NoteInOrder' /\ Kept'
  BY <1>1, <1>3, <1>4, <1>5, <1>6, <1>7 DEF InOneOrder, NoteInOrder, Kept
<1>10. QED
  BY <1>4, <1>8, <1>9 DEF InOneOrder

(* A write keeps the rows in their order, and the last of them has it all.  *)
LEMMA RowsOrder ==
    ASSUME Inv, InOneOrder, NEW row \in Row, rows' = Written(rows, row),
           past' = Stored(row), StoredTalk \subseteq Talk(row.said),
           \/ NewestIn(rows, row.run.id)
           \/ /\ RowIn(rows, row.run.id)
              /\ Talk(row.said) \subseteq Talk(rows[Len(rows)].said)
    PROVE  /\ RisingRows(rows') /\ RowIn(rows', row.run.id)
           /\ \A id : RowIn(rows, id) => RowIn(rows', id)
           /\ \A j \in DOMAIN rows' : rows'[j].run.id = row.run.id
                                      \/ RowIn(rows, rows'[j].run.id)
           /\ StoredTalk' = Talk(row.said)
           /\ StoredTalk' \subseteq Talk(rows'[Len(rows')].said)
<1>1. rows \in Seq(Row) /\ RisingRows(rows)
  BY DEF Inv, Types, InOneOrder, Lined
<1>2. /\ RisingRows(rows') /\ RowIn(rows', row.run.id)
      /\ \A id : RowIn(rows, id) => RowIn(rows', id)
      /\ \A j \in DOMAIN rows' : \/ rows'[j].run.id = row.run.id
                                 \/ \E k \in DOMAIN rows : rows[k].run.id = rows'[j].run.id
      /\ NewestIn(rows, row.run.id) => rows'[Len(rows')] = row
      /\ \/ rows'[Len(rows')] = row
         \/ rows # <<>> /\ rows'[Len(rows')] = rows[Len(rows)]
  BY <1>1, WrittenOrder
<1>3. StoredTalk' = StoredTalk \cup Talk(row.said)
  BY TalkStored
<1>4. StoredTalk' = Talk(row.said)
  BY <1>3
<1>5. StoredTalk' \subseteq Talk(rows'[Len(rows')].said)
  BY <1>2, <1>4
<1>6. \A j \in DOMAIN rows' : rows'[j].run.id = row.run.id \/ RowIn(rows, rows'[j].run.id)
  BY <1>2 DEF RowIn
<1>7. QED
  BY <1>2, <1>4, <1>5, <1>6

(* The newest run has no newer row. *)
LEMMA NewestRow ==
    ASSUME Inv, InOneOrder, here, NEW id, NewestOf(runs, id)
    PROVE  NewestIn(rows, id)
BY DEF InOneOrder, Lined, RunIn, NewestOf, NewestIn

(* The write of the event loop succeeds. *)
LEMMA LoopWrittenOrder ==
    ASSUME Inv, InOneOrder, LoopWritten
    PROVE  InOneOrder'
<1> DEFINE new == loop.row.run.id
<1>1. /\ said' = said /\ note' = note /\ here' = here /\ loop # Free
      /\ rows' = Written(rows, loop.row) /\ past' = Stored(loop.row)
      /\ tasks' = IF loop.step = "goal" THEN tasks \cup {new} ELSE tasks
  BY DEF LoopWritten
<1>2. /\ here /\ Talk(loop.row.said) = Talk(said) /\ StoredTalk \subseteq Talk(said)
      /\ loop.row \in Row /\ loop.step # "free"
  BY <1>1, Parts DEF InOneOrder, LoopInOrder, Kept, Inv, LoopSteps
<1>3. \/ NewestIn(rows, new)
      \/ /\ RowIn(rows, new)
         /\ Talk(loop.row.said) \subseteq Talk(rows[Len(rows)].said)
  BY <1>1, <1>2, NewestRow DEF InOneOrder, LoopInOrder
<1>4. /\ RisingRows(rows') /\ RowIn(rows', new)
      /\ \A id : RowIn(rows, id) => RowIn(rows', id)
      /\ \A j \in DOMAIN rows' : rows'[j].run.id = new \/ RowIn(rows, rows'[j].run.id)
      /\ StoredTalk' = Talk(loop.row.said)
      /\ StoredTalk' \subseteq Talk(rows'[Len(rows')].said)
  BY <1>1, <1>2, <1>3, RowsOrder
<1>5. RunIn(runs, new)
  BY <1>1 DEF Inv, Bookkeeping, RunIn
<1>6. /\ DOMAIN runs' = DOMAIN runs
      /\ \A j \in DOMAIN runs : /\ runs'[j].id = runs[j].id
                                /\ runs'[j].status = runs[j].status
  <2>1. CASE loop.step = "goal" /\ loop.prev # 0
    <3> DEFINE r == [RunOf(loop.prev) EXCEPT !.by = new]
    <3>1. PICK h \in DOMAIN runs : runs[h].id = loop.prev
      BY <1>1, <2>1 DEF Inv, Bookkeeping
    <3>2. RunOf(loop.prev) = runs[h] /\ runs[h] \in Run
      BY <3>1, RunIsThere, Parts DEF Inv
    <3>3. new \in Ids
      BY <1>1, Parts DEF Inv, Run
    <3>4. r \in Run /\ r.id = runs[h].id /\ r.status = runs[h].status
      BY <3>2, <3>3 DEF Run
    <3>5. runs' = Changed(runs, r)
      BY <2>1 DEF LoopWritten
    <3> HIDE DEF r
    <3>6. Distinct(runs) /\ runs \in Seq(Run)
      BY DEF Inv, Bookkeeping, Types
    <3>7. /\ DOMAIN runs' = DOMAIN runs /\ runs'[h] = r
          /\ \A j \in DOMAIN runs : j # h => runs'[j] = runs[j]
      BY <3>1, <3>4, <3>5, <3>6, ChangedRun
    <3>8. QED BY <3>4, <3>7
  <2>2. CASE ~(loop.step = "goal" /\ loop.prev # 0)
    BY <2>2 DEF LoopWritten
  <2>3. QED BY <2>1, <2>2
<1>7. \A id : /\ NewestOf(runs', id) <=> NewestOf(runs, id)
              /\ RunIn(runs', id) <=> RunIn(runs, id)
  BY <1>6 DEF NewestOf, RunIn
<1>8. Lined'
  <2>1. Rising(runs')
    BY <1>2, <1>6 DEF InOneOrder, Lined, Rising
  <2>2. \A j \in DOMAIN rows' : RunIn(runs', rows'[j].run.id)
    BY <1>2, <1>4, <1>5, <1>7 DEF InOneOrder, Lined, RowIn
  <2>3. \A i \in tasks' : NewestOf(runs', i) /\ RowIn(rows', i)
    <3>1. CASE loop.step = "goal"
      BY <1>1, <1>2, <1>4, <1>7, <3>1 DEF InOneOrder, Lined, LoopInOrder
    <3>2. CASE loop.step # "goal"
      BY <1>1, <1>2, <1>4, <1>7, <3>2 DEF InOneOrder, Lined
    <3>3. QED BY <3>1, <3>2
  <2>4. \A j \in DOMAIN runs' :
          runs'[j].status \notin {"running", "noted"} => RowIn(rows', runs'[j].id)
    BY <1>2, <1>4, <1>6 DEF InOneOrder, Lined
  <2>5. QED BY <1>4, <2>1, <2>2, <2>3, <2>4 DEF Lined
<1>9. LoopInOrder'
  <2>1. CASE loop.step = "goal" /\ loop.prev # 0
    <3>1. PICK r : Await("link", r, said, 0) /\ r = [RunOf(loop.prev) EXCEPT !.by = new]
      BY <2>1 DEF LoopWritten
    <3>2. r.id = loop.prev
      <4>1. PICK h \in DOMAIN runs : runs[h].id = loop.prev
        BY <1>1, <2>1 DEF Inv, Bookkeeping
      <4>2. RunOf(loop.prev) = runs[h] /\ runs[h] \in Run
        BY <4>1, RunIsThere, Parts DEF Inv
      <4>3. QED BY <3>1, <4>1, <4>2 DEF Run
    <3>3. loop' # Free /\ loop'.step = "link" /\ loop'.row.run = r /\ loop'.row.said = said
      BY <3>1, AwaitIs
    <3>4. RowIn(rows', loop'.row.run.id)
      BY <1>1, <1>4, <2>1, <3>2, <3>3 DEF InOneOrder, LoopInOrder
    <3>5. tasks' # {}
      BY <1>1, <2>1
    <3>6. Talk(said) \subseteq Talk(rows'[Len(rows')].said)
      BY <1>2, <1>4
    <3>7. QED BY <1>1, <1>2, <3>3, <3>4, <3>5, <3>6 DEF LoopInOrder
  <2>2. CASE ~(loop.step = "goal" /\ loop.prev # 0)
    <3>1. loop' = Free
      BY <2>2 DEF LoopWritten
    <3>2. QED BY <3>1 DEF LoopInOrder
  <2>3. QED BY <2>1, <2>2
<1>10. NoteInOrder'
  <2> SUFFICES ASSUME note # Quiet PROVE NoteInOrder'
    BY <1>1 DEF NoteInOrder
  <2>1. /\ tasks = {} /\ NewestIn(rows, note.row.run.id) /\ NewestOf(runs, note.row.run.id)
        /\ RunIn(runs, note.row.run.id) /\ said # <<>> /\ Last(said).kind = "result"
        /\ Talk(note.row.said) = Talk(said)
    BY <1>2 DEF InOneOrder, NoteInOrder
  <2>2. loop.step # "goal" /\ tasks' = {}
    BY <1>1, <2>1 DEF InOneOrder, LoopInOrder
  <2>3. new <= note.row.run.id
    BY <1>5, <2>1 DEF NewestOf, RunIn
  <2>4. NewestIn(rows', note.row.run.id)
    BY <1>4, <2>1, <2>3 DEF NewestIn, RowIn
  <2>5. QED BY <1>1, <1>2, <1>4, <1>7, <2>1, <2>2, <2>4 DEF NoteInOrder
<1>11. Kept'
  BY <1>1, <1>2, <1>4 DEF Kept
<1>12. QED
  BY <1>8, <1>9, <1>10, <1>11 DEF InOneOrder

(* It fails: nothing is lost that was stored, a notice was not.             *)
LEMMA LoopWriteFailsOrder ==
    ASSUME Inv, InOneOrder, LoopWriteFails
    PROVE  InOneOrder'
<1>1. /\ note' = note /\ here' = here /\ rows' = rows /\ tasks' = tasks /\ past' = past
      /\ loop # Free
  BY DEF LoopWriteFails
<1>2. StoredTalk' = StoredTalk /\ here
  BY <1>1, SameStored DEF InOneOrder, LoopInOrder
<1>3. CASE loop.step = "final"
  <2> DEFINE r == [loop.row.run EXCEPT !.status = "failed"]
  <2>1. runs' = Changed(runs, r) /\ Await("failed", r, said, 0) /\ said' = said
    BY <1>3 DEF LoopWriteFails
  <2>2. PICK k \in DOMAIN runs : runs[k].id = loop.row.run.id
    BY <1>1 DEF Inv, Bookkeeping
  <2>3. r \in Run /\ r.id = runs[k].id
    BY <1>1, <2>2, Parts DEF Inv, Run, Statuses
  <2> HIDE DEF r
  <2>4. /\ DOMAIN runs' = DOMAIN runs /\ runs'[k] = r
        /\ \A j \in DOMAIN runs : j # k => runs'[j] = runs[j]
        /\ \A j \in DOMAIN runs : runs'[j].id = runs[j].id
    <3>1. Distinct(runs) /\ runs \in Seq(Run)
      BY DEF Inv, Bookkeeping, Types
    <3>2. QED BY <2>1, <2>2, <2>3, <3>1, ChangedRun
  <2>5. \A id : /\ NewestOf(runs', id) <=> NewestOf(runs, id)
                /\ RunIn(runs', id) <=> RunIn(runs, id)
    BY <2>4 DEF NewestOf, RunIn
  <2>6. loop' # Free /\ loop'.step = "failed" /\ loop'.row.run = r /\ loop'.row.said = said
    BY <2>1, AwaitIs
  <2>7. RowIn(rows, r.id) /\ NewestOf(runs, r.id)
    BY <1>1, <1>3, <2>2, <2>3 DEF InOneOrder, LoopInOrder
  <2>8. Lined'
    <3>1. Rising(runs')
      BY <1>2, <2>4 DEF InOneOrder, Lined, Rising
    <3>2. \A j \in DOMAIN runs' :
            runs'[j].status \notin {"running", "noted"} => RowIn(rows, runs'[j].id)
      BY <1>2, <2>3, <2>4, <2>7 DEF InOneOrder, Lined
    <3>3. QED BY <1>1, <1>2, <2>5, <3>1, <3>2 DEF InOneOrder, Lined
  <2>9. LoopInOrder'
    BY <1>1, <1>2, <2>1, <2>5, <2>6, <2>7 DEF LoopInOrder
  <2>10. NoteInOrder'
    BY <1>1, <1>2, <2>1, <2>5 DEF InOneOrder, NoteInOrder
  <2>11. Kept'
    BY <1>1, <1>2, <2>1 DEF InOneOrder, Kept
  <2>12. QED BY <2>8, <2>9, <2>10, <2>11 DEF InOneOrder
<1>4. CASE loop.step = "notice"
  <2>1. runs' = runs /\ loop' = Free /\ said' = Front(said)
    BY <1>4 DEF LoopWriteFails
  <2>2. note = Quiet /\ StoredTalk \subseteq Talk(Front(said))
    BY <1>1, <1>4 DEF InOneOrder, LoopInOrder
  <2>3. Lined' /\ LoopInOrder'
    BY <1>1, <2>1 DEF InOneOrder, Lined, LoopInOrder
  <2>4. NoteInOrder' /\ Kept'
    BY <1>1, <1>2, <2>1, <2>2 DEF InOneOrder, NoteInOrder, Kept
  <2>5. QED BY <2>3, <2>4 DEF InOneOrder
<1>5. CASE loop.step \notin {"final", "notice"}
  <2>1. runs' = runs /\ loop' = Free /\ said' = said
    BY <1>5 DEF LoopWriteFails
  <2>2. Lined' /\ LoopInOrder'
    BY <1>1, <2>1 DEF InOneOrder, Lined, LoopInOrder
  <2>3. NoteInOrder' /\ Kept'
    BY <1>1, <1>2, <2>1 DEF InOneOrder, NoteInOrder, Kept
  <2>4. QED BY <2>2, <2>3 DEF InOneOrder
<1>6. QED
  BY <1>3, <1>4, <1>5

(* The conversation is deleted, or its rows are not. *)
LEMMA DeleteOrder ==
    ASSUME Inv, InOneOrder, Delete \/ DeleteFails
    PROVE  InOneOrder'
<1>1. said' = said /\ note' = note /\ tasks' = tasks /\ ~here' /\ loop' = Free
  BY DEF Delete, DeleteFails
<1>3. CASE DeleteFails
  <2>1. rows' = rows /\ past' = past
    BY <1>3 DEF DeleteFails
  <2>2. StoredTalk' = StoredTalk
    BY <2>1, SameStored
  <2>3. QED
    BY <1>1, <2>1, <2>2 DEF InOneOrder, Lined, LoopInOrder, NoteInOrder, Kept
<1>4. CASE Delete
  <2>1. rows' = <<>> /\ past' = [past EXCEPT !.deleted = TRUE, !.stored = {}]
    BY <1>4 DEF Delete
  <2>2. past'.stored = {}
    BY <2>1, Zenon DEF Inv, Types
  <2>3. StoredTalk' = {}
    BY <2>2 DEF StoredTalk
  <2>4. RisingRows(rows') /\ \A id : NewestIn(rows', id)
    BY <2>1 DEF RisingRows, NewestIn
  <2>5. QED
    BY <1>1, <2>1, <2>3, <2>4 DEF InOneOrder, Lined, LoopInOrder, NoteInOrder, Kept
<1>5. QED
  BY <1>3, <1>4

(* A result is in the database. *)
LEMMA ToldWrittenOrder ==
    ASSUME Inv, InOneOrder, ToldWritten
    PROVE  InOneOrder'
<1>1. /\ said' = said /\ note # Quiet /\ note' = Quiet /\ here' = here /\ loop' = loop
      /\ runs' = runs /\ tasks' = tasks
      /\ rows' = Written(rows, note.row) /\ past' = Stored(note.row)
  BY DEF ToldWritten
<1>2. /\ note.row \in Row /\ tasks = {} /\ NewestIn(rows, note.row.run.id)
      /\ StoredTalk \subseteq Talk(note.row.said)
      /\ here => RunIn(runs, note.row.run.id) /\ Talk(note.row.said) = Talk(said)
  BY <1>1, Parts DEF InOneOrder, NoteInOrder, Inv
<1>3. /\ RisingRows(rows') /\ \A id : RowIn(rows, id) => RowIn(rows', id)
      /\ \A j \in DOMAIN rows' : \/ rows'[j].run.id = note.row.run.id
                                 \/ RowIn(rows, rows'[j].run.id)
      /\ StoredTalk' = Talk(note.row.said)
      /\ StoredTalk' \subseteq Talk(rows'[Len(rows')].said)
  BY <1>1, <1>2, RowsOrder
<1>4. Lined'
  <2>1. here => \A j \in DOMAIN rows' : RunIn(runs, rows'[j].run.id)
    BY <1>2, <1>3 DEF InOneOrder, Lined, RowIn
  <2>2. QED BY <1>1, <1>2, <1>3, <2>1 DEF InOneOrder, Lined
<1>5. LoopInOrder'
  <2>1. loop # Free => here /\ loop.step \notin {"goal", "notice", "link", "progress"}
    BY <1>1, <1>2 DEF InOneOrder, LoopInOrder
  <2>2. loop # Free => /\ Talk(loop.row.said) = Talk(said)
                       /\ NewestOf(runs, loop.row.run.id)
                       /\ loop.step = "final" => RowIn(rows, loop.row.run.id)
    BY <2>1 DEF InOneOrder, LoopInOrder
  <2>3. QED BY <1>1, <1>3, <2>1, <2>2 DEF LoopInOrder
<1>6. NoteInOrder' /\ Kept'
  BY <1>1, <1>2, <1>3 DEF NoteInOrder, Kept
<1>7. QED
  BY <1>4, <1>5, <1>6 DEF InOneOrder

(* It could not be written, and nothing but the result is taken back. *)
LEMMA ToldWriteFailsOrder ==
    ASSUME Inv, InOneOrder, ToldWriteFails
    PROVE  InOneOrder'
<1>1. /\ note # Quiet /\ note' = Quiet /\ here' = here /\ loop' = loop
      /\ runs' = runs /\ tasks' = tasks /\ rows' = rows
      /\ said' = IF here THEN Front(said) ELSE said
  BY DEF ToldWriteFails
<1>2. StoredTalk' = StoredTalk
  <2>1. past'.stored = past.stored
    <3>1. past' = past \/ past' = [past EXCEPT !.mixed = TRUE]
      BY Zenon DEF ToldWriteFails
    <3>2. QED BY <3>1, Zenon DEF Inv, Types
  <2>2. QED BY <2>1 DEF StoredTalk
<1>3. here => Talk(said') = Talk(said)
  <2>1. said \in Seq(Message)
    BY DEF Inv, Types
  <2>2. here => said # <<>> /\ Last(said).kind = "result"
    BY <1>1 DEF InOneOrder, NoteInOrder
  <2>3. QED BY <1>1, <2>1, <2>2, TalkLess
<1>4. loop # Free => here /\ loop.step \notin {"notice", "goal"}
  BY <1>1 DEF InOneOrder, LoopInOrder
<1>5. Lined'
  BY <1>1 DEF InOneOrder, Lined
<1>6. LoopInOrder'
  BY <1>1, <1>3, <1>4 DEF InOneOrder, LoopInOrder
<1>7. NoteInOrder' /\ Kept'
  BY <1>1, <1>2, <1>3 DEF InOneOrder, NoteInOrder, Kept
<1>8. QED
  BY <1>5, <1>6, <1>7 DEF InOneOrder

(* A restart reads the rows in their order and goes by the last.            *)
LEMMA RestartOrder ==
    ASSUME Inv, InOneOrder, Restart
    PROVE  InOneOrder'
<1>1. rows \in Seq(Row)
  BY DEF Inv, Types
<1>2. /\ tasks' = {} /\ loop' = Free /\ note' = Quiet /\ past' = past
      /\ rows' = Interrupted(rows) /\ runs' = [j \in DOMAIN rows |-> rows'[j].run]
      /\ said' = Restored(rows).said /\ here' = (rows # <<>>)
  BY DEF Restart
<1>3. /\ rows' \in Seq(Row) /\ DOMAIN rows' = DOMAIN rows
      /\ \A j \in DOMAIN rows : /\ rows'[j].run.id = rows[j].run.id
                                /\ rows'[j].said = rows[j].said
  BY <1>1, <1>2, InterruptedRows
<1>4. DOMAIN runs' = DOMAIN rows /\ \A j \in DOMAIN rows : runs'[j] = rows'[j].run
  BY <1>2
<1>5. StoredTalk' = StoredTalk
  BY <1>2, SameStored
<1>6. Lined'
  <2>1. RisingRows(rows') /\ Rising(runs')
    BY <1>3, <1>4 DEF InOneOrder, Lined, RisingRows, Rising
  <2>2. \A j \in DOMAIN rows' : RunIn(runs', rows'[j].run.id)
    BY <1>3, <1>4 DEF RunIn
  <2>3. \A j \in DOMAIN runs' : RowIn(rows', runs'[j].id)
    BY <1>3, <1>4 DEF RowIn
  <2>4. QED BY <1>2, <2>1, <2>2, <2>3 DEF Lined
<1>7. LoopInOrder' /\ NoteInOrder'
  BY <1>2 DEF LoopInOrder, NoteInOrder
<1>8. Kept'
  <2>1. CASE rows = <<>>
    <3>1. DOMAIN rows' = {}
      BY <1>3, <2>1
    <3>2. \A t \in Seq(Row) : DOMAIN t = {} => t = <<>>
      OBVIOUS
    <3>3. rows' = <<>> /\ ~here'
      BY <1>2, <1>3, <2>1, <3>1, <3>2
    <3>4. QED BY <3>3 DEF Kept
  <2>2. CASE rows # <<>>
    <3>1. Len(rows) \in DOMAIN rows /\ said' = rows[Len(rows)].said /\ Len(rows') = Len(rows)
      BY <1>1, <1>2, <1>3, <2>2, RestoredIs
    <3>2. StoredTalk \subseteq Talk(rows[Len(rows)].said)
      BY <2>2 DEF InOneOrder, Kept
    <3>3. rows'[Len(rows')].said = rows[Len(rows)].said
      BY <1>3, <3>1
    <3>4. QED BY <1>5, <3>1, <3>2, <3>3 DEF Kept
  <2>3. QED BY <2>1, <2>2
<1>9. QED
  BY <1>6, <1>7, <1>8 DEF InOneOrder

(* Two things at once are remembered. *)
LEMMA CrossedStays ==
    ASSUME Inv, ConversationNext, past.crossed
    PROVE  past'.crossed
<1>1. CASE past' = past
  BY <1>1
<1>2. CASE past' = [past EXCEPT !.crossed = TRUE]
  <2>1. past'.crossed = TRUE
    BY <1>2, Zenon DEF Inv, Types
  <2>2. QED BY <2>1
<1>3. CASE past' = [past EXCEPT !.mixed = TRUE]
  <2>1. past'.crossed = past.crossed
    BY <1>3, Zenon DEF Inv, Types
  <2>2. QED BY <2>1
<1>4. CASE Delete
  <2>1. past' = [past EXCEPT !.deleted = TRUE, !.stored = {}]
    BY <1>4, Zenon DEF Delete
  <2>2. past'.crossed = past.crossed
    BY <2>1, Zenon DEF Inv, Types
  <2>3. QED BY <2>2
<1>5. CASE LoopWritten \/ ToldWritten
  <2>1. PICK row : past' = Stored(row)
    BY <1>5 DEF LoopWritten, ToldWritten
  <2>2. QED BY <2>1, TalkStored
<1>6. QED
  BY <1>1, <1>2, <1>3, <1>4, <1>5, PastOf

(* What is resumed is over, and so has its row.                             *)
LEMMA ResumedHasRow ==
    ASSUME Inv, InOneOrder, here
    PROVE  /\ \A j \in DOMAIN runs : runs[j].status \notin {"running", "noted"} =>
                 RowIn(rows, runs[j].id)
           /\ \A t : Pending(t) # {} =>
                 RowIn(rows, runs[CHOOSE j \in Pending(t) : \A k \in Pending(t) : k <= j].id)
<1>1. \A j \in DOMAIN runs : runs[j].status \notin {"running", "noted"} =>
          RowIn(rows, runs[j].id)
  BY DEF InOneOrder, Lined
<1>2. ASSUME NEW t, Pending(t) # {}
      PROVE  RowIn(rows, runs[CHOOSE j \in Pending(t) : \A k \in Pending(t) : k <= j].id)
  <2>1. Pending(t) \subseteq DOMAIN runs
        /\ \A j \in Pending(t) : runs[j].status = "interrupted"
    BY DEF Pending
  <2>2. \E j \in Pending(t) : \A k \in Pending(t) : k <= j
    <3>1. Pending(t) \subseteq 1..Len(runs) /\ Len(runs) \in Nat
      <4>1. runs \in Seq(Run)
        BY DEF Inv, Types
      <4>2. QED BY <2>1, <4>1
    <3>2. QED BY <1>2, <3>1, LastPlace
  <2>3. (CHOOSE j \in Pending(t) : \A k \in Pending(t) : k <= j) \in Pending(t)
    BY <2>2, Zenon
  <2>4. QED BY <1>1, <2>1, <2>3
<1>3. QED
  BY <1>1, <1>2

(* Every step keeps the order, or crosses. *)
LEMMA OrderKeeps ==
    ASSUME Inv, past.crossed \/ InOneOrder, [ConversationNext]_talkVars
    PROVE  past'.crossed \/ InOneOrder'
<1>1. CASE UNCHANGED talkVars
  BY <1>1, SameStored DEF talkVars, InOneOrder, Lined, LoopInOrder, NoteInOrder, Kept
<1>2. ASSUME ConversationNext, ~past'.crossed PROVE InOneOrder'
  <2>1. InOneOrder
    BY <1>2, CrossedStays
  <2>2. ASSUME NEW t \in Targets, StartRun(t) PROVE InOneOrder'
    <3> DEFINE from == IF Pending(t) = {} THEN 0
                       ELSE runs[CHOOSE j \in Pending(t) : \A k \in Pending(t) : k <= j].id
    <3>1. here /\ loop = Free /\ Begin(t, from)
      BY <2>2 DEF StartRun
    <3>2. from # 0 => RowIn(rows, from)
      BY <2>1, <3>1, ResumedHasRow
    <3> HIDE DEF from
    <3>3. QED BY <1>2, <2>1, <3>1, <3>2, BeginOrder
  <2>3. ASSUME NEW j \in DOMAIN runs, ResumeRun(j) PROVE InOneOrder'
    <3>1. /\ here /\ loop = Free /\ Begin(runs[j].target, runs[j].id)
          /\ runs[j].status \notin {"running", "noted"}
      BY <2>3 DEF ResumeRun
    <3>2. runs[j].target \in Targets
      BY Parts DEF Inv, Run
    <3>3. RowIn(rows, runs[j].id)
      BY <2>1, <3>1, ResumedHasRow
    <3>4. QED BY <1>2, <2>1, <3>1, <3>2, <3>3, BeginOrder
  <2>4. ASSUME NEW p \in Repairs, RepairEnds(p) PROVE InOneOrder'
    BY <2>1, <2>4, SameStored
       DEF RepairEnds, InOneOrder, Lined, LoopInOrder, NoteInOrder, Kept
  <2>5. QED
    BY <1>2, <2>1, <2>2, <2>3, <2>4, ProgressOrder, RunEndsOrder, NoticeOrder,
       LoopWrittenOrder, LoopWriteFailsOrder, DeleteOrder, TellOrder, ToldWrittenOrder,
       ToldWriteFailsOrder, RestartOrder DEF ConversationNext, LoopWrite, ToldWrite
<1>3. QED
  BY <1>1, <1>2

(* However often the program dies and writes fail, what a conversation that *)
(* did one thing at a time once had in the database is in the row that a    *)
(* restart goes by (_persist, _restore).                                    *)
THEOREM StoredTalkIsKept == ConversationSpec => []SaidIsKept
<1>1. ConversationInit => InOneOrder
  <2> SUFFICES ASSUME ConversationInit PROVE InOneOrder
    OBVIOUS
  <2>1. /\ rows = <<>> /\ runs = <<>> /\ tasks = {} /\ loop = Free /\ note = Quiet
        /\ past.stored = {}
    BY DEF ConversationInit
  <2>2. StoredTalk = {}
    BY <2>1 DEF StoredTalk
  <2>3. Lined
    BY <2>1 DEF Lined, RisingRows, Rising
  <2>4. QED BY <2>1, <2>2, <2>3 DEF InOneOrder, LoopInOrder, NoteInOrder, Kept
<1>2. Inv /\ (past.crossed \/ InOneOrder) /\ [ConversationNext]_talkVars =>
        (past.crossed \/ InOneOrder)'
  BY OrderKeeps
<1>3. (past.crossed \/ InOneOrder) => SaidIsKept
  <2> SUFFICES ASSUME InOneOrder, rows # <<>>
               PROVE  {m \in past.stored : m.kind # "result"} \subseteq ToSet(rows[Len(rows)].said)
    BY DEF SaidIsKept
  <2>1. StoredTalk \subseteq Talk(rows[Len(rows)].said)
    BY DEF InOneOrder, Kept
  <2>2. QED BY <2>1 DEF StoredTalk, Talk
<1>4. ConversationInit /\ [][ConversationNext]_talkVars => []Inv
  BY InitKeeps, StepKeeps, PTL
<1>5. QED
  BY <1>1, <1>2, <1>3, <1>4, PTL DEF ConversationSpec

=============================================================================
