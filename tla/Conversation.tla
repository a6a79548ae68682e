---------------------------- MODULE Conversation ----------------------------
(***************************************************************************)
(* One conversation of the local web page: the runs the person or the       *)
(* patrol starts in it, the notes that repairs and the patrol leave in it,  *)
(* and the checkpoints it is restored from (agent/conversation.py,          *)
(* memory/sqlite.py).                                                      *)
(*                                                                         *)
(* The event loop starts runs, ends them, writes notices and deletes the    *)
(* conversation.  The results of repairs come from it or from a thread of   *)
(* the pool, wherever somebody lists the repairs.  A checkpoint is one row  *)
(* per run, in the order of the first write, and each row is a copy of the  *)
(* whole conversation as it was when that run was last written.            *)
(*                                                                         *)
(* Abstractions.  A message is what it stands for.  Conversations share     *)
(* nothing but the lock for notes, so one is modelled.  The two threads     *)
(* meet where one of them waits for the database: a change of memory and    *)
(* the copy that is about to be written are one step, the write is another. *)
(* A token that is cancelled only makes a run end undone.  Incidents' own   *)
(* conversations, the read-only preview, contexts, summaries, memories and  *)
(* the stream of events are left out.  What a run writes while it works is  *)
(* left out where it would change nothing.                                 *)
(***************************************************************************)
EXTENDS Integers, Sequences, FiniteSets, SequencesExt

CONSTANTS
    Repairs,        \* repairs that were proposed from this conversation
    Targets,        \* what a question can be about: a program, or nothing
    Nothing,        \* no row, no repair
    MaxRuns,        \* bound: runs, those that only carry notes included
    MaxNotices,     \* bound: notices of the patrol
    MaxDeaths,      \* bound: restarts of the program
    MaxFailures     \* bound: writes that fail

ASSUME ConversationAssumption ==
    /\ {MaxRuns, MaxNotices, MaxDeaths, MaxFailures} \subseteq Nat
    /\ Targets # {}

Ids == 1..MaxRuns
Statuses == {"running", "completed", "failed", "interrupted", "noted"}

\* "asked" and "answered" belong to a run, "result" to a repair.
Message == [kind : {"asked", "answered", "notice"}, of : Nat]
             \cup [kind : {"result"}, of : Repairs]

(* done: the model came to its own end.  by: the run that took this one up  *)
(* again.  "noted" is a run that was made to carry a note and has nothing   *)
(* to take up.                                                             *)
Run == [id : Ids, status : Statuses, done : BOOLEAN, by : {0} \cup Ids, target : Targets]
Row == [run : Run, said : Seq(Message), told : SUBSET Repairs]

ASSUME NothingAssumption == Nothing \notin Row \cup Repairs

VARIABLES
    here,       \* the conversation is in memory
    said,       \* its messages
    told,       \* repair_result_ids
    runs,       \* its runs, in the order they are held in
    tasks,      \* runs whose coroutine is alive
    rows,       \* the checkpoints table, by rowid
    loop,       \* the write the event loop is waiting for
    note,       \* the write a thread of the pool is waiting for
    finished,   \* repairs that have come to an end
    begun,      \* how many runs there have been
    notices,    \* how many notices there have been
    deaths,     \* how often the program was restarted
    failures,   \* how many writes failed
    past        \* history: what the properties remember

talkVars == <<here, said, told, runs, tasks, rows, loop, note, finished,
              begun, notices, deaths, failures, past>>

LoopSteps == {"goal", "final", "failed", "link", "progress", "notice"}
Free == [step |-> "free", row |-> Nothing, prev |-> 0]
Quiet == [of |-> Nothing, row |-> Nothing]

Types ==
    /\ here \in BOOLEAN
    /\ said \in Seq(Message) /\ told \in SUBSET Repairs
    /\ runs \in Seq(Run) /\ tasks \in SUBSET Ids
    /\ rows \in Seq(Row)
    /\ loop \in [step : LoopSteps, row : Row, prev : {0} \cup Ids] \cup {Free}
    /\ note \in [of : Repairs, row : Row] \cup {Quiet}
    /\ finished \in SUBSET Repairs
    /\ begun \in 0..MaxRuns /\ notices \in 0..MaxNotices
    /\ deaths \in 0..MaxDeaths /\ failures \in 0..MaxFailures
    /\ past \in [stored : SUBSET Message, crossed : BOOLEAN, mixed : BOOLEAN,
                 deleted : BOOLEAN]

(* A coroutine belongs to a run that runs, and no run runs without one, in  *)
(* particular after a restart, but one whose first write is yet to come or  *)
(* failed.                                                                 *)
TasksRun ==
    /\ \A i \in tasks : \E j \in DOMAIN runs : runs[j].id = i /\ runs[j].status = "running"
    /\ \A j \in DOMAIN runs :
         runs[j].status = "running" =>
            \/ runs[j].id \in tasks
            \/ loop.step = "goal" /\ loop.row.run.id = runs[j].id
            \/ failures > 0

ConversationTypeOK == Types /\ TasksRun

-----------------------------------------------------------------------------
(* Reading and writing                                                     *)

Place(s, id) == CHOOSE j \in DOMAIN s : s[j].id = id
RunOf(id) == runs[Place(runs, id)]
Changed(s, r) == [s EXCEPT ![Place(s, r.id)] = r]
Latest == runs[Len(runs)]
Answering == runs # <<>> /\ Latest.status = "running"
Copy(r, ms, ts) == [run |-> r, said |-> ms, told |-> ts]

(* The row of a run keeps its place when it is written again. *)
Written(t, row) ==
    IF \E j \in DOMAIN t : t[j].run.id = row.run.id
    THEN [j \in DOMAIN t |-> IF t[j].run.id = row.run.id THEN row ELSE t[j]]
    ELSE Append(t, row)

Stored(row) == [past EXCEPT !.stored = @ \cup ToSet(row.said)]
Await(step, r, ms, prev) == loop' = [step |-> step, row |-> Copy(r, ms, told), prev |-> prev]

-----------------------------------------------------------------------------
(* The event loop                                                          *)

(* An unfinished task about the same program that nobody took up again, the *)
(* latest first.                                                           *)
Pending(t) == {j \in DOMAIN runs : /\ runs[j].status = "interrupted"
                                   /\ runs[j].by = 0
                                   /\ runs[j].target = t}

(* _start_run: the run and the question are in memory, the checkpoint       *)
(* follows; from is the run it takes up again.                             *)
Begin(t, from) ==
    LET r == [id |-> begun + 1, status |-> "running", done |-> FALSE, by |-> 0, target |-> t]
        q == [kind |-> "asked", of |-> begun + 1]
    IN  /\ begun < MaxRuns
        /\ begun' = begun + 1
        /\ runs' = Append(runs, r)
        /\ said' = Append(said, q)
        /\ Await("goal", r, said', from)
        /\ past' = IF tasks # {} \/ note # Quiet THEN [past EXCEPT !.crossed = TRUE] ELSE past
        /\ UNCHANGED <<here, told, tasks, rows, note, finished, notices, deaths, failures>>

(* start_run: a new question takes up an interrupted task, if there is one. *)
StartRun(t) ==
    /\ here /\ loop = Free
    /\ Begin(t, IF Pending(t) = {} THEN 0
                ELSE runs[CHOOSE j \in Pending(t) : \A k \in Pending(t) : k <= j].id)

(* resume_run, from the button beside a task. *)
ResumeRun(j) ==
    /\ here /\ loop = Free
    /\ runs[j].status \notin {"running", "noted"} /\ ~runs[j].done
    /\ runs[j].by = 0
    /\ Begin(runs[j].target, runs[j].id)

(* Progress, a tool's event or a delegation's is written. *)
SaveProgress(i) ==
    /\ here /\ loop = Free
    /\ i \in tasks
    /\ ~\E j \in DOMAIN rows : rows[j] = Copy(RunOf(i), said, told)
    /\ Await("progress", RunOf(i), said, 0)
    /\ UNCHANGED <<here, said, told, runs, tasks, rows, note, finished, begun,
                   notices, deaths, failures, past>>

(* The agent came back with an answer; done unless it was cancelled or ran  *)
(* into a limit.  The conversation may be gone by then.                    *)
Answer(i, done) ==
    LET r == [RunOf(i) EXCEPT !.status = "completed", !.done = done]
    IN  /\ loop = Free
        /\ i \in tasks
        /\ tasks' = tasks \ {i}
        /\ runs' = Changed(runs, r)
        /\ said' = IF here THEN Append(said, [kind |-> "answered", of |-> i]) ELSE said
        /\ IF here THEN Await("final", r, said', 0) ELSE loop' = Free
        /\ UNCHANGED <<here, told, rows, note, finished, begun, notices, deaths,
                       failures, past>>

(* The agent failed. *)
Fail(i) ==
    LET r == [RunOf(i) EXCEPT !.status = "failed"]
    IN  /\ loop = Free
        /\ i \in tasks
        /\ tasks' = tasks \ {i}
        /\ runs' = Changed(runs, r)
        /\ IF here THEN Await("failed", r, said, 0) ELSE loop' = Free
        /\ UNCHANGED <<here, said, told, rows, note, finished, begun, notices, deaths,
                       failures, past>>

(* The run a note is written with: the latest one, or one made to carry it. *)
Carrier(t) ==
    IF runs = <<>>
    THEN [id |-> begun + 1, status |-> "noted", done |-> FALSE, by |-> 0, target |-> t]
    ELSE Latest

Carried(t) ==
    /\ runs = <<>> => begun < MaxRuns
    /\ runs' = IF runs = <<>> THEN <<Carrier(t)>> ELSE runs
    /\ begun' = IF runs = <<>> THEN begun + 1 ELSE begun

AnyTarget == CHOOSE t \in Targets : TRUE

(* append_notice: the patrol says something, unless the conversation is     *)
(* answering.  The lock for notes is held until the write is over.          *)
Notice ==
    /\ here /\ loop = Free /\ note = Quiet
    /\ ~Answering
    /\ notices < MaxNotices
    /\ notices' = notices + 1
    /\ Carried(AnyTarget)
    /\ said' = Append(said, [kind |-> "notice", of |-> notices + 1])
    /\ Await("notice", Carrier(AnyTarget), said', 0)
    /\ UNCHANGED <<here, told, tasks, rows, note, finished, deaths, failures, past>>

(* The write of the event loop succeeds.  The coroutine of a run exists     *)
(* only after its first write; then the task it takes up is linked to it.   *)
LoopWritten ==
    /\ loop # Free
    /\ rows' = Written(rows, loop.row)
    /\ past' = Stored(loop.row)
    /\ tasks' = IF loop.step = "goal" THEN tasks \cup {loop.row.run.id} ELSE tasks
    /\ IF loop.step = "goal" /\ loop.prev # 0
       THEN LET r == [RunOf(loop.prev) EXCEPT !.by = loop.row.run.id]
            IN  runs' = Changed(runs, r) /\ Await("link", r, said, 0)
       ELSE loop' = Free /\ UNCHANGED runs
    /\ UNCHANGED <<here, said, told, note, finished, begun, notices, deaths, failures>>

(* It fails.  A run whose first write failed stays as it is, without a      *)
(* coroutine; one whose last write failed counts as failed.                *)
LoopWriteFails ==
    /\ loop # Free
    /\ failures < MaxFailures
    /\ failures' = failures + 1
    /\ said' = IF loop.step = "notice" THEN Front(said) ELSE said
    /\ IF loop.step = "final"
       THEN LET r == [loop.row.run EXCEPT !.status = "failed"]
            IN  runs' = Changed(runs, r) /\ Await("failed", r, said, 0)
       ELSE loop' = Free /\ UNCHANGED runs
    /\ UNCHANGED <<here, told, tasks, rows, note, finished, begun, notices, deaths, past>>

(* Mistake: only the rows go, and what runs is not told. *)
DeleteRows ==
    /\ here /\ loop = Free
    /\ rows' = <<>>
    /\ past' = [past EXCEPT !.deleted = TRUE, !.stored = {}]
    /\ UNCHANGED <<here, said, told, runs, tasks, loop, note, finished, begun,
                   notices, deaths, failures>>

(* delete_thread: the conversation goes from memory, then its rows.  What   *)
(* still runs for it finds no conversation to write to.                    *)
Delete ==
    /\ here /\ loop = Free
    /\ here' = FALSE
    /\ rows' = <<>>
    /\ past' = [past EXCEPT !.deleted = TRUE, !.stored = {}]
    /\ UNCHANGED <<said, told, runs, tasks, loop, note, finished, begun,
                   notices, deaths, failures>>

DeleteFails ==
    /\ here /\ loop = Free
    /\ failures < MaxFailures
    /\ failures' = failures + 1
    /\ here' = FALSE
    /\ UNCHANGED <<said, told, runs, tasks, rows, loop, note, finished, begun,
                   notices, deaths, past>>

-----------------------------------------------------------------------------
(* The results of repairs                                                  *)

RepairEnds(p) ==
    /\ p \notin finished
    /\ finished' = finished \cup {p}
    /\ UNCHANGED <<here, said, told, runs, tasks, rows, loop, note, begun, notices,
                   deaths, failures, past>>

(* What append_repair_result does once it has the lock. *)
TellNow(p) ==
    /\ here /\ note = Quiet /\ loop.step # "notice"
    /\ ~Answering
    /\ Carried(AnyTarget)
    /\ said' = Append(said, [kind |-> "result", of |-> p])
    /\ told' = told \cup {p}
    /\ note' = [of |-> p, row |-> Copy(Carrier(AnyTarget), said', told')]
    /\ UNCHANGED <<here, tasks, rows, loop, finished, notices, deaths, failures, past>>

(* Mistake: whether the result is there already is not looked up. *)
TellAgain(p) == p \in finished /\ TellNow(p)

(* Every listing of the repairs hands over every result again; one that is  *)
(* in the conversation already is left out, and so is any while the         *)
(* conversation is answering.                                              *)
Tell(p) == p \in finished \ told /\ TellNow(p)

ToldWritten ==
    /\ note # Quiet
    /\ rows' = Written(rows, note.row)
    /\ past' = Stored(note.row)
    /\ note' = Quiet
    /\ UNCHANGED <<here, said, told, runs, tasks, loop, finished, begun, notices,
                   deaths, failures>>

(* Mistake: the message is taken back, the mark that it was told is not. *)
ForgetMessage ==
    /\ note # Quiet
    /\ failures < MaxFailures
    /\ failures' = failures + 1
    /\ note' = Quiet
    /\ said' = IF here THEN Front(said) ELSE said
    /\ past' = IF here /\ Last(said).kind # "result"
               THEN [past EXCEPT !.mixed = TRUE] ELSE past
    /\ UNCHANGED <<here, told, runs, tasks, rows, loop, finished, begun, notices, deaths>>

(* It cannot be written: the last message and the last mark are taken back. *)
ToldWriteFails ==
    /\ note # Quiet
    /\ failures < MaxFailures
    /\ failures' = failures + 1
    /\ note' = Quiet
    /\ said' = IF here THEN Front(said) ELSE said
    /\ told' = IF here THEN told \ {note.of} ELSE told
    /\ past' = IF here /\ Last(said).kind # "result"
               THEN [past EXCEPT !.mixed = TRUE] ELSE past
    /\ UNCHANGED <<here, runs, tasks, rows, loop, finished, begun, notices, deaths>>

-----------------------------------------------------------------------------
(* A restart                                                               *)

(* Mistake: a run that ran when the program died still runs. *)
StillRunning(t) == t

Interrupted(t) ==
    [j \in DOMAIN t |-> IF t[j].run.status = "running"
                        THEN [t[j] EXCEPT !.run.status = "interrupted"] ELSE t[j]]

(* Mistake: the first row of a conversation counts, not the last. *)
Earliest(t) == IF t = <<>> THEN Copy(0, <<>>, {}) ELSE t[1]

(* The row that is read last says what the conversation was. *)
Restored(t) == IF t = <<>> THEN Copy(0, <<>>, {}) ELSE t[Len(t)]

(* The program dies and is started again: _restore reads the rows and marks *)
(* the runs that ran.  A death on the way leaves some of them for the next  *)
(* time, which comes to the same.                                          *)
Restart ==
    /\ deaths < MaxDeaths
    /\ deaths' = deaths + 1
    /\ rows' = Interrupted(rows)
    /\ here' = (rows # <<>>)
    /\ runs' = [j \in DOMAIN rows |-> rows'[j].run]
    /\ said' = Restored(rows).said
    /\ told' = Restored(rows).told
    /\ tasks' = {}
    /\ loop' = Free
    /\ note' = Quiet
    /\ UNCHANGED <<finished, begun, notices, failures, past>>

-----------------------------------------------------------------------------
ConversationInit ==
    /\ here = TRUE
    /\ said = <<>> /\ told = {} /\ runs = <<>> /\ tasks = {} /\ rows = <<>>
    /\ loop = Free /\ note = Quiet
    /\ finished = {}
    /\ begun = 0 /\ notices = 0 /\ deaths = 0 /\ failures = 0
    /\ past = [stored |-> {}, crossed |-> FALSE, mixed |-> FALSE, deleted |-> FALSE]

RunEnds(i) == (\E done \in BOOLEAN : Answer(i, done)) \/ Fail(i)
LoopWrite == LoopWritten \/ LoopWriteFails
ToldWrite == ToldWritten \/ ToldWriteFails

ConversationNext ==
    \/ \E t \in Targets : StartRun(t)
    \/ \E j \in DOMAIN runs : ResumeRun(j)
    \/ \E i \in Ids : SaveProgress(i) \/ RunEnds(i)
    \/ Notice
    \/ LoopWrite
    \/ Delete \/ DeleteFails
    \/ \E p \in Repairs : RepairEnds(p) \/ Tell(p)
    \/ ToldWrite
    \/ Restart

(* A write comes to an end, the limits of a run end it, and an open page    *)
(* lists the repairs every five seconds.                                   *)
ConversationFairness ==
    /\ WF_talkVars(LoopWrite)
    /\ WF_talkVars(ToldWrite)
    /\ \A i \in Ids : WF_talkVars(RunEnds(i))
    /\ WF_talkVars(\E p \in Repairs : Tell(p))

ConversationSpec ==
    ConversationInit /\ [][ConversationNext]_talkVars /\ ConversationFairness

-----------------------------------------------------------------------------
(* Properties                                                              *)

(* The result of a repair stands in the conversation once at most, however  *)
(* often it is handed over, before and after restarts; unless a result      *)
(* could not be written and, while the write was waiting, something else    *)
(* was said, which is then taken back in its place (_append_note).          *)
ToldOnce ==
    past.mixed \/ \A j, k \in DOMAIN said :
                     said[j] = said[k] /\ said[j].kind = "result" => j = k

(* Whatever of the talk was once in the database is in the row that a       *)
(* restart goes by (_persist, _restore), as long as the conversation did    *)
(* one thing at a time: the row of a run that was started first does not    *)
(* count, though it may be the one that was written last.                   *)
SaidIsKept ==
    rows # <<>> /\ ~past.crossed =>
        {m \in past.stored : m.kind # "result"} \subseteq ToSet(rows[Len(rows)].said)

(* A conversation that was deleted does not come back, by a run that still  *)
(* works or by a result that is handed over (delete_thread, _persist);      *)
(* only a result that waited for the database meanwhile may bring it back.  *)
DeletedStaysDeleted ==
    [][past.deleted /\ rows = <<>> /\ note = Quiet => rows' = <<>> /\ ~here']_talkVars

(* The first write of the latest run failed: it counts as running, and      *)
(* nothing will end it.                                                    *)
Jammed == Answering /\ Latest.id \notin tasks

(* Every repair that came to an end is told in the conversation in the end, *)
(* if the conversation is still there (append_repair_result,                *)
(* _publish_results); a run that can never end keeps it out.                *)
ResultTold ==
    \A p \in Repairs :
        <>[](p \in finished /\ here /\ ~Jammed =>
                p \in told /\ [kind |-> "result", of |-> p] \in ToSet(said))

=============================================================================
