---------------------------- MODULE RuntimeProofs ----------------------------
(***************************************************************************)
(* What the manual lifecycle keeps for any number of components and of      *)
(* operators, and however often they are killed: the types, and that the   *)
(* record of a process that lives is never written over.                   *)
(***************************************************************************)
EXTENDS Runtime, FiniteSetTheorems, TLAPS

-----------------------------------------------------------------------------
(* The invariant                                                           *)

(* Who works on the records holds the lock file. *)
Locking == \A a \in Operators : Inside(a) => oplock = a

(* Instance numbers are used once. *)
Numbers ==
    /\ \A p \in procs : p.id <= spawned
    /\ \A c \in Components : record[c] # NoRecord => record[c].id <= spawned
    /\ \A a \in Operators : op[a].id <= spawned

(* The record of a component names no process that lives. *)
Free(c) == record[c] = NoRecord \/ record[c].id \notin LiveIds

(* The record of a component names the process an operation is about. *)
About(c, i) == record[c] # NoRecord /\ record[c].id = i

(* A record that says stopped is right, a process is only started where the *)
(* record names none that lives, and once it is recorded, or asked to end,  *)
(* the record stays its own.                                               *)
Naming ==
    /\ \A c \in Components : record[c] # NoRecord /\ record[c].life = "stopped" => Free(c)
    /\ \A a \in Operators :
         Inside(a) /\ op[a].step \in {"spawned", "saved", "ending"} =>
            /\ More(a)
            /\ op[a].step = "spawned" => Free(At(a))
            /\ op[a].step # "spawned" => About(At(a), op[a].id)

(* A start knows the version it starts. *)
Carried ==
    \A a \in Operators : op[a].kind \in {"precheck", "start"} => op[a].ver \in Versions

RInv == RuntimeTypeOK /\ Locking /\ Numbers /\ Naming

(* No record of a process that lives is written over. *)
StillKnown ==
    \A p \in procs :
        About(p.comp, p.id) /\ p \in procs' =>
            /\ record'[p.comp] # NoRecord
            /\ record'[p.comp].id = p.id
            /\ record'[p.comp].life # "stopped"

(* What an operation leaves to its surroundings keeps its types. *)
CountsTyped ==
    /\ taken' \subseteq Nat /\ kills' \in Nat /\ unsaved' \in Nat /\ exits' \in Nat
    /\ limit' \in Limits

-----------------------------------------------------------------------------
(* Operations                                                              *)

(* The parts of the types. *)
LEMMA Parts ==
    ASSUME RuntimeTypeOK
    PROVE  /\ \A p \in procs : p \in Process /\ p.id \in Nat /\ p.comp \in Components
           /\ spawned \in Nat
           /\ \A c \in Components : record[c] # NoRecord =>
                 record[c] \in Record /\ record[c].id \in Nat /\ record[c].life \in Lives
           /\ \A a \in Operators : op[a] \in Operation /\ op[a].id \in Nat /\ op[a].at \in Nat \ {0}
<1>1. \A p \in Process : p.id \in Nat /\ p.comp \in Components
  BY DEF Process
<1>2. \A x \in Record : x.id \in Nat /\ x.life \in Lives
  BY DEF Record
<1>3. \A o \in Operation : o.id \in Nat /\ o.at \in Nat \ {0}
  BY DEF Operation
<1>4. procs \subseteq Process /\ spawned \in Nat
      /\ record \in [Components -> Record \cup {NoRecord}] /\ op \in [Operators -> Operation]
  BY DEF RuntimeTypeOK
<1>5. QED
  BY <1>1, <1>2, <1>3, <1>4

(* A record of an operation that goes on. *)
LEMMA FurtherIs ==
    ASSUME NEW o \in Operation, NEW g \in BOOLEAN
    PROVE  /\ Further(o, g) \in Operation
           /\ Further(o, g).kind = o.kind /\ Further(o, g).step = "scan"
           /\ Further(o, g).id = 0
<1>1. /\ o.kind \in Kinds /\ o.at \in Nat \ {0} /\ o.ver \in Versions \cup {NoVersion}
      /\ "scan" \in Steps /\ 0 \in Nat
  BY DEF Operation, Steps
<1>2. o.at + 1 \in Nat \ {0}
  BY <1>1
<1>3. Further(o, g) \in Operation
  BY <1>1, <1>2 DEF Further, Operation
<1>4. /\ Further(o, g).kind = o.kind /\ Further(o, g).step = "scan"
      /\ Further(o, g).id = 0
  BY DEF Further, Operation
<1>5. QED
  BY <1>3, <1>4

(* A record of an operation that works on a process. *)
LEMMA DoingIs ==
    ASSUME NEW o \in Operation, NEW step \in Steps, NEW id \in Nat
    PROVE  /\ Doing(o, step, id) \in Operation /\ Doing(o, step, id).kind = o.kind
           /\ Doing(o, step, id).step = step /\ Doing(o, step, id).id = id
           /\ Doing(o, step, id).at = o.at
BY DEF Doing, Operation

(* A record of an operation that is over. *)
LEMMA OverIs ==
    ASSUME NEW o \in Operation, NEW g \in BOOLEAN
    PROVE  /\ Over(o, g) \in Operation /\ Over(o, g).step = "done"
           /\ Over(o, g).id = o.id
BY DEF Over, Operation, Steps

(* A record of an operation that begins. *)
LEMMA BegunIs ==
    ASSUME NEW kind \in Kinds, NEW v \in Versions \cup {NoVersion}
    PROVE  /\ Begun(kind, v) \in Operation /\ Begun(kind, v).step = "enter"
           /\ Begun(kind, v).id = 0
<1>1. 1 \in Nat \ {0} /\ 0 \in Nat
  OBVIOUS
<1>2. "enter" \in Steps /\ TRUE \in BOOLEAN
  BY DEF Steps
<1>3. QED
  BY <1>1, <1>2, Zenon DEF Begun, Operation

(* The component an operation is at. *)
LEMMA AtIs ==
    ASSUME RuntimeTypeOK, NEW a \in Operators, More(a)
    PROVE  At(a) \in Components
<1>1. op[a].at \in Nat \ {0}
  BY Parts
<1>2. op[a].at \in 1..Len(Order)
  BY <1>1, RuntimeAssumption DEF More
<1>3. QED
  BY <1>2, RuntimeAssumption DEF At

(* An operation changes. *)
LEMMA OpIs ==
    ASSUME RuntimeTypeOK, NEW a \in Operators, NEW o \in Operation,
           op' = [op EXCEPT ![a] = o]
    PROVE  /\ op' \in [Operators -> Operation] /\ op'[a] = o
           /\ \A b \in Operators : b # a => op'[b] = op[b]
BY DEF RuntimeTypeOK

(* A step that changes an operation and no record, process or lock. *)
LEMMA QuietKeeps ==
    ASSUME RInv, CountsTyped, NEW a \in Operators, NEW o \in Operation,
           op' = [op EXCEPT ![a] = o], o.id <= spawned,
           UNCHANGED <<procs, spawned, record, oplock>>,
           o.kind # "none" /\ o.step \in {"scan", "spawned", "saved", "ending"} =>
              Inside(a) \/ oplock = a,
           o.step \notin {"spawned", "saved"},
           o.step = "ending" => o.at <= Len(Order) /\ About(Order[o.at], o.id)
    PROVE  RInv' /\ StillKnown
<1>1. /\ op' \in [Operators -> Operation] /\ op'[a] = o
      /\ \A b \in Operators : b # a => op'[b] = op[b]
  BY OpIs DEF RInv
<1>2. /\ procs' = procs /\ spawned' = spawned /\ record' = record /\ oplock' = oplock
      /\ LiveIds' = LiveIds
  BY DEF LiveIds
<1>3. RuntimeTypeOK'
  BY <1>1, <1>2 DEF RuntimeTypeOK, RInv, CountsTyped
<1>4. Locking'
  BY <1>1, <1>2 DEF Locking, RInv, Inside
<1>5. Numbers'
  BY <1>1, <1>2 DEF Numbers, RInv
<1>6. Naming'
  <2>1. \A c \in Components : record'[c] # NoRecord /\ record'[c].life = "stopped" => Free(c)'
    BY <1>2 DEF Naming, RInv, Free
  <2>2. ASSUME NEW b \in Operators, Inside(b)', op'[b].step \in {"spawned", "saved", "ending"}
        PROVE  /\ More(b)'
               /\ op'[b].step = "spawned" => Free(At(b))'
               /\ op'[b].step # "spawned" => About(At(b), op[b].id)'
    <3>1. CASE b = a
      BY <1>1, <1>2, <2>2, <3>1 DEF More, At, About
    <3>2. CASE b # a
      BY <1>1, <1>2, <2>2, <3>2 DEF Naming, RInv, Inside, More, At, About, Free
    <3>3. QED BY <3>1, <3>2
  <2>3. QED BY <2>1, <2>2 DEF Naming
<1>7. StillKnown
  BY <1>2, Parts DEF StillKnown, RInv, Naming, About, Free, LiveIds
<1>8. QED
  BY <1>3, <1>4, <1>5, <1>6, <1>7 DEF RInv

(* A step that writes the record of the component the operation is at. *)
LEMMA SaveKeeps ==
    ASSUME RInv, CountsTyped, NEW a \in Operators, NEW o \in Operation,
           Inside(a), More(a), op' = [op EXCEPT ![a] = o],
           NEW i \in Nat, NEW life \in Lives, Save(At(a), i, life),
           i <= spawned, o.id <= spawned, spawned' = spawned, oplock' = oplock,
           procs' \subseteq procs, life = "stopped" => i \notin LiveIds',
           Free(At(a)) \/ About(At(a), i),
           o.step = "scan" \/ (o.step = "saved" /\ o.id = i /\ o.at = op[a].at)
    PROVE  RInv' /\ StillKnown
<1> DEFINE c == At(a)
<1>1. /\ op' \in [Operators -> Operation] /\ op'[a] = o
      /\ \A b \in Operators : b # a => op'[b] = op[b]
  BY OpIs DEF RInv
<1>2. c \in Components /\ oplock = a
  BY AtIs DEF RInv, Locking
<1> HIDE DEF c
<1>3. /\ record' \in [Components -> Record \cup {NoRecord}]
      /\ record'[c] # NoRecord /\ record'[c].id = i /\ record'[c].life = life
      /\ \A d \in Components : d # c => record'[d] = record[d]
  <2>1. record' = [record EXCEPT ![c] = [id |-> i, life |-> life]]
    BY DEF Save, c
  <2>2. [id |-> i, life |-> life] \in Record
    BY DEF Record
  <2>3. record \in [Components -> Record \cup {NoRecord}]
    BY DEF RInv, RuntimeTypeOK
  <2>4. QED BY <1>2, <2>1, <2>2, <2>3, RecordAssumption
<1>4. LiveIds' \subseteq LiveIds
  BY DEF LiveIds
<1>5. RuntimeTypeOK'
  BY <1>1, <1>3 DEF RuntimeTypeOK, RInv, CountsTyped
<1>6. \A b \in Operators : b # a => ~Inside(b) /\ ~Inside(b)'
  BY <1>1, <1>2 DEF RInv, Locking, Inside
<1>7. Locking'
  BY <1>2, <1>6 DEF Locking
<1>8. Numbers'
  BY <1>1, <1>3 DEF Numbers, RInv
<1>9. Naming'
  <2>1. ASSUME NEW d \in Components, record'[d] # NoRecord, record'[d].life = "stopped"
        PROVE  Free(d)'
    <3>1. CASE d = c
      BY <1>3, <2>1, <3>1 DEF Free
    <3>2. CASE d # c
      BY <1>3, <1>4, <2>1, <3>2 DEF Free, Naming, RInv
    <3>3. QED BY <3>1, <3>2
  <2>2. Inside(a)' /\ op'[a].step \in {"spawned", "saved", "ending"} =>
            More(a)' /\ op'[a].step = "saved" /\ About(At(a), op[a].id)'
    BY <1>1, <1>3 DEF More, At, About, c
  <2>3. QED BY <1>6, <2>1, <2>2 DEF Naming
<1>10. StillKnown
  <2>1. ASSUME NEW p \in procs, About(p.comp, p.id), p \in procs'
        PROVE  /\ record'[p.comp] # NoRecord /\ record'[p.comp].id = p.id
               /\ record'[p.comp].life # "stopped"
    <3>1. p.comp \in Components /\ p.id \in LiveIds /\ p.id \in LiveIds'
      BY <2>1, Parts DEF RInv, LiveIds
    <3>2. CASE p.comp = c
      <4>1. p.id = i
        BY <2>1, <3>1, <3>2 DEF Free, About, c
      <4>2. QED BY <1>3, <3>1, <3>2, <4>1
    <3>3. CASE p.comp # c
      BY <1>3, <2>1, <3>1, <3>3 DEF RInv, Naming, Free, About
    <3>4. QED BY <3>2, <3>3
  <2>2. QED BY <2>1 DEF StillKnown
<1>11. QED
  BY <1>5, <1>7, <1>8, <1>9, <1>10 DEF RInv

(* An operation goes on. *)
LEMMA OnwardIs ==
    ASSUME RuntimeTypeOK, NEW a \in Operators, NEW good, Onward(a, good)
    PROVE  \E o \in Operation : /\ op' = [op EXCEPT ![a] = o]
                                /\ o.kind = op[a].kind /\ o.step = "scan" /\ o.id = 0
<1>1. op[a] \in Operation
  BY Parts
<1>2. (op[a].good /\ good) \in BOOLEAN
  BY Zenon
<1>3. PICK g \in BOOLEAN : op' = [op EXCEPT ![a] = Further(op[a], g)]
  BY <1>2, Zenon DEF Onward
<1>4. QED
  BY <1>1, <1>3, FurtherIs

(* An operation is over. *)
LEMMA OverGoes ==
    ASSUME RuntimeTypeOK, NEW a \in Operators, op' = [op EXCEPT ![a] = Over(op[a], FALSE)]
    PROVE  \E o \in Operation : /\ op' = [op EXCEPT ![a] = o]
                                /\ o.step = "done" /\ o.id = op[a].id
<1>1. op[a] \in Operation
  BY Parts
<1>2. PICK g \in BOOLEAN : op' = [op EXCEPT ![a] = Over(op[a], g)]
  BY Zenon
<1>3. QED
  BY <1>1, <1>2, OverIs

(* A step after which an operation is no longer at work. *)
LEMMA ApartKeeps ==
    ASSUME RInv, CountsTyped, NEW a \in Operators, NEW o \in Operation,
           op' = [op EXCEPT ![a] = o], o.id <= spawned,
           o.step \in {"enter", "done", "leave"},
           UNCHANGED <<procs, spawned, record, oplock>>
    PROVE  RInv' /\ StillKnown
BY QuietKeeps

(* A command is started. *)
LEMMA AskKeeps ==
    ASSUME RInv, NEW a \in Operators, NEW kind \in Kinds, NEW v \in Versions \cup {NoVersion},
           Ask(a, kind, v)
    PROVE  RInv' /\ StillKnown
<1>1. CountsTyped /\ UNCHANGED <<procs, spawned, record, oplock>>
  BY DEF Ask, CountsTyped, RInv, RuntimeTypeOK
<1>2. op' = [op EXCEPT ![a] = Begun(kind, v)] /\ spawned \in Nat
  BY DEF Ask, RInv, RuntimeTypeOK
<1>3. /\ Begun(kind, v) \in Operation /\ Begun(kind, v).step = "enter"
      /\ Begun(kind, v).id = 0
  BY BegunIs
<1>4. Begun(kind, v).id <= spawned
  BY <1>2, <1>3
<1>5. PICK o \in Operation : op' = [op EXCEPT ![a] = o] /\ o.step = "enter" /\ o.id <= spawned
  BY <1>2, <1>3, <1>4, Zenon
<1>6. QED
  BY <1>1, <1>5, ApartKeeps

(* It finds the lock file, or ends where it failed, or its result is taken. *)
LEMMA EndsKeep ==
    ASSUME RInv, NEW a \in Operators, EnterBusy(a) \/ PreflightFailed(a) \/ Collect(a)
    PROVE  RInv' /\ StillKnown
<1>1. CountsTyped /\ UNCHANGED <<procs, spawned, record, oplock>>
  BY DEF EnterBusy, PreflightFailed, Collect, CountsTyped, RInv, RuntimeTypeOK
<1>2. op' = [op EXCEPT ![a] = Over(op[a], FALSE)] \/ op' = [op EXCEPT ![a] = Idle]
  BY Zenon DEF EnterBusy, PreflightFailed, Collect
<1>3. spawned \in Nat /\ op[a].id <= spawned
  BY DEF RInv, RuntimeTypeOK, Numbers
<1>4. CASE op' = [op EXCEPT ![a] = Over(op[a], FALSE)]
  <2>1. PICK o \in Operation : /\ op' = [op EXCEPT ![a] = o]
                               /\ o.step = "done" /\ o.id = op[a].id
    BY <1>4, OverGoes DEF RInv
  <2>2. QED BY <1>1, <1>3, <2>1, ApartKeeps
<1>5. CASE op' = [op EXCEPT ![a] = Idle]
  <2>1. "none" \in Kinds
    BY DEF Kinds
  <2>2. Idle \in Operation /\ Idle.step = "enter" /\ Idle.id = 0
    BY <2>1, BegunIs DEF Idle
  <2>3. Idle.id <= spawned
    BY <1>3, <2>2
  <2>4. PICK o \in Operation : op' = [op EXCEPT ![a] = o] /\ o.step = "enter" /\ o.id <= spawned
    BY <1>5, <2>2, <2>3, Zenon
  <2>5. QED BY <1>1, <2>4, ApartKeeps
<1>6. QED
  BY <1>2, <1>4, <1>5

(* The preflight let a start go on. *)
LEMMA PreflightKeeps ==
    ASSUME RInv, NEW a \in Operators, PreflightPassed(a)
    PROVE  RInv' /\ StillKnown
<1>1. CountsTyped /\ UNCHANGED <<procs, spawned, record, oplock>>
  BY DEF PreflightPassed, CountsTyped, RInv, RuntimeTypeOK
<1>2. op' = [op EXCEPT ![a] = Begun("start", op[a].ver)] /\ "start" \in Kinds
  BY DEF PreflightPassed, Kinds
<1>3. spawned \in Nat /\ op[a].ver \in Versions \cup {NoVersion}
  BY Parts DEF RInv, Operation
<1>4. /\ Begun("start", op[a].ver) \in Operation
      /\ Begun("start", op[a].ver).step = "enter" /\ Begun("start", op[a].ver).id = 0
  BY <1>2, <1>3, BegunIs
<1>5. Begun("start", op[a].ver).id <= spawned
  BY <1>3, <1>4
<1>6. PICK o \in Operation : op' = [op EXCEPT ![a] = o] /\ o.step = "enter" /\ o.id <= spawned
  BY <1>2, <1>4, <1>5, Zenon
<1>7. QED
  BY <1>1, <1>6, ApartKeeps

(* It comes in. *)
LEMMA EnterKeeps ==
    ASSUME RInv, NEW a \in Operators, EnterFree(a)
    PROVE  RInv' /\ StillKnown
<1>1. /\ procs' = procs /\ spawned' = spawned /\ record' = record /\ CountsTyped
      /\ oplock = Nobody /\ oplock' = a /\ op' = [op EXCEPT ![a].step = "scan"]
  BY DEF EnterFree, CountsTyped, RInv, RuntimeTypeOK
<1>2. /\ op' \in [Operators -> Operation] /\ op'[a].step = "scan" /\ op'[a].id = op[a].id
      /\ \A b \in Operators : b # a => op'[b] = op[b]
  <2>1. op \in [Operators -> Operation] /\ op[a] \in Operation
    BY DEF RInv, RuntimeTypeOK
  <2>2. QED BY <1>1, <2>1 DEF Operation, Steps
<1>3. RuntimeTypeOK'
  BY <1>1, <1>2 DEF RuntimeTypeOK, RInv, CountsTyped
<1>4. \A b \in Operators : ~Inside(b)
  BY <1>1, RuntimeAssumption DEF RInv, Locking
<1>5. Locking'
  BY <1>1, <1>2, <1>4 DEF Locking, Inside
<1>6. Numbers'
  BY <1>1, <1>2 DEF Numbers, RInv
<1>7. Naming'
  BY <1>1, <1>2, <1>4 DEF Naming, RInv, Inside, Free, LiveIds
<1>8. StillKnown
  BY <1>1, Parts DEF StillKnown, RInv, Naming, About, Free, LiveIds
<1>9. QED
  BY <1>3, <1>5, <1>6, <1>7, <1>8 DEF RInv

(* It goes over a component, and changes nothing there. *)
LEMMA PassKeeps ==
    ASSUME RInv, NEW a \in Operators, Inside(a), CountsTyped, NEW good, Onward(a, good),
           UNCHANGED <<procs, spawned, record, oplock>>
    PROVE  RInv' /\ StillKnown
<1>1. PICK o \in Operation : /\ op' = [op EXCEPT ![a] = o]
                             /\ o.kind = op[a].kind /\ o.step = "scan" /\ o.id = 0
  BY OnwardIs DEF RInv
<1>2. o.id <= spawned
  BY <1>1 DEF RInv, RuntimeTypeOK
<1>3. o.step \notin {"spawned", "saved"} /\ o.step # "ending"
  BY <1>1
<1>4. QED
  BY <1>1, <1>2, <1>3, QuietKeeps

(* The steps that only go on. *)
LEMMA PassesKeep ==
    ASSUME RInv, NEW a \in Operators,
           StartPresent(a) \/ StartRefused(a) \/ StartUnrecorded(a) \/ StopNothing(a) \/ LookAt(a)
    PROVE  RInv' /\ StillKnown
<1>1. Inside(a) /\ UNCHANGED <<procs, spawned, record, oplock>>
  BY DEF StartPresent, StartRefused, StartUnrecorded, StopNothing, LookAt, Inside
<1>2. CountsTyped
  <2>1. /\ taken' = taken /\ kills' = kills /\ exits' = exits /\ limit' = limit
        /\ (unsaved' = unsaved \/ unsaved' = unsaved + 1)
    BY Zenon DEF StartPresent, StartRefused, StartUnrecorded, StopNothing, LookAt
  <2>2. QED BY <2>1 DEF CountsTyped, RInv, RuntimeTypeOK
<1>3. \E good \in BOOLEAN : Onward(a, good)
  BY Zenon DEF StartPresent, StartRefused, StartUnrecorded, StopNothing, LookAt
<1>4. QED
  BY <1>1, <1>2, <1>3, PassKeeps

(* stop: a process is asked to end. *)
LEMMA StopAskKeeps ==
    ASSUME RInv, NEW a \in Operators, StopAsk(a)
    PROVE  RInv' /\ StillKnown
<1> DEFINE c == At(a)
           o == Doing(op[a], "ending", record[c].id)
<1>1. Inside(a) /\ More(a) /\ UNCHANGED <<procs, spawned, record, oplock>>
  BY DEF StopAsk, Inside
<1>2. CountsTyped
  BY DEF StopAsk, CountsTyped, RInv, RuntimeTypeOK
<1>3. c \in Components
  BY <1>1, AtIs DEF RInv
<1>4. record[c] # NoRecord
  BY DEF StopAsk, Seen
<1>5. record[c].id \in Nat /\ record[c].id <= spawned /\ op[a] \in Operation /\ "ending" \in Steps
  BY <1>3, <1>4, Parts DEF RInv, Numbers, Steps
<1>6. /\ o \in Operation /\ o.kind = op[a].kind /\ o.step = "ending" /\ o.id = record[c].id
      /\ o.at = op[a].at
  BY <1>5, DoingIs
<1>7. op' = [op EXCEPT ![a] = o]
  BY DEF StopAsk
<1>8. o.at <= Len(Order) /\ About(Order[o.at], o.id)
  BY <1>1, <1>4, <1>6 DEF More, About, At
<1> HIDE DEF o, c
<1>9. QED
  BY <1>1, <1>2, <1>5, <1>6, <1>7, <1>8, QuietKeeps

(* start: the new process is recorded. *)
LEMMA RecordedKeeps ==
    ASSUME RInv, NEW a \in Operators, StartRecorded(a)
    PROVE  RInv' /\ StillKnown
<1> DEFINE o == Doing(op[a], "saved", op[a].id)
<1>1. /\ Inside(a) /\ op[a].step = "spawned" /\ procs' = procs /\ spawned' = spawned
      /\ oplock' = oplock /\ Save(At(a), op[a].id, "starting")
  BY DEF StartRecorded, Inside
<1>2. CountsTyped
  BY DEF StartRecorded, CountsTyped, RInv, RuntimeTypeOK
<1>3. More(a) /\ Free(At(a))
  BY <1>1 DEF RInv, Naming
<1>4. /\ op[a].id \in Nat /\ op[a].id <= spawned /\ op[a] \in Operation
      /\ "saved" \in Steps /\ "starting" \in Lives
  BY Parts DEF RInv, Numbers, Steps, Lives
<1>5. o \in Operation /\ o.step = "saved" /\ o.id = op[a].id /\ o.at = op[a].at
  BY <1>4, DoingIs
<1>6. op' = [op EXCEPT ![a] = o]
  BY DEF StartRecorded
<1> HIDE DEF o
<1>7. QED
  BY <1>1, <1>2, <1>3, <1>4, <1>5, <1>6, SaveKeeps

(* A record is written when the operation goes on. *)
LEMMA SavedKeeps ==
    ASSUME RInv, CountsTyped, NEW a \in Operators, Inside(a), More(a),
           NEW good, Onward(a, good),
           NEW i \in Nat, NEW life \in Lives, Save(At(a), i, life), About(At(a), i),
           i <= spawned, spawned' = spawned, oplock' = oplock,
           procs' \subseteq procs, life = "stopped" => i \notin LiveIds'
    PROVE  RInv' /\ StillKnown
<1>1. PICK o \in Operation : op' = [op EXCEPT ![a] = o] /\ o.step = "scan" /\ o.id = 0
  BY OnwardIs DEF RInv
<1>2. o.id <= spawned
  BY <1>1 DEF RInv, RuntimeTypeOK
<1>3. QED
  BY <1>1, <1>2, SaveKeeps

(* start: the process answered and stayed, or not. *)
LEMMA StableKeeps ==
    ASSUME RInv, NEW a \in Operators, StartStable(a) \/ StartUnstable(a)
    PROVE  RInv' /\ StillKnown
<1>1. /\ Inside(a) /\ op[a].step = "saved" /\ procs' = procs /\ spawned' = spawned
      /\ oplock' = oplock
  BY DEF StartStable, StartUnstable, Inside
<1>2. PICK life \in {"running", "failed"} : Save(At(a), op[a].id, life)
  BY DEF StartStable, StartUnstable
<1>3. \E good \in BOOLEAN : Onward(a, good)
  BY Zenon DEF StartStable, StartUnstable
<1>4. CountsTyped
  BY DEF StartStable, StartUnstable, CountsTyped, RInv, RuntimeTypeOK
<1>5. More(a) /\ About(At(a), op[a].id)
  BY <1>1 DEF RInv, Naming
<1>6. op[a].id \in Nat /\ op[a].id <= spawned /\ life \in Lives /\ life # "stopped"
  BY Parts DEF RInv, Numbers, Lives
<1>7. QED
  BY <1>1, <1>2, <1>3, <1>4, <1>5, <1>6, SavedKeeps

(* stop: asking failed. *)
LEMMA AskFailsKeeps ==
    ASSUME RInv, NEW a \in Operators, StopAskFails(a)
    PROVE  RInv' /\ StillKnown
<1>1. /\ Inside(a) /\ More(a) /\ procs' = procs /\ spawned' = spawned /\ oplock' = oplock
      /\ Save(At(a), record[At(a)].id, "failed")
  BY DEF StopAskFails, Inside
<1>2. \E good \in BOOLEAN : Onward(a, good)
  BY Zenon DEF StopAskFails
<1>3. CountsTyped
  BY DEF StopAskFails, CountsTyped, RInv, RuntimeTypeOK
<1>4. At(a) \in Components
  BY <1>1, AtIs DEF RInv
<1>5. record[At(a)] # NoRecord
  BY DEF StopAskFails, Seen
<1>6. /\ record[At(a)].id \in Nat /\ record[At(a)].id <= spawned /\ "failed" \in Lives
      /\ About(At(a), record[At(a)].id)
  BY <1>4, <1>5, Parts DEF RInv, Numbers, Lives, About
<1>7. QED
  BY <1>1, <1>2, <1>3, <1>6, SavedKeeps

(* stop: the process ended, or did not in time. *)
LEMMA EndingKeeps ==
    ASSUME RInv, NEW a \in Operators, StopEnded(a) \/ StopTimeout(a)
    PROVE  RInv' /\ StillKnown
<1>1. /\ Inside(a) /\ op[a].step = "ending" /\ procs' \subseteq procs /\ spawned' = spawned
      /\ oplock' = oplock
  BY DEF StopEnded, StopTimeout, Inside
<1>0. PICK good : Onward(a, good)
  BY Zenon DEF StopEnded, StopTimeout
<1>2. PICK life \in {"stopped", "failed"} :
         Save(At(a), op[a].id, life) /\ (life # "stopped" \/ op[a].id \notin LiveIds')
  <2>1. CASE StopEnded(a)
    <3>1. procs' = {p \in procs : p.id # op[a].id} /\ Save(At(a), op[a].id, "stopped")
      BY <2>1 DEF StopEnded
    <3>2. op[a].id \notin LiveIds'
      BY <3>1 DEF LiveIds
    <3>3. QED BY <3>1, <3>2
  <2>2. CASE StopTimeout(a)
    <3>1. Save(At(a), op[a].id, "failed")
      BY <2>2 DEF StopTimeout
    <3>2. QED BY <3>1
  <2>3. QED BY <2>1, <2>2
<1>4. CountsTyped
  BY DEF StopEnded, StopTimeout, CountsTyped, RInv, RuntimeTypeOK
<1>5. More(a) /\ About(At(a), op[a].id)
  BY <1>1 DEF RInv, Naming
<1>6. op[a].id \in Nat /\ op[a].id <= spawned /\ life \in Lives
  BY Parts DEF RInv, Numbers, Lives
<1>7. Save(At(a), op[a].id, life)
  BY <1>2
<1>8. life = "stopped" => op[a].id \notin LiveIds'
  BY <1>2, Zenon
<1>9. op[a].id \in Nat
  BY <1>6
<1>10. op[a].id <= spawned
  BY <1>6
<1>11. life \in Lives
  BY <1>6
<1>12. procs' \subseteq procs
  BY <1>1
<1>13. spawned' = spawned /\ oplock' = oplock /\ Inside(a)
  BY <1>1
<1>14. QED
  BY <1>0, <1>4, <1>5, <1>7, <1>8, <1>9, <1>10, <1>11, <1>12, <1>13, SavedKeeps

(* start: a new process, where the record names none that lives. *)
LEMMA SpawnKeeps ==
    ASSUME RInv, Carried, NEW a \in Operators, StartSpawn(a)
    PROVE  RInv' /\ StillKnown
<1> DEFINE c == At(a)
           n == spawned + 1
           new == [id |-> n, comp |-> c, ver |-> op[a].ver]
           o == Doing(op[a], "spawned", n)
<1>1. /\ Inside(a) /\ More(a) /\ Seen(c) = "absent" /\ op[a].kind = "start"
      /\ spawned' = n /\ procs' = procs \cup {new} /\ op' = [op EXCEPT ![a] = o]
      /\ record' = record /\ oplock' = oplock /\ CountsTyped
  BY DEF StartSpawn, Inside, CountsTyped, RInv, RuntimeTypeOK
<1>2. c \in Components /\ oplock = a
  BY <1>1, AtIs DEF RInv, Locking
<1>3. spawned \in Nat /\ n \in Nat /\ op[a] \in Operation /\ "spawned" \in Steps
  BY Parts DEF RInv, Steps
<1>4. /\ o \in Operation /\ o.kind = op[a].kind /\ o.step = "spawned" /\ o.id = n
      /\ o.at = op[a].at
  BY <1>3, DoingIs
<1>5. Free(c)
  <2>1. record[c] = NoRecord \/ (record[c] # NoRecord /\ record[c].life = "stopped")
           \/ record[c].id \notin LiveIds
    BY <1>1 DEF Seen
  <2>2. QED BY <1>2, <2>1 DEF Free, RInv, Naming
<1> HIDE DEF o, c
<1>6. /\ op' \in [Operators -> Operation] /\ op'[a] = o
      /\ \A b \in Operators : b # a => op'[b] = op[b]
  BY <1>1, <1>4, OpIs DEF RInv
<1>7. \A b \in Operators : b # a => ~Inside(b) /\ ~Inside(b)'
  BY <1>1, <1>2, <1>6 DEF RInv, Locking, Inside
<1>8. LiveIds' = LiveIds \cup {n}
  <2>1. new.id = n
    OBVIOUS
  <2>2. procs' = procs \cup {new}
    BY <1>1
  <2> HIDE DEF new
  <2>3. QED BY <2>1, <2>2 DEF LiveIds
<1>9. \A d \in Components : Free(d) => Free(d)'
  <2>1. ASSUME NEW d \in Components, Free(d), record[d] # NoRecord
        PROVE  record[d].id # n
    BY <1>3, <2>1, Parts DEF RInv, Numbers
  <2>2. QED BY <1>1, <1>8, <2>1 DEF Free
<1>10. RuntimeTypeOK'
  <2>1. op[a].ver \in Versions
    BY <1>1 DEF Carried
  <2>2. QED
    BY <1>1, <1>2, <1>3, <1>6, <2>1 DEF RuntimeTypeOK, RInv, CountsTyped, Process
<1>11. Locking'
  BY <1>1, <1>2, <1>7 DEF Locking
<1>12. Numbers'
  BY <1>1, <1>3, <1>4, <1>6, Parts DEF Numbers, RInv
<1>13. Naming'
  <2>1. \A d \in Components : record'[d] # NoRecord /\ record'[d].life = "stopped" => Free(d)'
    BY <1>1, <1>9 DEF Naming, RInv
  <2>2. More(a)' /\ Free(At(a))' /\ op'[a].step = "spawned"
    BY <1>1, <1>2, <1>4, <1>5, <1>6, <1>9 DEF More, At, c
  <2>3. QED BY <1>7, <2>1, <2>2 DEF Naming
<1>14. StillKnown
  BY <1>1, Parts DEF StillKnown, RInv, Naming, About, Free, LiveIds
<1>15. QED
  BY <1>10, <1>11, <1>12, <1>13, <1>14 DEF RInv

(* It leaves. *)
LEMMA LeaveKeeps ==
    ASSUME RInv, NEW a \in Operators, LeaveLock(a)
    PROVE  RInv' /\ StillKnown
<1>1. /\ procs' = procs /\ spawned' = spawned /\ record' = record /\ CountsTyped
      /\ Inside(a) /\ oplock' = Nobody
  BY DEF LeaveLock, CountsTyped, RInv, RuntimeTypeOK, Inside
<1>2. PICK step \in {"leave", "done"} : op' = [op EXCEPT ![a].step = step]
  BY DEF LeaveLock
<1>3. /\ op' \in [Operators -> Operation] /\ op'[a].step = step /\ op'[a].id = op[a].id
      /\ \A b \in Operators : b # a => op'[b] = op[b]
  <2>1. op \in [Operators -> Operation] /\ op[a] \in Operation
    BY DEF RInv, RuntimeTypeOK
  <2>2. QED BY <1>2, <2>1 DEF Operation, Steps
<1>4. RuntimeTypeOK'
  BY <1>1, <1>3 DEF RuntimeTypeOK, RInv, CountsTyped
<1>5. \A b \in Operators : ~Inside(b)'
  BY <1>1, <1>3 DEF RInv, Locking, Inside
<1>6. Locking'
  BY <1>5 DEF Locking
<1>7. Numbers'
  BY <1>1, <1>3 DEF Numbers, RInv
<1>8. Naming'
  BY <1>1, <1>5 DEF Naming, RInv, Free, LiveIds
<1>9. StillKnown
  BY <1>1, Parts DEF StillKnown, RInv, Naming, About, Free, LiveIds
<1>10. QED
  BY <1>4, <1>6, <1>7, <1>8, <1>9 DEF RInv

(* The process of a command is killed; what it had locked stays locked. *)
LEMMA KillKeeps ==
    ASSUME RInv, NEW a \in Operators, KillOp(a)
    PROVE  RInv' /\ StillKnown
<1>1. /\ procs' = procs /\ spawned' = spawned /\ record' = record
      /\ oplock' = (IF oplock = a THEN Leftover ELSE oplock)
      /\ op' = [op EXCEPT ![a] = Over(op[a], FALSE)]
  BY Zenon DEF KillOp
<1>2. CountsTyped
  <2>1. /\ taken' = taken /\ kills' = kills + 1 /\ unsaved' = unsaved /\ exits' = exits
        /\ limit' = limit
    BY Zenon DEF KillOp
  <2>2. QED BY <2>1 DEF CountsTyped, RInv, RuntimeTypeOK
<1>3. PICK o \in Operation : /\ op' = [op EXCEPT ![a] = o]
                             /\ o.step = "done" /\ o.id = op[a].id
  BY <1>1, OverGoes DEF RInv
<1>4. /\ op' \in [Operators -> Operation] /\ op'[a] = o
      /\ \A b \in Operators : b # a => op'[b] = op[b]
  BY <1>3, OpIs DEF RInv
<1>5. /\ ~Inside(a)'
      /\ \A b \in Operators : b # a => op'[b] = op[b] /\ (Inside(b)' <=> Inside(b))
  BY <1>3, <1>4 DEF Inside
<1>6. RuntimeTypeOK'
  BY <1>1, <1>2, <1>4 DEF RuntimeTypeOK, RInv, CountsTyped
<1>7. Locking'
  BY <1>1, <1>5 DEF Locking, RInv
<1>8. Numbers'
  BY <1>1, <1>3, <1>4 DEF Numbers, RInv
<1>9. Naming'
  BY <1>1, <1>5 DEF Naming, RInv, Free, LiveIds, More, At, About
<1>10. StillKnown
  BY <1>1, Parts DEF StillKnown, RInv, Naming, About, Free, LiveIds
<1>11. QED
  BY <1>6, <1>7, <1>8, <1>9, <1>10 DEF RInv

(* A component ends by itself, or the pid of one that ended is taken. *)
LEMMA SurroundingsKeep ==
    ASSUME RInv, (\E p \in procs : ProcessExits(p)) \/ (\E i \in 1..spawned : PidTaken(i))
    PROVE  RInv' /\ StillKnown
<1>1. /\ procs' \subseteq procs /\ spawned' = spawned /\ record' = record
      /\ oplock' = oplock /\ op' = op
  BY DEF ProcessExits, PidTaken
<1>2. CountsTyped
  <2>0. /\ taken \subseteq Nat /\ kills \in Nat /\ unsaved \in Nat /\ exits \in Nat
        /\ limit \in Limits /\ spawned \in Nat
    BY DEF RInv, RuntimeTypeOK
  <2>1. CASE \E p \in procs : ProcessExits(p)
    <3>1. /\ taken' = taken /\ kills' = kills /\ unsaved' = unsaved /\ exits' = exits + 1
          /\ limit' = limit
      BY <2>1, Zenon DEF ProcessExits
    <3>2. QED BY <2>0, <3>1 DEF CountsTyped
  <2>2. CASE \E i \in 1..spawned : PidTaken(i)
    <3>1. PICK i \in 1..spawned : taken' = taken \cup {i}
      BY <2>2 DEF PidTaken
    <3>2. kills' = kills /\ unsaved' = unsaved /\ exits' = exits /\ limit' = limit
      BY <2>2, Zenon DEF PidTaken
    <3>3. QED BY <2>0, <3>1, <3>2 DEF CountsTyped
  <2>3. QED BY <2>1, <2>2
<1>3. LiveIds' \subseteq LiveIds
  BY <1>1 DEF LiveIds
<1>4. RuntimeTypeOK'
  BY <1>1, <1>2 DEF RuntimeTypeOK, RInv, CountsTyped
<1>5. Locking'
  BY <1>1 DEF Locking, RInv, Inside
<1>6. Numbers'
  BY <1>1 DEF Numbers, RInv
<1>7. Naming'
  BY <1>1, <1>3 DEF Naming, RInv, Inside, Free, More, At, About
<1>8. StillKnown
  BY <1>1, Parts DEF StillKnown, RInv, Naming, About, Free, LiveIds
<1>9. QED
  BY <1>4, <1>5, <1>6, <1>7, <1>8 DEF RInv

(* What an operation is, and what it starts, stays. *)
LEMMA SameKeeps ==
    ASSUME RInv, Carried, NEW a \in Operators, NEW o,
           o.kind = op[a].kind, o.ver = op[a].ver, op' = [op EXCEPT ![a] = o]
    PROVE  Carried'
BY DEF Carried, RInv, RuntimeTypeOK

(* A start knows the version it starts, from the command on. *)
LEMMA CarriedKeeps ==
    ASSUME RInv, Carried, RuntimeNext
    PROVE  Carried'
<1>1. op \in [Operators -> Operation]
  BY DEF RInv, RuntimeTypeOK
<1>2. ASSUME NEW a \in Operators, NEW kind \in Kinds, NEW v \in Versions \cup {NoVersion},
             kind \in {"precheck", "start"} => v \in Versions,
             op' = [op EXCEPT ![a] = Begun(kind, v)]
      PROVE  Carried'
  <2>1. op'[a].kind = kind /\ op'[a].ver = v /\ \A b \in Operators : b # a => op'[b] = op[b]
    BY <1>1, <1>2 DEF Begun
  <2>2. QED BY <1>2, <2>1 DEF Carried
<1>3. ASSUME NEW a \in Operators, NEW v \in Versions, Ask(a, "precheck", v)
      PROVE  Carried'
  <2>1. op' = [op EXCEPT ![a] = Begun("precheck", v)] /\ "precheck" \in Kinds
    BY <1>3 DEF Ask, Kinds
  <2>2. QED BY <1>2, <2>1
<1>4. ASSUME NEW a \in Operators, NEW kind \in {"stop", "status"}, Ask(a, kind, NoVersion)
      PROVE  Carried'
  <2>1. op' = [op EXCEPT ![a] = Begun(kind, NoVersion)] /\ kind \in Kinds
        /\ kind \notin {"precheck", "start"}
    BY <1>4 DEF Ask, Kinds
  <2>2. QED BY <1>2, <2>1
<1>5. ASSUME NEW a \in Operators, Collect(a)
      PROVE  Carried'
  <2>1. op' = [op EXCEPT ![a] = Begun("none", NoVersion)] /\ "none" \in Kinds
        /\ "none" \notin {"precheck", "start"}
    BY <1>5 DEF Collect, Idle, Kinds
  <2>2. QED BY <1>2, <2>1
<1>6. ASSUME NEW a \in Operators, PreflightPassed(a)
      PROVE  Carried'
  <2>1. op' = [op EXCEPT ![a] = Begun("start", op[a].ver)] /\ "start" \in Kinds
        /\ op[a].ver \in Versions
    BY <1>6 DEF PreflightPassed, Kinds, Carried
  <2>2. QED BY <1>2, <2>1
<1>7. ASSUME NEW a \in Operators,
             \/ EnterBusy(a) \/ PreflightFailed(a) \/ KillOp(a)
      PROVE  Carried'
  <2>1. op' = [op EXCEPT ![a] = Over(op[a], FALSE)]
    BY <1>7, Zenon DEF EnterBusy, PreflightFailed, KillOp
  <2>2. PICK g : op' = [op EXCEPT ![a] = Over(op[a], g)]
    BY <2>1, Zenon
  <2>3. Over(op[a], g).kind = op[a].kind /\ Over(op[a], g).ver = op[a].ver
    BY <1>1 DEF Over, Operation
  <2>4. QED BY <2>2, <2>3, SameKeeps
<1>8. ASSUME NEW a \in Operators, NEW good, Onward(a, good)
      PROVE  Carried'
  <2>1. PICK g : op' = [op EXCEPT ![a] = Further(op[a], g)]
    BY <1>8, Zenon DEF Onward
  <2>2. Further(op[a], g).kind = op[a].kind /\ Further(op[a], g).ver = op[a].ver
    BY <1>1 DEF Further, Operation
  <2>3. QED BY <2>1, <2>2, SameKeeps
<1>9. ASSUME NEW a \in Operators, StartSpawn(a) \/ StartRecorded(a) \/ StopAsk(a)
      PROVE  Carried'
  <2>1. PICK step, id : op' = [op EXCEPT ![a] = Doing(op[a], step, id)]
    BY <1>9, Zenon DEF StartSpawn, StartRecorded, StopAsk
  <2>2. Doing(op[a], step, id).kind = op[a].kind /\ Doing(op[a], step, id).ver = op[a].ver
    BY <1>1 DEF Doing, Operation
  <2>3. QED BY <2>1, <2>2, SameKeeps
<1>10. ASSUME NEW a \in Operators, EnterFree(a) \/ LeaveLock(a)
       PROVE  Carried'
  <2>1. PICK step : op' = [op EXCEPT ![a].step = step]
    BY <1>10, Zenon DEF EnterFree, LeaveLock
  <2>2. \A b \in Operators : op'[b].kind = op[b].kind /\ op'[b].ver = op[b].ver
    BY <1>1, <2>1 DEF Operation
  <2>3. QED BY <2>2 DEF Carried
<1>11. ASSUME (\E p \in procs : ProcessExits(p)) \/ (\E i \in 1..spawned : PidTaken(i))
       PROVE  Carried'
  BY <1>11 DEF ProcessExits, PidTaken, Carried
<1>12. ASSUME NEW a \in Operators,
              \/ StartPresent(a) \/ StartRefused(a) \/ StartUnrecorded(a) \/ StartStable(a)
              \/ StartUnstable(a) \/ StopNothing(a) \/ StopAskFails(a) \/ StopEnded(a)
              \/ StopTimeout(a) \/ LookAt(a)
       PROVE  Carried'
  <2>1. PICK good : Onward(a, good)
    BY <1>12, Zenon DEF StartPresent, StartRefused, StartUnrecorded, StartStable,
          StartUnstable, StopNothing, StopAskFails, StopEnded, StopTimeout, LookAt
  <2>2. QED BY <1>8, <2>1
<1>13. QED
  BY <1>3, <1>4, <1>5, <1>6, <1>7, <1>9, <1>10, <1>11, <1>12
     DEF RuntimeNext, OpStep, Surroundings

-----------------------------------------------------------------------------
(* The specification                                                       *)

(* As an earlier start left the components. *)
LEMMA InitHolds ==
    ASSUME RuntimeInit
    PROVE  RInv /\ Carried
<1>1. Len(Order) \in Nat /\ \A i \in 1..Len(Order) : Order[i] \in Components
  BY RuntimeAssumption
<1>2. PICK v \in Versions, on \in SUBSET Components :
         /\ procs = {[id |-> i, comp |-> Order[i], ver |-> v] :
                       i \in {j \in 1..Len(Order) : Order[j] \in on}}
         /\ record = [c \in Components |->
                IF c \in on
                THEN [id |-> CHOOSE i \in 1..Len(Order) : Order[i] = c, life |-> "running"]
                ELSE NoRecord]
  BY DEF RuntimeInit
<1>3. \A c \in Components :
         record[c] = NoRecord \/
         (\E i \in 1..Len(Order) : record[c] = [id |-> i, life |-> "running"])
  <2>1. ASSUME NEW c \in Components
        PROVE  (CHOOSE i \in 1..Len(Order) : Order[i] = c) \in 1..Len(Order)
    BY RuntimeAssumption
  <2>2. QED BY <1>2, <2>1
<1>0. \A c \in Components : record[c] # NoRecord =>
         record[c].id \in 1..Len(Order) /\ record[c].life = "running"
  <2>1. ASSUME NEW c \in Components, record[c] # NoRecord
        PROVE  record[c].id \in 1..Len(Order) /\ record[c].life = "running"
    <3>1. PICK i \in 1..Len(Order) : record[c] = [id |-> i, life |-> "running"]
      BY <1>3, <2>1
    <3>2. QED BY <3>1
  <2>2. QED BY <2>1
<1>4. \A c \in Components : record[c] \in Record \cup {NoRecord}
  <2>1. \A i \in 1..Len(Order) : [id |-> i, life |-> "running"] \in Record
    BY <1>1 DEF Record, Lives
  <2>2. QED BY <1>3, <2>1
<1>5. procs \subseteq Process /\ \A p \in procs : p.id <= Len(Order)
  BY <1>1, <1>2 DEF Process
<1>6. /\ spawned = Len(Order) /\ taken = {} /\ oplock = Nobody
      /\ op = [a \in Operators |-> Idle] /\ kills = 0 /\ unsaved = 0 /\ exits = 0
      /\ limit \in Limits
  BY DEF RuntimeInit
<1>7. Idle \in Operation /\ Idle.step = "enter" /\ Idle.id = 0 /\ Idle.kind = "none"
  <2>1. "none" \in Kinds
    BY DEF Kinds
  <2>2. Idle.kind = "none"
    BY DEF Idle, Begun
  <2>3. QED BY <2>1, <2>2, BegunIs DEF Idle
<1>8. RuntimeTypeOK
  BY <1>1, <1>2, <1>4, <1>5, <1>6, <1>7 DEF RuntimeTypeOK
<1>9. \A a \in Operators : ~Inside(a)
  BY <1>6, <1>7 DEF Inside
<1>10. Numbers
  <2>1. \A c \in Components : record[c] # NoRecord => record[c].id <= Len(Order)
    BY <1>0, <1>1
  <2>2. \A a \in Operators : op[a].id <= Len(Order)
    BY <1>1, <1>6, <1>7
  <2>3. QED BY <1>5, <1>6, <2>1, <2>2 DEF Numbers
<1>11. Naming
  BY <1>0, <1>9 DEF Naming
<1>12. Locking /\ Carried
  BY <1>6, <1>7, <1>9 DEF Locking, Carried
<1>13. QED
  BY <1>8, <1>10, <1>11, <1>12 DEF RInv

(* Every step keeps the invariant, and writes over no record of a process   *)
(* that lives.                                                             *)
LEMMA StepKeeps ==
    ASSUME RInv, Carried, RuntimeNext
    PROVE  RInv' /\ StillKnown
<1>1. ASSUME NEW a \in Operators, NEW v \in Versions, Ask(a, "precheck", v)
      PROVE  RInv' /\ StillKnown
  BY <1>1, AskKeeps DEF Kinds
<1>2. ASSUME NEW a \in Operators, NEW kind \in {"stop", "status"}, Ask(a, kind, NoVersion)
      PROVE  RInv' /\ StillKnown
  BY <1>2, AskKeeps DEF Kinds
<1>3. ASSUME NEW a \in Operators, OpStep(a)
      PROVE  RInv' /\ StillKnown
  BY <1>3, EndsKeep, EnterKeeps, PassesKeep, SpawnKeeps, RecordedKeeps, StableKeeps,
     StopAskKeeps, AskFailsKeeps, EndingKeeps, LeaveKeeps, PreflightKeeps DEF OpStep
<1>4. ASSUME NEW a \in Operators, Collect(a) \/ KillOp(a)
      PROVE  RInv' /\ StillKnown
  BY <1>4, EndsKeep, KillKeeps
<1>5. QED
  BY <1>1, <1>2, <1>3, <1>4, SurroundingsKeep DEF RuntimeNext, Surroundings

(* A step that changes nothing. *)
LEMMA StillKeeps ==
    ASSUME RInv, Carried, UNCHANGED runtimeVars
    PROVE  RInv' /\ Carried'
<1>1. /\ procs' = procs /\ spawned' = spawned /\ taken' = taken /\ record' = record
      /\ oplock' = oplock /\ op' = op /\ kills' = kills /\ unsaved' = unsaved
      /\ exits' = exits /\ limit' = limit
  BY DEF runtimeVars
<1>2. RuntimeTypeOK' /\ Carried'
  BY <1>1 DEF RuntimeTypeOK, RInv, Carried
<1>3. Locking' /\ Numbers'
  BY <1>1 DEF Locking, Numbers, RInv, Inside
<1>4. Naming'
  BY <1>1 DEF Naming, RInv, Inside, Free, LiveIds, More, At, About
<1>5. QED
  BY <1>2, <1>3, <1>4 DEF RInv

(* The types hold, the lock file names who works on the records, instance   *)
(* numbers are used once and records name what they should, for any number *)
(* of operators and components (runtime/lifecycle.py).                      *)
THEOREM RuntimeInvariant == RuntimeSpec => [](RInv /\ Carried)
<1>1. RuntimeInit => RInv /\ Carried
  BY InitHolds
<1>2. RInv /\ Carried /\ [RuntimeNext]_runtimeVars => (RInv /\ Carried)'
  BY StepKeeps, CarriedKeeps, StillKeeps
<1>3. QED
  BY <1>1, <1>2, PTL DEF RuntimeSpec

(* No operation of any operator, wherever others are killed, writes over    *)
(* the record that names a process that is still there: it can always be   *)
(* found and stopped (runtime/lifecycle.py 138-211, 213-290).               *)
THEOREM RecordsKept == RuntimeSpec => KnownStaysKnown
<1>1. RInv /\ Carried /\ [RuntimeNext]_runtimeVars =>
        [\A p \in procs :
          /\ record[p.comp] # NoRecord /\ record[p.comp].id = p.id
          /\ p \in procs'
          => /\ record'[p.comp] # NoRecord
             /\ record'[p.comp].id = p.id
             /\ record'[p.comp].life # "stopped"]_runtimeVars
  BY StepKeeps DEF StillKnown, About
<1>2. QED
  BY <1>1, RuntimeInvariant, PTL DEF RuntimeSpec, KnownStaysKnown

-----------------------------------------------------------------------------
(* How many processes of a component run                                   *)

Of(c) == {p \in procs : p.comp = c}

(* One of the processes of a component is accounted for: its record names   *)
(* it, or the operation that started it is about to write that record.     *)
Occupied(c) ==
    \E p \in Of(c) :
        \/ About(c, p.id)
        \/ \E a \in Operators : /\ Inside(a) /\ op[a].step = "spawned"
                                /\ At(a) = c /\ op[a].id = p.id

(* The processes that are not accounted for are those whose record could    *)
(* not be written, and one that was started by a command killed before it  *)
(* wrote the record: that command leaves its lock file, which stops every  *)
(* other one.                                                              *)
Few ==
    /\ IsFiniteSet(procs)
    /\ \A c \in Components :
         /\ Cardinality(Of(c)) <= 1 + unsaved
         /\ oplock # Leftover /\ ~Occupied(c) => Cardinality(Of(c)) <= unsaved

LEMMA OfFinite ==
    ASSUME IsFiniteSet(procs), NEW c
    PROVE  IsFiniteSet(Of(c)) /\ Cardinality(Of(c)) \in Nat
<1>1. Of(c) \in SUBSET procs
  BY DEF Of
<1>2. IsFiniteSet(Of(c))
  BY <1>1, FS_Subset
<1>3. QED
  BY <1>2, FS_CardinalityType

(* Nothing is started: a component that loses a process runs one less.      *)
LEMMA FewerStay ==
    ASSUME Few, procs' \subseteq procs, unsaved \in Nat, unsaved' \in Nat, unsaved <= unsaved',
           oplock' # Leftover => oplock # Leftover,
           oplock' # Leftover => \A c \in Components :
              Of(c) \subseteq procs' /\ Occupied(c) => Occupied(c)' \/ unsaved' > unsaved
    PROVE  Few'
<1>1. IsFiniteSet(procs) /\ procs' \in SUBSET procs
  BY DEF Few
<1>2. IsFiniteSet(procs')
  BY <1>1, FS_Subset
<1>3. ASSUME NEW c \in Components
      PROVE  /\ Cardinality(Of(c)') <= 1 + unsaved'
             /\ oplock' # Leftover /\ ~Occupied(c)' => Cardinality(Of(c)') <= unsaved'
  <2> DEFINE S == Of(c)
             T == Of(c)'
  <2>1. IsFiniteSet(S) /\ Cardinality(S) \in Nat
    BY <1>1, OfFinite
  <2>2. T \in SUBSET S /\ (Of(c) \subseteq procs' => T = S) /\ (T = S => Of(c) \subseteq procs')
    BY DEF Of
  <2>3. /\ Cardinality(S) <= 1 + unsaved
        /\ oplock # Leftover /\ ~Occupied(c) => Cardinality(S) <= unsaved
    BY DEF Few
  <2> HIDE DEF S, T
  <2>4. /\ IsFiniteSet(T) /\ Cardinality(T) <= Cardinality(S)
        /\ (Cardinality(S) = Cardinality(T) => S = T)
    BY <2>1, <2>2, FS_Subset
  <2>5. Cardinality(T) \in Nat
    BY <2>4, FS_CardinalityType
  <2>6. Cardinality(T) <= 1 + unsaved'
    BY <2>1, <2>3, <2>4, <2>5
  <2>7. ASSUME oplock' # Leftover, ~Occupied(c)'
        PROVE  Cardinality(T) <= unsaved'
    <3>1. CASE T # S
      BY <2>1, <2>3, <2>4, <2>5, <3>1
    <3>2. CASE T = S /\ Occupied(c)
      <4>1. unsaved' > unsaved
        BY <2>2, <2>7, <3>2
      <4>2. QED BY <2>1, <2>3, <2>4, <2>5, <4>1
    <3>3. CASE T = S /\ ~Occupied(c)
      <4>1. Cardinality(S) <= unsaved
        BY <2>3, <2>7, <3>3
      <4>2. QED BY <2>1, <2>4, <2>5, <4>1
    <3>4. QED BY <3>1, <3>2, <3>3
  <2>8. QED BY <2>6, <2>7 DEF T
<1>4. QED
  BY <1>2, <1>3 DEF Few

(* A process is started where none is accounted for, by the holder of the   *)
(* lock file.                                                              *)
LEMMA SpawnedFew ==
    ASSUME RInv, Few, NEW a \in Operators, StartSpawn(a), NEW c, c = At(a),
           NEW n, n = [id |-> spawned + 1, comp |-> c, ver |-> op[a].ver]
    PROVE  Few'
<1>1. /\ Inside(a) /\ More(a) /\ op[a].step = "scan" /\ Seen(c) = "absent"
      /\ procs' = procs \cup {n} /\ unsaved' = unsaved /\ oplock' = oplock /\ record' = record
      /\ op' = [op EXCEPT ![a] = Doing(op[a], "spawned", spawned + 1)]
  BY DEF StartSpawn, Inside
<1>2. c \in Components /\ oplock = a /\ oplock # Leftover /\ unsaved \in Nat
  BY <1>1, AtIs, RuntimeAssumption DEF RInv, Locking, RuntimeTypeOK
<1>3. Free(c)
  BY <1>1, <1>2 DEF Seen, Free, RInv, Naming
<1>4. \A b \in Operators : b # a => ~Inside(b)
  BY <1>2 DEF RInv, Locking
<1>5. ~Occupied(c)
  BY <1>1, <1>3, <1>4 DEF Occupied, Of, Free, About, LiveIds
<1>6. spawned + 1 \in Nat /\ op[a] \in Operation /\ "spawned" \in Steps
  BY Parts DEF RInv, Steps
<1>7. /\ op'[a].kind = op[a].kind /\ op'[a].step = "spawned" /\ op'[a].id = spawned + 1
      /\ op'[a].at = op[a].at /\ \A b \in Operators : b # a => op'[b] = op[b]
  <2>1. /\ Doing(op[a], "spawned", spawned + 1) \in Operation
        /\ Doing(op[a], "spawned", spawned + 1).kind = op[a].kind
        /\ Doing(op[a], "spawned", spawned + 1).step = "spawned"
        /\ Doing(op[a], "spawned", spawned + 1).id = spawned + 1
        /\ Doing(op[a], "spawned", spawned + 1).at = op[a].at
    BY <1>6, DoingIs
  <2> DEFINE o == Doing(op[a], "spawned", spawned + 1)
  <2> HIDE DEF o
  <2>2. op' = [op EXCEPT ![a] = o] /\ op \in [Operators -> Operation]
    BY <1>1 DEF o, RInv, RuntimeTypeOK
  <2>3. op'[a] = o /\ \A b \in Operators : b # a => op'[b] = op[b]
    BY <2>2
  <2>4. QED BY <2>1, <2>3 DEF o
<1>8. n.comp = c /\ n.id = spawned + 1
  OBVIOUS
<1>9. Occupied(c)'
  <2>1. n \in Of(c)'
    BY <1>1, <1>8 DEF Of
  <2>2. Inside(a)' /\ op'[a].step = "spawned" /\ At(a)' = c /\ op'[a].id = n.id
    BY <1>1, <1>7, <1>8 DEF Inside, At
  <2>3. QED BY <2>1, <2>2, Zenon DEF Occupied
<1>10. IsFiniteSet(procs')
  BY <1>1, FS_AddElement DEF Few
<1>11. Cardinality(Of(c)') <= 1 + unsaved'
  <2>1. IsFiniteSet(Of(c)) /\ Cardinality(Of(c)) \in Nat /\ Cardinality(Of(c)) <= unsaved
    BY <1>2, <1>5, OfFinite DEF Few
  <2>2. Of(c)' = Of(c) \cup {n}
    BY <1>1, <1>8 DEF Of
  <2> DEFINE S == Of(c)
  <2> HIDE DEF S
  <2>3. /\ IsFiniteSet(S \cup {n})
        /\ Cardinality(S \cup {n}) = IF n \in S THEN Cardinality(S) ELSE Cardinality(S) + 1
    BY <2>1, FS_AddElement DEF S
  <2>4. Cardinality(S \cup {n}) <= 1 + unsaved
    BY <1>2, <2>1, <2>3 DEF S
  <2>5. QED BY <1>1, <2>2, <2>4 DEF S
<1>12. ASSUME NEW d \in Components, d # c
       PROVE  Of(d)' = Of(d) /\ (Occupied(d) => Occupied(d)')
  <2>1. Of(d)' = Of(d)
    BY <1>1, <1>8, <1>12 DEF Of
  <2>2. ASSUME Occupied(d) PROVE Occupied(d)'
    <3>1. PICK p \in Of(d) :
            \/ About(d, p.id)
            \/ \E b \in Operators : /\ Inside(b) /\ op[b].step = "spawned"
                                    /\ At(b) = d /\ op[b].id = p.id
      BY <2>2 DEF Occupied
    <3>2. About(d, p.id)
      BY <1>1, <1>4, <3>1
    <3>3. QED BY <1>1, <2>1, <3>1, <3>2 DEF Occupied, About
  <2>3. QED BY <2>1, <2>2
<1>13. ASSUME NEW d \in Components
       PROVE  /\ Cardinality(Of(d)') <= 1 + unsaved'
              /\ oplock' # Leftover /\ ~Occupied(d)' => Cardinality(Of(d)') <= unsaved'
  <2>1. CASE d = c
    BY <1>9, <1>11, <2>1
  <2>2. CASE d # c
    BY <1>1, <1>12, <2>2 DEF Few
  <2>3. QED BY <2>1, <2>2
<1>14. QED
  BY <1>10, <1>13 DEF Few

(* An operation that has started a process writes its record next. *)
Recording ==
    \A b \in Operators :
        Inside(b) /\ op[b].step = "spawned" =>
            \/ op'[b] = op[b]
            \/ record'[At(b)] # NoRecord /\ record'[At(b)].id = op[b].id

LEMMA OccupiedStays ==
    ASSUME RInv, StillKnown, Recording, NEW c \in Components, Of(c) \subseteq procs', Occupied(c)
    PROVE  Occupied(c)'
<1>1. PICK p \in Of(c) :
         \/ About(c, p.id)
         \/ \E a \in Operators : /\ Inside(a) /\ op[a].step = "spawned"
                                 /\ At(a) = c /\ op[a].id = p.id
  BY DEF Occupied
<1>2. p \in procs /\ p.comp = c /\ p \in procs' /\ p \in Of(c)'
  BY <1>1 DEF Of
<1>3. CASE About(c, p.id)
  <2>1. About(c, p.id)'
    BY <1>2, <1>3 DEF StillKnown, About
  <2>2. QED BY <1>2, <2>1 DEF Occupied
<1>4. ASSUME NEW a \in Operators, Inside(a), op[a].step = "spawned", At(a) = c, op[a].id = p.id
      PROVE  Occupied(c)'
  <2>1. CASE op'[a] = op[a]
    <3>1. Inside(a)' /\ op'[a].step = "spawned" /\ At(a)' = c /\ op'[a].id = p.id
      BY <1>4, <2>1 DEF Inside, At
    <3>2. QED BY <1>2, <3>1, Zenon DEF Occupied
  <2>2. CASE record'[At(a)] # NoRecord /\ record'[At(a)].id = op[a].id
    <3>1. About(c, p.id)'
      BY <1>4, <2>2 DEF About
    <3>2. QED BY <1>2, <3>1 DEF Occupied
  <2>3. QED BY <1>4, <2>1, <2>2 DEF Recording
<1>5. QED
  BY <1>1, <1>3, <1>4

(* A step of an operation that starts nothing. *)
LEMMA StepsFew ==
    ASSUME RInv, Few, StillKnown, NEW a \in Operators, NEW o, op' = [op EXCEPT ![a] = o],
           procs' \subseteq procs, unsaved' = unsaved,
           oplock' # Leftover => oplock # Leftover,
           Inside(a) /\ op[a].step = "spawned" =>
              record'[At(a)] # NoRecord /\ record'[At(a)].id = op[a].id
    PROVE  Few'
<1>1. op \in [Operators -> Operation] /\ unsaved \in Nat
  BY DEF RInv, RuntimeTypeOK
<1>2. Recording
  BY <1>1 DEF Recording
<1>3. \A c \in Components : Of(c) \subseteq procs' /\ Occupied(c) => Occupied(c)'
  BY <1>2, OccupiedStays
<1>4. QED
  BY <1>1, <1>3, FewerStay

(* Every step of an operation but the start of a process. *)
LEMMA OperationFew ==
    ASSUME RInv, Few, StillKnown, NEW a \in Operators, OpStep(a), ~StartSpawn(a), ~StartUnrecorded(a)
    PROVE  Few'
<1>1. \E o : op' = [op EXCEPT ![a] = o]
  <2>1. ASSUME NEW good, Onward(a, good)
        PROVE  \E o : op' = [op EXCEPT ![a] = o]
    BY <2>1, Zenon DEF Onward
  <2>2. CASE EnterFree(a) \/ LeaveLock(a)
    BY <2>2 DEF EnterFree, LeaveLock
  <2>3. CASE \/ EnterBusy(a) \/ PreflightFailed(a) \/ PreflightPassed(a)
             \/ StartRecorded(a) \/ StopAsk(a)
    BY <2>3, Zenon DEF EnterBusy, PreflightFailed, PreflightPassed, StartRecorded, StopAsk
  <2>4. CASE \/ StartPresent(a) \/ StartRefused(a) \/ StartStable(a) \/ StartUnstable(a)
             \/ StopNothing(a) \/ StopAskFails(a) \/ StopEnded(a) \/ StopTimeout(a) \/ LookAt(a)
    BY <2>1, <2>4, Zenon DEF StartPresent, StartRefused, StartStable, StartUnstable,
       StopNothing, StopAskFails, StopEnded, StopTimeout, LookAt
  <2>5. QED BY <2>2, <2>3, <2>4 DEF OpStep
<1>2. procs' \subseteq procs
  <2>1. CASE StopEnded(a)
    BY <2>1 DEF StopEnded
  <2>2. CASE ~StopEnded(a)
    BY <2>2, Zenon DEF OpStep, EnterBusy, EnterFree, StartPresent, StartRefused,
       StartRecorded, StartStable, StartUnstable, StopNothing, StopAsk, StopAskFails,
       StopTimeout, LookAt, LeaveLock, PreflightPassed, PreflightFailed
  <2>3. QED BY <2>1, <2>2
<1>3. unsaved' = unsaved
  BY Zenon DEF OpStep, EnterBusy, EnterFree, StartPresent, StartRefused,
     StartRecorded, StartStable, StartUnstable, StopNothing, StopAsk, StopAskFails,
     StopEnded, StopTimeout, LookAt, LeaveLock, PreflightPassed, PreflightFailed
<1>4. oplock' # Leftover => oplock # Leftover
  <2>1. CASE EnterFree(a)
    BY <2>1, RuntimeAssumption DEF EnterFree
  <2>2. CASE LeaveLock(a)
    <3>1. Inside(a)
      BY <2>2 DEF LeaveLock, Inside
    <3>2. QED BY <3>1, RuntimeAssumption DEF RInv, Locking
  <2>3. CASE ~EnterFree(a) /\ ~LeaveLock(a)
    BY <2>3, Zenon DEF OpStep, EnterBusy, StartPresent, StartRefused,
       StartRecorded, StartStable, StartUnstable, StopNothing, StopAsk, StopAskFails,
       StopEnded, StopTimeout, LookAt, PreflightPassed, PreflightFailed
  <2>4. QED BY <2>1, <2>2, <2>3
<1>5. ASSUME Inside(a), op[a].step = "spawned"
      PROVE  record'[At(a)] # NoRecord /\ record'[At(a)].id = op[a].id
  <2>1. StartRecorded(a)
    BY <1>5 DEF OpStep, EnterBusy, EnterFree, StartPresent, StartRefused,
       StartStable, StartUnstable, StopNothing, StopAsk, StopAskFails,
       StopEnded, StopTimeout, LookAt, LeaveLock, PreflightPassed, PreflightFailed
  <2>2. At(a) \in Components
    BY <1>5, AtIs DEF RInv, Naming
  <2>3. record' = [record EXCEPT ![At(a)] = [id |-> op[a].id, life |-> "starting"]]
    BY <2>1 DEF StartRecorded, Save
  <2>4. [id |-> op[a].id, life |-> "starting"] \in Record
    BY Parts DEF RInv, Record, Lives
  <2>5. record \in [Components -> Record \cup {NoRecord}]
    BY DEF RInv, RuntimeTypeOK
  <2>6. QED BY <2>2, <2>3, <2>4, <2>5, RecordAssumption
<1>6. QED
  BY <1>1, <1>2, <1>3, <1>4, <1>5, StepsFew

(* A process that cannot be recorded, a command that is started, is killed  *)
(* or has ended, and the surroundings.                                     *)
LEMMA OthersFew ==
    ASSUME RInv, Few, StillKnown,
           \/ \E a \in Operators : \/ StartUnrecorded(a) \/ KillOp(a) \/ Collect(a)
                                   \/ \E kind \in Kinds, v \in Versions \cup {NoVersion} :
                                         Ask(a, kind, v)
           \/ \E p \in procs : ProcessExits(p)
           \/ \E i \in 1..spawned : PidTaken(i)
    PROVE  Few'
<1>1. op \in [Operators -> Operation] /\ unsaved \in Nat
  BY DEF RInv, RuntimeTypeOK
<1>2. ASSUME NEW a \in Operators, StartUnrecorded(a)
      PROVE  Few'
  <2>1. procs' = procs /\ oplock' = oplock /\ unsaved' = unsaved + 1
    BY <1>2, Zenon DEF StartUnrecorded
  <2>2. unsaved' \in Nat /\ unsaved' > unsaved /\ unsaved <= unsaved'
    BY <1>1, <2>1
  <2>3. QED BY <1>1, <2>1, <2>2, FewerStay
<1>3. ASSUME NEW a \in Operators, KillOp(a)
      PROVE  Few'
  <2>1. /\ procs' = procs /\ unsaved' = unsaved /\ record' = record
        /\ oplock' = (IF oplock = a THEN Leftover ELSE oplock)
        /\ op' = [op EXCEPT ![a] = Over(op[a], FALSE)]
    BY <1>3, Zenon DEF KillOp
  <2>2. CASE oplock = a
    BY <1>1, <2>1, <2>2, FewerStay
  <2>3. CASE oplock # a
    <3>1. ~Inside(a) /\ oplock' = oplock
      BY <2>1, <2>3 DEF RInv, Locking
    <3>2. \E o : op' = [op EXCEPT ![a] = o]
      BY <2>1, Zenon
    <3>3. QED BY <2>1, <3>1, <3>2, StepsFew
  <2>4. QED BY <2>2, <2>3
<1>4. ASSUME NEW a \in Operators,
             Collect(a) \/ \E kind \in Kinds, v \in Versions \cup {NoVersion} : Ask(a, kind, v)
      PROVE  Few'
  <2>1. /\ \E o : op' = [op EXCEPT ![a] = o]
        /\ procs' = procs /\ unsaved' = unsaved /\ oplock' = oplock
        /\ op[a].kind = "none" \/ op[a].step = "done"
    BY <1>4, Zenon DEF Collect, Ask
  <2>2. ~Inside(a)
    BY <2>1 DEF Inside
  <2>3. QED BY <2>1, <2>2, StepsFew
<1>5. ASSUME (\E p \in procs : ProcessExits(p)) \/ (\E i \in 1..spawned : PidTaken(i))
      PROVE  Few'
  <2>1. /\ procs' \subseteq procs /\ unsaved' = unsaved /\ oplock' = oplock /\ op' = op
    BY <1>5 DEF ProcessExits, PidTaken
  <2>2. Recording
    BY <2>1 DEF Recording
  <2>3. \A c \in Components : Of(c) \subseteq procs' /\ Occupied(c) => Occupied(c)'
    BY <2>2, OccupiedStays
  <2>4. QED BY <1>1, <2>1, <2>3, FewerStay
<1>6. QED
  BY <1>2, <1>3, <1>4, <1>5

(* Every step, and a step that changes nothing. *)
LEMMA FewKept ==
    ASSUME RInv, Carried, Few, RuntimeNext
    PROVE  Few'
<1>1. StillKnown
  BY StepKeeps
<1>2. ASSUME NEW a \in Operators, StartSpawn(a)
      PROVE  Few'
  <2>1. PICK c : c = At(a)
    OBVIOUS
  <2>2. PICK n : n = [id |-> spawned + 1, comp |-> c, ver |-> op[a].ver]
    OBVIOUS
  <2>3. QED BY <1>2, <2>1, <2>2, SpawnedFew
<1>3. ASSUME NEW a \in Operators, OpStep(a)
      PROVE  Few'
  <2>1. CASE StartUnrecorded(a)
    BY <1>1, <2>1, OthersFew
  <2>2. CASE ~StartUnrecorded(a) /\ ~StartSpawn(a)
    BY <1>1, <1>3, <2>2, OperationFew
  <2>3. QED BY <1>2, <2>1, <2>2
<1>4. ASSUME NEW a \in Operators, NEW v \in Versions, Ask(a, "precheck", v)
      PROVE  Few'
  <2>1. "precheck" \in Kinds
    BY DEF Kinds
  <2>2. QED BY <1>1, <1>4, <2>1, OthersFew
<1>5. ASSUME NEW a \in Operators, NEW kind \in {"stop", "status"}, Ask(a, kind, NoVersion)
      PROVE  Few'
  <2>1. kind \in Kinds
    BY DEF Kinds
  <2>2. QED BY <1>1, <1>5, <2>1, OthersFew
<1>6. ASSUME NEW a \in Operators, Collect(a) \/ KillOp(a)
      PROVE  Few'
  BY <1>1, <1>6, OthersFew
<1>7. ASSUME (\E p \in procs : ProcessExits(p)) \/ (\E i \in 1..spawned : PidTaken(i))
      PROVE  Few'
  BY <1>1, <1>7, OthersFew
<1>8. QED
  BY <1>3, <1>4, <1>5, <1>6, <1>7 DEF RuntimeNext, Surroundings

LEMMA FewStill ==
    ASSUME Few, procs' = procs, record' = record, oplock' = oplock, op' = op, unsaved' = unsaved
    PROVE  Few'
BY DEF Few, Occupied, Of, About, Inside, At

(* As an earlier start left the components, each runs at most once. *)
LEMMA FewAtFirst ==
    ASSUME RuntimeInit
    PROVE  Few
<1>1. PICK v \in Versions, on \in SUBSET Components :
         /\ procs = {[id |-> i, comp |-> Order[i], ver |-> v] :
                       i \in {j \in 1..Len(Order) : Order[j] \in on}}
         /\ record = [c \in Components |->
                IF c \in on
                THEN [id |-> CHOOSE i \in 1..Len(Order) : Order[i] = c, life |-> "running"]
                ELSE NoRecord]
  BY DEF RuntimeInit
<1>2. unsaved = 0
  BY DEF RuntimeInit
<1>3. IsFiniteSet(procs)
  <2> DEFINE I == {j \in 1..Len(Order) : Order[j] \in on}
             F == [i \in I |-> [id |-> i, comp |-> Order[i], ver |-> v]]
  <2>1. IsFiniteSet(1..Len(Order)) /\ I \in SUBSET (1..Len(Order))
    BY RuntimeAssumption, FS_Interval
  <2>2. IsFiniteSet(I)
    BY <2>1, FS_Subset
  <2>3. F \in Surjection(I, procs)
    BY <1>1 DEF Surjection
  <2> HIDE DEF I, F
  <2>4. QED BY <2>2, <2>3, FS_Surjection
<1>4. ASSUME NEW c \in Components
      PROVE  /\ Cardinality(Of(c)) <= 1 + unsaved
             /\ ~Occupied(c) => Cardinality(Of(c)) <= unsaved
  <2>1. CASE Of(c) = {}
    BY <1>2, <2>1, FS_EmptySet
  <2>2. CASE Of(c) # {}
    <3>1. PICK p \in Of(c) : TRUE
      BY <2>2
    <3>2. PICK i \in 1..Len(Order) :
             /\ Order[i] = c /\ c \in on
             /\ p = [id |-> i, comp |-> c, ver |-> v]
      BY <1>1, <3>1 DEF Of
    <3>3. (CHOOSE j \in 1..Len(Order) : Order[j] = c) = i
      BY <3>2, RuntimeAssumption
    <3>4. Of(c) = {p}
      <4>1. ASSUME NEW q \in Of(c)
            PROVE  q = p
        <5>1. PICK j \in 1..Len(Order) : Order[j] = c /\ q = [id |-> j, comp |-> c, ver |-> v]
          BY <1>1, <4>1 DEF Of
        <5>2. j = i
          BY <3>2, <5>1, RuntimeAssumption
        <5>3. QED BY <3>2, <5>1, <5>2
      <4>2. QED BY <3>1, <4>1
    <3>5. About(c, p.id)
      <4>1. record[c] = [id |-> i, life |-> "running"]
        BY <1>1, <3>2, <3>3
      <4>2. record[c] \in Record
        BY <3>2, <4>1, RuntimeAssumption DEF Record, Lives
      <4>3. QED BY <3>2, <4>1, <4>2, RecordAssumption DEF About
    <3>6. Occupied(c)
      BY <3>1, <3>5 DEF Occupied
    <3>7. Cardinality(Of(c)) = 1
      BY <3>4, FS_Singleton
    <3>8. QED BY <1>2, <3>6, <3>7
  <2>3. QED BY <2>1, <2>2
<1>5. QED
  BY <1>3, <1>4 DEF Few

(* The processes that nothing accounts for are counted in every state.     *)
THEOREM RuntimeCounted == RuntimeSpec => []Few
<1>1. RuntimeInit => Few
  BY FewAtFirst
<1>2. RInv /\ Carried /\ Few /\ [RuntimeNext]_runtimeVars => Few'
  BY FewKept, FewStill DEF runtimeVars
<1>3. QED
  BY <1>1, <1>2, RuntimeInvariant, PTL DEF RuntimeSpec

(* However the commands of any number of operators interleave, wherever     *)
(* they are killed and whatever ends by itself, a component runs at most    *)
(* once, and once more for each record that could not be written           *)
(* (runtime/lifecycle.py 138-211, 213-290).                                 *)
THEOREM OneAtMost == RuntimeSpec => []OneProcess
<1>1. Few => OneProcess
  BY DEF Few, OneProcess, Of
<1>2. QED
  BY <1>1, RuntimeCounted, PTL

-----------------------------------------------------------------------------
(* What an operation carries along                                         *)

(* An operation that goes on is the one it was: a look before a start       *)
(* becomes the start, of the same version.                                 *)
Onwards(a) ==
    \E o \in Operation :
        /\ op' = [op EXCEPT ![a] = o] /\ o.ver = op[a].ver
        /\ o.kind = op[a].kind \/ (op[a].kind = "precheck" /\ o.kind = "start")
        /\ o.step = "spawned" => StartSpawn(a)

LEMMA OpGoes ==
    ASSUME RuntimeTypeOK, NEW a \in Operators, OpStep(a)
    PROVE  Onwards(a)
<1>1. op[a] \in Operation /\ op \in [Operators -> Operation] /\ spawned + 1 \in Nat
  BY Parts DEF RuntimeTypeOK
<1>2. ASSUME NEW good, Onward(a, good)
      PROVE  Onwards(a)
  <2>1. PICK g \in BOOLEAN : op' = [op EXCEPT ![a] = Further(op[a], g)]
    <3>1. (op[a].good /\ good) \in BOOLEAN
      BY Zenon
    <3>2. QED BY <1>2, <3>1, Zenon DEF Onward
  <2> DEFINE o == Further(op[a], g)
  <2>2. o \in Operation /\ o.step = "scan" /\ o.kind = op[a].kind
    BY <1>1, FurtherIs
  <2>3. o.ver = op[a].ver
    BY <1>1 DEF Further, Operation
  <2>4. op' = [op EXCEPT ![a] = o]
    BY <2>1
  <2> HIDE DEF o
  <2>5. QED BY <2>2, <2>3, <2>4 DEF Onwards
<1>3. CASE EnterBusy(a) \/ PreflightFailed(a)
  <2>1. op' = [op EXCEPT ![a] = Over(op[a], FALSE)]
    BY <1>3, Zenon DEF EnterBusy, PreflightFailed
  <2>2. PICK g \in BOOLEAN : op' = [op EXCEPT ![a] = Over(op[a], g)]
    BY <2>1, Zenon
  <2> DEFINE o == Over(op[a], g)
  <2>3. o \in Operation /\ o.step = "done"
    BY <1>1, OverIs
  <2>4. o.ver = op[a].ver /\ o.kind = op[a].kind
    BY <1>1 DEF Over, Operation
  <2>5. op' = [op EXCEPT ![a] = o]
    BY <2>2
  <2> HIDE DEF o
  <2>6. QED BY <2>3, <2>4, <2>5 DEF Onwards
<1>4. CASE StartSpawn(a) \/ StartRecorded(a) \/ StopAsk(a)
  <2> DEFINE Does(step, id) ==
           /\ op' = [op EXCEPT ![a] = Doing(op[a], step, id)]
           /\ step = "spawned" => StartSpawn(a)
           /\ id \in {spawned + 1, op[a].id, record[At(a)].id}
           /\ id = record[At(a)].id => id = op[a].id \/ id = spawned + 1 \/ StopAsk(a)
  <2>0. PICK step \in {"spawned", "saved", "ending"} : \E id : Does(step, id)
    BY <1>4, Zenon DEF StartSpawn, StartRecorded, StopAsk
  <2>1. PICK id : Does(step, id)
    BY <2>0
  <2> DEFINE o == Doing(op[a], step, id)
  <2>2. id \in Nat
    <3>1. CASE StopAsk(a)
      <4>1. At(a) \in Components
        BY <3>1, AtIs DEF StopAsk
      <4>2. record[At(a)] # NoRecord
        BY <3>1 DEF StopAsk, Seen
      <4>3. record[At(a)].id \in Nat
        BY <4>1, <4>2, Parts
      <4>4. QED BY <1>1, <2>1, <4>3, Parts
    <3>2. CASE ~StopAsk(a)
      BY <1>1, <2>1, <3>2, Parts
    <3>3. QED BY <3>1, <3>2
  <2>3. step \in Steps
    BY <2>0 DEF Steps
  <2>4. o \in Operation /\ o.step = step /\ o.kind = op[a].kind
    BY <1>1, <2>2, <2>3, DoingIs
  <2>5. o.ver = op[a].ver
    BY <1>1 DEF Doing, Operation
  <2>6. op' = [op EXCEPT ![a] = o]
    BY <2>1
  <2> HIDE DEF o
  <2>7. QED BY <2>1, <2>4, <2>5, <2>6 DEF Onwards
<1>5. CASE PreflightPassed(a)
  <2> DEFINE o == Begun("start", op[a].ver)
  <2>1. op' = [op EXCEPT ![a] = o] /\ op[a].kind = "precheck"
    BY <1>5, Zenon DEF PreflightPassed
  <2>2. "start" \in Kinds /\ op[a].ver \in Versions \cup {NoVersion}
    BY <1>1 DEF Kinds, Operation
  <2>3. o \in Operation /\ o.step = "enter"
    BY <2>2, BegunIs
  <2>4. o.kind = "start" /\ o.ver = op[a].ver
    BY Zenon DEF Begun
  <2> HIDE DEF o
  <2>5. QED BY <2>1, <2>3, <2>4 DEF Onwards
<1>6. CASE EnterFree(a) \/ LeaveLock(a)
  <2>1. PICK step \in {"scan", "leave", "done"} : op' = [op EXCEPT ![a].step = step]
    BY <1>6 DEF EnterFree, LeaveLock
  <2> DEFINE o == [op[a] EXCEPT !.step = step]
  <2>2. step \in Steps
    BY DEF Steps
  <2>3. /\ o \in Operation /\ o.step = step /\ o.kind = op[a].kind /\ o.ver = op[a].ver
    BY <1>1, <2>2 DEF Operation
  <2>4. op' = [op EXCEPT ![a] = o]
    BY <2>1
  <2> HIDE DEF o
  <2>5. QED BY <2>3, <2>4 DEF Onwards
<1>7. CASE \/ StartPresent(a) \/ StartRefused(a) \/ StartUnrecorded(a) \/ StartStable(a)
           \/ StartUnstable(a) \/ StopNothing(a) \/ StopAskFails(a) \/ StopEnded(a)
           \/ StopTimeout(a) \/ LookAt(a)
  <2>1. PICK good : Onward(a, good)
    BY <1>7, Zenon DEF StartPresent, StartRefused, StartUnrecorded, StartStable,
       StartUnstable, StopNothing, StopAskFails, StopEnded, StopTimeout, LookAt
  <2>2. QED BY <1>2, <2>1
<1>8. QED
  BY <1>3, <1>4, <1>5, <1>6, <1>7 DEF OpStep

(* A process that was just started is of the version that was to start.    *)
Versioned ==
    \A a \in Operators : Inside(a) /\ op[a].step = "spawned" =>
        \A p \in procs : p.id = op[a].id => p.ver = op[a].ver

LEMMA VersionedKept ==
    ASSUME RInv, Versioned, RuntimeNext
    PROVE  Versioned'
<1>1. op \in [Operators -> Operation]
  BY DEF RInv, RuntimeTypeOK
<1>2. ASSUME NEW a \in Operators, NEW o, op' = [op EXCEPT ![a] = o], o.step # "spawned",
             procs' \subseteq procs
      PROVE  Versioned'
  <2>1. op'[a] = o /\ \A b \in Operators : b # a => op'[b] = op[b]
    BY <1>1, <1>2
  <2>2. QED BY <1>2, <2>1 DEF Versioned, Inside
<1>3. ASSUME NEW a \in Operators, StartSpawn(a)
      PROVE  Versioned'
  <2>1. /\ Inside(a) /\ procs' = procs \cup {[id |-> spawned + 1, comp |-> At(a), ver |-> op[a].ver]}
        /\ op' = [op EXCEPT ![a] = Doing(op[a], "spawned", spawned + 1)]
    BY <1>3 DEF StartSpawn, Inside
  <2>2. \A b \in Operators : b # a => ~Inside(b)
    BY <2>1 DEF RInv, Locking
  <2>3. spawned + 1 \in Nat /\ op[a] \in Operation /\ "spawned" \in Steps
        /\ \A p \in procs : p.id \in Nat /\ p.id # spawned + 1
    BY Parts DEF RInv, Steps, Numbers
  <2>4. op'[a].id = spawned + 1 /\ op'[a].ver = op[a].ver
        /\ \A b \in Operators : b # a => op'[b] = op[b]
    BY <1>1, <2>1, <2>3 DEF Doing, Operation
  <2>5. \A p \in procs' : p.id = spawned + 1 => p.ver = op[a].ver
    BY <2>1, <2>3
  <2>6. QED BY <2>2, <2>4, <2>5 DEF Versioned, Inside
<1>4. ASSUME NEW a \in Operators, OpStep(a), ~StartSpawn(a)
      PROVE  Versioned'
  <2>1. PICK o \in Operation : op' = [op EXCEPT ![a] = o] /\ o.step # "spawned"
    BY <1>4, OpGoes DEF Onwards, RInv
  <2>2. procs' \subseteq procs
    <3>1. CASE StopEnded(a)
      BY <3>1 DEF StopEnded
    <3>2. CASE ~StopEnded(a)
      BY <1>4, <3>2, Zenon DEF OpStep, EnterBusy, EnterFree, StartPresent, StartRefused,
         StartRecorded, StartUnrecorded, StartStable, StartUnstable, StopNothing, StopAsk,
         StopAskFails, StopTimeout, LookAt, LeaveLock, PreflightPassed, PreflightFailed
    <3>3. QED BY <3>1, <3>2
  <2>3. QED BY <1>2, <2>1, <2>2
<1>5. ASSUME NEW a \in Operators,
             \/ KillOp(a) \/ Collect(a)
             \/ \E kind, v : Ask(a, kind, v)
      PROVE  Versioned'
  <2>1. PICK o : op' = [op EXCEPT ![a] = o] /\ o.step \in {"done", "enter"} /\ procs' = procs
    <3>1. CASE KillOp(a)
      <4>1. op' = [op EXCEPT ![a] = Over(op[a], FALSE)] /\ procs' = procs
        BY <3>1, Zenon DEF KillOp
      <4>2. QED BY <4>1, OverGoes DEF RInv
    <3>2. CASE Collect(a)
      <4>1. op' = [op EXCEPT ![a] = Begun("none", NoVersion)] /\ procs' = procs
        BY <3>2, Zenon DEF Collect, Idle
      <4>2. Begun("none", NoVersion).step = "enter"
        BY Zenon DEF Begun
      <4>3. QED BY <4>1, <4>2
    <3>3. CASE \E kind, v : Ask(a, kind, v)
      <4>1. PICK kind, v : op' = [op EXCEPT ![a] = Begun(kind, v)] /\ procs' = procs
        BY <3>3, Zenon DEF Ask
      <4>2. Begun(kind, v).step = "enter"
        BY Zenon DEF Begun
      <4>3. QED BY <4>1, <4>2
    <3>4. QED BY <1>5, <3>1, <3>2, <3>3
  <2>2. QED BY <1>2, <2>1
<1>6. ASSUME (\E p \in procs : ProcessExits(p)) \/ (\E i \in 1..spawned : PidTaken(i))
      PROVE  Versioned'
  <2>1. op' = op /\ procs' \subseteq procs
    BY <1>6 DEF ProcessExits, PidTaken
  <2>2. QED BY <2>1 DEF Versioned, Inside
<1>7. QED
  BY <1>3, <1>4, <1>5, <1>6, Zenon DEF RuntimeNext, Surroundings

(* What a start has just put there is the version it starts.               *)
THEOREM RuntimeVersioned == RuntimeSpec => []Versioned
<1>1. RuntimeInit => Versioned
  <2>1. "none" \in Kinds
    BY DEF Kinds
  <2>2. Idle.step = "enter"
    BY Zenon DEF Idle, Begun
  <2>3. QED BY <2>2 DEF RuntimeInit, Versioned, Inside
<1>2. RInv /\ Versioned /\ [RuntimeNext]_runtimeVars => Versioned'
  <2>1. RInv /\ Versioned /\ UNCHANGED runtimeVars => Versioned'
    BY DEF runtimeVars, Versioned, Inside
  <2>2. QED BY <2>1, VersionedKept
<1>3. QED
  BY <1>1, <1>2, RuntimeInvariant, PTL DEF RuntimeSpec

=============================================================================
