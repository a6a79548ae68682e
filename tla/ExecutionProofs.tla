--------------------------- MODULE ExecutionProofs ---------------------------
(***************************************************************************)
(* What holds of every approved repair, for any group of containers, any   *)
(* time limits and any number of clock jumps, unreadable processes and     *)
(* children left behind.                                                   *)
(***************************************************************************)
EXTENDS RepairExecution, FiniteSetTheorems, SequenceTheorems,
        WellFoundedInduction, TLAPS

LEMMA LimitsAre ==
    /\ ReadySeconds \in Nat /\ StopSeconds \in Nat
    /\ VerifySeconds \in Nat /\ StartingSeconds \in Nat
    /\ VerifySeconds <= StartingSeconds
    /\ MaxJumps \in Nat /\ Jump \in Nat
BY ExecutionAssumption

-----------------------------------------------------------------------------
(* Where a repair is and what it is about                                  *)

Shape ==
    /\ kind \in RepairKinds
    /\ pc \in {"run", "await", "end", "launch", "verify", "cleanup", "over"}
    /\ outcome \in {"none", "succeeded", "rolled_back", "cleanup_failed"}
    /\ outcome # "none" => pc = "over"
    /\ pc = "await" => plan # <<>>
    /\ pc \in {"end", "launch", "cleanup"} => kind \in Programs
    /\ pc \in {"run", "await"} => kind \notin Programs

LEMMA ShapeInit ==
    ExecutionInit => Shape
BY DEF ExecutionInit, Shape, Programs

LEMMA ShapeStep ==
    Shape /\ [ExecutionNext]_execVars => Shape'
<1> SUFFICES ASSUME Shape, [ExecutionNext]_execVars PROVE Shape'
  OBVIOUS
<1>1. CASE CommandRan
  BY <1>1 DEF Shape, CommandRan, Programs
<1>2. CASE CommandFailed \/ GivenUp \/ Planned \/ SeenReady \/ SeenPending
  BY <1>2 DEF Shape, CommandFailed, GivenUp, Planned, SeenReady, SeenPending, End, Programs
<1>3. CASE EndGone \/ EndAll \/ EndFails \/ Launched \/ LaunchRefused
  BY <1>3 DEF Shape, EndGone, EndAll, EndFails, Launched, LaunchRefused, End, Programs
<1>4. CASE Passed \/ NotYet
  BY <1>4 DEF Shape, Passed, NotYet, End, Programs
<1>5. CASE Failed
  BY <1>5 DEF Shape, Failed, End, Programs
<1>6. CASE CleanUp
  BY <1>6 DEF Shape, CleanUp, End, Programs
<1>7. CASE Interrupted \/ Forks \/ Exits \/ RecordChanges \/ ClockJumps
  BY <1>7 DEF Shape, Interrupted, Forks, Exits, RecordChanges, ClockJumps, End, Programs
<1>8. CASE UNCHANGED execVars
  BY <1>8 DEF Shape, execVars
<1>9. QED
  BY <1>1, <1>2, <1>3, <1>4, <1>5, <1>6, <1>7, <1>8 DEF ExecutionNext

LEMMA ShapeHolds ==
    ExecutionSpec => []Shape
<1>1. QED BY ShapeInit, ShapeStep, PTL DEF ExecutionSpec

-----------------------------------------------------------------------------
(* The processes of a program                                              *)

Own == {"new", "newkid"}

(* Before the launch nothing of the repair runs and the recorded process   *)
(* is gone; a child outlives its parent only as a stray.                   *)
Living ==
    /\ tree \subseteq Processes
    /\ unread \in Nat /\ strays \in Nat
    /\ launched \in BOOLEAN
    /\ pc = "launch" => "old" \notin tree
    /\ pc \in {"run", "await", "end", "launch"} => ~launched
    /\ launched => "old" \notin tree /\ kind \in Programs
    /\ ~launched => tree \cap Own = {}
    /\ strays = 0 /\ "newkid" \in tree => "new" \in tree
    /\ outcome = "rolled_back" /\ unread = 0 /\ strays = 0 => tree \cap Own = {}

LEMMA LivingInit ==
    ExecutionInit => Living
<1> SUFFICES ASSUME ExecutionInit PROVE Living
  OBVIOUS
<1>1. tree \in {{}, {"old"}, {"old", "oldkid"}} /\ (pc = "launch" => tree = {})
  BY DEF ExecutionInit
<1>2. tree \subseteq Processes /\ tree \cap Own = {} /\ "newkid" \notin tree
  BY <1>1 DEF Processes, Own
<1>3. launched = FALSE /\ outcome = "none" /\ unread = 0 /\ strays = 0
  BY DEF ExecutionInit
<1>4. QED BY <1>1, <1>2, <1>3 DEF Living

(* The look at a process counts what it could not read. *)
LEMMA Peeked ==
    ASSUME Living, NEW live \in BOOLEAN, LooksAlive(live)
    PROVE  /\ unread' \in Nat
           /\ unread' = 0 => unread = 0
           /\ unread' = 0 /\ ~live => "new" \notin tree
BY DEF Living, LooksAlive

LEMMA RoundLooked ==
    ASSUME Living, NEW running, NEW listens, NEW opens, NEW live \in BOOLEAN,
           Round(running, listens, opens, live)
    PROVE  unread' \in Nat /\ (unread' = 0 => unread = 0)
BY Peeked DEF Living, Round

LEMMA LivingStep ==
    Shape /\ Living /\ [ExecutionNext]_execVars => Living'
<1> SUFFICES ASSUME Shape, Living, [ExecutionNext]_execVars PROVE Living'
  OBVIOUS
<1> USE DEF Own
<1>1. CASE CommandRan \/ SeenReady \/ SeenPending \/ Planned
  BY <1>1 DEF Shape, Living, CommandRan, SeenReady, SeenPending, Planned, countVars, worldVars
<1>2. CASE CommandFailed \/ GivenUp
  BY <1>2 DEF Shape, Living, CommandFailed, GivenUp, End, countVars, worldVars
<1>3. CASE EndGone \/ EndAll
  BY <1>3 DEF Shape, Living, EndGone, EndAll, countVars, worldVars
<1>4. CASE EndFails
  BY <1>4 DEF Shape, Living, EndFails, End, countVars
<1>5. CASE Launched
  BY <1>5 DEF Shape, Living, Launched, countVars, Processes
<1>6. CASE LaunchRefused
  <2>1. pc = "launch" /\ pc' = "over" /\ UNCHANGED <<kind, strays>>
    BY <1>6 DEF LaunchRefused, End
  <2>2. CASE UNCHANGED <<tree, launched, unread>>
    BY <2>1, <2>2 DEF Shape, Living
  <2>3. CASE unread' = unread + 1 /\ tree' = tree \cup {"new"} /\ launched' = TRUE
    BY <2>1, <2>3 DEF Shape, Living, Processes
  <2>4. QED BY <1>6, <2>2, <2>3 DEF LaunchRefused
<1>7. CASE Passed
  <2>1. unread' \in Nat /\ (unread' = 0 => unread = 0)
    BY <1>7, RoundLooked DEF Passed
  <2>2. QED BY <1>7, <2>1 DEF Shape, Living, Passed, End
<1>8. CASE NotYet
  <2>1. unread' \in Nat /\ (unread' = 0 => unread = 0)
    BY <1>8, RoundLooked DEF NotYet
  <2>2. QED BY <1>8, <2>1 DEF Shape, Living, NotYet, worldVars
<1>9. CASE Failed
  <2>1. unread' \in Nat /\ (unread' = 0 => unread = 0)
    BY <1>9, RoundLooked DEF Failed
  <2>2. /\ UNCHANGED <<tree, launched, strays, kind>>
        /\ pc = "verify" /\ pc' \in {"cleanup", "over"}
        /\ outcome' = "rolled_back" => outcome = "rolled_back" \/ kind \notin Programs
    BY <1>9 DEF Failed, End, worldVars
  <2>3. QED BY <2>1, <2>2 DEF Shape, Living
<1>10. CASE CleanUp
  <2>1. PICK live \in BOOLEAN :
          /\ LooksAlive(live)
          /\ \/ ~live /\ UNCHANGED tree /\ End("rolled_back")
             \/ live /\ tree' = tree \ {"new", "newkid"} /\ End("rolled_back")
             \/ live /\ tree' = tree \ {"newkid"} /\ End("cleanup_failed")
             \/ live /\ UNCHANGED tree /\ End("cleanup_failed")
    BY <1>10 DEF CleanUp
  <2>2. UNCHANGED <<kind, launched, strays>>
    BY <1>10 DEF CleanUp
  <2>3. unread' \in Nat /\ (unread' = 0 => unread = 0) /\ (unread' = 0 /\ ~live => "new" \notin tree)
    BY <2>1, Peeked
  <2>4. QED BY <2>1, <2>2, <2>3 DEF Shape, Living, End
<1>11. CASE Interrupted \/ RecordChanges \/ ClockJumps
  BY <1>11 DEF Shape, Living, Interrupted, RecordChanges, ClockJumps, End, countVars, worldVars
<1>12. CASE Forks
  BY <1>12 DEF Shape, Living, Forks, countVars, Processes
<1>13. CASE Exits
  BY <1>13 DEF Shape, Living, Exits
<1>14. CASE UNCHANGED execVars
  BY <1>14 DEF Shape, Living, execVars
<1>15. QED
  BY <1>1, <1>2, <1>3, <1>4, <1>5, <1>6, <1>7, <1>8, <1>9, <1>10, <1>11, <1>12, <1>13, <1>14
     DEF ExecutionNext

(* A repair never runs a program twice: the recorded process is gone when  *)
(* the new one is launched (end_stuck before the launch).  And one that    *)
(* ends rolled back has left nothing of its own behind, unless a live      *)
(* process could not be read or a child outlived its parent.               *)
THEOREM NothingLeftBehind ==
    ExecutionSpec => []NothingLeft
<1>1. ExecutionSpec => []Living
  BY ShapeHolds, LivingInit, LivingStep, PTL DEF ExecutionSpec
<1>2. Living => NothingLeft
  BY DEF Living, NothingLeft, Own
<1>3. QED BY <1>1, <1>2, PTL

-----------------------------------------------------------------------------
(* The waits                                                               *)

Longest == MaxOf(MaxOf(ReadySeconds, StopSeconds), MaxOf(VerifySeconds, StartingSeconds))

(* How far the clock can be off. *)
Offset == jumps * Jump

LEMMA LongestOfAll ==
    /\ Longest \in Nat
    /\ ReadySeconds <= Longest /\ StopSeconds <= Longest
    /\ VerifySeconds <= Longest /\ StartingSeconds <= Longest
BY LimitsAre DEF Longest, MaxOf

LEMMA DeadlineIs ==
    ASSUME NEW starting
    PROVE  Deadline(starting) = IF starting THEN StartingSeconds ELSE VerifySeconds
BY LimitsAre DEF Deadline, MaxOf

(* The time a wait believes in is at least what it slept, and more only by *)
(* what the clock was put ahead.                                           *)
Timing ==
    /\ jumps \in Nat /\ Offset \in Nat
    /\ elapsed \in Nat /\ slept \in Nat /\ ahead \in Int
    /\ ahead <= Offset /\ 0 - Offset <= ahead
    /\ slept <= elapsed /\ elapsed <= slept + Offset
    /\ slept <= Longest

(* Who gave something up that lives waited for its time. *)
GaveUp == \/ pc = "cleanup" /\ alive
          \/ pc = "over" /\ outcome = "rolled_back" /\ plan = <<>> /\ kind \notin Programs
Waited == GaveUp => slept + Offset >= IF onlyWeb THEN StartingSeconds ELSE VerifySeconds

LEMMA WaitsInit ==
    ExecutionInit => Timing /\ Waited
<1>1. ExecutionInit => Offset = 0
  BY LimitsAre DEF ExecutionInit, Offset
<1>2. QED BY <1>1, LimitsAre, LongestOfAll DEF ExecutionInit, Timing, Waited, GaveUp

(* Three ways a step leaves the clock: as it was, a new wait, a second. *)
Sat == Offset' = Offset /\ UNCHANGED <<clockVars, jumps>>
Began == Offset' = Offset /\ UNCHANGED jumps /\ BeginWait
Slept == Offset' = Offset /\ UNCHANGED jumps /\ elapsed < Longest
           /\ (SleepOn \/ (elapsed' = elapsed + 1 /\ slept' = slept + 1 /\ UNCHANGED ahead))
Jumped == Offset' = Offset + Jump /\ jumps' = jumps + 1 /\ UNCHANGED <<elapsed, slept>>
            /\ ahead' \in {ahead - Jump, ahead + Jump}

LEMMA TimingStep ==
    ASSUME Timing, Sat \/ Began \/ Slept \/ Jumped
    PROVE  Timing'
<1>1. CASE Sat
  BY <1>1 DEF Timing, Sat, clockVars, Offset, Longest
<1>2. CASE Began
  BY <1>2, LongestOfAll DEF Timing, Began, BeginWait, Longest
<1>3. CASE Slept
  BY <1>3, LongestOfAll DEF Timing, Slept, SleepOn, MaxOf, Longest
<1>4. CASE Jumped
  BY <1>4, LimitsAre DEF Timing, Jumped, Longest
<1>5. QED BY <1>1, <1>2, <1>3, <1>4

LEMMA Clocked ==
    ASSUME Shape, Timing, [ExecutionNext]_execVars
    PROVE  Sat \/ Began \/ Slept \/ Jumped
<1>1. CASE \/ CommandFailed \/ GivenUp \/ SeenReady \/ EndGone \/ EndFails \/ LaunchRefused
           \/ Passed \/ Failed \/ CleanUp \/ Interrupted \/ Forks \/ Exits \/ RecordChanges
           \/ EndAll \/ UNCHANGED execVars
  BY <1>1 DEF CommandFailed, GivenUp, SeenReady, EndGone, EndFails, LaunchRefused, Passed,
     Failed, CleanUp, Interrupted, Forks, Exits, RecordChanges, EndAll, execVars, countVars,
     clockVars, Sat, Offset
<1>2. CASE CommandRan
  BY <1>2 DEF CommandRan, countVars, clockVars, Sat, Began, Offset
<1>3. CASE Planned \/ Launched
  BY <1>3 DEF Planned, Launched, countVars, Began, Offset
<1>4. CASE SeenPending
  <2>1. WaitLimit <= Longest
    BY LongestOfAll DEF WaitLimit
  <2>2. elapsed < Longest
    BY <1>4, <2>1, LongestOfAll, LimitsAre DEF SeenPending, Timing, WaitLimit
  <2>3. QED BY <1>4, <2>2 DEF SeenPending, countVars, Slept, Offset
<1>5. CASE NotYet
  <2>1. Deadline(onlyWeb') <= Longest /\ Deadline(onlyWeb') \in Nat
    BY LongestOfAll, DeadlineIs, LimitsAre
  <2>2. elapsed < Longest
    BY <1>5, <2>1, LongestOfAll DEF NotYet, Timing
  <2>3. QED BY <1>5, <2>2 DEF NotYet, Slept, Offset
<1>6. CASE ClockJumps
  <2>1. (jumps + 1) * Jump = jumps * Jump + Jump
    BY LimitsAre DEF Timing
  <2>2. QED BY <1>6, <2>1 DEF ClockJumps, Jumped, Offset
<1>7. QED
  BY <1>1, <1>2, <1>3, <1>4, <1>5, <1>6 DEF ExecutionNext

(* The verification gives up when its time is up. *)
LEMMA GivesUpLate ==
    ASSUME Shape, Timing, Failed
    PROVE  alive' => slept + Offset >= IF onlyWeb' THEN StartingSeconds ELSE VerifySeconds
<1>1. alive' => elapsed >= Deadline(onlyWeb')
  BY DEF Failed
<1>2. Deadline(onlyWeb') = IF onlyWeb' THEN StartingSeconds ELSE VerifySeconds
  BY DeadlineIs
<1>3. QED BY <1>1, <1>2, LimitsAre DEF Timing

LEMMA WaitedStep ==
    ASSUME Shape, Timing, Waited, [ExecutionNext]_execVars
    PROVE  Waited'
<1>1. CASE Failed
  <2>1. UNCHANGED <<slept, kind>> /\ Offset' = Offset
    BY <1>1 DEF Failed, clockVars, Offset
  <2>2. kind \notin Programs => alive'
    BY <1>1 DEF Failed, Round
  <2>3. GaveUp' => alive'
    BY <2>1, <2>2 DEF GaveUp
  <2>4. QED BY <1>1, <2>1, <2>3, GivesUpLate DEF Waited
<1>2. CASE \/ CommandRan \/ CommandFailed \/ SeenReady \/ SeenPending \/ GivenUp \/ Planned
           \/ EndGone \/ EndAll \/ EndFails \/ Launched \/ LaunchRefused \/ Passed \/ NotYet
           \/ CleanUp \/ Interrupted \/ ClockJumps
  <2>1. ~GaveUp'
    BY <1>2 DEF Shape, GaveUp, CommandRan, CommandFailed, SeenReady, SeenPending, GivenUp,
       Planned, EndGone, EndAll, EndFails, Launched, LaunchRefused, Passed, NotYet,
       CleanUp, Interrupted, ClockJumps, End
  <2>2. QED BY <2>1 DEF Waited
<1>3. CASE Forks \/ Exits \/ RecordChanges \/ UNCHANGED execVars
  <2>1. UNCHANGED <<pc, alive, outcome, plan, kind, slept, onlyWeb>> /\ Offset' = Offset
    BY <1>3 DEF Forks, Exits, RecordChanges, execVars, clockVars, verdictVars, countVars, Offset
  <2>2. QED BY <2>1 DEF Waited, GaveUp
<1>4. QED BY <1>1, <1>2, <1>3 DEF ExecutionNext

(* A repair of something that lives is given up only after its time, the   *)
(* long one if only its home page was wrong in the last round, short only  *)
(* by what the clock ran ahead; and no wait lasts longer than the longest  *)
(* limit, however often and however far the clock is set back.             *)
THEOREM WaitsAreBounded ==
    ExecutionSpec => []Patient
<1>1. ExecutionSpec => [](Timing /\ Waited)
  <2>1. Shape /\ Timing /\ Waited /\ [ExecutionNext]_execVars => (Timing /\ Waited)'
    BY Clocked, TimingStep, WaitedStep
  <2>2. QED BY <2>1, ShapeHolds, WaitsInit, PTL DEF ExecutionSpec
<1>2. Timing /\ Waited => Patient
  BY DEF Timing, Waited, GaveUp, Patient, Longest, Offset
<1>3. QED BY <1>1, <1>2, PTL

-----------------------------------------------------------------------------
(* Layers                                                                  *)

(* A set of numbers that is not empty has a least one. *)
LEMMA Least ==
    ASSUME NEW S, S \subseteq Nat, S # {}
    PROVE  \E m \in S : \A k \in S : m <= k
<1> DEFINE R == OpToRel(<, Nat)
<1>1. IsWellFoundedOn(R, Nat)
  BY NatLessThanWellFounded
<1>2. \A x, y \in Nat : y < x => <<y, x>> \in R
  BY DEF OpToRel
<1> HIDE DEF R
<1>3. PICK m \in S : \A k \in S : ~(<<k, m>> \in R)
  BY <1>1, WFMin
<1>4. \A k \in S : ~(k < m)
  BY <1>2, <1>3
<1>5. QED BY <1>4

(* The round after some services are placed. *)
After(g, P) == P \cup {s \in GroupServices(g) : NeedsOf(g, s) \subseteq P}
Rounds(g, m, f) == f = [k \in 0..m |-> IF k = 0 THEN {} ELSE After(g, f[k - 1])]

LEMMA NeedsInGroup ==
    ASSUME NEW g, NEW s
    PROVE  NeedsOf(g, s) \subseteq GroupServices(g)
BY DEF NeedsOf

LEMMA RoundsExist ==
    ASSUME NEW g
    PROVE  \A m \in Nat : \E f : Rounds(g, m, f)
<1> DEFINE bad == {m \in Nat : ~ \E f : Rounds(g, m, f)}
<1> SUFFICES ASSUME bad # {} PROVE FALSE
  OBVIOUS
<1>1. PICK m \in bad : \A k \in bad : m <= k
  BY Least
<1>2. CASE m = 0
  <2>1. Rounds(g, 0, [k \in 0..0 |-> {}])
    BY DEF Rounds
  <2>2. QED BY <1>1, <1>2, <2>1
<1>3. CASE m # 0
  <2>1. m - 1 \in Nat /\ m - 1 \notin bad /\ m \in Nat
    BY <1>1, <1>3
  <2>2. PICK f : Rounds(g, m - 1, f)
    BY <2>1
  <2> DEFINE h == [k \in 0..m |-> IF k = m THEN After(g, f[m - 1]) ELSE f[k]]
  <2>3. ASSUME NEW k \in 0..m PROVE h[k] = IF k = 0 THEN {} ELSE After(g, h[k - 1])
    <3>1. CASE k = m
      <4>1. m - 1 \in 0..m /\ m - 1 # m
        BY <2>1
      <4>2. h[m - 1] = f[m - 1] /\ h[m] = After(g, f[m - 1])
        BY <4>1, <2>1
      <4> HIDE DEF h
      <4>3. QED BY <4>2, <3>1, <1>3
    <3>2. CASE k # m
      <4>1. k \in 0..(m - 1) /\ h[k] = f[k]
        BY <3>2, <2>1
      <4>2. f[k] = IF k = 0 THEN {} ELSE After(g, f[k - 1])
        BY <4>1, <2>2 DEF Rounds
      <4>3. k # 0 => k - 1 \in 0..m /\ k - 1 # m
        BY <4>1, <2>1
      <4>4. k # 0 => h[k - 1] = f[k - 1]
        BY <4>3
      <4> HIDE DEF h
      <4>5. QED BY <4>1, <4>2, <4>4
    <3>3. QED BY <3>1, <3>2
  <2>4. h = [k \in 0..m |-> IF k = 0 THEN {} ELSE After(g, h[k - 1])]
    <3>1. h = [k \in 0..m |-> h[k]]
      OBVIOUS
    <3> HIDE DEF h
    <3>2. QED BY <2>3, <3>1
  <2>5. Rounds(g, m, h)
    <3> HIDE DEF h
    <3>1. QED BY <2>4 DEF Rounds
  <2>6. QED BY <2>5, <1>1
<1>4. QED BY <1>2, <1>3

(* What is placed before and after a round. *)
LEMMA PlacedIs ==
    ASSUME NEW g, Cardinality(GroupServices(g)) \in Nat
    PROVE  /\ Placed(g)[0] = {}
           /\ \A k \in 1..Cardinality(GroupServices(g)) :
                 Placed(g)[k] = After(g, Placed(g)[k - 1])
<1> DEFINE n == Cardinality(GroupServices(g))
<1>1. Rounds(g, n, Placed(g))
  <2>1. \E f : Rounds(g, n, f)
    BY RoundsExist
  <2>2. QED BY <2>1 DEF Rounds, Placed, After
<1>2. \A k \in 0..n : Placed(g)[k] = IF k = 0 THEN {} ELSE After(g, Placed(g)[k - 1])
  BY <1>1 DEF Rounds
<1>3. QED BY <1>2

LEMMA ServicesFinite ==
    ASSUME NEW g \in Groups
    PROVE  /\ IsFiniteSet(GroupServices(g))
           /\ Cardinality(GroupServices(g)) \in Nat
           /\ GroupServices(g) # {}
<1> DEFINE f == [c \in Containers |-> g.service[c]]
<1>1. f \in Surjection(Containers, GroupServices(g))
  BY DEF Surjection, GroupServices
<1>2. IsFiniteSet(GroupServices(g))
  BY <1>1, ExecutionAssumption, FS_Surjection
<1>3. GroupServices(g) # {}
  <2>1. PICK c \in Containers : TRUE
    BY ExecutionAssumption
  <2>2. g.service[c] \in GroupServices(g)
    BY DEF GroupServices
  <2>3. QED BY <2>2
<1>4. QED BY <1>2, <1>3, FS_CardinalityType

(* The rounds of one group: p[k] is what n rounds have placed. *)
Placing(g, n, p) ==
    /\ n \in Nat
    /\ p[0] = {}
    /\ \A k \in 1..n : p[k] = After(g, p[k - 1])

LEMMA PlacedGrows ==
    ASSUME NEW g, NEW n, NEW p, Placing(g, n, p)
    PROVE  /\ \A k \in 0..n : p[k] \subseteq GroupServices(g)
           /\ \A i, j \in 0..n : i <= j => p[i] \subseteq p[j]
<1>1. \A k \in 0..n : p[k] \subseteq GroupServices(g)
  <2> DEFINE bad == {k \in 0..n : ~(p[k] \subseteq GroupServices(g))}
  <2> SUFFICES ASSUME bad # {} PROVE FALSE
    OBVIOUS
  <2>1. n \in Nat /\ bad \subseteq Nat
    BY DEF Placing
  <2>2. PICK m \in bad : \A k \in bad : m <= k
    BY <2>1, Least
  <2>3. m # 0
    BY <2>2 DEF Placing
  <2>4. m - 1 \in 0..n /\ m - 1 \notin bad /\ m \in 1..n
    BY <2>1, <2>2, <2>3
  <2>5. p[m] \subseteq GroupServices(g)
    BY <2>4 DEF Placing, After
  <2>6. QED BY <2>2, <2>5
<1>2. ASSUME NEW i \in 0..n PROVE \A j \in 0..n : i <= j => p[i] \subseteq p[j]
  <2> DEFINE bad == {j \in 0..n : i <= j /\ ~(p[i] \subseteq p[j])}
  <2> SUFFICES ASSUME bad # {} PROVE FALSE
    OBVIOUS
  <2>1. n \in Nat /\ bad \subseteq Nat
    BY DEF Placing
  <2>2. PICK m \in bad : \A k \in bad : m <= k
    BY <2>1, Least
  <2>3. m # i
    BY <2>2
  <2>4. m - 1 \in 0..n /\ i <= m - 1 /\ m - 1 \notin bad /\ m \in 1..n
    BY <2>1, <2>2, <2>3
  <2>5. p[i] \subseteq p[m]
    BY <2>4 DEF Placing, After
  <2>6. QED BY <2>2, <2>5
<1>3. QED BY <1>1, <1>2

(* A round that places nothing is the last that matters. *)
LEMMA PlacedStays ==
    ASSUME NEW g, NEW n, NEW p, Placing(g, n, p), NEW k \in 1..n, p[k] = p[k - 1]
    PROVE  \A j \in k..n : p[j] = p[k] /\ p[j] = After(g, p[j])
<1> DEFINE bad == {j \in k..n : p[j] # p[k]}
<1>0. n \in Nat /\ k \in Nat /\ bad \subseteq Nat
  BY DEF Placing
<1>1. bad = {}
  <2> SUFFICES ASSUME bad # {} PROVE FALSE
    OBVIOUS
  <2>1. PICK m \in bad : \A j \in bad : m <= j
    BY <1>0, Least
  <2>2. m # k
    BY <2>1
  <2>3. m - 1 \in k..n /\ m - 1 \notin bad /\ m \in 1..n
    BY <1>0, <2>1, <2>2
  <2>4. p[m] = After(g, p[k]) /\ p[k] = After(g, p[k])
    BY <2>3 DEF Placing
  <2>5. QED BY <2>1, <2>4
<1>2. p[k] = After(g, p[k])
  BY DEF Placing
<1>3. QED BY <1>1, <1>2

(* Enough rounds place everything, or one of them places nothing. *)
LEMMA PlacedAllOrStops ==
    ASSUME NEW g \in Groups, NEW n, NEW p, Placing(g, n, p),
           n = Cardinality(GroupServices(g)), p[n] # GroupServices(g)
    PROVE  \E k \in 1..n : p[k] = p[k - 1]
<1> SUFFICES ASSUME \A k \in 1..n : p[k] # p[k - 1] PROVE FALSE
  OBVIOUS
<1>1. \A k \in 0..n : IsFiniteSet(p[k]) /\ Cardinality(p[k]) \in Nat
  BY PlacedGrows, ServicesFinite, FS_Subset, FS_CardinalityType
<1> DEFINE bad == {k \in 0..n : Cardinality(p[k]) < k}
<1>2. bad = {}
  <2> SUFFICES ASSUME bad # {} PROVE FALSE
    OBVIOUS
  <2>1. n \in Nat /\ bad \subseteq Nat
    BY DEF Placing
  <2>2. PICK m \in bad : \A k \in bad : m <= k
    BY <2>1, Least
  <2>3. m # 0
    BY <1>1, <2>2
  <2>4. m - 1 \in 0..n /\ m - 1 \notin bad /\ m \in 1..n
    BY <2>1, <2>2, <2>3
  <2>5. p[m - 1] \subseteq p[m] /\ p[m - 1] # p[m]
    BY <2>4, PlacedGrows
  <2>6. /\ Cardinality(p[m - 1]) <= Cardinality(p[m])
        /\ Cardinality(p[m - 1]) # Cardinality(p[m])
    BY <1>1, <2>4, <2>5, FS_Subset
  <2>7. Cardinality(p[m - 1]) \in Nat /\ Cardinality(p[m]) \in Nat /\ m \in Nat
    BY <1>1, <2>4
  <2>8. ~(Cardinality(p[m - 1]) < m - 1) /\ Cardinality(p[m]) < m
    BY <2>2, <2>4
  <2> HIDE DEF bad
  <2>9. QED BY <2>6, <2>7, <2>8
<1>3. n \in 0..n
  BY DEF Placing
<1>4. ~(Cardinality(p[n]) < n) /\ p[n] \subseteq GroupServices(g)
  BY <1>2, <1>3, PlacedGrows
<1>5. Cardinality(p[n]) <= Cardinality(GroupServices(g))
  BY <1>4, ServicesFinite, FS_Subset
<1>6. Cardinality(p[n]) = Cardinality(GroupServices(g))
  BY <1>1, <1>3, <1>4, <1>5 DEF Placing
<1>7. QED BY <1>4, <1>6, ServicesFinite, FS_Subset

(* Everything is placed exactly if there is no circle. *)
LEMMA PlacedAll ==
    ASSUME NEW g \in Groups, NEW n, NEW p, Placing(g, n, p),
           n = Cardinality(GroupServices(g))
    PROVE  p[n] = GroupServices(g) <=> ~Circular(g)
<1>0. n \in Nat /\ n \in 0..n
  BY DEF Placing
<1>1. ASSUME Circular(g) PROVE p[n] # GroupServices(g)
  <2>1. PICK T \in SUBSET GroupServices(g) :
          T # {} /\ \A s \in T : NeedsOf(g, s) \cap T # {}
    BY <1>1 DEF Circular
  <2> DEFINE bad == {k \in 0..n : p[k] \cap T # {}}
  <2>2. bad = {}
    <3> SUFFICES ASSUME bad # {} PROVE FALSE
      OBVIOUS
    <3>1. bad \subseteq Nat
      BY <1>0
    <3>2. PICK m \in bad : \A k \in bad : m <= k
      BY <3>1, Least
    <3>3. m # 0
      BY <3>2 DEF Placing
    <3>4. m - 1 \in 0..n /\ m - 1 \notin bad /\ m \in 1..n
      BY <1>0, <3>2, <3>3
    <3>5. p[m - 1] \cap T = {} /\ p[m] = After(g, p[m - 1])
      BY <3>4 DEF Placing
    <3>6. \A s \in T : ~(NeedsOf(g, s) \subseteq p[m - 1])
      BY <2>1, <3>5
    <3>7. p[m] \cap T = {}
      BY <3>5, <3>6 DEF After
    <3>8. QED BY <3>2, <3>7
  <2>3. p[n] \cap T = {}
    BY <1>0, <2>2
  <2>4. QED BY <2>1, <2>3
<1>2. ASSUME p[n] # GroupServices(g) PROVE Circular(g)
  <2>1. PICK k \in 1..n : p[k] = p[k - 1]
    BY <1>2, PlacedAllOrStops
  <2>2. p[n] = After(g, p[n])
    <3>1. n \in k..n
      BY <1>0, <2>1
    <3>2. QED BY <2>1, <3>1, PlacedStays
  <2> DEFINE T == GroupServices(g) \ p[n]
  <2>3. p[n] \subseteq GroupServices(g)
    BY <1>0, PlacedGrows
  <2>4. T # {} /\ T \in SUBSET GroupServices(g)
    BY <1>2, <2>3
  <2>5. ASSUME NEW s \in T PROVE NeedsOf(g, s) \cap T # {}
    <3>1. ~(NeedsOf(g, s) \subseteq p[n])
      BY <2>2 DEF After
    <3>2. NeedsOf(g, s) \subseteq GroupServices(g)
      BY NeedsInGroup
    <3>3. QED BY <3>1, <3>2
  <2>6. QED BY <2>4, <2>5 DEF Circular
<1>3. QED BY <1>1, <1>2

(* A set of numbers that has all those below each of its own is 1..r. *)
LEMMA Prefix ==
    ASSUME NEW n \in Nat, NEW D \in SUBSET (1..n),
           \A k \in D : \A j \in 1..k : j \in D
    PROVE  D = 1..Cardinality(D) /\ Cardinality(D) \in 0..n
<1> DEFINE U == {m \in Nat : m \notin D /\ m # 0}
<1>1. U \subseteq Nat /\ n + 1 \in U
  OBVIOUS
<1>2. PICK m \in U : \A k \in U : m <= k
  BY <1>1, Least
<1>3. m \in 1..(n + 1) /\ m \notin D
  BY <1>1, <1>2
<1>4. D = 1..(m - 1)
  <2>1. ASSUME NEW k \in D PROVE k \in 1..(m - 1)
    <3>1. k \in 1..n
      OBVIOUS
    <3>2. ~(m <= k)
      BY <1>3, <3>1
    <3> HIDE DEF U
    <3>3. QED BY <1>3, <3>1, <3>2
  <2>2. ASSUME NEW k \in 1..(m - 1) PROVE k \in D
    <3>1. k \in Nat /\ k # 0 /\ ~(m <= k)
      BY <1>3
    <3>2. k \notin U
      BY <1>2, <3>1
    <3>3. QED BY <3>1, <3>2
  <2>3. QED BY <2>1, <2>2
<1>5. Cardinality(1..(m - 1)) = m - 1
  <2>1. Cardinality(1..(m - 1)) = IF 1 > m - 1 THEN 0 ELSE (m - 1) - 1 + 1
    BY <1>3, FS_Interval
  <2>2. QED BY <1>3, <2>1
<1>6. QED BY <1>3, <1>4, <1>5

(* What the layers are when there is an order: the new ones of each round  *)
(* until a round places nothing.                                           *)
Layered(g, r, p) ==
    /\ r \in Nat /\ r # 0
    /\ Layers(g) = [k \in 1..r |-> {c \in Containers : g.service[c] \in p[k] \ p[k - 1]}]
    /\ p[0] = {} /\ p[r] = GroupServices(g)
    /\ \A k \in 1..r : p[k] = After(g, p[k - 1])
    /\ \A i, j \in 0..r : i <= j => p[i] \subseteq p[j]

Orderly(g) == Nameless \notin GroupServices(g) /\ ~Circular(g)

LEMMA LayersAre ==
    ASSUME NEW g \in Groups
    PROVE  /\ ~Orderly(g) => Layers(g) = <<>>
           /\ Orderly(g) => \E r, p : Layered(g, r, p)
<1> DEFINE n == Cardinality(GroupServices(g))
           p == Placed(g)
           D == {k \in 1..n : p[k] # p[k - 1]}
<1>1. Placing(g, n, p)
  BY ServicesFinite, PlacedIs DEF Placing
<1>2. p[n] = GroupServices(g) <=> ~Circular(g)
  BY <1>1, PlacedAll
<1>3. n \in Nat /\ GroupServices(g) # {}
  BY ServicesFinite
<1>4. Layers(g) = IF Nameless \in GroupServices(g) \/ p[n] # GroupServices(g) THEN <<>>
                  ELSE [k \in 1..Cardinality(D) |->
                          {c \in Containers : g.service[c] \in p[k] \ p[k - 1]}]
  BY DEF Layers
<1>5. ASSUME Orderly(g) PROVE \E r, q : Layered(g, r, q)
  <2>1. \A k \in D : \A j \in 1..k : j \in D
    <3> SUFFICES ASSUME NEW k \in D, NEW j \in 1..k, j \notin D PROVE FALSE
      OBVIOUS
    <3>1. j \in 1..n /\ p[j] = p[j - 1] /\ k \in j..n /\ k # j
      BY <1>3
    <3>2. p[k] = p[j] /\ k - 1 \in j..n
      BY <1>1, <1>3, <3>1, PlacedStays
    <3>3. p[k - 1] = p[j]
      BY <1>1, <3>1, <3>2, PlacedStays
    <3>4. QED BY <3>2, <3>3
  <2>2. D = 1..Cardinality(D) /\ Cardinality(D) \in 0..n
    <3> HIDE DEF p
    <3>1. D \in SUBSET (1..n)
      OBVIOUS
    <3> HIDE DEF D, n
    <3>2. QED BY <1>3, <2>1, <3>1, Prefix
  <2> DEFINE r == Cardinality(D)
  <2>3. p[r] = p[n]
    <3>1. CASE r = n
      BY <3>1
    <3>2. CASE r # n
      <4>1. r + 1 \in 1..n /\ r + 1 \notin D
        <5> HIDE DEF D, n
        <5>1. r \in 0..n /\ D = 1..r
          BY <2>2
        <5> HIDE DEF r
        <5>2. QED BY <1>3, <3>2, <5>1
      <4>2. p[r + 1] = p[r]
        <5>1. (r + 1) - 1 = r
          BY <1>3, <2>2
        <5> HIDE DEF r
        <5>2. QED BY <4>1, <5>1
      <4>3. n \in (r + 1)..n /\ (r + 1) - 1 = r
        BY <1>3, <2>2, <4>1
      <4>4. p[n] = p[r + 1]
        <5> HIDE DEF r, p, n
        <5>1. QED BY <1>1, <4>1, <4>2, <4>3, PlacedStays
      <4>5. QED BY <4>2, <4>4
    <3>3. QED BY <3>1, <3>2
  <2>4. p[r] = GroupServices(g)
    BY <1>2, <1>5, <2>3 DEF Orderly
  <2>5. r # 0
    BY <1>1, <1>3, <2>4 DEF Placing
  <2>6. Layers(g) = [k \in 1..r |-> {c \in Containers : g.service[c] \in p[k] \ p[k - 1]}]
    BY <1>2, <1>4, <1>5 DEF Orderly
  <2>7. r \in Nat /\ (\A k \in 1..r : k \in 1..n) /\ (\A k \in 0..r : k \in 0..n)
    BY <1>3, <2>2
  <2> HIDE DEF r, D, p, n
  <2>8. Layered(g, r, p)
    BY <1>1, <2>4, <2>5, <2>6, <2>7, PlacedGrows DEF Layered, Placing
  <2>9. QED BY <2>8
<1>6. ~Orderly(g) => Layers(g) = <<>>
  BY <1>2, <1>4 DEF Orderly
<1>7. QED BY <1>5, <1>6

(* The containers that need one of layer i. *)
Needing(g, i) == {c \in Containers : \E s \in NeedsOf(g, g.service[c]) :
                                       \E d \in Layers(g)[i] : g.service[d] = s}

LEMMA InLayer ==
    ASSUME NEW g \in Groups, NEW r, NEW p, Layered(g, r, p), NEW i \in 1..r
    PROVE  /\ Layers(g)[i] \subseteq Containers
           /\ \A c \in Containers : c \in Layers(g)[i] <=>
                 g.service[c] \in p[i] /\ g.service[c] \notin p[i - 1]
           /\ \A c \in Layers(g)[i] :
                 /\ NeedsOf(g, g.service[c]) \subseteq p[i - 1]
                 /\ i > 1 => ~(NeedsOf(g, g.service[c]) \subseteq p[i - 2])
<1>1. Layers(g)[i] = {c \in Containers : g.service[c] \in p[i] \ p[i - 1]}
  BY DEF Layered
<1>2. p[i] = After(g, p[i - 1])
  BY DEF Layered
<1>3. ASSUME i > 1 PROVE p[i - 1] = After(g, p[i - 2])
  <2>1. i - 1 \in 1..r /\ (i - 1) - 1 = i - 2
    BY <1>3 DEF Layered
  <2>2. p[i - 1] = After(g, p[(i - 1) - 1])
    BY <2>1 DEF Layered
  <2>3. QED BY <2>1, <2>2
<1>4. \A c \in Containers : g.service[c] \in GroupServices(g)
  BY DEF GroupServices
<1>5. QED BY <1>1, <1>2, <1>3, <1>4 DEF After

(* The layers of a group have every container once, right after the last   *)
(* of those it needs.                                                      *)
LEMMA LayersOrder ==
    ASSUME NEW g \in Groups, Orderly(g)
    PROVE  /\ Layers(g) # <<>> /\ Len(Layers(g)) \in Nat
           /\ Layers(g) \in Seq(SUBSET Containers)
           /\ \A c \in Containers : \E i \in 1..Len(Layers(g)) : c \in Layers(g)[i]
           /\ \A i, j \in 1..Len(Layers(g)) : i # j => Layers(g)[i] \cap Layers(g)[j] = {}
           /\ \A i \in 2..Len(Layers(g)) : Layers(g)[i] \subseteq Needing(g, i - 1)
           /\ \A i, j \in 1..Len(Layers(g)) : i <= j => Layers(g)[i] \cap Needing(g, j) = {}
<1>1. PICK r, p : Layered(g, r, p)
  BY LayersAre
<1>2. r \in Nat /\ r # 0 /\ Len(Layers(g)) = r /\ Layers(g) \in Seq(SUBSET Containers)
      /\ Layers(g) # <<>>
  <2>1. \A k \in 1..r : Layers(g)[k] \in SUBSET Containers
    BY <1>1, InLayer
  <2>2. r \in Nat /\ r # 0 /\ Layers(g) = [k \in 1..r |-> Layers(g)[k]]
    BY <1>1 DEF Layered
  <2>3. QED BY <2>1, <2>2
<1>3. ASSUME NEW c \in Containers PROVE \E i \in 1..r : c \in Layers(g)[i]
  <2> DEFINE K == {k \in 0..r : g.service[c] \in p[k]}
  <2>1. r \in K /\ K \subseteq Nat
    BY <1>1, <1>2 DEF Layered, GroupServices
  <2>2. PICK m \in K : \A k \in K : m <= k
    BY <2>1, Least
  <2>3. m # 0
    BY <1>1, <2>2 DEF Layered
  <2>4. m \in 1..r /\ m - 1 \in 0..r /\ m - 1 \notin K
    BY <1>2, <2>2, <2>3
  <2>5. c \in Layers(g)[m]
    BY <1>1, <2>2, <2>4, InLayer
  <2>6. QED BY <2>4, <2>5
<1>4. ASSUME NEW i \in 1..r, NEW j \in 1..r, i < j PROVE p[i] \subseteq p[j - 1]
  <2>1. i \in 0..r /\ j - 1 \in 0..r /\ i <= j - 1
    BY <1>2, <1>4
  <2>2. QED BY <1>1, <2>1 DEF Layered
<1>5. ASSUME NEW i \in 1..r, NEW j \in 1..r, i < j PROVE Layers(g)[i] \cap Layers(g)[j] = {}
  BY <1>1, <1>4, <1>5, InLayer
<1>6. ASSUME NEW i \in 2..r PROVE Layers(g)[i] \subseteq Needing(g, i - 1)
  <2> SUFFICES ASSUME NEW c \in Layers(g)[i] PROVE c \in Needing(g, i - 1)
    OBVIOUS
  <2>1. i \in 1..r /\ i - 1 \in 1..r /\ i > 1 /\ (i - 1) - 1 = i - 2
    BY <1>2
  <2>2. /\ c \in Containers
        /\ NeedsOf(g, g.service[c]) \subseteq p[i - 1]
        /\ ~(NeedsOf(g, g.service[c]) \subseteq p[i - 2])
    BY <1>1, <2>1, InLayer
  <2>3. PICK s \in NeedsOf(g, g.service[c]) : s \in p[i - 1] /\ s \notin p[i - 2]
    BY <2>2
  <2>4. PICK d \in Containers : g.service[d] = s
    BY NeedsInGroup DEF GroupServices
  <2>5. d \in Layers(g)[i - 1]
    BY <1>1, <2>1, <2>3, <2>4, InLayer
  <2>6. QED BY <2>2, <2>3, <2>4, <2>5 DEF Needing
<1>7. ASSUME NEW i \in 1..r, NEW j \in 1..r, i <= j
      PROVE Layers(g)[i] \cap Needing(g, j) = {}
  <2> SUFFICES ASSUME NEW c \in Layers(g)[i], c \in Needing(g, j) PROVE FALSE
    OBVIOUS
  <2>1. NeedsOf(g, g.service[c]) \subseteq p[i - 1]
    BY <1>1, InLayer
  <2>2. PICK s \in NeedsOf(g, g.service[c]) : \E d \in Layers(g)[j] : g.service[d] = s
    BY DEF Needing
  <2>3. s \notin p[j - 1]
    BY <1>1, <2>2, InLayer
  <2>4. i - 1 \in 0..r /\ j - 1 \in 0..r /\ i - 1 <= j - 1
    BY <1>2, <1>7
  <2>5. p[i - 1] \subseteq p[j - 1]
    BY <1>1, <2>4 DEF Layered
  <2>6. QED BY <2>1, <2>3, <2>5
<1>8. \A i, j \in 1..r : i # j => Layers(g)[i] \cap Layers(g)[j] = {}
  <2> SUFFICES ASSUME NEW i \in 1..r, NEW j \in 1..r, i # j
               PROVE Layers(g)[i] \cap Layers(g)[j] = {}
    OBVIOUS
  <2>1. i < j \/ j < i
    BY <1>2
  <2>2. QED BY <1>5, <2>1
<1>9. QED BY <1>2, <1>3, <1>6, <1>7, <1>8

(* The kind of a repair and its group stay. *)
Grouped == kind = "containers" => group \in Groups

LEMMA GroupedHolds ==
    ExecutionSpec => []Grouped
<1>1. ExecutionInit => Grouped
  BY DEF ExecutionInit, Grouped
<1>2. Grouped /\ [ExecutionNext]_execVars => Grouped'
  BY DEF Grouped, ExecutionNext, execVars, CommandRan, CommandFailed, SeenReady, SeenPending,
     GivenUp, Planned, EndGone, EndAll, EndFails, Launched, LaunchRefused, Passed, NotYet,
     Failed, CleanUp, Interrupted, Forks, Exits, RecordChanges, ClockJumps
<1>3. QED BY <1>1, <1>2, PTL DEF ExecutionSpec

(* dependency_layers finds an order exactly if every container has a       *)
(* service and nobody needs itself in the end, for any group; and then     *)
(* every container stands in one layer, right after the last of those it   *)
(* needs.                                                                  *)
THEOREM LayersAreRight ==
    ExecutionSpec => []LayersRight
<1>1. Grouped => LayersRight
  <2> SUFFICES ASSUME kind = "containers", group \in Groups PROVE LayersRight
    BY DEF Grouped, LayersRight
  <2>1. CASE ~Orderly(group)
    BY <2>1, LayersAre DEF LayersRight, Orderly
  <2>2. CASE Orderly(group)
    <3> DEFINE L == Layers(group)
    <3>1. /\ L # <<>>
          /\ \A c \in Containers : \E i \in 1..Len(L) : c \in L[i]
          /\ \A i, j \in 1..Len(L) : i # j => L[i] \cap L[j] = {}
          /\ \A i \in 2..Len(L) : L[i] \subseteq Needing(group, i - 1)
          /\ \A i, j \in 1..Len(L) : i <= j => L[i] \cap Needing(group, j) = {}
      BY <2>2, LayersOrder
    <3>2. ~(Nameless \in GroupServices(group) \/ Circular(group))
      BY <2>2 DEF Orderly
    <3>3. QED BY <3>1, <3>2 DEF LayersRight, Needing
  <2>3. QED BY <2>1, <2>2
<1>2. QED BY <1>1, GroupedHolds, PTL

-----------------------------------------------------------------------------
(* The plan of a group                                                     *)

(* The places of a sequence of sets that keep something, in their order. *)
Places(layers, off, n, at) ==
    /\ Starts(layers, off) = [i \in 1..n |-> layers[at[i]] \cap off]
    /\ \A i \in 1..n : layers[at[i]] \cap off # {}
    /\ \A i, j \in 1..n : at[i] < at[j] => i < j
    /\ \A k \in 1..Len(layers) : layers[k] \cap off # {} => \E i \in 1..n : at[i] = k

LEMMA StartsAre ==
    ASSUME NEW layers \in Seq(SUBSET Containers), NEW off
    PROVE  \E n \in Nat : \E at \in [1..n -> 1..Len(layers)] : Places(layers, off, n, at)
<1> DEFINE kept == {k \in 1..Len(layers) : layers[k] \cap off # {}}
           below(k) == {j \in kept : j <= k}
           rank(k) == Cardinality(below(k))
           n == Cardinality(kept)
           at == [i \in 1..n |-> CHOOSE k \in kept : rank(k) = i]
<1>1. Len(layers) \in Nat /\ kept \in SUBSET (1..Len(layers))
  OBVIOUS
<1>2. IsFiniteSet(kept) /\ n \in Nat
  <2> HIDE DEF kept
  <2>1. IsFiniteSet(1..Len(layers))
    BY <1>1, FS_Interval
  <2>2. IsFiniteSet(kept)
    BY <1>1, <2>1, FS_Subset
  <2>3. QED BY <2>2, FS_CardinalityType
<1>3. ASSUME NEW k \in kept PROVE rank(k) \in 1..n /\ IsFiniteSet(below(k)) /\ rank(k) \in Nat
  <2>1. below(k) \in SUBSET kept /\ k \in below(k)
    BY <1>1
  <2> HIDE DEF kept, below
  <2>2. IsFiniteSet(below(k)) /\ Cardinality(below(k)) <= n
    BY <1>2, <2>1, FS_Subset
  <2>3. Cardinality(below(k)) \in Nat
    BY <2>2, FS_CardinalityType
  <2>4. Cardinality(below(k)) # 0
    BY <2>1, <2>2, FS_EmptySet
  <2>5. QED BY <1>2, <2>2, <2>3, <2>4
<1>4. ASSUME NEW k \in kept, NEW l \in kept, k < l PROVE rank(k) < rank(l)
  <2>1. below(k) \in SUBSET below(l) /\ l \in below(l) /\ l \notin below(k)
    BY <1>1, <1>4
  <2>2. IsFiniteSet(below(l)) /\ rank(k) \in Nat /\ rank(l) \in Nat
    BY <1>3
  <2> HIDE DEF kept, below
  <2>3. Cardinality(below(k)) <= Cardinality(below(l))
        /\ Cardinality(below(l)) # Cardinality(below(k))
    BY <2>1, <2>2, FS_Subset
  <2>4. QED BY <2>2, <2>3
<1>5. \A k \in 1..Len(layers) : k \in kept <=> layers[k] \cap off # {}
  OBVIOUS
<1>6. Starts(layers, off) = [i \in 1..n |-> layers[at[i]] \cap off]
  BY DEF Starts
<1> HIDE DEF kept, below, rank
<1>7. \A k, l \in kept : rank(k) = rank(l) => k = l
  <2> SUFFICES ASSUME NEW k \in kept, NEW l \in kept, rank(k) = rank(l) PROVE k = l
    OBVIOUS
  <2>1. k \in Nat /\ l \in Nat /\ rank(k) \in Nat
    BY <1>1, <1>3
  <2>2. ~(k < l) /\ ~(l < k)
    BY <1>4, <2>1
  <2>3. QED BY <2>1, <2>2
<1>8. \A i \in 1..n : \E k \in kept : rank(k) = i
  <2> DEFINE f == [k \in kept |-> rank(k)]
  <2>1. f \in [kept -> 1..n]
    BY <1>3
  <2>2. n = Cardinality(kept) /\ \A k \in kept : f[k] = rank(k)
    OBVIOUS
  <2> HIDE DEF f, n
  <2>3. f \in Injection(kept, 1..n)
    BY <1>7, <2>1, <2>2 DEF Injection, IsInjective
  <2>4. IsFiniteSet(1..n) /\ Cardinality(1..n) = n
    <3>1. IsFiniteSet(1..n) /\ Cardinality(1..n) = IF 1 > n THEN 0 ELSE n - 1 + 1
      BY <1>2, FS_Interval
    <3>2. QED BY <1>2, <3>1
  <2>5. Cardinality(kept) = Cardinality(1..n)
    BY <2>2, <2>4
  <2>6. f \in Surjection(kept, 1..n)
    BY <2>3, <2>4, <2>5, FS_Injection
  <2>7. QED BY <2>2, <2>6 DEF Surjection
<1> HIDE DEF n
<1>9. \A i \in 1..n : at[i] \in kept /\ rank(at[i]) = i
  BY <1>8
<1>10. at = [i \in 1..n |-> at[i]]
  OBVIOUS
<1> HIDE DEF at
<1>11. at \in [1..n -> 1..Len(layers)] /\ \A i \in 1..n : layers[at[i]] \cap off # {}
  <2>1. \A i \in 1..n : at[i] \in 1..Len(layers)
    BY <1>1, <1>9
  <2>2. QED BY <1>5, <1>9, <1>10, <2>1
<1>12. \A i, j \in 1..n : at[i] < at[j] => i < j
  BY <1>4, <1>9
<1>13. \A k \in 1..Len(layers) : layers[k] \cap off # {} => \E i \in 1..n : at[i] = k
  <2> SUFFICES ASSUME NEW k \in kept PROVE \E i \in 1..n : at[i] = k
    BY <1>5
  <2>1. rank(k) \in 1..n
    BY <1>3
  <2>2. at[rank(k)] = k
    BY <1>7, <1>9, <2>1
  <2>3. QED BY <2>1, <2>2
<1>14. Places(layers, off, n, at)
  BY <1>6, <1>11, <1>12, <1>13 DEF Places
<1>15. QED BY <1>2, <1>11, <1>14

(* Container d of the group is needed by container c. *)
Needed(g, c, d) == d \in Containers /\ g.service[d] \in NeedsOf(g, g.service[c])

LEMMA NeededBefore ==
    ASSUME NEW g \in Groups, Orderly(g), NEW i \in 1..Len(Layers(g)), NEW c \in Layers(g)[i],
           NEW d, Needed(g, c, d)
    PROVE  \E m \in 1..Len(Layers(g)) : m < i /\ d \in Layers(g)[m]
<1> DEFINE L == Layers(g)
<1>1. PICK m \in 1..Len(L) : d \in L[m]
  BY LayersOrder DEF Needed
<1>2. c \in Containers /\ Len(L) \in Nat
  BY LayersOrder, ElementOfSeq
<1>3. c \in Needing(g, m)
  BY <1>1, <1>2 DEF Needed, Needing
<1>4. ~(i <= m)
  BY <1>1, <1>3, LayersOrder
<1>5. QED BY <1>1, <1>2, <1>4

(* The plan of a group in its order: the stops, if all of it runs, and the *)
(* starts of what is off.                                                  *)
OffIn(g) == IF g.on = Containers THEN Containers ELSE Containers \ g.on
StopSteps(g) ==
    IF g.on # Containers THEN <<>>
    ELSE [k \in 1..Len(Layers(g)) |->
            [act |-> "stop", who |-> Reverse(Layers(g))[k], wait |-> "none"]]
StartSteps(s) ==
    [k \in 1..Len(s) |-> [act |-> "start", who |-> s[k],
                          wait |-> IF k < Len(s) THEN "ready" ELSE "none"]]

LEMMA OrderedIs ==
    ASSUME NEW g
    PROVE  Ordered(g) = StopSteps(g) \o StartSteps(Starts(Layers(g), OffIn(g)))
BY DEF Ordered, StopSteps, StartSteps, OffIn

\* Every stop comes after those of whatever needs it.
LEMMA StopsRight ==
    ASSUME NEW g \in Groups, Orderly(g)
    PROVE  /\ StopSteps(g) \in Seq(Step)
           /\ \A i \in 1..Len(StopSteps(g)) :
                /\ StopSteps(g)[i].act = "stop" /\ StopSteps(g)[i].wait = "none"
                /\ \A c \in StopSteps(g)[i].who : \A d \in Containers :
                     Needed(g, d, c) =>
                       \E j \in 1..Len(StopSteps(g)) : j < i /\ d \in StopSteps(g)[j].who
<1> DEFINE L == Layers(g)
           r == Len(L)
           P == StopSteps(g)
<1>1. CASE g.on # Containers
  <2>1. P = <<>>
    BY <1>1 DEF StopSteps
  <2>2. QED BY <2>1
<1>2. CASE g.on = Containers
  <2>1. r \in Nat /\ L \in Seq(SUBSET Containers)
    BY LayersOrder
  <2>2. \A k \in 1..r : r - k + 1 \in 1..r
    BY <2>1
  <2>3. P = [k \in 1..r |-> [act |-> "stop", who |-> L[r - k + 1], wait |-> "none"]]
    BY <1>2, <2>1 DEF StopSteps, Reverse
  <2> HIDE DEF P, L
  <2>4. P \in Seq(Step) /\ Len(P) = r
    <3>1. \A k \in 1..r : L[r - k + 1] \in SUBSET Things
      BY <2>1, <2>2, ElementOfSeq DEF Things
    <3>2. \A k \in 1..r :
            [act |-> "stop", who |-> L[r - k + 1], wait |-> "none"] \in Step
      BY <3>1 DEF Step
    <3>3. QED BY <2>1, <2>3, <3>2
  <2>5. ASSUME NEW i \in 1..r, NEW c \in P[i].who, NEW d \in Containers, Needed(g, d, c)
        PROVE \E j \in 1..r : j < i /\ d \in P[j].who
    <3>1. c \in L[r - i + 1] /\ r - i + 1 \in 1..r
      BY <2>2, <2>3
    <3>2. PICK m \in 1..r : d \in L[m]
      BY LayersOrder DEF L
    <3>3. PICK k \in 1..r : k < m /\ c \in L[k]
      BY <2>5, <3>2, NeededBefore DEF L
    <3>4. k = r - i + 1
      BY <3>1, <3>3, LayersOrder DEF L
    <3>5. r - m + 1 \in 1..r /\ r - m + 1 < i /\ r - (r - m + 1) + 1 = m
      BY <2>1, <3>2, <3>3, <3>4
    <3>6. d \in P[r - m + 1].who
      BY <2>3, <3>2, <3>5
    <3>7. QED BY <3>5, <3>6
  <2>6. \A i \in 1..r : P[i].act = "stop" /\ P[i].wait = "none"
    BY <2>3
  <2>7. QED BY <2>4, <2>5, <2>6 DEF P
<1>3. QED BY <1>1, <1>2

\* Every start comes after that of whatever it needs and was off, which is
\* waited for.
LEMMA StartsRight ==
    ASSUME NEW g \in Groups, Orderly(g), NEW P, P = StartSteps(Starts(Layers(g), OffIn(g)))
    PROVE  /\ P \in Seq(Step)
           /\ \A i \in 1..Len(P) :
                /\ P[i].act = "start"
                /\ \A c \in P[i].who : \A d \in Containers :
                     Needed(g, c, d) =>
                       \/ d \in g.on /\ g.on # Containers
                       \/ \E j \in 1..Len(P) : j < i /\ P[j].wait = "ready" /\ d \in P[j].who
<1> DEFINE L == Layers(g)
           off == OffIn(g)
<1>1. L \in Seq(SUBSET Containers) /\ Len(L) \in Nat
  BY LayersOrder
<1>2. PICK n \in Nat : \E at \in [1..n -> 1..Len(L)] : Places(L, off, n, at)
  <2> HIDE DEF L, off
  <2>1. QED BY <1>1, StartsAre
<1>3. PICK at \in [1..n -> 1..Len(L)] :
        /\ Starts(L, off) = [i \in 1..n |-> L[at[i]] \cap off]
        /\ \A i, j \in 1..n : at[i] < at[j] => i < j
        /\ \A k \in 1..Len(L) : L[k] \cap off # {} => \E i \in 1..n : at[i] = k
  BY <1>2 DEF Places
<1> DEFINE s == [i \in 1..n |-> L[at[i]] \cap off]
<1>4. Len(s) = n
  <2>1. \A i \in 1..n : L[at[i]] \cap off \in SUBSET Containers
    BY <1>1, ElementOfSeq
  <2>2. s \in [1..n -> SUBSET Containers]
    BY <2>1
  <2> HIDE DEF s
  <2>3. QED BY <2>2
<1>5. P = [k \in 1..n |-> [act |-> "start", who |-> L[at[k]] \cap off,
                           wait |-> IF k < n THEN "ready" ELSE "none"]]
  BY <1>3, <1>4 DEF StartSteps
<1>6. P \in Seq(Step) /\ Len(P) = n
  <2>1. \A k \in 1..n : L[at[k]] \cap off \in SUBSET Things
    BY <1>1, ElementOfSeq DEF Things
  <2>2. \A k \in 1..n : [act |-> "start", who |-> L[at[k]] \cap off,
                         wait |-> IF k < n THEN "ready" ELSE "none"] \in Step
    BY <2>1 DEF Step
  <2>3. DOMAIN P = 1..n /\ P = [k \in 1..n |-> P[k]] /\ \A k \in 1..n : P[k] \in Step
    BY <1>5, <2>2
  <2> HIDE DEF L, off
  <2>4. QED BY <2>3
<1>7. ASSUME NEW i \in 1..n, NEW c \in P[i].who, NEW d \in Containers, Needed(g, c, d),
             ~(d \in g.on /\ g.on # Containers)
      PROVE  \E j \in 1..n : j < i /\ P[j].wait = "ready" /\ d \in P[j].who
  <2>1. c \in L[at[i]] /\ at[i] \in 1..Len(L)
    BY <1>5
  <2>2. PICK m \in 1..Len(L) : m < at[i] /\ d \in L[m]
    BY <1>7, <2>1, NeededBefore
  <2>3. d \in off
    BY <1>7 DEF OffIn
  <2>4. PICK j \in 1..n : at[j] = m
    BY <1>3, <2>2, <2>3
  <2>5. j < i /\ j < n
    BY <1>3, <2>2, <2>4
  <2>6. P[j].wait = "ready" /\ d \in P[j].who
    BY <1>5, <2>2, <2>3, <2>4, <2>5
  <2>7. QED BY <2>5, <2>6
<1>8. \A i \in 1..n : P[i].act = "start"
  BY <1>5
<1>9. QED BY <1>6, <1>7, <1>8

(* What is right about a plan P of a group, step by step. *)
StepRight(g, P, i) ==
    /\ P[i].act \in {"start", "stop"}
    /\ P[i].wait # "none" => P[i].act = "start"
    /\ P[i].act = "stop" => \A c \in P[i].who : \A d \in Containers :
         Needed(g, d, c) => \E j \in 1..Len(P) : j < i /\ P[j].act = "stop" /\ d \in P[j].who
    /\ P[i].act = "start" => \A c \in P[i].who : \A d \in Containers :
         Needed(g, c, d) =>
           \/ d \in g.on /\ g.on # Containers
           \/ \E j \in 1..Len(P) : j < i /\ P[j].wait = "ready" /\ d \in P[j].who

LEMMA OrderedRight ==
    ASSUME NEW g \in Groups, Orderly(g)
    PROVE  /\ Ordered(g) \in Seq(Step)
           /\ \A i \in 1..Len(Ordered(g)) : StepRight(g, Ordered(g), i)
<1> DEFINE S == StopSteps(g)
           T == StartSteps(Starts(Layers(g), OffIn(g)))
           P == Ordered(g)
<1>1. P = S \o T
  BY OrderedIs
<1>2. S \in Seq(Step) /\ T \in Seq(Step)
  BY StopsRight, StartsRight
<1>3. ASSUME NEW i \in 1..Len(S) PROVE
        /\ S[i].act = "stop" /\ S[i].wait = "none"
        /\ \A c \in S[i].who : \A d \in Containers :
             Needed(g, d, c) => \E j \in 1..Len(S) : j < i /\ d \in S[j].who
  BY StopsRight
<1>4. ASSUME NEW i \in 1..Len(T) PROVE
        /\ T[i].act = "start"
        /\ \A c \in T[i].who : \A d \in Containers :
             Needed(g, c, d) =>
               \/ d \in g.on /\ g.on # Containers
               \/ \E j \in 1..Len(T) : j < i /\ T[j].wait = "ready" /\ d \in T[j].who
  BY StartsRight
<1> HIDE DEF S, T, P
<1>5. /\ P \in Seq(Step) /\ Len(P) = Len(S) + Len(T) /\ Len(S) \in Nat /\ Len(T) \in Nat
      /\ \A i \in 1..Len(S) : P[i] = S[i]
      /\ \A i \in 1..Len(T) : P[Len(S) + i] = T[i]
  BY <1>1, <1>2
<1>6. ASSUME NEW i \in 1..Len(S) PROVE StepRight(g, P, i)
  <2>1. P[i] = S[i] /\ \A j \in 1..Len(S) : j \in 1..Len(P) /\ P[j] = S[j] /\ S[j].act = "stop"
    BY <1>3, <1>5
  <2>2. S[i].act = "stop" /\ S[i].wait = "none"
    BY <1>3
  <2>3. ASSUME NEW c \in P[i].who, NEW d \in Containers, Needed(g, d, c)
        PROVE \E j \in 1..Len(P) : j < i /\ P[j].act = "stop" /\ d \in P[j].who
    <3>1. PICK j \in 1..Len(S) : j < i /\ d \in S[j].who
      BY <1>3, <2>1, <2>3
    <3>2. QED BY <2>1, <3>1
  <2>4. QED BY <2>1, <2>2, <2>3 DEF StepRight
<1>7. ASSUME NEW i \in 1..Len(T) PROVE StepRight(g, P, Len(S) + i)
  <2>1. P[Len(S) + i] = T[i] /\ T[i].act = "start"
    BY <1>4, <1>5
  <2>2. ASSUME NEW c \in T[i].who, NEW d \in Containers, Needed(g, c, d),
               ~(d \in g.on /\ g.on # Containers)
        PROVE \E j \in 1..Len(P) : j < Len(S) + i /\ P[j].wait = "ready" /\ d \in P[j].who
    <3>1. PICK j \in 1..Len(T) : j < i /\ T[j].wait = "ready" /\ d \in T[j].who
      BY <1>4, <2>2
    <3>2. Len(S) + j \in 1..Len(P) /\ Len(S) + j < Len(S) + i /\ P[Len(S) + j] = T[j]
      BY <1>5, <3>1
    <3>3. QED BY <3>1, <3>2
  <2>3. QED BY <2>1, <2>2 DEF StepRight
<1>8. ASSUME NEW k \in 1..Len(P) PROVE StepRight(g, P, k)
  <2>1. CASE k \in 1..Len(S)
    BY <1>6, <2>1
  <2>2. CASE k \notin 1..Len(S)
    <3>1. k - Len(S) \in 1..Len(T) /\ Len(S) + (k - Len(S)) = k
      BY <1>5, <2>2
    <3>2. StepRight(g, P, Len(S) + (k - Len(S)))
      BY <1>7, <3>1
    <3>3. QED BY <3>1, <3>2
  <2>3. QED BY <2>1, <2>2
<1>9. QED BY <1>5, <1>8 DEF P

-----------------------------------------------------------------------------
(* Types                                                                   *)

LEMMA PlansTyped ==
    /\ \A g \in Groups : ContainerPlan(g) \in Seq(Step)
    /\ \A restart \in BOOLEAN : ServicePlan(restart) \in Seq(Step)
    /\ <<[act |-> "kickstart", who |-> {Service}, wait |-> "none"]>> \in Seq(Step)
<1>1. ASSUME NEW g \in Groups PROVE ContainerPlan(g) \in Seq(Step)
  <2>1. CASE g.compose /\ Layers(g) # <<>>
    <3>1. Orderly(g)
      BY <2>1, LayersAre
    <3>2. QED BY <2>1, <3>1, OrderedRight DEF ContainerPlan
  <2>2. CASE ~(g.compose /\ Layers(g) # <<>>)
    <3> DEFINE start == [act |-> "start", who |-> Containers \ g.on, wait |-> "none"]
               restart == [act |-> "restart", who |-> g.on, wait |-> "none"]
    <3>1. g.on \subseteq Containers
      BY ExecutionAssumption
    <3>2. start \in Step /\ restart \in Step
      BY <3>1 DEF Step, Things
    <3>3. ContainerPlan(g) = (IF Containers \ g.on = {} THEN <<>> ELSE <<start>>)
                               \o (IF g.on = {} THEN <<>> ELSE <<restart>>)
      BY <2>2 DEF ContainerPlan, AllAtOnce
    <3> HIDE DEF start, restart
    <3>4. QED BY <3>2, <3>3
  <2>3. QED BY <2>1, <2>2
<1> DEFINE stop == [act |-> "stop", who |-> {Service}, wait |-> "stopped"]
           start == [act |-> "start", who |-> {Service}, wait |-> "none"]
           kick == [act |-> "kickstart", who |-> {Service}, wait |-> "none"]
<1>2. stop \in Step /\ start \in Step /\ kick \in Step
  BY DEF Step, Things
<1>3. ASSUME NEW restart \in BOOLEAN PROVE ServicePlan(restart) \in Seq(Step)
  <2>1. ServicePlan(restart) = IF restart THEN <<stop, start>> ELSE <<start>>
    BY DEF ServicePlan
  <2> HIDE DEF stop, start
  <2>2. QED BY <1>2, <2>1
<1>4. <<kick>> \in Seq(Step)
  <2> HIDE DEF kick
  <2>1. QED BY <1>2
<1>5. QED BY <1>1, <1>3, <1>4

Typed ==
    /\ group.on \subseteq Containers /\ group.compose \in BOOLEAN
    /\ plan \in Seq(Step)
    /\ {webOk, alive, onlyWeb} \subseteq BOOLEAN
    /\ {begun, halted, proved} \subseteq SUBSET Things
    /\ known \in {"approved", "changed", "renewed"}

LEMMA TypedInit ==
    ExecutionInit => Typed
<1> SUFFICES ASSUME ExecutionInit PROVE Typed
  OBVIOUS
<1>1. group.on \subseteq Containers /\ group.compose \in BOOLEAN
  <2>1. CASE group \in Groups
    BY <2>1, ExecutionAssumption
  <2>2. CASE group = NoGroup
    BY <2>2 DEF NoGroup
  <2>3. QED BY <2>1, <2>2 DEF ExecutionInit
<1>2. plan \in Seq(Step)
  <2>1. kind = "containers" => group \in Groups
    BY DEF ExecutionInit
  <2>2. CASE plan = <<>>
    BY <2>2
  <2>3. QED BY <2>1, <2>2, PlansTyped DEF ExecutionInit
<1>3. QED BY <1>1, <1>2 DEF ExecutionInit, Typed

\* What a command adds to.
LEMMA HeadTyped ==
    ASSUME Typed, plan # <<>>
    PROVE  /\ Head(plan) \in Step /\ Head(plan).who \subseteq Things
           /\ Tail(plan) \in Seq(Step)
           /\ Head(plan) = plan[1] /\ Len(Tail(plan)) = Len(plan) - 1
           /\ \A i \in 1..Len(Tail(plan)) : Tail(plan)[i] = plan[i + 1]
           /\ Len(plan) \in Nat /\ Len(plan) # 0
<1>1. plan \in Seq(Step)
  BY DEF Typed
<1>2. Head(plan) \in Step
  BY <1>1
<1>3. Head(plan).who \subseteq Things
  BY <1>2 DEF Step
<1>4. QED BY <1>1, <1>2, <1>3

LEMMA TypedStep ==
    ASSUME Shape, Typed, [ExecutionNext]_execVars
    PROVE  Typed'
<1>1. CASE CommandRan
  <2>1. plan' \in Seq(Step) /\ begun' \subseteq Things /\ halted' \subseteq Things
    BY <1>1, HeadTyped DEF CommandRan, Typed
  <2>2. UNCHANGED <<group, verdictVars, proved, known>>
    BY <1>1 DEF CommandRan, worldVars
  <2>3. QED BY <2>1, <2>2 DEF Typed, verdictVars
<1>2. CASE SeenReady
  BY <1>2, HeadTyped DEF SeenReady, Typed, Shape, verdictVars, worldVars
<1>3. CASE \/ CommandFailed \/ SeenPending \/ GivenUp \/ Planned \/ EndGone \/ EndAll \/ EndFails
           \/ Launched \/ LaunchRefused \/ CleanUp \/ Interrupted \/ Forks \/ Exits
           \/ ClockJumps \/ UNCHANGED execVars
  <2>1. UNCHANGED <<group, plan, verdictVars, doneVars, known>>
    BY <1>3 DEF CommandFailed, SeenPending, GivenUp, Planned, EndGone, EndAll, EndFails, Launched,
       LaunchRefused, CleanUp, Interrupted, Forks, Exits, ClockJumps, execVars, worldVars,
       verdictVars, doneVars
  <2>2. QED BY <2>1 DEF Typed, verdictVars, doneVars
<1>4. CASE RecordChanges
  BY <1>4 DEF RecordChanges, Typed, verdictVars, doneVars
<1>5. CASE Passed
  <2>1. webOk' \in BOOLEAN /\ alive' \in BOOLEAN /\ onlyWeb' \in BOOLEAN
    BY <1>5 DEF Passed, Round, Typed
  <2>2. known' \in {"approved", "changed", "renewed"} /\ UNCHANGED <<group, plan, doneVars>>
    BY <1>5 DEF Passed, Typed
  <2>3. QED BY <2>1, <2>2 DEF Typed, doneVars
<1>6. CASE NotYet
  <2>1. webOk' \in BOOLEAN /\ alive' \in BOOLEAN /\ onlyWeb' \in BOOLEAN
    BY <1>6 DEF NotYet, Round, Typed
  <2>2. QED BY <1>6, <2>1 DEF NotYet, Typed, doneVars, worldVars
<1>7. CASE Failed
  <2>1. webOk' \in BOOLEAN /\ alive' \in BOOLEAN /\ onlyWeb' \in BOOLEAN
    BY <1>7 DEF Failed, Round, Typed
  <2>2. UNCHANGED <<group, plan, doneVars, known>>
    BY <1>7 DEF Failed, worldVars
  <2>3. QED BY <2>1, <2>2 DEF Typed, doneVars
<1>8. QED
  BY <1>1, <1>2, <1>3, <1>4, <1>5, <1>6, <1>7 DEF ExecutionNext

LEMMA TypedHolds ==
    ExecutionSpec => []Typed
<1>1. QED BY ShapeHolds, TypedInit, TypedStep, PTL DEF ExecutionSpec

(* The state of a repair has its types. *)
THEOREM ExecutionTyped ==
    ExecutionSpec => []ExecutionTypeOK
<1>1. ExecutionSpec => []Living
  BY ShapeHolds, LivingInit, LivingStep, PTL DEF ExecutionSpec
<1>2. ExecutionSpec => []Timing
  <2>1. Shape /\ Timing /\ [ExecutionNext]_execVars => Timing'
    BY Clocked, TimingStep
  <2>2. QED BY <2>1, ShapeHolds, WaitsInit, PTL DEF ExecutionSpec
<1>3. Shape /\ Living /\ Timing /\ Typed => ExecutionTypeOK
  BY DEF Shape, Living, Timing, Typed, ExecutionTypeOK
<1>4. QED BY <1>1, <1>2, <1>3, ShapeHolds, TypedHolds, PTL

-----------------------------------------------------------------------------
(* The order of the commands                                               *)

\* The first q steps of plan P are done, the others are left.
Suffix(P, q) ==
    /\ Len(plan) + q = Len(P)
    /\ \A i \in 1..Len(plan) : plan[i] = P[q + i]
    /\ \A j \in 1..q : /\ P[j].wait = "ready" => P[j].who \subseteq proved
                       /\ P[j].act = "stop" => P[j].who \subseteq halted

\* The two plans of a service.
StopIt == [act |-> "stop", who |-> {Service}, wait |-> "stopped"]
StartIt == [act |-> "start", who |-> {Service}, wait |-> "none"]
StopStart == <<StopIt, StartIt>>
StartOnly == <<StartIt>>

(* A repair of an ordered group is somewhere in its plan; one of a service *)
(* starts it after a stop only when it was seen to have stopped.           *)
Walking ==
    /\ kind = "containers" => group \in Groups
    /\ pc = "await" => Head(plan).wait # "none"
    /\ InOrder => \E q \in Nat : Suffix(Ordered(group), q)
    /\ kind = "service" =>
         /\ plan \in {StopStart, StartOnly, <<>>}
         /\ Service \in halted /\ plan = StartOnly => Service \in proved

LEMMA ServiceSteps ==
    /\ \A restart \in BOOLEAN : ServicePlan(restart) \in {StopStart, StartOnly}
    /\ Len(StopStart) = 2 /\ Tail(StopStart) = StartOnly
    /\ Head(StopStart) = StopIt
    /\ Len(StartOnly) = 1 /\ Tail(StartOnly) = <<>>
    /\ Head(StartOnly) = StartIt
    /\ StopStart # <<>> /\ StartOnly # <<>> /\ StopStart # StartOnly
    /\ StopIt.act = "stop" /\ StopIt.wait = "stopped" /\ StopIt.who = {Service}
    /\ StartIt.act = "start" /\ StartIt.wait = "none" /\ StartIt.who = {Service}
<1>1. ASSUME NEW restart \in BOOLEAN PROVE ServicePlan(restart) \in {StopStart, StartOnly}
  BY DEF ServicePlan, StopStart, StartOnly, StopIt, StartIt
<1>2. /\ Len(StopStart) = 2 /\ Tail(StopStart) = StartOnly /\ Head(StopStart) = StopIt
      /\ Len(StartOnly) = 1 /\ Tail(StartOnly) = <<>> /\ Head(StartOnly) = StartIt
      /\ StopStart # <<>> /\ StartOnly # <<>>
  BY DEF StopStart, StartOnly
<1>3. StopStart # StartOnly
  BY <1>2
<1>4. /\ StopIt.act = "stop" /\ StopIt.wait = "stopped" /\ StopIt.who = {Service}
      /\ StartIt.act = "start" /\ StartIt.wait = "none" /\ StartIt.who = {Service}
  BY DEF StopIt, StartIt
<1>5. QED BY <1>1, <1>2, <1>3, <1>4

LEMMA WalkingInit ==
    ExecutionInit => Walking
<1> SUFFICES ASSUME ExecutionInit PROVE Walking
  OBVIOUS
<1>1. ASSUME InOrder PROVE Suffix(Ordered(group), 0)
  <2>1. group \in Groups /\ plan = ContainerPlan(group) /\ Orderly(group) /\ group.compose
    BY <1>1 DEF ExecutionInit, InOrder, Orderly
  <2>2. plan = Ordered(group)
    BY <2>1, LayersOrder DEF ContainerPlan
  <2>3. Len(Ordered(group)) \in Nat
    BY <2>1, OrderedRight
  <2>4. QED BY <2>2, <2>3 DEF Suffix
<1>2. kind = "service" => plan \in {StopStart, StartOnly} /\ halted = {}
  BY ServiceSteps DEF ExecutionInit
<1>3. QED BY <1>1, <1>2 DEF ExecutionInit, Walking

(* A step is done: the next one is at the head. *)
LEMMA WalksOn ==
    ASSUME NEW P, NEW q \in Nat, Suffix(P, q), Typed, plan # <<>>, plan' = Tail(plan),
           halted \subseteq halted', proved \subseteq proved',
           Head(plan).wait = "ready" => Head(plan).who \subseteq proved',
           Head(plan).act = "stop" => Head(plan).who \subseteq halted'
    PROVE  Suffix(P, q + 1)'
<1>1. Head(plan) = P[q + 1]
  BY HeadTyped DEF Suffix
<1>2. Len(plan') + (q + 1) = Len(P)
  BY HeadTyped DEF Suffix
<1>3. ASSUME NEW i \in 1..Len(plan') PROVE plan'[i] = P[(q + 1) + i]
  <2>1. i + 1 \in 1..Len(plan) /\ plan'[i] = plan[i + 1] /\ q + (i + 1) = (q + 1) + i
    BY HeadTyped
  <2>2. QED BY <2>1 DEF Suffix
<1>4. ASSUME NEW j \in 1..(q + 1)
      PROVE /\ P[j].wait = "ready" => P[j].who \subseteq proved'
            /\ P[j].act = "stop" => P[j].who \subseteq halted'
  <2>1. CASE j = q + 1
    BY <1>1, <2>1
  <2>2. CASE j # q + 1
    <3>1. j \in 1..q
      BY <2>2
    <3>2. QED BY <3>1 DEF Suffix
  <2>3. QED BY <2>1, <2>2
<1>5. QED BY <1>2, <1>3, <1>4 DEF Suffix

\* The head of the plan is a step of the plan of the group.
LEMMA HeadRight ==
    ASSUME Typed, Walking, InOrder, plan # <<>>
    PROVE  \E q \in Nat : /\ Suffix(Ordered(group), q)
                          /\ Head(plan) = Ordered(group)[q + 1]
                          /\ StepRight(group, Ordered(group), q + 1)
<1>1. PICK q \in Nat : Suffix(Ordered(group), q)
  BY DEF Walking
<1>2. group \in Groups /\ Orderly(group)
  BY DEF Walking, InOrder, Orderly
<1>3. Head(plan) = Ordered(group)[q + 1] /\ q + 1 \in 1..Len(Ordered(group))
  BY <1>1, HeadTyped DEF Suffix
<1>4. StepRight(group, Ordered(group), q + 1)
  BY <1>2, <1>3, OrderedRight
<1>5. QED BY <1>1, <1>3, <1>4

\* What a command or the end of its wait does to the walk.
LEMMA Ran ==
    ASSUME Typed, Walking, Shape, CommandRan
    PROVE  /\ Head(plan).act # "stop" => begun' = begun \cup Head(plan).who
           /\ Head(plan).act = "stop" => begun' = begun
           /\ Head(plan).act # "start" => halted' = halted \cup Head(plan).who
           /\ Head(plan).act = "start" => halted' = halted
           /\ plan # <<>> /\ UNCHANGED <<kind, group, proved>>
           /\ Head(plan).wait = "none" => plan' = Tail(plan) /\ pc' = "run"
           /\ Head(plan).wait # "none" => plan' = plan /\ pc' = "await"
BY DEF CommandRan, Shape

LEMMA RanWalking ==
    ASSUME Typed, Walking, Shape, CommandRan
    PROVE  Walking'
<1>1. ASSUME InOrder PROVE \E q \in Nat : Suffix(Ordered(group), q)'
  <2>1. PICK q \in Nat : /\ Suffix(Ordered(group), q)
                         /\ StepRight(group, Ordered(group), q + 1)
                         /\ Head(plan) = Ordered(group)[q + 1]
    BY <1>1, Ran, HeadRight
  <2>2. CASE Head(plan).wait = "none"
    <3>1. Suffix(Ordered(group), q + 1)'
      <4>1. plan' = Tail(plan) /\ halted \subseteq halted' /\ proved \subseteq proved' /\ plan # <<>>
        BY <2>2, Ran
      <4>2. Head(plan).act = "stop" => Head(plan).who \subseteq halted'
        BY Ran
      <4>3. Ordered(group)' = Ordered(group)
        BY Ran
      <4> DEFINE P == Ordered(group)
      <4>4. Suffix(P, q + 1)'
        <5>1. ASSUME NEW Q, Q = P PROVE Suffix(Q, q + 1)'
          BY <2>1, <2>2, <4>1, <4>2, <5>1, WalksOn
        <5>2. QED BY <5>1, <4>3 DEF Suffix
      <4>5. QED BY <4>4
    <3>2. q + 1 \in Nat
      OBVIOUS
    <3>3. QED BY <3>1, <3>2
  <2>3. CASE Head(plan).wait # "none"
    <3>1. Ordered(group)' = Ordered(group) /\ plan' = plan /\ proved' = proved
          /\ halted \subseteq halted'
      BY <2>3, Ran
    <3>2. QED BY <2>1, <3>1 DEF Suffix
  <2>4. QED BY <2>2, <2>3
<1>2. InOrder' => InOrder
  BY Ran DEF InOrder, Circular
<1>3. ASSUME kind = "service"
      PROVE /\ plan' \in {StopStart, StartOnly, <<>>}
            /\ Service \in halted' /\ plan' = StartOnly => Service \in proved'
  <2>1. CASE plan = StopStart
    <3>1. Head(plan).wait = "stopped" /\ Len(plan) = 2
      BY <2>1, ServiceSteps
    <3>2. plan' = plan
      BY <3>1, Ran
    <3>3. QED BY <2>1, <3>1, <3>2, ServiceSteps
  <2>2. CASE plan = StartOnly
    <3>1. Head(plan).wait = "none" /\ Len(plan) = 1
      BY <2>2, ServiceSteps
    <3>2. plan' = <<>>
      BY <2>2, <3>1, Ran, ServiceSteps
    <3>3. plan' # StartOnly
      BY <2>2, <3>1, <3>2
    <3>4. QED BY <3>2, <3>3
  <2>3. QED BY <1>3, <2>1, <2>2, Ran DEF Walking
<1>4. pc' = "await" => Head(plan').wait # "none"
  BY Ran
<1>5. kind' = kind /\ group' = group
  BY Ran
<1>6. QED BY <1>1, <1>2, <1>3, <1>4, <1>5 DEF Walking

LEMMA SeenWalking ==
    ASSUME Typed, Walking, Shape, SeenReady
    PROVE  Walking'
<1>1. /\ plan # <<>> /\ Head(plan).wait # "none" /\ plan' = Tail(plan) /\ pc' = "run"
      /\ proved' = proved \cup Head(plan).who /\ UNCHANGED <<kind, group, begun, halted>>
  BY DEF SeenReady, Shape, Walking
<1>2. ASSUME InOrder PROVE \E q \in Nat : Suffix(Ordered(group), q)'
  <2>1. PICK q \in Nat : /\ Suffix(Ordered(group), q)
                         /\ StepRight(group, Ordered(group), q + 1)
                         /\ Head(plan) = Ordered(group)[q + 1]
    BY <1>1, <1>2, HeadRight
  <2>2. Head(plan).act # "stop"
    BY <1>1, <2>1 DEF StepRight
  <2>3. Suffix(Ordered(group), q + 1)'
    <3> DEFINE P == Ordered(group)
    <3>1. ASSUME NEW Q, Q = P PROVE Suffix(Q, q + 1)'
      BY <1>1, <2>1, <2>2, <3>1, WalksOn
    <3>2. Ordered(group)' = Ordered(group)
      BY <1>1
    <3>3. QED BY <3>1, <3>2 DEF Suffix
  <2>4. q + 1 \in Nat
    OBVIOUS
  <2>5. QED BY <2>3, <2>4
<1>3. InOrder' => InOrder
  BY <1>1 DEF InOrder, Circular
<1>4. ASSUME kind = "service"
      PROVE /\ plan' \in {StopStart, StartOnly, <<>>}
            /\ Service \in halted' /\ plan' = StartOnly => Service \in proved'
  <2>1. plan = StopStart
    BY <1>1, <1>4, ServiceSteps DEF Walking
  <2>2. plan' = StartOnly /\ Service \in proved'
    BY <1>1, <2>1, ServiceSteps
  <2>3. QED BY <2>2
<1>5. QED BY <1>1, <1>2, <1>3, <1>4 DEF Walking

LEMMA WalkingStep ==
    ASSUME Typed, Walking, Shape, [ExecutionNext]_execVars
    PROVE  Walking'
<1>1. CASE CommandRan
  BY <1>1, RanWalking
<1>2. CASE SeenReady
  BY <1>2, SeenWalking
<1>3. CASE \/ CommandFailed \/ SeenPending \/ GivenUp \/ Planned \/ EndGone \/ EndAll \/ EndFails
           \/ Launched \/ LaunchRefused \/ Passed \/ NotYet \/ Failed \/ CleanUp
           \/ Interrupted \/ Forks \/ Exits \/ RecordChanges \/ ClockJumps \/ UNCHANGED execVars
  <2>1. UNCHANGED <<kind, group, plan, proved, halted>> /\ (pc' = "await" => pc = "await")
    BY <1>3 DEF CommandFailed, SeenPending, GivenUp, Planned, EndGone, EndAll, EndFails, Launched,
       LaunchRefused, Passed, NotYet, Failed, CleanUp, Interrupted, Forks, Exits,
       RecordChanges, ClockJumps, execVars, doneVars, End
  <2>2. Ordered(group)' = Ordered(group) /\ (InOrder' => InOrder)
    BY <2>1 DEF InOrder, Circular
  <2>3. InOrder => \E q \in Nat : Suffix(Ordered(group), q)'
    BY <2>1, <2>2 DEF Walking, Suffix
  <2>4. QED BY <2>1, <2>2, <2>3 DEF Walking
<1>4. QED BY <1>1, <1>2, <1>3 DEF ExecutionNext

LEMMA NeededByIs ==
    ASSUME NEW c, NEW d
    PROVE  d \in NeededBy(c) <=> Needed(group, c, d)
BY DEF NeededBy, Needed

\* The order holds in the step that runs a command.
LEMMA RanInOrder ==
    ASSUME Typed, Walking, Shape, CommandRan
    PROVE  /\ \A c \in begun' \ begun : InOrder => \A d \in NeededBy(c) :
                d \in proved \/ (d \in group.on /\ group.on # Containers)
           /\ \A c \in halted' \ halted : InOrder => \A d \in Containers :
                c \in NeededBy(d) => d \in halted
           /\ Service \in begun' \ begun /\ Service \in halted /\ kind = "service"
                => Service \in proved
<1>1. ASSUME InOrder, NEW c \in begun' \ begun, NEW d \in NeededBy(c),
             ~(d \in group.on /\ group.on # Containers)
      PROVE  d \in proved
  <2>1. PICK q \in Nat : /\ Suffix(Ordered(group), q)
                         /\ StepRight(group, Ordered(group), q + 1)
                         /\ Head(plan) = Ordered(group)[q + 1]
    BY <1>1, Ran, HeadRight
  <2>2. Head(plan).act = "start" /\ c \in Head(plan).who
    BY <1>1, <2>1, Ran DEF StepRight
  <2>3. d \in Containers /\ Needed(group, c, d)
    BY NeededByIs DEF NeededBy
  <2>4. PICK j \in 1..Len(Ordered(group)) :
          j < q + 1 /\ Ordered(group)[j].wait = "ready" /\ d \in Ordered(group)[j].who
    BY <1>1, <2>1, <2>2, <2>3 DEF StepRight
  <2>5. j \in 1..q
    BY <2>4
  <2>6. QED BY <2>1, <2>4, <2>5 DEF Suffix
<1>2. ASSUME InOrder, NEW c \in halted' \ halted, NEW d \in Containers, c \in NeededBy(d)
      PROVE  d \in halted
  <2>1. PICK q \in Nat : /\ Suffix(Ordered(group), q)
                         /\ StepRight(group, Ordered(group), q + 1)
                         /\ Head(plan) = Ordered(group)[q + 1]
    BY <1>2, Ran, HeadRight
  <2>2. Head(plan).act = "stop" /\ c \in Head(plan).who
    BY <1>2, <2>1, Ran DEF StepRight
  <2>3. Needed(group, d, c)
    BY <1>2, NeededByIs
  <2>4. PICK j \in 1..Len(Ordered(group)) :
          j < q + 1 /\ Ordered(group)[j].act = "stop" /\ d \in Ordered(group)[j].who
    BY <2>1, <2>2, <2>3 DEF StepRight
  <2>5. j \in 1..q
    BY <2>4
  <2>6. QED BY <2>1, <2>4, <2>5 DEF Suffix
<1>3. ASSUME Service \in begun' \ begun, Service \in halted, kind = "service"
      PROVE  Service \in proved
  <2>1. plan = StartOnly
    BY <1>3, Ran, ServiceSteps DEF Walking
  <2>2. QED BY <1>3, <2>1 DEF Walking
<1>4. QED BY <1>1, <1>2, <1>3

(* In an ordered group a container is started when every container of the  *)
(* group it needs was running all along or was seen ready after this       *)
(* repair started it, and stopped after everything that needs it; a stuck  *)
(* service is started when it was seen to have stopped.  For any group.    *)
THEOREM DependenciesFirst ==
    ExecutionSpec => DependencyFirst
<1> DEFINE A == /\ \A c \in begun' \ begun : InOrder => \A d \in NeededBy(c) :
                     d \in proved \/ (d \in group.on /\ group.on # Containers)
                /\ \A c \in halted' \ halted : InOrder => \A d \in Containers :
                     c \in NeededBy(d) => d \in halted
                /\ Service \in begun' \ begun /\ Service \in halted /\ kind = "service"
                     => Service \in proved
<1>1. ExecutionSpec => []Walking
  BY ShapeHolds, TypedHolds, WalkingInit, WalkingStep, PTL DEF ExecutionSpec
<1>2. Shape /\ Typed /\ Walking /\ [ExecutionNext]_execVars => [A]_execVars
  <2> SUFFICES ASSUME Shape, Typed, Walking, ExecutionNext PROVE A
    OBVIOUS
  <2>1. CASE CommandRan
    BY <2>1, RanInOrder
  <2>2. CASE ~CommandRan
    <3>1. begun' = begun /\ halted' = halted
      BY <2>2 DEF ExecutionNext, CommandFailed, SeenReady, SeenPending, GivenUp, Planned, EndGone,
         EndAll, EndFails, Launched, LaunchRefused, Passed, NotYet, Failed, CleanUp,
         Interrupted, Forks, Exits, RecordChanges, ClockJumps, doneVars
    <3>2. QED BY <3>1
  <2>3. QED BY <2>1, <2>2
<1>3. ExecutionSpec => [][A]_execVars
  BY <1>1, <1>2, ShapeHolds, TypedHolds, PTL DEF ExecutionSpec
<1>4. QED BY <1>3 DEF DependencyFirst

=============================================================================
