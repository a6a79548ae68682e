---------------------------- MODULE NetworkProofs ----------------------------
(***************************************************************************)
(* What the governance of a network keeps for any number of processes and   *)
(* grants, and whatever goes wrong: a revision is applied once and ends     *)
(* once, nobody writes under a grant that was revoked, and what a lone      *)
(* process calls verified is in force.                                     *)
(***************************************************************************)
EXTENDS NetworkKeepsPromise, TLAPS

-----------------------------------------------------------------------------
(* The invariant                                                           *)

Claims == [state : {"none", "active", "released", "uncertain", "resolved"},
           token : Nat, fresh : BOOLEAN, of : Grants \cup {Nothing}]

(* Before the write: a record in one of these phases was never applied. *)
Pre == Early \cup {"awaiting_authorization"}
Middle == Phases \ (Pre \cup Terminal)

Gate == {"claim", "assert"}
Before == {"decide", "recheck", "apply", "wait"}
Within == {"claim", "assert", "write", "applied", "verify", "proved", "undo", "path", "steer",
           "judge", "resume", "refused"}

(* What the copy of a process is like where the process is. *)
Fit(m, v) ==
    /\ v.stage \in Before => m # Nothing /\ m.phase \in Pre
    /\ v.stage \in Within => m # Nothing /\ m.phase \in Middle
    /\ v.stage \in {"ack", "tell"} =>
         /\ m # Nothing
         /\ \/ v.goal \in Good /\ m.phase \in Middle
            \/ v.stage = "ack" /\ v.goal \in Terminal \cup {"awaiting_authorization"}
               /\ m.phase = v.goal

Fitting == \A p \in Lifecycles : Fit(mem[p], run[p])

(* A copy that is the tail of the journal says what the table says. *)
InStep ==
    \A p \in Lifecycles \ behind :
        mem[p] # Nothing => row # Nothing /\ row.phase = mem[p].phase

(* Who comes to the claim is the only one, and the first; before that there *)
(* was no claim.                                                           *)
Unapplied ==
    /\ row = Nothing \/ row.phase \in Pre =>
         /\ claim.state = "none" /\ applies = 0
         /\ \A p \in Lifecycles : run[p].stage \notin Gate
    /\ \A p \in Lifecycles :
         /\ run[p].stage \in Gate => applies = 0
         /\ run[p].stage = "claim" => claim.state = "none"
    /\ \A p, q \in Lifecycles : run[p].stage \in Gate /\ run[q].stage \in Gate => p = q

NInv == NetworkTypeOK /\ Fitting /\ InStep /\ Unapplied

(* A claim that is active stands for a grant that is not revoked; tokens are *)
(* given out once; and who is about to write holds the claim.               *)
Leased ==
    /\ claim.state = "active" =>
         claim.of \in Grants /\ grants[claim.of] # "revoked" /\ claim.token >= 1
    /\ \A p \in Lifecycles : run[p].holds <= claim.token
    /\ \A p, q \in Lifecycles : run[p].holds = run[q].holds /\ run[p].holds # 0 => p = q
    /\ \A p \in Lifecycles :
         run[p].stage \in {"assert", "write"} =>
            claim.state = "active" /\ claim.token = run[p].holds /\ claim.of = mem[p].auth

-----------------------------------------------------------------------------
(* What a step of a process is, as far as the invariants are concerned      *)

Follows(s, t) == (s \in Terminal => t = s) /\ (t \in Pre => s \in Pre)

(* The copy of another process when the journal is written. *)
Remains(m, n) ==
    /\ m = Nothing => n = Nothing
    /\ m # Nothing => n \in GovernanceRecord /\ n.phase = m.phase /\ n.auth = m.auth

Wrote(p) ==
    /\ row' \in GovernanceRecord /\ mem'[p] \in GovernanceRecord
    /\ row'.phase = mem'[p].phase
    /\ \A q \in Lifecycles \ {p} : Remains(mem[q], mem'[q])
    /\ behind' = {q \in Lifecycles \ {p} : mem[q] # Nothing}
    /\ row # Nothing => Follows(row.phase, row'.phase)

Kept == UNCHANGED <<row, mem, behind>>

Glanced(p) ==
    /\ UNCHANGED <<row, behind>>
    /\ p \notin behind /\ row # Nothing
    /\ mem'[p] \in GovernanceRecord /\ mem'[p].phase = row.phase
    /\ \A q \in Lifecycles \ {p} : mem'[q] = mem[q]

Forgot(p) ==
    /\ UNCHANGED row
    /\ mem'[p] = Nothing /\ behind' = behind \ {p}
    /\ \A q \in Lifecycles \ {p} : mem'[q] = mem[q]

(* A claim is given up by the one who holds it, if at all. *)
Yields(p) ==
    /\ claim'.token = claim.token
    /\ claim'.state = "active" => claim' = claim
    /\ claim.state = "none" => claim' = claim
    /\ claim' # claim /\ claim.state = "active" => claim.token = run[p].holds
    /\ run'[p].holds \in {run[p].holds, 0}
    /\ run'[p].stage # "assert"
    /\ run'[p].stage = "write" =>
         run[p].stage = "assert" /\ claim' = claim /\ run'[p].holds = run[p].holds /\ Kept
    /\ run'[p].stage = "claim" =>
         /\ row = Nothing \/ row.phase \in Pre
         /\ row' # Nothing /\ row'.phase \notin Pre /\ claim' = claim

Takes(p) ==
    /\ run[p].stage = "claim" /\ run'[p].stage = "assert" /\ Kept
    /\ claim.state # "active"
    /\ claim'.token = claim.token + 1 /\ run'[p].holds = claim.token + 1
    /\ claim'.of = mem[p].auth /\ claim'.state = "active"
    /\ Active(claim'.of)

Turned(p) ==
    /\ run' \in [Lifecycles -> Place]
    /\ \A q \in Lifecycles \ {p} : run'[q] = run[q]

Effect(p) ==
    /\ NetworkTypeOK' /\ Turned(p) /\ grants' = grants
    /\ Fit(mem'[p], run'[p])
    /\ Wrote(p) \/ Kept \/ Glanced(p) \/ Forgot(p)
    /\ Yields(p) \/ Takes(p)
    /\ applies' # applies => /\ run[p].stage = "assert" /\ run'[p].stage \notin Gate
                             /\ UNCHANGED row

-----------------------------------------------------------------------------
(* Records                                                                 *)

(* The phases are apart. *)
LEMMA PhasesAre ==
    /\ Pre \subseteq Phases /\ Middle \subseteq Phases /\ Terminal \subseteq Phases
    /\ Good \subseteq Middle /\ Recoverable \subseteq Phases
    /\ \A s \in Pre : s \notin Middle /\ s \notin Terminal
    /\ \A s \in Middle : s \notin Terminal /\ s \notin Pre
    /\ \A s \in Terminal : s \notin Pre /\ s \notin Recoverable /\ s \notin Good
BY DEF Pre, Middle, Terminal, Phases, Good, Recoverable, Early

(* The fields of a record. *)
LEMMA FieldsOf ==
    ASSUME NEW r \in GovernanceRecord
    PROVE  /\ r.phase \in Phases /\ r.auth \in Grants \cup {Nothing}
           /\ r.receipt \in Receipts /\ r.verified \in {"none", "yes", "no"}
           /\ r.evidence \in {"none", "bad", "good"} /\ r.acked \in BOOLEAN
           /\ r # Nothing
BY NothingIsNoRecord DEF GovernanceRecord

(* A record that changes. *)
LEMMA Entering ==
    ASSUME NEW r \in GovernanceRecord, NEW s \in Phases
    PROVE  /\ [r EXCEPT !.phase = s] \in GovernanceRecord
           /\ [r EXCEPT !.phase = s].phase = s
BY DEF GovernanceRecord

(* What the table and the others keep of a record. *)
LEMMA KeptOf ==
    ASSUME NEW r \in GovernanceRecord
    PROVE  /\ FreshRecord \in GovernanceRecord /\ FreshRecord.phase = "planning"
           /\ Stored(r) \in GovernanceRecord /\ Stored(r).phase = r.phase
           /\ Old(r) \in GovernanceRecord /\ Old(r).phase = r.phase /\ Old(r).auth = r.auth
<1>1. FreshRecord \in GovernanceRecord /\ FreshRecord.phase = "planning"
  BY DEF FreshRecord, GovernanceRecord, Phases, Recoverable, Early, Receipts
<1>2. Stored(r) \in GovernanceRecord /\ Stored(r).phase = r.phase
  BY DEF Stored, GovernanceRecord, Receipts
<1>3. Old(r) \in GovernanceRecord /\ Old(r).phase = r.phase /\ Old(r).auth = r.auth
  BY <1>1, FieldsOf DEF Old, FreshRecord, GovernanceRecord
<1>4. QED
  BY <1>1, <1>2, <1>3

(* The fields of a place, and a place that changes. *)
LEMMA PlaceOf ==
    ASSUME NEW v \in Place
    PROVE  /\ v.stage \in Stages /\ v.goal \in Phases \cup {Nothing} /\ v.claimed \in BOOLEAN
           /\ v.was \in Origins \cup {Nothing} /\ v.holds \in Nat
BY DEF Place

LEMMA RestingIs ==
    ASSUME NEW t \in Nat
    PROVE  /\ Resting(t) \in Place /\ Resting(t).stage = "idle" /\ Resting(t).holds = t
BY DEF Resting, Place, Stages

LEMMA PlaceGoes ==
    ASSUME NEW v \in Place, NEW s \in Stages, NEW g \in Phases, NEW t \in Nat
    PROVE  /\ [v EXCEPT !.stage = s] \in Place
           /\ [v EXCEPT !.stage = s].stage = s /\ [v EXCEPT !.stage = s].holds = v.holds
           /\ [v EXCEPT !.stage = s].goal = v.goal
           /\ [v EXCEPT !.goal = g] \in Place
           /\ [v EXCEPT !.goal = g].goal = g /\ [v EXCEPT !.goal = g].stage = v.stage
           /\ [v EXCEPT !.goal = g].holds = v.holds
           /\ [v EXCEPT !.holds = t] \in Place
           /\ [v EXCEPT !.holds = t].holds = t /\ [v EXCEPT !.holds = t].stage = v.stage
<1>1. /\ [v EXCEPT !.stage = s] \in Place
      /\ [v EXCEPT !.stage = s].stage = s /\ [v EXCEPT !.stage = s].holds = v.holds
      /\ [v EXCEPT !.stage = s].goal = v.goal
  BY DEF Place
<1>2. /\ [v EXCEPT !.goal = g] \in Place
      /\ [v EXCEPT !.goal = g].goal = g /\ [v EXCEPT !.goal = g].stage = v.stage
      /\ [v EXCEPT !.goal = g].holds = v.holds
  BY DEF Place
<1>3. /\ [v EXCEPT !.holds = t] \in Place
      /\ [v EXCEPT !.holds = t].holds = t /\ [v EXCEPT !.holds = t].stage = v.stage
  BY PlaceOf DEF Place
<1>4. QED
  BY <1>1, <1>2, <1>3

(* A process goes on. *)
LEMMA Turning ==
    ASSUME NetworkTypeOK, NEW p \in Lifecycles, NEW v \in Place, run' = [run EXCEPT ![p] = v]
    PROVE  Turned(p) /\ run'[p] = v
<1>1. run \in [Lifecycles -> Place]
  BY DEF NetworkTypeOK
<1>2. QED
  BY <1>1 DEF Turned

LEMMA Going ==
    ASSUME NetworkTypeOK, NEW p \in Lifecycles, NEW s \in Stages, Goes(p, s)
    PROVE  /\ Turned(p) /\ run'[p].stage = s /\ run'[p].holds = run[p].holds
           /\ run'[p].goal = run[p].goal
<1>1. run \in [Lifecycles -> Place] /\ run[p] \in Place
  BY DEF NetworkTypeOK
<1>2. run' = [run EXCEPT ![p] = [run[p] EXCEPT !.stage = s]]
  BY <1>1 DEF Goes
<1>3. [run[p] EXCEPT !.stage = s] \in Place
      /\ [run[p] EXCEPT !.stage = s].stage = s
      /\ [run[p] EXCEPT !.stage = s].holds = run[p].holds
      /\ [run[p] EXCEPT !.stage = s].goal = run[p].goal
  BY <1>1 DEF Place
<1>4. QED
  BY <1>2, <1>3, Turning

LEMMA Delivering ==
    ASSUME NetworkTypeOK, NEW p \in Lifecycles, NEW s \in Phases, Delivers(p, s)
    PROVE  /\ Turned(p) /\ run'[p].stage = "ack" /\ run'[p].goal = s
           /\ run'[p].holds = run[p].holds
<1>1. run \in [Lifecycles -> Place] /\ run[p] \in Place /\ "ack" \in Stages /\ 0 \in Nat
  BY DEF NetworkTypeOK, Stages
<1>2. run' = [run EXCEPT ![p] = [[run[p] EXCEPT !.stage = "ack"] EXCEPT !.goal = s]]
  BY <1>1 DEF Delivers
<1> DEFINE v == [run[p] EXCEPT !.stage = "ack"]
<1>3. v \in Place /\ v.stage = "ack" /\ v.holds = run[p].holds
  BY <1>1, PlaceGoes
<1> HIDE DEF v
<1> DEFINE u == [v EXCEPT !.goal = s]
<1>4. u \in Place /\ u.goal = s /\ u.stage = v.stage /\ u.holds = v.holds
  BY <1>3 DEF Place
<1>5. run' = [run EXCEPT ![p] = u]
  BY <1>2 DEF v
<1> HIDE DEF u
<1>6. QED
  BY <1>3, <1>4, <1>5, Turning

LEMMA Ending ==
    ASSUME NetworkTypeOK, NEW p \in Lifecycles, Ends(p)
    PROVE  /\ Turned(p) /\ run'[p].stage \in {"idle", "finally"}
           /\ run'[p].holds = run[p].holds
<1>1. run \in [Lifecycles -> Place] /\ run[p] \in Place /\ run[p].holds \in Nat
  BY PlaceOf DEF NetworkTypeOK
<1>2. CASE run[p].claimed
  <2>1. "finally" \in Stages
    BY DEF Stages
  <2>2. run' = [run EXCEPT ![p] = [run[p] EXCEPT !.stage = "finally"]]
    BY <1>1, <1>2 DEF Ends
  <2>3. [run[p] EXCEPT !.stage = "finally"] \in Place
        /\ [run[p] EXCEPT !.stage = "finally"].stage = "finally"
        /\ [run[p] EXCEPT !.stage = "finally"].holds = run[p].holds
    BY <1>1, <2>1 DEF Place
  <2>4. QED
    BY <2>2, <2>3, Turning
<1>3. CASE ~run[p].claimed
  <2>1. run' = [run EXCEPT ![p] = Resting(run[p].holds)]
    BY <1>1, <1>3 DEF Ends
  <2>2. QED
    BY <1>1, <2>1, RestingIs, Turning
<1>4. QED
  BY <1>2, <1>3

-----------------------------------------------------------------------------
(* Writing and going on                                                    *)

LEMMA Stops_Fit ==
    ASSUME NEW m, NEW v, v.stage \in {"idle", "finally", "plan"}
    PROVE  Fit(m, v)
BY DEF Fit, Before, Within

(* The journal is written. *)
LEMMA Putting ==
    ASSUME NetworkTypeOK, NEW p \in Lifecycles, NEW r \in GovernanceRecord, Puts(p, r),
           row # Nothing => Follows(row.phase, r.phase)
    PROVE  /\ Wrote(p) /\ mem'[p] = r /\ row' # Nothing /\ row'.phase = r.phase
           /\ row' \in GovernanceRecord /\ behind' \subseteq Lifecycles
           /\ mem' \in [Lifecycles -> GovernanceRecord \cup {Nothing}]
<1>1. row' = Stored(r) /\ Stored(r) \in GovernanceRecord /\ Stored(r).phase = r.phase
      /\ row' # Nothing
  BY KeptOf, FieldsOf DEF Puts
<1>2. \A q \in Lifecycles : mem[q] \in GovernanceRecord \cup {Nothing}
  BY DEF NetworkTypeOK
<1>3. mem'[p] = r
  BY DEF Puts
<1>4. \A q \in Lifecycles \ {p} :
         mem'[q] = IF mem[q] = Nothing THEN Nothing ELSE Old(mem[q])
  BY DEF Puts
<1>5. ASSUME NEW q \in Lifecycles \ {p}
      PROVE  Remains(mem[q], mem'[q]) /\ mem'[q] \in GovernanceRecord \cup {Nothing}
  BY <1>2, <1>4, KeptOf DEF Remains
<1>6. mem' = [q \in Lifecycles |-> mem'[q]]
  BY DEF Puts
<1>7. mem' \in [Lifecycles -> GovernanceRecord \cup {Nothing}]
  BY <1>3, <1>5, <1>6
<1>8. behind' = {q \in Lifecycles \ {p} : mem[q] # Nothing}
  BY DEF Puts
<1>9. QED
  BY <1>1, <1>3, <1>5, <1>7, <1>8 DEF Wrote

(* A process that works has a copy, and what it may write is on top of it. *)
LEMMA Working ==
    ASSUME NInv, NEW p \in Lifecycles, run[p].stage \in Before \cup Within \cup {"ack", "tell"}
    PROVE  /\ mem[p] \in GovernanceRecord /\ mem[p] # Nothing
           /\ p \notin behind => row # Nothing /\ row.phase = mem[p].phase
           /\ CanPut(p) <=> p \notin behind
<1>1. mem[p] # Nothing
  BY DEF NInv, Fitting, Fit
<1>2. mem[p] \in GovernanceRecord
  BY <1>1 DEF NInv, NetworkTypeOK
<1>3. p \notin behind => row # Nothing /\ row.phase = mem[p].phase
  BY <1>1 DEF NInv, InStep
<1>4. CanPut(p) <=> p \notin behind
  BY DEF CanPut, Before, Within
<1>5. QED
  BY <1>1, <1>2, <1>3, <1>4

(* What may become of a claim of a process that does not take one. *)
Later(p) ==
    {claim, Fenced(claim, run[p].holds), Resolved(Fenced(claim, run[p].holds)),
     Released(claim, run[p].holds)}

LEMMA LaterIs ==
    ASSUME NetworkTypeOK, NEW p \in Lifecycles, claim' \in Later(p)
    PROVE  /\ claim' \in Claims
           /\ claim'.token = claim.token
           /\ claim'.state = "active" => claim' = claim
           /\ claim.state = "none" => claim' = claim
           /\ claim' # claim /\ claim.state = "active" => claim.token = run[p].holds
<1>1. claim \in Claims
  BY DEF NetworkTypeOK, Claims
<1>2. CASE claim' = claim
  BY <1>1, <1>2
<1>3. CASE claim' = Fenced(claim, run[p].holds)
  <2>1. CASE claim.state = "active" /\ claim.token = run[p].holds
    BY <1>1, <1>3, <2>1 DEF Fenced, Claims
  <2>2. CASE ~(claim.state = "active" /\ claim.token = run[p].holds)
    BY <1>1, <1>3, <2>2 DEF Fenced, Claims
  <2>3. QED
    BY <2>1, <2>2
<1>4. CASE claim' = Resolved(Fenced(claim, run[p].holds))
  <2>1. CASE claim.state = "active" /\ claim.token = run[p].holds
    BY <1>1, <1>4, <2>1 DEF Fenced, Resolved, Claims
  <2>2. CASE ~(claim.state = "active" /\ claim.token = run[p].holds)
    BY <1>1, <1>4, <2>2 DEF Fenced, Resolved, Claims
  <2>3. QED
    BY <2>1, <2>2
<1>5. CASE claim' = Released(claim, run[p].holds)
  <2>1. CASE claim.state = "active" /\ claim.token = run[p].holds
    BY <1>1, <1>5, <2>1 DEF Released, Claims
  <2>2. CASE ~(claim.state = "active" /\ claim.token = run[p].holds)
    BY <1>1, <1>5, <2>2 DEF Released, Claims
  <2>3. QED
    BY <2>1, <2>2
<1>6. QED
  BY <1>2, <1>3, <1>4, <1>5 DEF Later

Worlds == {"none", "partly", "applied", "undone"}

(* A step that writes the journal. *)
LEMMA WritingStep ==
    ASSUME NInv, NEW p \in Lifecycles, NEW r \in GovernanceRecord, Puts(p, r),
           row # Nothing => Follows(row.phase, r.phase),
           Turned(p), run'[p].holds \in {run[p].holds, 0},
           run'[p].stage \notin {"assert", "write"},
           run'[p].stage = "claim" =>
              (row = Nothing \/ row.phase \in Pre) /\ r.phase \notin Pre /\ claim' = claim,
           Fit(r, run'[p]),
           claim' \in Later(p), grants' = grants, applies' = applies,
           world' \in Worlds, may' \in Bounds
    PROVE  Effect(p)
<1>1. NetworkTypeOK
  BY DEF NInv
<1>2. /\ Wrote(p) /\ mem'[p] = r /\ row' # Nothing /\ row'.phase = r.phase
      /\ row' \in GovernanceRecord /\ behind' \subseteq Lifecycles
      /\ mem' \in [Lifecycles -> GovernanceRecord \cup {Nothing}]
  BY <1>1, Putting
<1>3. /\ claim' \in Claims
      /\ claim'.token = claim.token
      /\ claim'.state = "active" => claim' = claim
      /\ claim.state = "none" => claim' = claim
      /\ claim' # claim /\ claim.state = "active" => claim.token = run[p].holds
  BY <1>1, LaterIs
<1>4. NetworkTypeOK'
  BY <1>1, <1>2, <1>3 DEF NetworkTypeOK, Turned, Worlds, Claims
<1>5. Yields(p)
  BY <1>2, <1>3 DEF Yields
<1>6. QED
  BY <1>2, <1>4, <1>5 DEF Effect

(* A step that leaves the journal alone. *)
LEMMA GoingStep ==
    ASSUME NInv, NEW p \in Lifecycles, Kept, Turned(p),
           run'[p].holds \in {run[p].holds, 0},
           run'[p].stage \notin {"claim", "assert", "write"},
           Fit(mem[p], run'[p]),
           claim' \in Later(p), grants' = grants, applies' = applies,
           world' \in Worlds, may' \in Bounds
    PROVE  Effect(p)
<1>1. NetworkTypeOK
  BY DEF NInv
<1>2. /\ claim' \in Claims
      /\ claim'.token = claim.token
      /\ claim'.state = "active" => claim' = claim
      /\ claim.state = "none" => claim' = claim
      /\ claim' # claim /\ claim.state = "active" => claim.token = run[p].holds
  BY <1>1, LaterIs
<1>3. NetworkTypeOK'
  BY <1>1, <1>2 DEF NetworkTypeOK, Turned, Worlds, Claims, Kept
<1>4. Yields(p)
  BY <1>2 DEF Yields
<1>5. mem'[p] = mem[p]
  BY DEF Kept
<1>6. QED
  BY <1>3, <1>4, <1>5 DEF Effect

(* What is silent leaves the claim, the provider and the bounds alone. *)
LEMMA Quiet ==
    ASSUME NInv, NEW p \in Lifecycles, UNCHANGED <<grants, claim, world, applies, may>>
    PROVE  /\ claim' \in Later(p) /\ grants' = grants /\ applies' = applies
           /\ world' \in Worlds /\ may' \in Bounds
BY DEF NInv, NetworkTypeOK, Later, Worlds

(* A record that a process at work writes, and goes on. *)
LEMMA Journalling ==
    ASSUME NInv, NEW p \in Lifecycles, run[p].stage \in Before \cup Within \cup {"ack", "tell"},
           NEW r \in GovernanceRecord, Records(p, r), Follows(mem[p].phase, r.phase),
           Turned(p), run'[p].holds = run[p].holds,
           run'[p].stage \notin {"claim", "assert", "write"},
           Fit(r, run'[p])
    PROVE  Effect(p)
<1>1. Puts(p, r) /\ UNCHANGED <<grants, claim, world, applies, may>>
  BY DEF Records
<1>2. row # Nothing /\ row.phase = mem[p].phase
  BY <1>1, Working DEF Puts
<1>3. QED
  BY <1>1, <1>2, WritingStep, Quiet

(* The same for a process that works on what may have been applied. *)
LEMMA Advancing ==
    ASSUME NInv, NEW p \in Lifecycles, run[p].stage \in Within,
           NEW r \in GovernanceRecord, Records(p, r), r.phase \notin Pre,
           Turned(p), run'[p].holds = run[p].holds,
           run'[p].stage \notin {"claim", "assert", "write"},
           Fit(r, run'[p])
    PROVE  Effect(p)
<1>1. mem[p].phase \in Middle
  BY DEF NInv, Fitting, Fit
<1>2. Follows(mem[p].phase, r.phase)
  BY <1>1, PhasesAre DEF Follows
<1>3. QED
  BY <1>2, Journalling

LEMMA Moving ==
    ASSUME NInv, NEW p \in Lifecycles, run[p].stage \in Within,
           NEW s \in Middle, NEW t \in Within \ {"claim", "assert", "write"}, Moves(p, s, t)
    PROVE  Effect(p)
<1>1. NetworkTypeOK /\ mem[p] \in GovernanceRecord /\ s \in Phases /\ t \in Stages
      /\ s \notin Pre
  BY Working, PhasesAre DEF NInv, Within, Stages
<1>2. [mem[p] EXCEPT !.phase = s] \in GovernanceRecord
      /\ [mem[p] EXCEPT !.phase = s].phase = s
      /\ [mem[p] EXCEPT !.phase = s] # Nothing
  BY <1>1, Entering, FieldsOf
<1>3. Turned(p) /\ run'[p].stage = t /\ run'[p].holds = run[p].holds
  BY <1>1, Going DEF Moves
<1>4. Fit([mem[p] EXCEPT !.phase = s], run'[p])
  BY <1>2, <1>3 DEF Fit, Before, Within
<1>5. QED
  BY <1>1, <1>2, <1>3, <1>4, Advancing DEF Moves, Enters

LEMMA Stopping ==
    ASSUME NInv, NEW p \in Lifecycles, run[p].stage \in Within, Stops(p)
    PROVE  Effect(p)
<1> DEFINE r == [mem[p] EXCEPT !.phase = "recovery_required"]
<1>1. NetworkTypeOK /\ mem[p] \in GovernanceRecord /\ "recovery_required" \in Terminal
  BY Working DEF NInv, Terminal
<1>2. r \in GovernanceRecord /\ r.phase \notin Pre
  BY <1>1, Entering, PhasesAre
<1>3. Turned(p) /\ run'[p].stage \in {"idle", "finally"} /\ run'[p].holds = run[p].holds
  BY <1>1, Ending DEF Stops
<1>4. Fit(r, run'[p])
  BY <1>3, Stops_Fit
<1>5. Records(p, r)
  BY DEF Stops, Enters
<1> HIDE DEF r
<1>6. QED
  BY <1>2, <1>3, <1>4, <1>5, Advancing

LEMMA Settling ==
    ASSUME NInv, NEW p \in Lifecycles, run[p].stage \in Within,
           NEW s \in Terminal \cup {"path_degraded"}, Settles(p, s)
    PROVE  Effect(p)
<1> DEFINE r == [mem[p] EXCEPT !.phase = s]
<1>1. NetworkTypeOK /\ mem[p] \in GovernanceRecord /\ "path_degraded" \in Good
      /\ "path_degraded" \in Middle
  BY Working, PhasesAre DEF NInv, Good
<1>2. s \in Phases /\ s \notin Pre
  BY <1>1, PhasesAre
<1>3. r \in GovernanceRecord /\ r.phase = s /\ r # Nothing
  BY <1>1, <1>2, Entering, FieldsOf
<1>4. Turned(p) /\ run'[p].stage = "ack" /\ run'[p].goal = s /\ run'[p].holds = run[p].holds
  BY <1>1, <1>2, Delivering DEF Settles
<1>5. Records(p, r)
  BY DEF Settles, Enters
<1> HIDE DEF r
<1>6. Fit(r, run'[p])
  BY <1>1, <1>3, <1>4 DEF Fit, Before, Within
<1>7. QED
  BY <1>2, <1>3, <1>4, <1>5, <1>6, Advancing

-----------------------------------------------------------------------------
(* A call begins                                                           *)

LEMMA FirstTimeIs ==
    ASSUME NInv, NEW p \in Lifecycles, FirstTime(p)
    PROVE  Effect(p)
<1>1. "plan" \in Stages /\ NetworkTypeOK
  BY DEF Stages, NInv
<1>2. Turned(p) /\ run'[p].stage = "plan" /\ run'[p].holds = run[p].holds
  BY <1>1, Going DEF FirstTime
<1>3. Kept /\ UNCHANGED <<grants, claim, world, applies, may>>
  BY DEF FirstTime, Silent, Kept
<1>4. QED
  BY <1>2, <1>3, Quiet, GoingStep, Stops_Fit

(* What a process knows of a record that is the tail. *)
LEMMA KnownIs ==
    ASSUME NInv, NEW p \in Lifecycles, row # Nothing, p \notin behind
    PROVE  /\ Known(p) \in GovernanceRecord /\ Known(p).phase = row.phase
           /\ Restored(p) \in GovernanceRecord /\ Restored(p).phase = row.phase
           /\ mem[p] # Nothing => Known(p) = mem[p]
<1>1. row \in GovernanceRecord /\ (mem[p] # Nothing => mem[p] \in GovernanceRecord)
  BY DEF NInv, NetworkTypeOK
<1>2. mem[p] # Nothing => mem[p].phase = row.phase
  BY DEF NInv, InStep
<1>3. /\ [row EXCEPT !.evidence = "none"] \in GovernanceRecord
      /\ [row EXCEPT !.evidence = "none"].phase = row.phase
  BY <1>1 DEF GovernanceRecord
<1>4. Known(p) \in GovernanceRecord /\ Known(p).phase = row.phase
  BY <1>1, <1>2, <1>3 DEF Known
<1>5. Restored(p) \in GovernanceRecord /\ Restored(p).phase = row.phase
  <2> DEFINE k == Known(p)
             e == IF k.evidence = "none" THEN row.evidence ELSE k.evidence
  <2>1. k \in GovernanceRecord /\ k.phase = row.phase /\ Restored(p) = [k EXCEPT !.evidence = e]
    BY <1>4 DEF Restored, GovernanceRecord
  <2>2. e \in {"none", "bad", "good"}
    BY <2>1, <1>1, FieldsOf
  <2> HIDE DEF k, e
  <2>3. [k EXCEPT !.evidence = e] \in GovernanceRecord /\ [k EXCEPT !.evidence = e].phase = k.phase
    BY <2>1, <2>2 DEF GovernanceRecord
  <2>4. QED
    BY <2>1, <2>3
<1>6. mem[p] # Nothing => Known(p) = mem[p]
  BY DEF Known
<1>7. QED
  BY <1>4, <1>5, <1>6

(* A copy is taken, and nothing is written. *)
LEMMA LookingStep ==
    ASSUME NInv, NEW p \in Lifecycles, row # Nothing, p \notin behind,
           mem' = [mem EXCEPT ![p] = Known(p)],
           UNCHANGED <<grants, claim, row, behind, world, applies, may>>,
           Turned(p), run'[p].holds = run[p].holds,
           run'[p].stage \notin {"claim", "assert", "write"},
           Fit(Known(p), run'[p])
    PROVE  Effect(p)
<1>1. mem \in [Lifecycles -> GovernanceRecord \cup {Nothing}] /\ NetworkTypeOK
  BY DEF NInv, NetworkTypeOK
<1>2. Known(p) \in GovernanceRecord /\ Known(p).phase = row.phase
  BY KnownIs
<1>3. /\ mem' \in [Lifecycles -> GovernanceRecord \cup {Nothing}] /\ mem'[p] = Known(p)
      /\ \A q \in Lifecycles \ {p} : mem'[q] = mem[q]
  BY <1>1, <1>2
<1>4. NetworkTypeOK'
  BY <1>1, <1>3 DEF NetworkTypeOK, Turned
<1>5. Glanced(p)
  BY <1>2, <1>3 DEF Glanced
<1>6. Yields(p)
  BY DEF Yields
<1>7. QED
  BY <1>3, <1>4, <1>5, <1>6 DEF Effect

LEMMA LookIs ==
    ASSUME NInv, NEW p \in Lifecycles, Look(p)
    PROVE  Effect(p)
<1>1. run' = run /\ run[p].stage = "idle" /\ run \in [Lifecycles -> Place]
  BY DEF Look, MayBegin, Stands, NInv, NetworkTypeOK
<1>2. Turned(p)
  BY <1>1 DEF Turned
<1>3. Fit(Known(p), run'[p])
  BY <1>1, Stops_Fit
<1>4. /\ row # Nothing /\ p \notin behind
      /\ mem' = [mem EXCEPT ![p] = Known(p)]
      /\ UNCHANGED <<grants, claim, row, behind, world, applies, may>>
  BY DEF Look, MayBegin
<1>5. QED
  BY <1>1, <1>2, <1>3, <1>4, LookingStep

LEMMA AgainIs ==
    ASSUME NInv, NEW p \in Lifecycles, Again(p)
    PROVE  Effect(p)
<1>1. NetworkTypeOK /\ "decide" \in Stages /\ row # Nothing /\ p \notin behind
  BY DEF NInv, Stages, Again, MayBegin
<1>2. Turned(p) /\ run'[p].stage = "decide" /\ run'[p].holds = run[p].holds
  BY <1>1, Going DEF Again
<1>3. Known(p) \in GovernanceRecord /\ Known(p) # Nothing
      /\ Known(p).phase = "awaiting_authorization"
  BY <1>1, KnownIs, FieldsOf DEF Again
<1>4. Fit(Known(p), run'[p])
  BY <1>2, <1>3 DEF Fit, Before, Within, Pre
<1>5. QED
  BY <1>1, <1>2, <1>4, LookingStep DEF Again

LEMMA PathAgainIs ==
    ASSUME NInv, NEW p \in Lifecycles, PathAgain(p)
    PROVE  Effect(p)
<1> DEFINE r == Restored(p)
<1>1. NetworkTypeOK /\ "path" \in Stages /\ row # Nothing /\ p \notin behind
  BY DEF NInv, Stages, PathAgain, MayBegin
<1>2. r \in GovernanceRecord /\ r.phase = row.phase /\ r.phase \in Good
  BY <1>1, KnownIs DEF PathAgain
<1>3. Turned(p) /\ run'[p].stage = "path" /\ run'[p].holds = run[p].holds
  BY <1>1, Going DEF PathAgain
<1>4. PICK n \in GovernanceRecord : n.phase = "path_verifying" /\ Records(p, n)
  <2>1. "path_verifying" \in Phases
    BY DEF Phases, Recoverable
  <2>2. /\ [r EXCEPT !.phase = "path_verifying", !.tried = TRUE] \in GovernanceRecord
        /\ [r EXCEPT !.phase = "path_verifying", !.tried = TRUE].phase = "path_verifying"
        /\ [r EXCEPT !.phase = "path_verifying"] \in GovernanceRecord
        /\ [r EXCEPT !.phase = "path_verifying"].phase = "path_verifying"
    BY <1>2, <2>1 DEF GovernanceRecord
  <2>3. \/ Records(p, [r EXCEPT !.phase = "path_verifying", !.tried = TRUE])
        \/ Records(p, [r EXCEPT !.phase = "path_verifying"])
    BY DEF PathAgain
  <2>4. QED
    BY <2>2, <2>3
<1>5. "path_verifying" \in Middle
  BY DEF Middle, Phases, Recoverable, Pre, Early, Terminal
<1>6. Fit(n, run'[p])
  BY <1>3, <1>4, <1>5, FieldsOf DEF Fit, Before, Within
<1>7. Follows(row.phase, n.phase)
  BY <1>2, <1>4, <1>5, PhasesAre DEF Follows
<1>8. Puts(p, n) /\ UNCHANGED <<grants, claim, world, applies, may>>
  BY <1>4 DEF Records
<1>9. QED
  BY <1>3, <1>6, <1>7, <1>8, WritingStep, Quiet

LEMMA RetrySinksIs ==
    ASSUME NInv, NEW p \in Lifecycles, RetrySinks(p)
    PROVE  Effect(p)
<1> DEFINE r == Restored(p)
           n == [r EXCEPT !.phase = "acknowledging"]
<1>1. NetworkTypeOK /\ row # Nothing /\ p \notin behind
  BY DEF NInv, RetrySinks, MayBegin
<1>2. r \in GovernanceRecord /\ r.phase = row.phase /\ r.phase \in Good
      /\ Delivers(p, r.phase) /\ Records(p, n)
  BY <1>1, KnownIs DEF RetrySinks
<1>3. "acknowledging" \in Middle
  BY DEF Middle, Phases, Recoverable, Pre, Early, Terminal
<1>4. n \in GovernanceRecord /\ n.phase = "acknowledging"
  BY <1>2, <1>3, Entering, PhasesAre
<1> HIDE DEF n
<1>5. Turned(p) /\ run'[p].stage = "ack" /\ run'[p].goal = r.phase /\ run'[p].holds = run[p].holds
  BY <1>1, <1>2, Delivering, PhasesAre
<1>6. Fit(n, run'[p])
  BY <1>2, <1>3, <1>4, <1>5, FieldsOf DEF Fit, Before, Within
<1>7. Follows(row.phase, n.phase)
  BY <1>2, <1>3, <1>4, PhasesAre DEF Follows
<1>8. Puts(p, n) /\ UNCHANGED <<grants, claim, world, applies, may>>
  BY <1>2 DEF Records
<1>9. QED
  BY <1>4, <1>5, <1>6, <1>7, <1>8, WritingStep, Quiet

LEMMA RecoverIs ==
    ASSUME NInv, NEW p \in Lifecycles, Recover(p)
    PROVE  Effect(p)
<1>1. NetworkTypeOK /\ row # Nothing /\ p \notin behind
  BY DEF NInv, Recover, MayBegin
<1>2. PICK r \in {Known(p), Restored(p)} :
         /\ r.phase \in Recoverable
         /\ Puts(p, [r EXCEPT !.phase = "recovering"])
         /\ run' = [run EXCEPT ![p] = [Resting(0) EXCEPT !.stage = "judge", !.was = Kind(r)]]
  BY DEF Recover
<1> DEFINE n == [r EXCEPT !.phase = "recovering"]
           v == [Resting(0) EXCEPT !.stage = "judge", !.was = Kind(r)]
<1>3. r \in GovernanceRecord /\ r.phase = row.phase
  BY <1>1, <1>2, KnownIs
<1>4. "recovering" \in Middle /\ "recovering" \in Phases
  BY DEF Middle, Phases, Recoverable, Pre, Early, Terminal
<1>5. n \in GovernanceRecord /\ n.phase = "recovering" /\ n # Nothing
  BY <1>3, <1>4, Entering, FieldsOf
<1>6. Kind(r) \in Origins
  BY DEF Kind, Origins
<1>7. v \in Place /\ v.stage = "judge" /\ v.holds = 0
  BY <1>6 DEF Resting, Place, Stages
<1>8. run' = [run EXCEPT ![p] = v] /\ Puts(p, n)
  BY <1>2
<1> HIDE DEF n, v
<1>9. Turned(p) /\ run'[p] = v
  BY <1>1, <1>7, <1>8, Turning
<1>10. Fit(n, run'[p])
  BY <1>4, <1>5, <1>7, <1>9 DEF Fit, Before, Within
<1>11. Follows(row.phase, n.phase)
  BY <1>2, <1>3, <1>4, <1>5, PhasesAre DEF Follows
<1>12. claim' \in Later(p) /\ UNCHANGED <<grants, world, applies, may>>
  BY DEF Recover, Later
<1>13. world' \in Worlds /\ may' \in Bounds
  BY <1>1, <1>12 DEF NetworkTypeOK, Worlds
<1>14. QED
  BY <1>5, <1>7, <1>8, <1>9, <1>10, <1>11, <1>12, <1>13, WritingStep

(* A write that fails counts. *)
LEMMA UnwrittenIs ==
    ASSUME NInv, NEW p \in Lifecycles, Unwritten(p)
    PROVE  may' \in Bounds
<1>1. may \in Bounds
  BY DEF NInv, NetworkTypeOK
<1>2. may' = may \/ (may.faults > 0 /\ may' = [may EXCEPT !.faults = @ - 1])
  BY DEF Unwritten
<1>3. may.faults \in Nat
  BY <1>1 DEF Bounds
<1>4. may.faults > 0 => may.faults - 1 \in Nat
  BY <1>3
<1>5. QED
  BY <1>1, <1>2, <1>3, <1>4 DEF Bounds

LEMMA RecoverFailsIs ==
    ASSUME NInv, NEW p \in Lifecycles, RecoverFails(p)
    PROVE  Effect(p)
<1>1. NetworkTypeOK /\ 0 \in Nat
  BY DEF NInv
<1>2. Turned(p) /\ run'[p] = Resting(0)
  BY <1>1, RestingIs, Turning DEF RecoverFails
<1>3. run'[p].stage = "idle" /\ run'[p].holds = 0
  BY <1>1, <1>2, RestingIs
<1>4. claim' \in Later(p) /\ UNCHANGED <<grants, row, mem, behind, world, applies>>
  BY DEF RecoverFails, Later
<1>5. world' \in Worlds /\ may' \in Bounds
  BY <1>1, <1>4, UnwrittenIs DEF NetworkTypeOK, Worlds, RecoverFails
<1>6. QED
  BY <1>2, <1>3, <1>4, <1>5, GoingStep, Stops_Fit DEF Kept

-----------------------------------------------------------------------------
(* Up to the write                                                         *)

LEMMA PlanIs ==
    ASSUME NInv, NEW p \in Lifecycles, Plan(p)
    PROVE  Effect(p)
<1>1. NetworkTypeOK /\ "decide" \in Stages /\ FreshRecord \in GovernanceRecord
      /\ FreshRecord.phase = "planning" /\ FreshRecord # Nothing
  <2>1. FreshRecord \in GovernanceRecord /\ FreshRecord.phase = "planning"
    BY DEF FreshRecord, GovernanceRecord, Phases, Recoverable, Early, Receipts
  <2>2. QED
    BY <2>1, FieldsOf DEF NInv, Stages
<1>2. Turned(p) /\ run'[p].stage = "decide" /\ run'[p].holds = run[p].holds
  BY <1>1, Going DEF Plan
<1>3. Puts(p, FreshRecord) /\ UNCHANGED <<grants, claim, world, applies, may>>
  BY DEF Plan, Records
<1>4. row = Nothing
  BY <1>3 DEF Plan, Stands, Puts, CanPut
<1>5. Fit(FreshRecord, run'[p])
  BY <1>1, <1>2 DEF Fit, Before, Within, Pre, Early
<1>6. QED
  BY <1>1, <1>2, <1>3, <1>4, <1>5, WritingStep, Quiet

(* A record that was never applied may become anything. *)
LEMMA Beginning ==
    ASSUME NInv, NEW p \in Lifecycles, run[p].stage \in Before, NEW s
    PROVE  Follows(mem[p].phase, s)
BY PhasesAre DEF NInv, Fitting, Fit, Follows

LEMMA WaitsIs ==
    ASSUME NInv, NEW p \in Lifecycles, run[p].stage \in Before, Waits(p)
    PROVE  Effect(p)
<1> DEFINE r == [mem[p] EXCEPT !.phase = "awaiting_authorization", !.auth = Nothing]
<1>1. NetworkTypeOK /\ mem[p] \in GovernanceRecord /\ "awaiting_authorization" \in Phases
  BY Working DEF NInv, Phases
<1>2. r \in GovernanceRecord /\ r.phase = "awaiting_authorization"
  BY <1>1 DEF GovernanceRecord
<1>3. Turned(p) /\ run'[p].stage = "ack" /\ run'[p].goal = "awaiting_authorization"
      /\ run'[p].holds = run[p].holds
  BY <1>1, Delivering DEF Waits
<1>4. Records(p, r)
  BY DEF Waits
<1> HIDE DEF r
<1>5. Fit(r, run'[p])
  BY <1>2, <1>3, FieldsOf DEF Fit, Before, Within
<1>6. QED
  BY <1>2, <1>3, <1>4, <1>5, Beginning, Journalling

LEMMA DecideIs ==
    ASSUME NInv, NEW p \in Lifecycles, Decide(p)
    PROVE  Effect(p)
<1>1. run[p].stage \in Before
  BY DEF Decide, Stands, Before
<1>2. CASE Waits(p)
  BY <1>1, <1>2, WaitsIs
<1>3. ASSUME NEW g \in Match, Goes(p, "recheck"),
             Records(p, [mem[p] EXCEPT !.phase = "authorized", !.auth = g, !.acked = FALSE])
      PROVE  Effect(p)
  <2> DEFINE r == [mem[p] EXCEPT !.phase = "authorized", !.auth = g, !.acked = FALSE]
  <2>1. NetworkTypeOK /\ mem[p] \in GovernanceRecord /\ "authorized" \in Phases
        /\ g \in Grants \cup {Nothing} /\ "recheck" \in Stages
    BY <1>1, Working DEF NInv, Phases, Recoverable, Early, Stages, Match
  <2>2. r \in GovernanceRecord /\ r.phase = "authorized"
    BY <2>1 DEF GovernanceRecord
  <2>3. Turned(p) /\ run'[p].stage = "recheck" /\ run'[p].holds = run[p].holds
    BY <1>3, <2>1, Going
  <2>4. Records(p, r)
    BY <1>3
  <2> HIDE DEF r
  <2>5. Fit(r, run'[p])
    BY <2>2, <2>3, FieldsOf DEF Fit, Before, Within, Pre, Early
  <2>6. QED
    BY <1>1, <2>2, <2>3, <2>4, <2>5, Beginning, Journalling
<1>4. QED
  BY <1>2, <1>3 DEF Decide

LEMMA RecheckIs ==
    ASSUME NInv, NEW p \in Lifecycles, Recheck(p)
    PROVE  Effect(p)
<1>1. run[p].stage \in Before /\ NetworkTypeOK
  BY DEF Recheck, Stands, Before, NInv
<1>2. mem[p] \in GovernanceRecord
  BY <1>1, Working
<1>3. CASE Enters(p, "rechecking") /\ Goes(p, IF mem[p].auth \in Match THEN "apply" ELSE "wait")
  <2> DEFINE r == [mem[p] EXCEPT !.phase = "rechecking"]
  <2>1. PICK t \in {"apply", "wait"} : Goes(p, t)
    BY <1>3
  <2>2. t \in Stages /\ "rechecking" \in Phases
    BY DEF Stages, Phases, Recoverable, Early
  <2>3. Turned(p) /\ run'[p].stage = t /\ run'[p].holds = run[p].holds
    BY <1>1, <2>1, <2>2, Going
  <2>4. r \in GovernanceRecord /\ r.phase = "rechecking" /\ r # Nothing
    BY <1>2, <2>2, Entering, FieldsOf
  <2>5. Records(p, r)
    BY <1>3 DEF Enters
  <2> HIDE DEF r
  <2>6. Fit(r, run'[p])
    BY <2>3, <2>4 DEF Fit, Before, Within, Pre, Early
  <2>7. QED
    BY <1>1, <2>3, <2>4, <2>5, <2>6, Beginning, Journalling
<1>4. CASE Enters(p, "cancelled") /\ Ends(p)
  <2> DEFINE r == [mem[p] EXCEPT !.phase = "cancelled"]
  <2>1. Turned(p) /\ run'[p].stage \in {"idle", "finally"} /\ run'[p].holds = run[p].holds
    BY <1>1, <1>4, Ending
  <2>2. "cancelled" \in Phases
    BY DEF Phases, Terminal
  <2>3. r \in GovernanceRecord
    BY <1>2, <2>2, Entering
  <2>4. Records(p, r) /\ Fit(r, run'[p])
    BY <1>4, <2>1, Stops_Fit DEF Enters
  <2> HIDE DEF r
  <2>5. QED
    BY <1>1, <2>1, <2>3, <2>4, Beginning, Journalling
<1>5. QED
  BY <1>3, <1>4 DEF Recheck

LEMMA WaitIs ==
    ASSUME NInv, NEW p \in Lifecycles, Wait(p)
    PROVE  Effect(p)
<1>1. run[p].stage \in Before
  BY DEF Wait, Stands, Before
<1>2. QED
  BY <1>1, WaitsIs DEF Wait

LEMMA ApplyIs ==
    ASSUME NInv, NEW p \in Lifecycles, Apply(p)
    PROVE  Effect(p)
<1> DEFINE r == [mem[p] EXCEPT !.phase = "applying"]
<1>1. run[p].stage \in Before /\ NetworkTypeOK /\ "claim" \in Stages
  BY DEF Apply, Stands, Before, NInv, Stages
<1>2. mem[p] \in GovernanceRecord /\ mem[p].phase \in Pre
  BY <1>1, Working DEF NInv, Fitting, Fit
<1>3. "applying" \in Middle /\ "applying" \in Phases
  BY DEF Middle, Phases, Recoverable, Pre, Early, Terminal
<1>4. r \in GovernanceRecord /\ r.phase = "applying" /\ r # Nothing
  BY <1>2, <1>3, Entering, FieldsOf
<1>5. Turned(p) /\ run'[p].stage = "claim" /\ run'[p].holds = run[p].holds
  BY <1>1, Going DEF Apply, Moves
<1>6. Puts(p, r) /\ UNCHANGED <<grants, claim, world, applies, may>>
  BY DEF Apply, Moves, Enters, Records
<1> HIDE DEF r
<1>7. row # Nothing /\ row.phase = mem[p].phase
  BY <1>1, <1>6, Working DEF Puts
<1>8. Fit(r, run'[p])
  BY <1>3, <1>4, <1>5 DEF Fit, Before, Within
<1>9. Follows(row.phase, r.phase) /\ r.phase \notin Pre
  BY <1>1, <1>3, <1>4, <1>7, Beginning, PhasesAre
<1>10. QED
  BY <1>2, <1>4, <1>5, <1>6, <1>7, <1>8, <1>9, WritingStep, Quiet

(* A process at work gives up, or is over, with a record of its own. *)
LEMMA Leaving ==
    ASSUME NInv, NEW p \in Lifecycles, run[p].stage \in Within, NEW s \in Terminal,
           Enters(p, s), Ends(p)
    PROVE  Effect(p)
<1> DEFINE r == [mem[p] EXCEPT !.phase = s]
<1>1. NetworkTypeOK /\ mem[p] \in GovernanceRecord /\ s \in Phases /\ s \notin Pre
  BY Working, PhasesAre DEF NInv
<1>2. r \in GovernanceRecord /\ r.phase \notin Pre
  BY <1>1, Entering
<1>3. Turned(p) /\ run'[p].stage \in {"idle", "finally"} /\ run'[p].holds = run[p].holds
  BY <1>1, Ending
<1>4. Records(p, r) /\ Fit(r, run'[p])
  BY <1>3, Stops_Fit DEF Enters
<1> HIDE DEF r
<1>5. QED
  BY <1>2, <1>3, <1>4, Advancing

LEMMA WithdrawnIs ==
    ASSUME NInv, NEW p \in Lifecycles, Withdrawn(p)
    PROVE  Effect(p)
<1>1. run[p].stage \in Within /\ "cancelled" \in Terminal
  BY DEF Withdrawn, Stands, Within, Terminal
<1>2. QED
  BY <1>1, Leaving DEF Withdrawn

LEMMA ClaimIs ==
    ASSUME NInv, NEW p \in Lifecycles, Claim(p)
    PROVE  Effect(p)
<1>1. /\ NetworkTypeOK /\ run[p].stage = "claim" /\ run[p].stage \in Within
      /\ run[p] \in Place /\ run \in [Lifecycles -> Place] /\ claim \in Claims
  BY DEF Claim, Stands, Within, NInv, NetworkTypeOK, Claims
<1>2. Kept /\ UNCHANGED <<grants, world, applies, may>>
  BY DEF Claim, Kept
<1>3. mem[p] \in GovernanceRecord /\ mem[p].auth \in Grants \cup {Nothing} /\ mem[p] # Nothing
      /\ mem[p].phase \in Middle
  BY <1>1, Working, FieldsOf DEF NInv, Fitting, Fit
<1>4. CASE Claimable(mem[p].auth)
  <2> DEFINE c == claim.token + 1
             u == [run[p] EXCEPT !.stage = "assert"]
             v == [u EXCEPT !.holds = c]
  <2>1. claim' = [state |-> "active", token |-> c, fresh |-> TRUE, of |-> mem[p].auth]
        /\ run' = [run EXCEPT ![p].stage = "assert", ![p].holds = c]
    BY <1>4 DEF Claim
  <2>2. c \in Nat /\ "assert" \in Stages
    BY <1>1 DEF Claims, Stages
  <2>3. run' = [run EXCEPT ![p] = v]
    BY <1>1, <2>1
  <2>4. claim' \in Claims /\ claim'.state = "active" /\ claim'.token = claim.token + 1
        /\ claim'.of = mem[p].auth
    BY <1>3, <2>1, <2>2 DEF Claims
  <2> HIDE DEF c
  <2>5. u \in Place /\ u.stage = "assert"
    BY <1>1, <2>2 DEF Place
  <2> HIDE DEF u
  <2>6. v \in Place /\ v.stage = u.stage /\ v.holds = c
    BY <2>2, <2>5 DEF Place
  <2> HIDE DEF v
  <2>7. Turned(p) /\ run'[p].stage = "assert" /\ run'[p].holds = claim.token + 1
    BY <1>1, <2>3, <2>5, <2>6, Turning DEF c
  <2>8. claim.state # "active" /\ Active(mem[p].auth)
    BY <1>4 DEF Claimable
  <2>9. Active(claim'.of)
    BY <2>4, <2>8
  <2>10. NetworkTypeOK'
    BY <1>1, <1>2, <2>4, <2>7 DEF NetworkTypeOK, Claims, Turned, Kept
  <2>11. Takes(p)
    BY <1>1, <1>2, <2>4, <2>7, <2>8, <2>9 DEF Takes
  <2>12. Fit(mem'[p], run'[p])
    BY <1>2, <1>3, <2>7 DEF Kept, Fit, Before, Within
  <2>13. QED
    BY <1>2, <2>7, <2>10, <2>11, <2>12 DEF Effect
<1>5. CASE ~Claimable(mem[p].auth)
  <2>1. Goes(p, "refused") /\ claim' = claim /\ "refused" \in Stages
    BY <1>5 DEF Claim, Stages
  <2>2. Turned(p) /\ run'[p].stage = "refused" /\ run'[p].holds = run[p].holds
    BY <1>1, <2>1, Going
  <2>3. Fit(mem[p], run'[p])
    BY <1>3, <2>2 DEF Fit, Before, Within
  <2>4. QED
    BY <1>2, <2>1, <2>2, <2>3, Quiet, GoingStep
<1>6. QED
  BY <1>4, <1>5

LEMMA AssertClaimIs ==
    ASSUME NInv, NEW p \in Lifecycles, AssertClaim(p)
    PROVE  Effect(p)
<1>1. /\ NetworkTypeOK /\ run[p].stage = "assert" /\ run[p].stage \in Within
      /\ run[p] \in Place /\ run \in [Lifecycles -> Place] /\ applies \in Nat
      /\ "write" \in Stages /\ "refused" \in Stages
  BY DEF AssertClaim, Stands, Within, NInv, NetworkTypeOK, Stages
<1>2. Kept /\ UNCHANGED <<grants, claim, world, may>>
  BY DEF AssertClaim, Kept
<1>3. mem[p] # Nothing /\ mem[p].phase \in Middle
  BY <1>1 DEF NInv, Fitting, Fit
<1>4. CASE Holds(p)
  <2> DEFINE u == [run[p] EXCEPT !.stage = "write"]
             v == [u EXCEPT !.claimed = TRUE]
  <2>1. run' = [run EXCEPT ![p].stage = "write", ![p].claimed = TRUE]
        /\ applies' = applies + 1
    BY <1>4 DEF AssertClaim
  <2>2. run' = [run EXCEPT ![p] = v]
    BY <1>1, <2>1
  <2>3. u \in Place /\ u.stage = "write" /\ u.holds = run[p].holds
    BY <1>1 DEF Place
  <2> HIDE DEF u
  <2>4. v \in Place /\ v.stage = u.stage /\ v.holds = u.holds
    BY <2>3 DEF Place
  <2> HIDE DEF v
  <2>5. Turned(p) /\ run'[p].stage = "write" /\ run'[p].holds = run[p].holds
    BY <1>1, <2>2, <2>3, <2>4, Turning
  <2>6. applies' \in Nat
    BY <1>1, <2>1
  <2>7. NetworkTypeOK'
    BY <1>1, <1>2, <2>5, <2>6 DEF NetworkTypeOK, Turned, Kept
  <2>8. Yields(p)
    BY <1>1, <1>2, <2>5 DEF Yields
  <2>9. Fit(mem'[p], run'[p])
    BY <1>2, <1>3, <2>5 DEF Kept, Fit, Before, Within
  <2>10. QED
    BY <1>1, <1>2, <2>5, <2>7, <2>8, <2>9 DEF Effect, Gate, Kept
<1>5. CASE ~Holds(p)
  <2> DEFINE u == [run[p] EXCEPT !.stage = "refused"]
             v == [u EXCEPT !.holds = 0]
  <2>1. run' = [run EXCEPT ![p].stage = "refused", ![p].holds = 0] /\ applies' = applies
    BY <1>5 DEF AssertClaim
  <2>2. run' = [run EXCEPT ![p] = v]
    BY <1>1, <2>1
  <2>3. u \in Place /\ u.stage = "refused"
    BY <1>1 DEF Place
  <2> HIDE DEF u
  <2>4. v \in Place /\ v.stage = u.stage /\ v.holds = 0
    BY <2>3 DEF Place
  <2> HIDE DEF v
  <2>5. Turned(p) /\ run'[p].stage = "refused" /\ run'[p].holds = 0
    BY <1>1, <2>2, <2>3, <2>4, Turning
  <2>6. Fit(mem[p], run'[p])
    BY <1>3, <2>5 DEF Fit, Before, Within
  <2>7. QED
    BY <1>2, <2>1, <2>5, <2>6, Quiet, GoingStep
<1>6. QED
  BY <1>4, <1>5

LEMMA RefusedIs ==
    ASSUME NInv, NEW p \in Lifecycles, Refused(p)
    PROVE  Effect(p)
<1>1. run[p].stage \in Within
  BY DEF Refused, Stands, Within
<1>2. QED
  BY <1>1, Stopping DEF Refused

-----------------------------------------------------------------------------
(* The write, and what the provider says of it                             *)

(* Onward, where the provider has done something. *)
LEMMA Provided ==
    ASSUME NInv, NEW p \in Lifecycles, run[p].stage \in Within,
           NEW r \in GovernanceRecord, Puts(p, r), r.phase \notin Pre,
           Turned(p), run'[p].holds = run[p].holds,
           run'[p].stage \notin {"claim", "assert", "write"},
           Fit(r, run'[p]), claim' \in Later(p), UNCHANGED <<grants, applies, may>>,
           world' \in Worlds
    PROVE  Effect(p)
<1>1. mem[p].phase \in Middle /\ may \in Bounds
  BY DEF NInv, Fitting, Fit, NetworkTypeOK
<1>2. row # Nothing /\ row.phase = mem[p].phase
  BY Working DEF Puts
<1>3. Follows(row.phase, r.phase)
  BY <1>1, <1>2, PhasesAre DEF Follows
<1>4. QED
  BY <1>1, <1>3, WritingStep

LEMMA ApplyReturnsIs ==
    ASSUME NInv, NEW p \in Lifecycles, ApplyReturns(p)
    PROVE  Effect(p)
<1>1. /\ NetworkTypeOK /\ run[p].stage \in Within /\ world \in Worlds
      /\ UNCHANGED <<grants, claim, applies, may>> /\ claim' \in Later(p)
      /\ "applied" \in Stages
  BY DEF ApplyReturns, Stands, Within, NInv, NetworkTypeOK, Worlds, Later, Stages
<1>2. mem[p] \in GovernanceRecord
  BY <1>1, Working
<1>3. ASSUME NEW k \in {"applied", "failed"},
             world' \in IF k = "applied" THEN {"partly", "applied"} ELSE {world, "partly"},
             Puts(p, [mem[p] EXCEPT !.phase = "applied", !.receipt = k]), Goes(p, "applied")
      PROVE  Effect(p)
  <2> DEFINE r == [mem[p] EXCEPT !.phase = "applied", !.receipt = k]
  <2>1. "applied" \in Middle /\ "applied" \in Phases /\ k \in Receipts
    BY DEF Middle, Phases, Recoverable, Pre, Early, Terminal, Receipts
  <2>2. r \in GovernanceRecord /\ r.phase = "applied"
    BY <1>2, <2>1 DEF GovernanceRecord
  <2>3. Turned(p) /\ run'[p].stage = "applied" /\ run'[p].holds = run[p].holds
    BY <1>1, <1>3, Going
  <2>4. Puts(p, r)
    BY <1>3
  <2> HIDE DEF r
  <2>5. Fit(r, run'[p]) /\ r.phase \notin Pre
    BY <2>1, <2>2, <2>3, FieldsOf, PhasesAre DEF Fit, Before, Within
  <2>6. world' \in Worlds
    BY <1>1, <1>3 DEF Worlds
  <2>7. QED
    BY <1>1, <2>2, <2>3, <2>4, <2>5, <2>6, Provided
<1>4. CASE world' \in Touched /\ Puts(p, [mem[p] EXCEPT !.phase = "recovery_required"]) /\ Ends(p)
  <2> DEFINE r == [mem[p] EXCEPT !.phase = "recovery_required"]
  <2>1. "recovery_required" \in Terminal
    BY DEF Terminal
  <2>2. r \in GovernanceRecord /\ r.phase \notin Pre
    BY <1>2, <2>1, Entering, PhasesAre
  <2>3. Turned(p) /\ run'[p].stage \in {"idle", "finally"} /\ run'[p].holds = run[p].holds
    BY <1>1, <1>4, Ending
  <2>4. Fit(r, run'[p]) /\ Puts(p, r)
    BY <1>4, <2>3, Stops_Fit
  <2> HIDE DEF r
  <2>5. world' \in Worlds
    BY <1>1, <1>4 DEF Worlds, Touched
  <2>6. QED
    BY <1>1, <2>2, <2>3, <2>4, <2>5, Provided
<1>5. QED
  BY <1>3, <1>4 DEF ApplyReturns

LEMMA ApplyRaisesIs ==
    ASSUME NInv, NEW p \in Lifecycles, ApplyRaises(p)
    PROVE  Effect(p)
<1> DEFINE r == [mem[p] EXCEPT !.phase = "applying"]
<1>1. /\ NetworkTypeOK /\ run[p].stage \in Within /\ run[p].holds \in Nat
      /\ UNCHANGED <<grants, applies, may>> /\ claim' \in Later(p)
  BY PlaceOf DEF ApplyRaises, Stands, Within, NInv, NetworkTypeOK, Later
<1>2. mem[p] \in GovernanceRecord
  BY <1>1, Working
<1>3. "applying" \in Phases /\ "applying" \notin Pre
  BY DEF Phases, Recoverable, Pre, Early
<1>4. r \in GovernanceRecord /\ r.phase \notin Pre
  BY <1>2, <1>3, Entering
<1>5. run' = [run EXCEPT ![p] = Resting(run[p].holds)]
  BY <1>1 DEF ApplyRaises, NetworkTypeOK
<1>6. Turned(p) /\ run'[p].stage = "idle" /\ run'[p].holds = run[p].holds
  BY <1>1, <1>5, RestingIs, Turning
<1>7. Fit(r, run'[p]) /\ Puts(p, r)
  BY <1>6, Stops_Fit DEF ApplyRaises
<1> HIDE DEF r
<1>8. world' \in Worlds
  BY <1>1 DEF Worlds, Touched, ApplyRaises, NetworkTypeOK
<1>9. QED
  BY <1>1, <1>4, <1>6, <1>7, <1>8, Provided

LEMMA AppliedIs ==
    ASSUME NInv, NEW p \in Lifecycles, Applied(p)
    PROVE  Effect(p)
<1>1. /\ run[p].stage \in Within
      /\ "undo" \in Within \ {"claim", "assert", "write"}
      /\ "verify" \in Within \ {"claim", "assert", "write"}
      /\ "rolling_back" \in Middle /\ "verifying" \in Middle
  BY DEF Applied, Stands, Within, Middle, Phases, Recoverable, Pre, Early, Terminal
<1>2. QED
  BY <1>1, Stopping, Moving DEF Applied

LEMMA VerifyIs ==
    ASSUME NInv, NEW p \in Lifecycles, Verify(p)
    PROVE  Effect(p)
<1>1. NetworkTypeOK /\ run[p].stage \in Within /\ "proved" \in Stages
  BY DEF Verify, Stands, Within, NInv, Stages
<1>2. mem[p] \in GovernanceRecord
  BY <1>1, Working
<1>3. CASE Stops(p)
  BY <1>1, <1>3, Stopping
<1>4. ASSUME NEW k \in {"yes", "no"}, Goes(p, "proved"),
             Records(p, [mem[p] EXCEPT !.phase = "provider_verified", !.verified = k])
      PROVE  Effect(p)
  <2> DEFINE r == [mem[p] EXCEPT !.phase = "provider_verified", !.verified = k]
  <2>1. "provider_verified" \in Middle /\ "provider_verified" \in Phases
    BY DEF Middle, Phases, Recoverable, Pre, Early, Terminal
  <2>2. r \in GovernanceRecord /\ r.phase = "provider_verified"
    BY <1>2, <2>1 DEF GovernanceRecord
  <2>3. Turned(p) /\ run'[p].stage = "proved" /\ run'[p].holds = run[p].holds
    BY <1>1, <1>4, Going
  <2>4. Records(p, r)
    BY <1>4
  <2> HIDE DEF r
  <2>5. Fit(r, run'[p]) /\ r.phase \notin Pre
    BY <2>1, <2>2, <2>3, FieldsOf, PhasesAre DEF Fit, Before, Within
  <2>6. QED
    BY <1>1, <2>2, <2>3, <2>4, <2>5, Advancing
<1>5. QED
  BY <1>3, <1>4 DEF Verify

LEMMA ProvedIs ==
    ASSUME NInv, NEW p \in Lifecycles, Proved(p)
    PROVE  Effect(p)
<1>1. /\ run[p].stage \in Within
      /\ "undo" \in Within \ {"claim", "assert", "write"}
      /\ "path" \in Within \ {"claim", "assert", "write"}
      /\ "rolling_back" \in Middle /\ "path_verifying" \in Middle
  BY DEF Proved, Stands, Within, Middle, Phases, Recoverable, Pre, Early, Terminal
<1>2. QED
  BY <1>1, Stopping, Moving DEF Proved

LEMMA UndoIs ==
    ASSUME NInv, NEW p \in Lifecycles, Undo(p)
    PROVE  Effect(p)
<1>1. /\ NetworkTypeOK /\ run[p].stage \in Within /\ world' \in Worlds
      /\ UNCHANGED <<grants, claim, applies, may>> /\ claim' \in Later(p)
  BY DEF Undo, Stands, Within, NInv, NetworkTypeOK, Worlds, Later
<1>2. mem[p] \in GovernanceRecord
  BY <1>1, Working
<1>3. ASSUME NEW s \in Terminal, NEW r \in GovernanceRecord, r.phase = s, Puts(p, r),
             Delivers(p, s)
      PROVE  Effect(p)
  <2>1. s \in Phases /\ s \notin Pre /\ r # Nothing
    BY PhasesAre, FieldsOf
  <2>2. Turned(p) /\ run'[p].stage = "ack" /\ run'[p].goal = s /\ run'[p].holds = run[p].holds
    BY <1>1, <1>3, <2>1, Delivering
  <2>3. Fit(r, run'[p])
    BY <1>3, <2>1, <2>2 DEF Fit, Before, Within
  <2>4. QED
    BY <1>1, <1>3, <2>1, <2>2, <2>3, Provided
<1>4. CASE Puts(p, [mem[p] EXCEPT !.phase = "rolled_back", !.receipt = "rolled_back"])
           /\ Delivers(p, "rolled_back")
  <2> DEFINE r == [mem[p] EXCEPT !.phase = "rolled_back", !.receipt = "rolled_back"]
  <2>1. "rolled_back" \in Phases /\ "rolled_back" \in Terminal /\ "rolled_back" \in Receipts
    BY DEF Phases, Terminal, Receipts
  <2>2. r \in GovernanceRecord /\ r.phase = "rolled_back"
    BY <1>2, <2>1 DEF GovernanceRecord
  <2>3. Puts(p, r) /\ Delivers(p, "rolled_back")
    BY <1>4
  <2> HIDE DEF r
  <2>4. QED
    BY <1>3, <2>1, <2>2, <2>3
<1>5. ASSUME NEW s \in {"manual_intervention", "ownership_conflict"},
             Puts(p, [mem[p] EXCEPT !.phase = s]), Delivers(p, s)
      PROVE  Effect(p)
  <2>1. s \in Terminal /\ s \in Phases
    BY DEF Terminal, Phases
  <2>2. [mem[p] EXCEPT !.phase = s] \in GovernanceRecord /\ [mem[p] EXCEPT !.phase = s].phase = s
    BY <1>2, <2>1, Entering
  <2>3. QED
    BY <1>3, <1>5, <2>1, <2>2
<1>6. CASE Puts(p, [mem[p] EXCEPT !.phase = "recovery_required"]) /\ Ends(p)
  <2> DEFINE r == [mem[p] EXCEPT !.phase = "recovery_required"]
  <2>1. "recovery_required" \in Terminal
    BY DEF Terminal
  <2>2. r \in GovernanceRecord /\ r.phase \notin Pre
    BY <1>2, <2>1, Entering, PhasesAre
  <2>3. Turned(p) /\ run'[p].stage \in {"idle", "finally"} /\ run'[p].holds = run[p].holds
    BY <1>1, <1>6, Ending
  <2>4. Fit(r, run'[p]) /\ Puts(p, r)
    BY <1>6, <2>3, Stops_Fit
  <2> HIDE DEF r
  <2>5. QED
    BY <1>1, <2>2, <2>3, <2>4, Provided
<1>7. QED
  BY <1>4, <1>5, <1>6 DEF Undo

-----------------------------------------------------------------------------
(* The path, who is told, and recovery                                     *)

LEMMA PathIs ==
    ASSUME NInv, NEW p \in Lifecycles, Path(p)
    PROVE  Effect(p)
<1>1. NetworkTypeOK /\ run[p].stage \in Within /\ "steer" \in Stages
  BY DEF Path, Stands, Within, NInv, Stages
<1>2. mem[p] \in GovernanceRecord
  BY <1>1, Working
<1>3. CASE Degrades(p)
  BY <1>1, <1>3, Settling DEF Degrades
<1>4. ASSUME NEW e \in {"bad", "good"}, Goes(p, "steer"),
             Records(p, [mem[p] EXCEPT !.phase = "path_reconciling", !.evidence = e])
      PROVE  Effect(p)
  <2> DEFINE r == [mem[p] EXCEPT !.phase = "path_reconciling", !.evidence = e]
  <2>1. "path_reconciling" \in Middle /\ "path_reconciling" \in Phases
    BY DEF Middle, Phases, Recoverable, Pre, Early, Terminal
  <2>2. r \in GovernanceRecord /\ r.phase = "path_reconciling"
    BY <1>2, <2>1 DEF GovernanceRecord
  <2>3. Turned(p) /\ run'[p].stage = "steer" /\ run'[p].holds = run[p].holds
    BY <1>1, <1>4, Going
  <2>4. Records(p, r)
    BY <1>4
  <2> HIDE DEF r
  <2>5. Fit(r, run'[p]) /\ r.phase \notin Pre
    BY <2>1, <2>2, <2>3, FieldsOf, PhasesAre DEF Fit, Before, Within
  <2>6. QED
    BY <1>1, <2>2, <2>3, <2>4, <2>5, Advancing
<1>5. QED
  BY <1>3, <1>4 DEF Path

LEMMA SteerIs ==
    ASSUME NInv, NEW p \in Lifecycles, Steer(p)
    PROVE  Effect(p)
<1>1. NetworkTypeOK /\ run[p].stage \in Within
  BY DEF Steer, Stands, Within, NInv
<1>2. mem[p] \in GovernanceRecord
  BY <1>1, Working
<1>3. CASE Degrades(p)
  BY <1>1, <1>3, Settling DEF Degrades
<1>4. CASE Stops(p)
  BY <1>1, <1>4, Stopping
<1>5. CASE Enters(p, "acknowledging") /\ Delivers(p, "verified")
  <2> DEFINE r == [mem[p] EXCEPT !.phase = "acknowledging"]
  <2>1. "acknowledging" \in Middle /\ "acknowledging" \in Phases /\ "verified" \in Phases
        /\ "verified" \in Good
    BY DEF Middle, Phases, Recoverable, Pre, Early, Terminal, Good
  <2>2. r \in GovernanceRecord /\ r.phase = "acknowledging"
    BY <1>2, <2>1, Entering
  <2>3. Turned(p) /\ run'[p].stage = "ack" /\ run'[p].goal = "verified"
        /\ run'[p].holds = run[p].holds
    BY <1>1, <1>5, <2>1, Delivering
  <2>4. Records(p, r)
    BY <1>5 DEF Enters
  <2> HIDE DEF r
  <2>5. Fit(r, run'[p]) /\ r.phase \notin Pre
    BY <2>1, <2>2, <2>3, FieldsOf, PhasesAre DEF Fit, Before, Within
  <2>6. QED
    BY <1>1, <2>2, <2>3, <2>4, <2>5, Advancing
<1>6. QED
  BY <1>3, <1>4, <1>5 DEF Steer

(* Where a delivery may end. *)
LEMMA Goal ==
    ASSUME NInv, NEW p \in Lifecycles, run[p].stage \in {"ack", "tell"}
    PROVE  /\ mem[p] # Nothing /\ run[p].goal \in Phases
           /\ run[p].goal \in Good => mem[p].phase \in Middle
           /\ run[p].stage = "tell" => run[p].goal \in Good
           /\ Follows(mem[p].phase, run[p].goal)
<1>1. /\ mem[p] # Nothing
      /\ \/ run[p].goal \in Good /\ mem[p].phase \in Middle
         \/ run[p].stage = "ack" /\ run[p].goal \in Terminal \cup {"awaiting_authorization"}
            /\ mem[p].phase = run[p].goal
  BY DEF NInv, Fitting, Fit
<1>2. "awaiting_authorization" \in Pre
  BY DEF Pre
<1>3. \A s \in Terminal \cup {"awaiting_authorization"} : s \notin Good
  BY <1>2, PhasesAre
<1>4. QED
  BY <1>1, <1>2, <1>3, PhasesAre DEF Follows

LEMMA AckIs ==
    ASSUME NInv, NEW p \in Lifecycles, Ack(p)
    PROVE  Effect(p)
<1>1. NetworkTypeOK /\ run[p].stage \in Before \cup Within \cup {"ack", "tell"}
      /\ run[p].stage = "ack" /\ "tell" \in Stages
  BY DEF Ack, Stands, NInv, Stages
<1>2. mem[p] \in GovernanceRecord /\ mem[p] # Nothing
  BY <1>1, Working
<1>3. CASE ~mem[p].acked /\ Enters(p, run[p].goal) /\ Ends(p)
  <2> DEFINE r == [mem[p] EXCEPT !.phase = run[p].goal]
  <2>1. r \in GovernanceRecord /\ r.phase = run[p].goal
    BY <1>1, <1>2, Entering, Goal
  <2>2. Turned(p) /\ run'[p].stage \in {"idle", "finally"} /\ run'[p].holds = run[p].holds
    BY <1>1, <1>3, Ending
  <2>3. Records(p, r) /\ Fit(r, run'[p])
    BY <1>3, <2>2, Stops_Fit DEF Enters
  <2> HIDE DEF r
  <2>4. QED
    BY <1>1, <2>1, <2>2, <2>3, Goal, Journalling
<1>4. CASE /\ IF mem[p].acked THEN Silent ELSE Records(p, [mem[p] EXCEPT !.acked = TRUE])
           /\ IF run[p].goal \in Good THEN Goes(p, "tell") ELSE Ends(p)
  <2> DEFINE r == [mem[p] EXCEPT !.acked = TRUE]
  <2>1. r \in GovernanceRecord /\ r.phase = mem[p].phase
    BY <1>2 DEF GovernanceRecord
  <2>2. /\ Turned(p) /\ run'[p].stage \in {"idle", "finally", "tell"}
        /\ run'[p].holds = run[p].holds
        /\ run'[p].stage = "tell" => run[p].goal \in Good /\ run'[p].goal = run[p].goal
    <3>1. CASE run[p].goal \in Good
      BY <1>1, <1>4, <3>1, Going
    <3>2. CASE run[p].goal \notin Good
      BY <1>1, <1>4, <3>2, Ending
    <3>3. QED
      BY <3>1, <3>2
  <2>3. Silent \/ Records(p, r)
    BY <1>4
  <2> HIDE DEF r
  <2>4. \A m \in {mem[p], r} : Fit(m, run'[p])
    <3>1. CASE run'[p].stage = "tell"
      <4>1. mem[p].phase \in Middle /\ r # Nothing /\ run'[p].goal \in Good
        BY <1>1, <2>1, <2>2, <3>1, Goal, FieldsOf
      <4>2. QED
        BY <1>2, <2>1, <3>1, <4>1 DEF Fit, Before, Within
    <3>2. CASE run'[p].stage \in {"idle", "finally"}
      BY <3>2, Stops_Fit
    <3>3. QED
      BY <2>2, <3>1, <3>2
  <2>5. Follows(mem[p].phase, mem[p].phase)
    BY DEF Follows
  <2>6. CASE Records(p, r)
    BY <1>1, <2>1, <2>2, <2>4, <2>5, <2>6, Journalling
  <2>7. CASE Silent
    <3>1. Kept /\ UNCHANGED <<grants, claim, world, applies, may>>
      BY <2>7 DEF Silent, Kept
    <3>2. QED
      BY <2>2, <2>4, <3>1, Quiet, GoingStep
  <2>8. QED
    BY <2>3, <2>6, <2>7
<1>5. QED
  BY <1>3, <1>4 DEF Ack

LEMMA PublishPathIs ==
    ASSUME NInv, NEW p \in Lifecycles, PublishPath(p)
    PROVE  Effect(p)
<1> DEFINE r == [mem[p] EXCEPT !.phase = run[p].goal]
<1>1. NetworkTypeOK /\ run[p].stage \in Before \cup Within \cup {"ack", "tell"}
      /\ run[p].stage = "tell"
  BY DEF PublishPath, Stands, NInv
<1>2. mem[p] \in GovernanceRecord
  BY <1>1, Working
<1>3. r \in GovernanceRecord /\ r.phase = run[p].goal
  BY <1>1, <1>2, Entering, Goal
<1>4. Turned(p) /\ run'[p].stage \in {"idle", "finally"} /\ run'[p].holds = run[p].holds
  BY <1>1, Ending DEF PublishPath
<1>5. Silent \/ Records(p, r)
  BY DEF PublishPath, Enters
<1> HIDE DEF r
<1>6. CASE Records(p, r)
  BY <1>1, <1>3, <1>4, <1>6, Goal, Journalling, Stops_Fit
<1>7. CASE Silent
  <2>1. Kept /\ UNCHANGED <<grants, claim, world, applies, may>>
    BY <1>7 DEF Silent, Kept
  <2>2. QED
    BY <1>4, <2>1, Quiet, GoingStep, Stops_Fit
<1>8. QED
  BY <1>5, <1>6, <1>7

LEMMA FinallyIs ==
    ASSUME NInv, NEW p \in Lifecycles, Finally(p)
    PROVE  Effect(p)
<1>1. NetworkTypeOK /\ run \in [Lifecycles -> Place] /\ run[p].holds \in Nat /\ 0 \in Nat
  BY PlaceOf DEF NInv, NetworkTypeOK
<1>2. Kept /\ UNCHANGED <<grants, world, applies, may>> /\ claim' \in Later(p)
  BY DEF Finally, Kept, Later
<1>3. PICK t \in {0, run[p].holds} : run' = [run EXCEPT ![p] = Resting(t)]
  <2>1. CASE mem[p].phase \in Good \cup {"rolled_back"}
    BY <2>1 DEF Finally
  <2>2. CASE mem[p].phase \notin Good \cup {"rolled_back"}
    <3>1. run' = [run EXCEPT ![p] = Resting(@.holds)]
      BY <2>2 DEF Finally
    <3>2. run' = [run EXCEPT ![p] = Resting(run[p].holds)]
      BY <1>1, <3>1
    <3>3. QED
      BY <3>2
  <2>3. QED
    BY <2>1, <2>2
<1>4. Turned(p) /\ run'[p].stage = "idle" /\ run'[p].holds = t
  BY <1>1, <1>3, RestingIs, Turning
<1>5. world' \in Worlds /\ may' \in Bounds
  BY <1>1, <1>2 DEF NetworkTypeOK, Worlds
<1>6. QED
  BY <1>2, <1>4, <1>5, GoingStep, Stops_Fit

LEMMA JudgeIs ==
    ASSUME NInv, NEW p \in Lifecycles, Judge(p)
    PROVE  Effect(p)
<1>1. /\ NetworkTypeOK /\ run[p].stage \in Within /\ "resume" \in Stages
      /\ {"verified", "path_degraded"} \subseteq Good
      /\ {"manual_intervention", "ownership_conflict"} \subseteq Terminal
  BY DEF Judge, Stands, Within, NInv, Stages, Good, Terminal
<1>2. mem[p] # Nothing /\ mem[p].phase \in Middle
  BY <1>1 DEF NInv, Fitting, Fit
<1>3. CASE Stops(p)
  BY <1>1, <1>3, Stopping
<1>4. ASSUME NEW s \in {"manual_intervention", "ownership_conflict"}, Settles(p, s)
      PROVE  Effect(p)
  BY <1>1, <1>4, Settling
<1>5. CASE Silent /\ (Goes(p, "resume") \/ \E s \in {"verified", "path_degraded"} : Delivers(p, s))
  <2>1. Kept /\ UNCHANGED <<grants, claim, world, applies, may>>
    BY <1>5 DEF Silent, Kept
  <2>2. CASE Goes(p, "resume")
    <3>1. Turned(p) /\ run'[p].stage = "resume" /\ run'[p].holds = run[p].holds
      BY <1>1, <2>2, Going
    <3>2. Fit(mem[p], run'[p])
      BY <1>2, <3>1 DEF Fit, Before, Within
    <3>3. QED
      BY <2>1, <3>1, <3>2, Quiet, GoingStep
  <2>3. ASSUME NEW s \in {"verified", "path_degraded"}, Delivers(p, s)
        PROVE  Effect(p)
    <3>1. s \in Good /\ s \in Phases
      BY <1>1, PhasesAre
    <3>2. Turned(p) /\ run'[p].stage = "ack" /\ run'[p].goal = s
          /\ run'[p].holds = run[p].holds
      BY <1>1, <2>3, <3>1, Delivering
    <3>3. Fit(mem[p], run'[p])
      BY <1>2, <3>1, <3>2 DEF Fit, Before, Within
    <3>4. QED
      BY <2>1, <3>2, <3>3, Quiet, GoingStep
  <2>4. QED
    BY <1>5, <2>2, <2>3
<1>6. QED
  BY <1>3, <1>4, <1>5 DEF Judge

LEMMA ResumeIs ==
    ASSUME NInv, NEW p \in Lifecycles, Resume(p)
    PROVE  Effect(p)
<1>1. /\ NetworkTypeOK /\ run[p].stage \in Within /\ "resume" \in Stages /\ "proved" \in Stages
  BY DEF Resume, Stands, Within, NInv, Stages
<1>2. mem[p] \in GovernanceRecord
  BY <1>1, Working
<1>3. CASE Stops(p)
  BY <1>1, <1>3, Stopping
<1>4. ASSUME NEW r \in GovernanceRecord, NEW t \in {"proved", "resume"},
             r.phase \in Middle, Records(p, r), Goes(p, t)
      PROVE  Effect(p)
  <2>1. Turned(p) /\ run'[p].stage = t /\ run'[p].holds = run[p].holds
    BY <1>1, <1>4, Going
  <2>2. Fit(r, run'[p]) /\ r.phase \notin Pre
    BY <1>4, <2>1, FieldsOf, PhasesAre DEF Fit, Before, Within
  <2>3. QED
    BY <1>1, <1>4, <2>1, <2>2, Advancing
<1>5. CASE Records(p, [mem[p] EXCEPT !.phase = "provider_verified", !.verified = "yes"])
           /\ Goes(p, "proved")
  <2> DEFINE r == [mem[p] EXCEPT !.phase = "provider_verified", !.verified = "yes"]
  <2>1. "provider_verified" \in Middle /\ "provider_verified" \in Phases
    BY DEF Middle, Phases, Recoverable, Pre, Early, Terminal
  <2>2. r \in GovernanceRecord /\ r.phase = "provider_verified"
    BY <1>2, <2>1 DEF GovernanceRecord
  <2>3. Records(p, r) /\ Goes(p, "proved")
    BY <1>5
  <2> HIDE DEF r
  <2>4. QED
    BY <1>4, <2>1, <2>2, <2>3
<1>6. ASSUME NEW k \in Remembered, Goes(p, "resume"),
             Records(p, [mem[p] EXCEPT !.phase = "applied", !.receipt = k])
      PROVE  Effect(p)
  <2> DEFINE r == [mem[p] EXCEPT !.phase = "applied", !.receipt = k]
  <2>1. "applied" \in Middle /\ "applied" \in Phases
    BY DEF Middle, Phases, Recoverable, Pre, Early, Terminal
  <2>2. k \in Receipts
    BY DEF Remembered, Receipts
  <2>3. r \in GovernanceRecord /\ r.phase = "applied"
    BY <1>2, <2>1, <2>2 DEF GovernanceRecord
  <2>4. Records(p, r)
    BY <1>6
  <2> HIDE DEF r
  <2>5. QED
    BY <1>4, <1>6, <2>1, <2>3, <2>4
<1>7. QED
  BY <1>3, <1>5, <1>6 DEF Resume

LEMMA ConcludedIs ==
    ASSUME NInv, NEW p \in Lifecycles, Concluded(p)
    PROVE  Effect(p)
<1>1. run[p].stage \in Within
      /\ {"rolled_back", "manual_intervention", "cancelled"} \subseteq Terminal
  BY DEF Concluded, Stands, Within, Terminal
<1>2. PICK s \in {"rolled_back", "manual_intervention", "cancelled"} : Settles(p, s)
  BY DEF Concluded
<1>3. QED
  BY <1>1, <1>2, Settling

-----------------------------------------------------------------------------
(* What else happens                                                       *)

LEMMA CutOffIs ==
    ASSUME NetworkTypeOK, NEW p \in Lifecycles, CutOff(p)
    PROVE  world' \in Worlds
<1>1. world \in Worlds
  BY DEF NetworkTypeOK, Worlds
<1>2. QED
  BY <1>1 DEF CutOff, Touched, Worlds

LEMMA RaisesIs ==
    ASSUME NInv, NEW p \in Lifecycles, Raises(p)
    PROVE  Effect(p)
<1>1. NetworkTypeOK /\ run \in [Lifecycles -> Place] /\ run[p].holds \in Nat
  BY PlaceOf DEF NInv, NetworkTypeOK
<1>2. run' = [run EXCEPT ![p] = Resting(run[p].holds)]
  BY <1>1 DEF Raises
<1>3. Turned(p) /\ run'[p].stage = "idle" /\ run'[p].holds = run[p].holds
  BY <1>1, <1>2, RestingIs, Turning
<1>4. Kept /\ UNCHANGED <<grants, claim, applies>> /\ claim' \in Later(p)
  BY DEF Raises, Kept, Later
<1>5. world' \in Worlds /\ may' \in Bounds
  BY <1>1, CutOffIs, UnwrittenIs DEF Raises
<1>6. QED
  BY <1>3, <1>4, <1>5, GoingStep, Stops_Fit

LEMMA DiesIs ==
    ASSUME NInv, NEW p \in Lifecycles, Dies(p)
    PROVE  Effect(p)
<1>1. /\ NetworkTypeOK /\ 0 \in Nat /\ may \in Bounds /\ behind \subseteq Lifecycles
      /\ mem \in [Lifecycles -> GovernanceRecord \cup {Nothing}]
  BY DEF NInv, NetworkTypeOK
<1>2. Turned(p) /\ run'[p].stage = "idle" /\ run'[p].holds = 0
  BY <1>1, RestingIs, Turning DEF Dies
<1>3. /\ mem' \in [Lifecycles -> GovernanceRecord \cup {Nothing}] /\ mem'[p] = Nothing
      /\ \A q \in Lifecycles \ {p} : mem'[q] = mem[q]
  BY <1>1 DEF Dies
<1>4. behind' = behind \ {p} /\ UNCHANGED <<grants, claim, row, applies>>
  BY DEF Dies
<1>5. world' \in Worlds
  BY <1>1, CutOffIs DEF Dies
<1>6. may' \in Bounds
  <2>1. may.deaths > 0 /\ may' = [may EXCEPT !.deaths = @ - 1]
    BY DEF Dies
  <2>2. may.deaths \in Nat /\ may.deaths - 1 \in Nat
    BY <1>1, <2>1 DEF Bounds
  <2>3. QED
    BY <1>1, <2>1, <2>2 DEF Bounds
<1>7. NetworkTypeOK'
  BY <1>1, <1>2, <1>3, <1>4, <1>5, <1>6 DEF NetworkTypeOK, Turned, Worlds
<1>8. Yields(p)
  BY <1>2, <1>4 DEF Yields
<1>9. Forgot(p)
  BY <1>3, <1>4 DEF Forgot
<1>10. QED
  BY <1>2, <1>4, <1>7, <1>8, <1>9, Stops_Fit DEF Effect

(* What the failure of a renewal marks does not matter to where it is. *)
LEMMA RenewalFailsKeeps ==
    ASSUME NInv, NEW p \in Lifecycles, RenewalFails(p)
    PROVE  /\ NetworkTypeOK' /\ Silent
           /\ run'[p].stage = run[p].stage /\ run'[p].holds = run[p].holds
           /\ run'[p].goal = run[p].goal /\ run'[p].was = run[p].was
           /\ \A q \in Lifecycles \ {p} : run'[q] = run[q]
<1>1. NetworkTypeOK /\ run \in [Lifecycles -> Place] /\ run[p] \in Place
  BY DEF NInv, NetworkTypeOK
<1> DEFINE v == [run[p] EXCEPT !.invalid = TRUE]
<1>2. /\ v \in Place /\ v.stage = run[p].stage /\ v.holds = run[p].holds
      /\ v.goal = run[p].goal /\ v.was = run[p].was
  BY <1>1 DEF Place
<1>3. run' = [run EXCEPT ![p] = v] /\ Silent
  BY <1>1 DEF RenewalFails
<1> HIDE DEF v
<1>4. Turned(p) /\ run'[p] = v
  BY <1>1, <1>2, <1>3, Turning
<1>5. NetworkTypeOK'
  BY <1>1, <1>3, <1>4 DEF NetworkTypeOK, Turned, Silent
<1>6. QED
  BY <1>2, <1>3, <1>4, <1>5 DEF Turned

(* A step of a process is one of these. *)
LifecycleStep(p) ==
    \/ FirstTime(p) \/ Look(p) \/ Again(p) \/ PathAgain(p) \/ RetrySinks(p)
    \/ Recover(p) \/ RecoverFails(p)
    \/ Plan(p) \/ Decide(p) \/ Recheck(p) \/ Wait(p) \/ Apply(p) \/ Withdrawn(p) \/ Claim(p)
    \/ AssertClaim(p) \/ Refused(p) \/ ApplyReturns(p) \/ ApplyRaises(p) \/ Applied(p)
    \/ Verify(p) \/ Proved(p) \/ Undo(p) \/ Path(p) \/ Steer(p) \/ Ack(p) \/ PublishPath(p)
    \/ Finally(p) \/ Judge(p) \/ Resume(p) \/ Concluded(p)
    \/ Raises(p) \/ Dies(p)

LEMMA StepIs ==
    ASSUME NInv, NEW p \in Lifecycles, LifecycleStep(p)
    PROVE  Effect(p)
<1>1. CASE \/ FirstTime(p) \/ Look(p) \/ Again(p) \/ PathAgain(p) \/ RetrySinks(p)
           \/ Recover(p) \/ RecoverFails(p) \/ Raises(p) \/ Dies(p)
  BY <1>1, FirstTimeIs, LookIs, AgainIs, PathAgainIs, RetrySinksIs, RecoverIs, RecoverFailsIs,
     RaisesIs, DiesIs
<1>2. CASE \/ Plan(p) \/ Decide(p) \/ Recheck(p) \/ Wait(p) \/ Apply(p) \/ Withdrawn(p)
           \/ Claim(p) \/ AssertClaim(p) \/ Refused(p)
  BY <1>2, PlanIs, DecideIs, RecheckIs, WaitIs, ApplyIs, WithdrawnIs, ClaimIs, AssertClaimIs,
     RefusedIs
<1>3. CASE \/ ApplyReturns(p) \/ ApplyRaises(p) \/ Applied(p) \/ Verify(p) \/ Proved(p)
           \/ Undo(p) \/ Path(p) \/ Steer(p)
  BY <1>3, ApplyReturnsIs, ApplyRaisesIs, AppliedIs, VerifyIs, ProvedIs, UndoIs, PathIs, SteerIs
<1>4. CASE \/ Ack(p) \/ PublishPath(p) \/ Finally(p) \/ Judge(p) \/ Resume(p) \/ Concluded(p)
  BY <1>4, AckIs, PublishPathIs, FinallyIs, JudgeIs, ResumeIs, ConcludedIs
<1>5. QED
  BY <1>1, <1>2, <1>3, <1>4 DEF LifecycleStep

(* A step of the owner, or of time. *)
FromOutside ==
    /\ NetworkTypeOK'
    /\ UNCHANGED <<row, mem, behind, run, applies>>
    /\ claim' \in {claim, [claim EXCEPT !.fresh = FALSE]}

LEMMA LeaseEndsIs ==
    ASSUME NInv, LeaseEnds
    PROVE  FromOutside /\ grants' = grants
<1>1. NetworkTypeOK /\ may \in Bounds /\ claim \in Claims
  BY DEF NInv, NetworkTypeOK, Claims
<1>2. may' \in Bounds
  <2>1. may' = may \/ (may.pauses > 0 /\ may' = [may EXCEPT !.pauses = @ - 1])
    BY DEF LeaseEnds
  <2>2. may.pauses \in Nat
    BY <1>1 DEF Bounds
  <2>3. may.pauses > 0 => may.pauses - 1 \in Nat
    BY <2>2
  <2>4. QED
    BY <1>1, <2>1, <2>2, <2>3 DEF Bounds
<1>3. claim' = [claim EXCEPT !.fresh = FALSE] /\ claim' \in Claims
  BY <1>1 DEF LeaseEnds, Claims
<1>4. QED
  BY <1>1, <1>2, <1>3 DEF NetworkTypeOK, FromOutside, LeaseEnds, Claims

LEMMA OwnerIs ==
    ASSUME NInv, NEW g \in Grants, Approve(g) \/ GrantEnds(g) \/ Revoke(g)
    PROVE  FromOutside /\ claim' = claim
<1>1. NetworkTypeOK
  BY DEF NInv
<1>2. PICK s \in {"active", "expired", "revoked"} : grants' = [grants EXCEPT ![g] = s]
  BY DEF Approve, GrantEnds, Revoke
<1>3. grants' \in [Grants -> {"none", "active", "expired", "revoked"}]
  BY <1>1, <1>2 DEF NetworkTypeOK
<1>4. UNCHANGED <<claim, row, mem, behind, run, world, applies, may>>
  BY DEF Approve, GrantEnds, Revoke
<1>5. QED
  BY <1>1, <1>3, <1>4 DEF NetworkTypeOK, FromOutside

(* Every step of the network is one of a process or not. *)
LEMMA StepsAre ==
    ASSUME NInv, NetworkNext
    PROVE  \/ \E p \in Lifecycles : LifecycleStep(p) \/ RenewalFails(p)
           \/ LeaseEnds
           \/ \E g \in Grants : Approve(g) \/ GrantEnds(g) \/ Revoke(g)
<1>1. may.who \subseteq Lifecycles
  BY DEF NInv, NetworkTypeOK, Bounds
<1>2. QED
  BY <1>1 DEF NetworkNext, LifecycleStep

-----------------------------------------------------------------------------
(* Applied once                                                            *)

LEMMA FitRemains ==
    ASSUME NEW m, NEW n, NEW v, Remains(m, n), Fit(m, v)
    PROVE  Fit(n, v)
BY NothingIsNoRecord DEF Remains, Fit

LEMMA EffectKeeps ==
    ASSUME NInv, NEW p \in Lifecycles, Effect(p)
    PROVE  NInv'
<1>1. /\ NetworkTypeOK /\ NetworkTypeOK' /\ Turned(p)
      /\ \A q \in Lifecycles : mem[q] \in GovernanceRecord \cup {Nothing}
      /\ row \in GovernanceRecord \cup {Nothing}
  BY DEF NInv, Effect, NetworkTypeOK
<1>2. ASSUME NEW q \in Lifecycles \ {p}
      PROVE  Remains(mem[q], mem'[q]) /\ run'[q] = run[q]
  BY <1>1 DEF Effect, Wrote, Kept, Glanced, Forgot, Remains, Turned
<1>3. Fitting'
  <2>1. ASSUME NEW q \in Lifecycles
        PROVE  Fit(mem'[q], run'[q])
    <3>1. CASE q = p
      BY <3>1 DEF Effect
    <3>2. CASE q # p
      BY <1>2, <3>2, FitRemains DEF NInv, Fitting
    <3>3. QED
      BY <3>1, <3>2
  <2>2. QED
    BY <2>1 DEF Fitting
<1>4. InStep'
  <2>1. ASSUME NEW q \in Lifecycles \ behind', mem'[q] # Nothing
        PROVE  row' # Nothing /\ row'.phase = mem'[q].phase
    <3>1. CASE Wrote(p)
      <4>1. row' # Nothing
        BY <3>1, NothingIsNoRecord DEF Wrote
      <4>2. CASE q = p
        BY <3>1, <4>1, <4>2 DEF Wrote
      <4>3. CASE q # p
        <5>1. mem[q] = Nothing
          BY <2>1, <3>1, <4>3 DEF Wrote
        <5>2. QED
          BY <1>2, <2>1, <4>3, <5>1 DEF Remains
      <4>4. QED
        BY <4>2, <4>3
    <3>2. CASE Kept
      BY <2>1, <3>2 DEF Kept, NInv, InStep
    <3>3. CASE Glanced(p)
      BY <2>1, <3>3 DEF Glanced, NInv, InStep
    <3>4. CASE Forgot(p)
      BY <2>1, <3>4 DEF Forgot, NInv, InStep
    <3>5. QED
      BY <3>1, <3>2, <3>3, <3>4 DEF Effect
  <2>2. QED
    BY <2>1 DEF InStep
<1>5. row' = Nothing \/ row'.phase \in Pre => row = Nothing \/ row.phase \in Pre
  <2>1. CASE Wrote(p)
    BY <2>1, NothingIsNoRecord DEF Wrote, Follows
  <2>2. CASE UNCHANGED row
    BY <2>2
  <2>3. QED
    BY <2>1, <2>2 DEF Effect, Kept, Glanced, Forgot
<1>6. /\ run'[p].stage = "claim" => /\ row = Nothing \/ row.phase \in Pre
                                    /\ row' # Nothing /\ row'.phase \notin Pre
                                    /\ claim' = claim
      /\ run'[p].stage = "assert" => run[p].stage = "claim"
      /\ claim.state = "none" => claim' = claim \/ run[p].stage = "claim"
      /\ applies' # applies => run[p].stage = "assert" /\ run'[p].stage \notin Gate
  BY DEF Effect, Yields, Takes
<1>7. Unapplied'
  <2>1. ASSUME row' = Nothing \/ row'.phase \in Pre
        PROVE  /\ claim'.state = "none" /\ applies' = 0
               /\ \A q \in Lifecycles : run'[q].stage \notin Gate
    <3>1. /\ claim.state = "none" /\ applies = 0
          /\ \A q \in Lifecycles : run[q].stage \notin Gate
      BY <1>5, <2>1 DEF NInv, Unapplied
    <3>2. run[p].stage \notin {"claim", "assert"}
      BY <3>1 DEF Gate
    <3>3. claim'.state = "none" /\ applies' = 0
      BY <1>6, <3>1, <3>2
    <3>4. run'[p].stage \notin Gate
      BY <1>6, <2>1, <3>2 DEF Gate
    <3>5. QED
      BY <1>2, <3>1, <3>3, <3>4
  <2>2. ASSUME NEW q \in Lifecycles, run'[q].stage \in Gate
        PROVE  /\ applies' = 0
               /\ run'[q].stage = "claim" => claim'.state = "none"
               /\ \A o \in Lifecycles : run'[o].stage \in Gate => o = q
    <3>1. CASE q = p
      <4>1. /\ applies = 0 /\ run[p].stage # "assert"
            /\ \A o \in Lifecycles \ {p} : run[o].stage \notin Gate
            /\ run'[p].stage = "claim" => claim'.state = "none"
        <5>1. CASE run'[p].stage = "claim"
          BY <1>6, <5>1 DEF NInv, Unapplied, Gate
        <5>2. CASE run'[p].stage = "assert"
          BY <1>6, <5>2 DEF NInv, Unapplied, Gate
        <5>3. QED
          BY <2>2, <3>1, <5>1, <5>2 DEF Gate
      <4>2. QED
        BY <1>2, <1>6, <3>1, <4>1
    <3>2. CASE q # p
      <4>1. /\ run[q].stage \in Gate /\ run'[q] = run[q] /\ run[p].stage \notin Gate
            /\ applies = 0 /\ ~(row = Nothing \/ row.phase \in Pre)
            /\ run[q].stage = "claim" => claim.state = "none"
            /\ \A o \in Lifecycles : run[o].stage \in Gate => o = q
        BY <1>2, <2>2, <3>2 DEF NInv, Unapplied
      <4>2. run'[p].stage \notin Gate
        BY <1>6, <4>1 DEF Gate
      <4>3. applies' = 0 /\ (run'[q].stage = "claim" => claim'.state = "none")
        BY <1>6, <4>1 DEF Gate
      <4>4. QED
        BY <1>2, <4>1, <4>2, <4>3
    <3>3. QED
      BY <3>1, <3>2
  <2>3. QED
    BY <2>1, <2>2 DEF Unapplied, Gate
<1>8. QED
  BY <1>1, <1>3, <1>4, <1>7 DEF NInv

LEMMA RenewalKeeps ==
    ASSUME NInv, NEW p \in Lifecycles, RenewalFails(p)
    PROVE  NInv'
<1>1. /\ NetworkTypeOK' /\ Silent
      /\ \A q \in Lifecycles : run'[q].stage = run[q].stage /\ run'[q].goal = run[q].goal
  BY RenewalFailsKeeps
<1>2. Fitting'
  BY <1>1 DEF NInv, Fitting, Fit, Silent
<1>3. InStep'
  BY <1>1 DEF NInv, InStep, Silent
<1>4. Unapplied'
  BY <1>1 DEF NInv, Unapplied, Silent
<1>5. QED
  BY <1>1, <1>2, <1>3, <1>4 DEF NInv

LEMMA OutsideKeeps ==
    ASSUME NInv, FromOutside
    PROVE  NInv'
<1>1. NetworkTypeOK' /\ UNCHANGED <<row, mem, behind, run, applies>>
  BY DEF FromOutside
<1>2. claim'.state = claim.state
  BY DEF FromOutside, NInv, NetworkTypeOK
<1>3. Fitting'
  BY <1>1 DEF NInv, Fitting, Fit
<1>4. InStep'
  BY <1>1 DEF NInv, InStep
<1>5. Unapplied'
  BY <1>1, <1>2 DEF NInv, Unapplied
<1>6. QED
  BY <1>1, <1>3, <1>4, <1>5 DEF NInv

LEMMA NInvInit == NetworkInit => NInv
<1> SUFFICES ASSUME NetworkInit PROVE NInv
  OBVIOUS
<1>1. \A p \in Lifecycles : run[p] = Resting(0) /\ mem[p] = Nothing
  BY DEF NetworkInit
<1>2. Resting(0) \in Place /\ Resting(0).stage = "idle"
  BY RestingIs
<1>3. NetworkTypeOK
  <2>1. run \in [Lifecycles -> Place]
    BY <1>2 DEF NetworkInit
  <2>2. mem \in [Lifecycles -> GovernanceRecord \cup {Nothing}]
    BY DEF NetworkInit
  <2>3. may \in Bounds
    BY NetworkAssumption DEF NetworkInit
  <2>4. grants \in [Grants -> {"none", "active", "expired", "revoked"}]
    BY DEF NetworkInit
  <2>5. claim \in [state : {"none", "active", "released", "uncertain", "resolved"},
                   token : Nat, fresh : BOOLEAN, of : Grants \cup {Nothing}]
    BY DEF NetworkInit
  <2>6. QED
    BY <2>1, <2>2, <2>3, <2>4, <2>5 DEF NetworkInit, NetworkTypeOK
<1>4. Fitting
  <2> SUFFICES ASSUME NEW p \in Lifecycles PROVE Fit(mem[p], run[p])
    BY DEF Fitting
  <2>1. run[p].stage = "idle"
    BY <1>1, <1>2
  <2>2. QED
    BY <2>1, Stops_Fit
<1>5. InStep
  BY <1>1 DEF InStep
<1>6. Unapplied
  BY <1>1, <1>2 DEF NetworkInit, Unapplied, Gate
<1>7. QED
  BY <1>3, <1>4, <1>5, <1>6 DEF NInv

LEMMA NInvStep == NInv /\ [NetworkNext]_netVars => NInv'
<1> SUFFICES ASSUME NInv, [NetworkNext]_netVars PROVE NInv'
  OBVIOUS
<1>1. CASE UNCHANGED netVars
  BY <1>1 DEF netVars, NInv, NetworkTypeOK, Fitting, InStep, Unapplied
<1>2. CASE NetworkNext
  <2>1. ASSUME NEW p \in Lifecycles, LifecycleStep(p) PROVE NInv'
    BY <2>1, StepIs, EffectKeeps
  <2>2. ASSUME NEW p \in Lifecycles, RenewalFails(p) PROVE NInv'
    BY <2>2, RenewalKeeps
  <2>3. CASE LeaseEnds
    BY <2>3, LeaseEndsIs, OutsideKeeps
  <2>4. ASSUME NEW g \in Grants, Approve(g) \/ GrantEnds(g) \/ Revoke(g) PROVE NInv'
    BY <2>4, OwnerIs, OutsideKeeps
  <2>5. QED
    BY <1>2, <2>1, <2>2, <2>3, <2>4, StepsAre
<1>3. QED
  BY <1>1, <1>2

(* The grants, the claim, the table, the copies and the places of all       *)
(* processes have their types, a copy fits where its process is, and what   *)
(* comes to the claim is the first and the only one.                       *)
THEOREM NetworkInvariant == NetworkSpec => []NInv
<1>1. QED
  BY NInvInit, NInvStep, PTL DEF NetworkSpec

(* network/governance.py asks the provider to apply a revision at most once, *)
(* for any number of processes, deaths, pauses and failed writes; and the   *)
(* journal lets no lifecycle take up a revision that has ended.             *)
THEOREM AppliedOnce == NetworkSpec => NoReplay
<1>1. ASSUME NInv, NEW p \in Lifecycles, Effect(p)
      PROVE  /\ applies' # applies => applies = 0
             /\ row # Nothing /\ row.phase \in Terminal => row'.phase = row.phase
  <2>1. applies' # applies => applies = 0
    BY <1>1 DEF Effect, NInv, Unapplied, Gate
  <2>2. row # Nothing /\ row.phase \in Terminal => row'.phase = row.phase
    BY <1>1 DEF Effect, Wrote, Kept, Glanced, Forgot, Follows
  <2>3. QED
    BY <2>1, <2>2
<1>2. ASSUME NInv, NetworkNext
      PROVE  /\ applies' # applies => applies = 0
             /\ row # Nothing /\ row.phase \in Terminal => row'.phase = row.phase
  <2>1. ASSUME NEW p \in Lifecycles, LifecycleStep(p)
        PROVE  /\ applies' # applies => applies = 0
               /\ row # Nothing /\ row.phase \in Terminal => row'.phase = row.phase
    BY <1>1, <1>2, <2>1, StepIs
  <2>2. ASSUME UNCHANGED <<row, applies>>
        PROVE  /\ applies' # applies => applies = 0
               /\ row # Nothing /\ row.phase \in Terminal => row'.phase = row.phase
    BY <2>2
  <2>3. ASSUME NEW p \in Lifecycles, RenewalFails(p)
        PROVE  UNCHANGED <<row, applies>>
    BY <2>3 DEF RenewalFails, Silent
  <2>4. LeaseEnds => UNCHANGED <<row, applies>>
    BY DEF LeaseEnds
  <2>5. ASSUME NEW g \in Grants, Approve(g) \/ GrantEnds(g) \/ Revoke(g)
        PROVE  UNCHANGED <<row, applies>>
    BY <2>5 DEF Approve, GrantEnds, Revoke
  <2>6. QED
    BY <1>2, <2>1, <2>2, <2>3, <2>4, <2>5, StepsAre
<1>3. NInv /\ [NetworkNext]_netVars =>
         [/\ applies' # applies => applies = 0
          /\ row # Nothing /\ row.phase \in Terminal => row'.phase = row.phase]_netVars
  BY <1>2
<1>4. QED
  BY <1>3, NetworkInvariant, PTL DEF NetworkSpec, NoReplay

-----------------------------------------------------------------------------
(* Written under a grant that stands                                       *)

LEMMA LeasedInit == NetworkInit => Leased
<1> SUFFICES ASSUME NetworkInit PROVE Leased
  OBVIOUS
<1>1. \A p \in Lifecycles : run[p].stage = "idle" /\ run[p].holds = 0
  BY RestingIs DEF NetworkInit
<1>2. claim.state = "none" /\ claim.token = 0
  BY DEF NetworkInit
<1>3. QED
  BY <1>1, <1>2 DEF Leased

LEMMA EffectLeases ==
    ASSUME NInv, Leased, NEW p \in Lifecycles, Effect(p)
    PROVE  Leased'
<1>1. /\ claim.token \in Nat /\ \A q \in Lifecycles : run[q].holds \in Nat
      /\ \A q \in Lifecycles \ {p} : run'[q] = run[q]
      /\ grants' = grants /\ grants \in [Grants -> {"none", "active", "expired", "revoked"}]
  BY PlaceOf DEF NInv, NetworkTypeOK, Effect, Turned
<1>2. ASSUME NEW q \in Lifecycles \ {p}, run[q].stage \in {"assert", "write"}
      PROVE  mem'[q].auth = mem[q].auth
  <2>1. mem[q] # Nothing
    BY <1>2 DEF NInv, Fitting, Fit, Within
  <2>2. QED
    BY <2>1 DEF Effect, Wrote, Kept, Glanced, Forgot, Remains
<1>3. CASE Yields(p)
  <2>1. /\ claim'.token = claim.token
        /\ claim'.state = "active" => claim' = claim
        /\ claim' # claim /\ claim.state = "active" => claim.token = run[p].holds
        /\ run'[p].holds \in {run[p].holds, 0}
        /\ run'[p].stage # "assert"
        /\ run'[p].stage = "write" =>
              run[p].stage = "assert" /\ claim' = claim /\ run'[p].holds = run[p].holds /\ Kept
    BY <1>3 DEF Yields
  <2>2. claim'.state = "active" =>
           claim'.of \in Grants /\ grants'[claim'.of] # "revoked" /\ claim'.token >= 1
    BY <1>1, <2>1 DEF Leased
  <2>3. \A q \in Lifecycles : run'[q].holds <= claim'.token
    BY <1>1, <2>1 DEF Leased
  <2>4. \A q, o \in Lifecycles : run'[q].holds = run'[o].holds /\ run'[q].holds # 0 => q = o
    BY <1>1, <2>1 DEF Leased
  <2>5. ASSUME NEW q \in Lifecycles, run'[q].stage \in {"assert", "write"}
        PROVE  claim'.state = "active" /\ claim'.token = run'[q].holds /\ claim'.of = mem'[q].auth
    <3>1. CASE q = p
      BY <2>1, <2>5, <3>1 DEF Leased, Kept
    <3>2. CASE q # p
      <4>1. /\ run'[q] = run[q] /\ claim.state = "active" /\ claim.token = run[q].holds
            /\ claim.of = mem[q].auth /\ mem'[q].auth = mem[q].auth /\ claim.token >= 1
        BY <1>1, <1>2, <2>5, <3>2 DEF Leased
      <4>2. claim' = claim
        BY <1>1, <2>1, <3>2, <4>1 DEF Leased
      <4>3. QED
        BY <4>1, <4>2
    <3>3. QED
      BY <3>1, <3>2
  <2>6. QED
    BY <2>2, <2>3, <2>4, <2>5 DEF Leased
<1>4. CASE Takes(p)
  <2>1. /\ run'[p].stage = "assert" /\ Kept /\ claim.state # "active"
        /\ claim'.token = claim.token + 1 /\ run'[p].holds = claim.token + 1
        /\ claim'.of = mem[p].auth /\ claim'.state = "active" /\ Active(claim'.of)
    BY <1>4 DEF Takes
  <2>2. claim'.of \in Grants /\ grants'[claim'.of] # "revoked" /\ claim'.token >= 1
    <3>1. claim'.of \in Grants \cup {Nothing}
      BY DEF Effect, NetworkTypeOK
    <3>2. claim'.of # Nothing /\ grants[claim'.of] = "active"
      BY <2>1 DEF Active
    <3>3. QED
      BY <1>1, <2>1, <3>1, <3>2
  <2>3. \A q \in Lifecycles : run'[q].holds <= claim'.token
    BY <1>1, <2>1 DEF Leased
  <2>4. \A q, o \in Lifecycles : run'[q].holds = run'[o].holds /\ run'[q].holds # 0 => q = o
    BY <1>1, <2>1 DEF Leased
  <2>5. \A q \in Lifecycles \ {p} : run'[q].stage \notin {"assert", "write"}
    BY <1>1, <2>1 DEF Leased
  <2>6. mem'[p].auth = mem[p].auth
    BY <2>1 DEF Kept
  <2>7. QED
    BY <2>1, <2>2, <2>3, <2>4, <2>5, <2>6 DEF Leased
<1>5. QED
  BY <1>3, <1>4 DEF Effect

LEMMA OutsideLeases ==
    ASSUME NInv, Leased, FromOutside,
           claim.state = "active" => grants'[claim.of] # "revoked"
    PROVE  Leased'
<1>1. UNCHANGED <<mem, run>> /\ claim \in Claims
  BY DEF FromOutside, NInv, NetworkTypeOK, Claims
<1>2. claim'.state = claim.state /\ claim'.token = claim.token /\ claim'.of = claim.of
  BY <1>1 DEF FromOutside, Claims
<1>3. QED
  BY <1>1, <1>2 DEF Leased

LEMMA LeasedStep == NInv /\ Leased /\ [NetworkNext]_netVars => Leased'
<1> SUFFICES ASSUME NInv, Leased, [NetworkNext]_netVars PROVE Leased'
  OBVIOUS
<1>1. CASE UNCHANGED netVars
  BY <1>1 DEF netVars, Leased
<1>2. CASE NetworkNext
  <2>1. ASSUME NEW p \in Lifecycles, LifecycleStep(p) PROVE Leased'
    BY <2>1, StepIs, EffectLeases
  <2>2. ASSUME NEW p \in Lifecycles, RenewalFails(p) PROVE Leased'
    <3>1. /\ Silent
          /\ \A q \in Lifecycles : run'[q].stage = run[q].stage /\ run'[q].holds = run[q].holds
      BY <2>2, RenewalFailsKeeps
    <3>2. QED
      BY <3>1 DEF Leased, Silent
  <2>3. CASE LeaseEnds
    BY <2>3, LeaseEndsIs, OutsideLeases DEF Leased
  <2>4. ASSUME NEW g \in Grants, Approve(g) \/ GrantEnds(g) \/ Revoke(g) PROVE Leased'
    <3>1. FromOutside /\ claim' = claim /\ grants \in [Grants -> {"none", "active", "expired", "revoked"}]
      BY <2>4, OwnerIs DEF NInv, NetworkTypeOK
    <3>2. claim.state = "active" => claim.of \in Grants /\ grants[claim.of] # "revoked"
      BY DEF Leased
    <3>3. CASE Approve(g) \/ GrantEnds(g)
      <4>1. PICK s \in {"active", "expired"} : grants' = [grants EXCEPT ![g] = s]
        BY <3>3 DEF Approve, GrantEnds
      <4>2. claim.state = "active" => grants'[claim.of] # "revoked"
        BY <3>1, <3>2, <4>1
      <4>3. QED
        BY <3>1, <4>2, OutsideLeases
    <3>4. CASE Revoke(g)
      <4>1. grants' = [grants EXCEPT ![g] = "revoked"] /\ ~(claim.state = "active" /\ claim.of = g)
        BY <3>4 DEF Revoke
      <4>2. claim.state = "active" => grants'[claim.of] # "revoked"
        BY <3>1, <3>2, <4>1
      <4>3. QED
        BY <3>1, <4>2, OutsideLeases
    <3>5. QED
      BY <2>4, <3>3, <3>4
  <2>5. QED
    BY <1>2, <2>1, <2>2, <2>3, <2>4, StepsAre
<1>3. QED
  BY <1>1, <1>2

(* network/governance.py: whoever writes to the provider does so under a    *)
(* grant that is not revoked, whichever way revoke, claim_apply, pauses and *)
(* deaths fall, since the claim stays on the row until its writer is done.  *)
THEOREM WrittenUnderAGrant == NetworkSpec => []RevokedNotWriting
<1>1. NInv /\ Leased => RevokedNotWriting
  <2> SUFFICES ASSUME NInv, Leased, NEW p \in Writing
               PROVE  grants[mem[p].auth] # "revoked"
    BY DEF RevokedNotWriting
  <2>1. p \in Lifecycles /\ run[p].stage = "write"
    BY DEF Writing
  <2>2. QED
    BY <2>1 DEF Leased
<1>2. NetworkSpec => []Leased
  BY LeasedInit, LeasedStep, NetworkInvariant, PTL DEF NetworkSpec
<1>3. QED
  BY <1>1, <1>2, NetworkInvariant, PTL

-----------------------------------------------------------------------------
(* Verified and in force                                                   *)

(* The phases after the provider has said that the plan is in force. *)
Sure == {"path_verifying", "path_reconciling", "acknowledging", "verified", "path_degraded"}

(* What the only process can rely on. *)
Trusts(p) ==
    /\ p \notin behind
    /\ row # Nothing /\ row.phase \in Sure => world = "applied"
    /\ run[p].stage \in {"path", "steer", "tell"} => world = "applied"
    /\ run[p].stage = "ack" /\ run[p].goal \in Good => world = "applied"
    /\ run[p].stage = "judge" /\ run[p].was = "acknowledging" => world = "applied"
    /\ run[p].stage = "proved" /\ mem[p].verified = "yes" => world = "applied"
    /\ run[p].stage \in {"claim", "assert", "write"} => mem[p].phase = "applying"
    /\ run[p].stage = "undo" => mem[p].phase = "rolling_back"

Lone(p) == may.who = {p}

InForce == \A p \in Lifecycles : Lone(p) => Trusts(p)

(* Where nothing need be in force. *)
Modest == {"idle", "finally", "plan", "decide", "recheck", "wait", "apply", "applied", "verify",
           "resume", "refused"}

LEMMA Assured ==
    ASSUME NEW p \in Lifecycles, p \notin behind', world' = "applied",
           run'[p].stage \notin {"claim", "assert", "write", "undo"}
    PROVE  Trusts(p)'
BY DEF Trusts

LEMMA Unsure ==
    ASSUME NEW p \in Lifecycles, p \notin behind', row' = Nothing \/ row'.phase \notin Sure,
           run'[p].stage \in Modest \/ (run'[p].stage = "ack" /\ run'[p].goal \notin Good)
    PROVE  Trusts(p)'
BY DEF Trusts, Modest

LEMMA Unmoved ==
    ASSUME NEW p \in Lifecycles, Trusts(p), p \notin behind', UNCHANGED <<row, world>>,
           run'[p].stage \in Modest
    PROVE  Trusts(p)'
BY DEF Trusts, Modest

(* The phases of what ended are not sure, nor those before the write. *)
LEMMA SureIs ==
    /\ Good \subseteq Sure /\ Sure \subseteq Phases
    /\ \A s \in Terminal \cup Pre : s \notin Sure /\ s \notin Good
    /\ \A s \in {"applying", "applied", "verifying", "provider_verified", "rolling_back",
                 "recovering"} : s \in Phases /\ s \notin Sure
BY DEF Good, Sure, Terminal, Pre, Early, Phases, Recoverable

(* What a process that keeps the tail has written. *)
LEMMA Written ==
    ASSUME NInv, NEW p \in Lifecycles, NEW r \in GovernanceRecord, Puts(p, r)
    PROVE  /\ row' # Nothing /\ row'.phase = r.phase /\ mem'[p] = r /\ p \notin behind'
<1>1. row' = Stored(r) /\ Stored(r) \in GovernanceRecord /\ Stored(r).phase = r.phase
  BY KeptOf DEF Puts
<1>2. mem'[p] = r /\ p \notin behind'
  BY DEF Puts
<1>3. QED
  BY <1>1, <1>2, FieldsOf

LEMMA EnteredIs ==
    ASSUME NInv, NEW p \in Lifecycles, run[p].stage \in Before \cup Within \cup {"ack", "tell"},
           NEW s \in Phases, Enters(p, s)
    PROVE  /\ row' # Nothing /\ row'.phase = s /\ mem'[p].phase = s /\ p \notin behind'
           /\ world' = world /\ NetworkTypeOK
<1>1. mem[p] \in GovernanceRecord /\ NetworkTypeOK
  BY Working DEF NInv
<1>2. [mem[p] EXCEPT !.phase = s] \in GovernanceRecord /\ [mem[p] EXCEPT !.phase = s].phase = s
  BY <1>1, Entering
<1>3. Puts(p, [mem[p] EXCEPT !.phase = s]) /\ world' = world
  BY DEF Enters, Records
<1>4. QED
  BY <1>1, <1>2, <1>3, Written

LEMMA StoppedIs ==
    ASSUME NInv, NEW p \in Lifecycles, run[p].stage \in Within, Stops(p)
    PROVE  Trusts(p)'
<1>1. "recovery_required" \in Terminal /\ "recovery_required" \in Phases
  BY DEF Terminal, Phases
<1>2. row'.phase \notin Sure /\ p \notin behind' /\ NetworkTypeOK
  BY <1>1, EnteredIs, SureIs DEF Stops
<1>3. run'[p].stage \in Modest
  BY <1>2, Ending DEF Stops, Modest
<1>4. QED
  BY <1>2, <1>3, Unsure

LEMMA SettledIs ==
    ASSUME NInv, NEW p \in Lifecycles, run[p].stage \in Within, NEW s \in Terminal, Settles(p, s)
    PROVE  Trusts(p)'
<1>1. s \in Phases /\ s \notin Sure /\ s \notin Good
  BY PhasesAre, SureIs
<1>2. row'.phase \notin Sure /\ p \notin behind' /\ NetworkTypeOK
  BY <1>1, EnteredIs DEF Settles
<1>3. run'[p].stage = "ack" /\ run'[p].goal = s
  BY <1>1, <1>2, Delivering DEF Settles
<1>4. QED
  BY <1>1, <1>2, <1>3, Unsure

LEMMA MovedIs ==
    ASSUME NInv, NEW p \in Lifecycles, run[p].stage \in Within,
           NEW s \in Phases, s \notin Sure, NEW t \in Modest \cap Stages, Moves(p, s, t)
    PROVE  Trusts(p)'
<1>1. row'.phase \notin Sure /\ p \notin behind' /\ NetworkTypeOK
  BY EnteredIs DEF Moves
<1>2. run'[p].stage \in Modest
  BY <1>1, Going DEF Moves
<1>3. QED
  BY <1>1, <1>2, Unsure

LEMMA UndoingIs ==
    ASSUME NInv, NEW p \in Lifecycles, run[p].stage \in Within, Moves(p, "rolling_back", "undo")
    PROVE  Trusts(p)'
<1>1. /\ row'.phase = "rolling_back" /\ mem'[p].phase = "rolling_back" /\ p \notin behind'
      /\ NetworkTypeOK /\ "rolling_back" \notin Sure
  BY EnteredIs, SureIs DEF Moves
<1>2. run'[p].stage = "undo"
  BY <1>1, Going DEF Moves, Stages
<1>3. QED
  BY <1>1, <1>2 DEF Trusts

(* Where what is in force stays so. *)
LEMMA InForceIs ==
    ASSUME NInv, NEW p \in Lifecycles, Trusts(p), Effect(p), UNCHANGED world, world = "applied",
           run'[p].stage \notin {"claim", "assert", "write", "undo"}
    PROVE  Trusts(p)'
<1>1. p \notin behind'
  BY DEF Effect, Wrote, Kept, Glanced, Forgot, Trusts
<1>2. QED
  BY <1>1, Assured

(* Calls that begin. *)
LEMMA TrustBegins ==
    ASSUME NInv, NEW p \in Lifecycles, Trusts(p),
           \/ FirstTime(p) \/ Look(p) \/ Again(p) \/ RecoverFails(p) \/ Finally(p)
    PROVE  Trusts(p)'
<1>1. UNCHANGED <<row, world, behind>> /\ p \notin behind' /\ NetworkTypeOK
  BY DEF FirstTime, Look, Again, RecoverFails, Finally, Silent, Trusts, NInv
<1>2. run'[p].stage \in Modest
  <2>1. CASE FirstTime(p)
    BY <1>1, <2>1, Going DEF FirstTime, Modest, Stages
  <2>2. CASE Look(p)
    BY <2>2 DEF Look, MayBegin, Stands, Modest
  <2>3. CASE Again(p)
    BY <1>1, <2>3, Going DEF Again, Modest, Stages
  <2>4. CASE RecoverFails(p)
    <3>1. run'[p] = Resting(0)
      BY <1>1, <2>4, RestingIs, Turning DEF RecoverFails
    <3>2. QED
      BY <3>1, RestingIs DEF Modest
  <2>5. CASE Finally(p)
    <3>1. run'[p].stage = "idle"
      <4>1. run[p].holds \in Nat /\ run \in [Lifecycles -> Place]
        BY <1>1, PlaceOf DEF NetworkTypeOK
      <4>2. run' = [run EXCEPT ![p] = Resting(0)] \/ run' = [run EXCEPT ![p] = Resting(run[p].holds)]
        BY <2>5, <4>1 DEF Finally
      <4>3. QED
        BY <1>1, <4>1, <4>2, RestingIs, Turning
    <3>2. QED
      BY <3>1 DEF Modest
  <2>6. QED
    BY <2>1, <2>2, <2>3, <2>4, <2>5
<1>3. QED
  BY <1>1, <1>2, Unmoved

(* What is good is in force, and is told or verified again. *)
LEMMA TrustRepeats ==
    ASSUME NInv, NEW p \in Lifecycles, Trusts(p), PathAgain(p) \/ RetrySinks(p)
    PROVE  Trusts(p)'
<1>1. row # Nothing /\ p \notin behind /\ world' = world /\ NetworkTypeOK
  BY DEF PathAgain, RetrySinks, MayBegin, Records, NInv
<1>2. row.phase \in Good
  BY <1>1, KnownIs DEF PathAgain, RetrySinks
<1>3. world = "applied"
  BY <1>1, <1>2, SureIs DEF Trusts
<1>4. run'[p].stage \in {"path", "ack"}
  <2>1. CASE PathAgain(p)
    BY <1>1, <2>1, Going DEF PathAgain, Stages
  <2>2. CASE RetrySinks(p)
    <3>1. Delivers(p, Restored(p).phase) /\ Restored(p).phase \in Phases
      BY <2>2, PhasesAre DEF RetrySinks
    <3>2. QED
      BY <1>1, <3>1, Delivering
  <2>3. QED
    BY <2>1, <2>2
<1>5. Effect(p)
  BY PathAgainIs, RetrySinksIs
<1>6. QED
  BY <1>1, <1>3, <1>4, <1>5, InForceIs

LEMMA TrustRecovers ==
    ASSUME NInv, NEW p \in Lifecycles, Trusts(p), Recover(p)
    PROVE  Trusts(p)'
<1>1. row # Nothing /\ p \notin behind /\ world' = world /\ NetworkTypeOK
  BY DEF Recover, MayBegin, NInv
<1>2. PICK r \in {Known(p), Restored(p)} :
         /\ Puts(p, [r EXCEPT !.phase = "recovering"])
         /\ run' = [run EXCEPT ![p] = [Resting(0) EXCEPT !.stage = "judge", !.was = Kind(r)]]
  BY DEF Recover
<1>3. r \in GovernanceRecord /\ r.phase = row.phase
  BY <1>1, <1>2, KnownIs
<1>4. "recovering" \in Phases /\ "recovering" \notin Sure
  BY SureIs
<1>5. row'.phase = "recovering" /\ p \notin behind'
  <2> DEFINE n == [r EXCEPT !.phase = "recovering"]
  <2>1. n \in GovernanceRecord /\ n.phase = "recovering" /\ Puts(p, n)
    BY <1>2, <1>3, <1>4, Entering
  <2> HIDE DEF n
  <2>2. QED
    BY <2>1, Written
<1>6. run'[p].stage = "judge" /\ run'[p].was = Kind(r)
  <2> DEFINE v == [Resting(0) EXCEPT !.stage = "judge", !.was = Kind(r)]
  <2>1. v.stage = "judge" /\ v.was = Kind(r)
    BY DEF Resting
  <2>2. run' = [run EXCEPT ![p] = v] /\ run \in [Lifecycles -> Place]
    BY <1>1, <1>2 DEF NetworkTypeOK
  <2> HIDE DEF v
  <2>3. QED
    BY <2>1, <2>2
<1>7. Kind(r) = "acknowledging" => row.phase \in Sure
  <2>1. Kind(r) = "acknowledging" => r.phase = "acknowledging"
    BY DEF Kind
  <2>2. QED
    BY <1>3, <2>1 DEF Sure
<1>8. QED
  BY <1>1, <1>4, <1>5, <1>6, <1>7 DEF Trusts

(* Up to the write. *)
LEMMA TrustPrepares ==
    ASSUME NInv, NEW p \in Lifecycles, Trusts(p),
           Plan(p) \/ Decide(p) \/ Recheck(p) \/ Wait(p) \/ Apply(p) \/ Withdrawn(p)
    PROVE  Trusts(p)'
<1>1. NetworkTypeOK /\ "awaiting_authorization" \in Pre /\ {"recheck", "apply", "wait"} \subseteq Stages
      /\ "decide" \in Stages /\ "claim" \in Stages /\ Pre \subseteq Phases
  BY PhasesAre DEF NInv, Pre, Stages
<1>2. ASSUME run[p].stage \in Before, Waits(p)
      PROVE  Trusts(p)'
  <2> DEFINE r == [mem[p] EXCEPT !.phase = "awaiting_authorization", !.auth = Nothing]
  <2>1. mem[p] \in GovernanceRecord /\ "awaiting_authorization" \in Phases
    BY <1>1, <1>2, Working
  <2>2. r \in GovernanceRecord /\ r.phase = "awaiting_authorization"
    BY <2>1 DEF GovernanceRecord
  <2>3. Puts(p, r) /\ Delivers(p, "awaiting_authorization")
    BY <1>2 DEF Waits, Records
  <2> HIDE DEF r
  <2>4. row'.phase = "awaiting_authorization" /\ p \notin behind'
    BY <2>2, <2>3, Written
  <2>5. run'[p].stage = "ack" /\ run'[p].goal = "awaiting_authorization"
    BY <1>1, <2>1, <2>3, Delivering
  <2>6. QED
    BY <1>1, <2>4, <2>5, SureIs, Unsure
<1>3. CASE Plan(p)
  <2>1. Puts(p, FreshRecord) /\ Goes(p, "decide")
    BY <1>3 DEF Plan, Records
  <2>2. FreshRecord \in GovernanceRecord /\ FreshRecord.phase = "planning" /\ "planning" \in Pre
    BY DEF FreshRecord, GovernanceRecord, Phases, Recoverable, Early, Receipts, Pre
  <2>3. row'.phase \notin Sure /\ p \notin behind'
    BY <2>1, <2>2, Written, SureIs
  <2>4. run'[p].stage \in Modest
    BY <1>1, <2>1, Going DEF Modest
  <2>5. QED
    BY <2>3, <2>4, Unsure
<1>4. CASE Decide(p)
  <2>1. run[p].stage \in Before
    BY <1>4 DEF Decide, Stands, Before
  <2>2. ASSUME NEW g \in Match, Goes(p, "recheck"),
               Records(p, [mem[p] EXCEPT !.phase = "authorized", !.auth = g, !.acked = FALSE])
        PROVE  Trusts(p)'
    <3> DEFINE r == [mem[p] EXCEPT !.phase = "authorized", !.auth = g, !.acked = FALSE]
    <3>1. mem[p] \in GovernanceRecord /\ g \in Grants \cup {Nothing} /\ "authorized" \in Pre
          /\ "authorized" \in Phases
      BY <2>1, Working, PhasesAre DEF Match, Pre, Early
    <3>2. r \in GovernanceRecord /\ r.phase = "authorized"
      BY <3>1 DEF GovernanceRecord
    <3>3. Puts(p, r)
      BY <2>2 DEF Records
    <3> HIDE DEF r
    <3>4. row'.phase \notin Sure /\ p \notin behind'
      BY <3>1, <3>2, <3>3, Written, SureIs
    <3>5. run'[p].stage \in Modest
      BY <1>1, <2>2, Going DEF Modest
    <3>6. QED
      BY <3>4, <3>5, Unsure
  <2>3. QED
    BY <1>2, <1>4, <2>1, <2>2 DEF Decide
<1>5. CASE Recheck(p)
  <2>1. run[p].stage \in Before
    BY <1>5 DEF Recheck, Stands, Before
  <2>2. PICK s \in {"rechecking", "cancelled"} :
           Enters(p, s) /\ (Ends(p) \/ \E t \in {"apply", "wait"} : Goes(p, t))
    BY <1>5 DEF Recheck
  <2>3. s \in Phases /\ s \notin Sure
    BY SureIs, PhasesAre DEF Pre, Early, Terminal
  <2>4. row'.phase \notin Sure /\ p \notin behind'
    BY <2>1, <2>2, <2>3, EnteredIs
  <2>5. run'[p].stage \in Modest
    BY <1>1, <2>2, Going, Ending DEF Modest
  <2>6. QED
    BY <2>4, <2>5, Unsure
<1>6. CASE Wait(p)
  BY <1>2, <1>6 DEF Wait, Stands, Before
<1>7. CASE Apply(p)
  <2>1. run[p].stage \in Before /\ "applying" \in Phases /\ "applying" \notin Sure
    BY <1>7, SureIs DEF Apply, Stands, Before
  <2>2. row'.phase = "applying" /\ mem'[p].phase = "applying" /\ p \notin behind'
    BY <1>7, <2>1, EnteredIs DEF Apply, Moves
  <2>3. run'[p].stage = "claim"
    BY <1>1, <1>7, Going DEF Apply, Moves
  <2>4. QED
    BY <2>1, <2>2, <2>3 DEF Trusts
<1>8. CASE Withdrawn(p)
  <2>1. run[p].stage \in Within /\ "cancelled" \in Phases /\ "cancelled" \notin Sure
    BY <1>8, SureIs, PhasesAre DEF Withdrawn, Stands, Within, Terminal
  <2>2. row'.phase \notin Sure /\ p \notin behind'
    BY <1>8, <2>1, EnteredIs DEF Withdrawn
  <2>3. run'[p].stage \in Modest
    BY <1>1, <1>8, Ending DEF Withdrawn, Modest
  <2>4. QED
    BY <2>2, <2>3, Unsure
<1>9. QED
  BY <1>3, <1>4, <1>5, <1>6, <1>7, <1>8

(* The claim. *)
LEMMA TrustClaims ==
    ASSUME NInv, NEW p \in Lifecycles, Trusts(p), Claim(p) \/ AssertClaim(p) \/ Refused(p)
    PROVE  Trusts(p)'
<1>1. CASE Refused(p)
  BY <1>1, StoppedIs DEF Refused, Stands, Within
<1>2. CASE Claim(p) \/ AssertClaim(p)
  <2>1. /\ UNCHANGED <<row, mem, behind, world>> /\ p \notin behind'
        /\ mem[p].phase = "applying"
        /\ run \in [Lifecycles -> Place]
    BY <1>2 DEF Claim, AssertClaim, Stands, Trusts, NInv, NetworkTypeOK
  <2>2. run'[p].stage \in {"assert", "write", "refused"}
    <3>1. CASE Claim(p)
      <4>1. CASE Claimable(mem[p].auth)
        BY <2>1, <3>1, <4>1, ClaimIs DEF Claim, Effect, Yields, Takes, Place
      <4>2. CASE ~Claimable(mem[p].auth)
        BY <3>1, <4>2, Going DEF Claim, NInv, Stages
      <4>3. QED
        BY <4>1, <4>2
    <3>2. CASE AssertClaim(p)
      <4>1. \E s \in {"write", "refused"} :
               run'[p].stage = s
        BY <2>1, <3>2 DEF AssertClaim, Place
      <4>2. QED
        BY <4>1
    <3>3. QED
      BY <1>2, <3>1, <3>2
  <2>3. QED
    BY <2>1, <2>2 DEF Trusts
<1>3. QED
  BY <1>1, <1>2

(* The write, and what the provider says of it. *)
LEMMA TrustWrites ==
    ASSUME NInv, NEW p \in Lifecycles, Trusts(p),
           ApplyReturns(p) \/ ApplyRaises(p) \/ Applied(p) \/ Verify(p) \/ Proved(p) \/ Undo(p)
    PROVE  Trusts(p)'
<1>1. NetworkTypeOK /\ run[p].stage \in Within
  BY DEF NInv, ApplyReturns, ApplyRaises, Applied, Verify, Proved, Undo, Stands, Within
<1>2. mem[p] \in GovernanceRecord
  BY <1>1, Working
<1>3. ASSUME NEW s \in Phases, s \notin Sure, Puts(p, [mem[p] EXCEPT !.phase = s]),
             \/ Ends(p)
             \/ \E g \in Phases \ Good : Delivers(p, g)
             \/ run' = [run EXCEPT ![p] = Resting(@.holds)]
      PROVE  Trusts(p)'
  <2> DEFINE r == [mem[p] EXCEPT !.phase = s]
  <2>1. r \in GovernanceRecord /\ r.phase = s /\ Puts(p, r)
    BY <1>2, <1>3, Entering
  <2> HIDE DEF r
  <2>2. row'.phase \notin Sure /\ p \notin behind'
    BY <1>3, <2>1, Written
  <2>3. CASE Ends(p)
    BY <1>1, <2>2, <2>3, Ending, Unsure DEF Modest
  <2>4. CASE \E g \in Phases \ Good : Delivers(p, g)
    BY <1>1, <2>2, <2>4, Delivering, Unsure
  <2>5. CASE run' = [run EXCEPT ![p] = Resting(@.holds)]
    <3>1. run[p].holds \in Nat /\ run \in [Lifecycles -> Place]
      BY <1>1, PlaceOf DEF NetworkTypeOK
    <3>2. run' = [run EXCEPT ![p] = Resting(run[p].holds)]
      BY <2>5, <3>1
    <3>3. run'[p].stage \in Modest
      BY <1>1, <3>1, <3>2, RestingIs, Turning DEF Modest
    <3>4. QED
      BY <2>2, <3>3, Unsure
  <2>6. QED
    BY <1>3, <2>3, <2>4, <2>5
<1>4. CASE ApplyReturns(p)
  <2>1. ASSUME NEW k \in {"applied", "failed"}, Goes(p, "applied"),
               Puts(p, [mem[p] EXCEPT !.phase = "applied", !.receipt = k])
        PROVE  Trusts(p)'
    <3> DEFINE r == [mem[p] EXCEPT !.phase = "applied", !.receipt = k]
    <3>1. "applied" \in Phases /\ "applied" \notin Sure /\ k \in Receipts /\ "applied" \in Stages
      BY SureIs DEF Receipts, Stages
    <3>2. r \in GovernanceRecord /\ r.phase = "applied"
      BY <1>2, <3>1 DEF GovernanceRecord
    <3>3. Puts(p, r)
      BY <2>1
    <3> HIDE DEF r
    <3>4. row'.phase \notin Sure /\ p \notin behind'
      BY <3>1, <3>2, <3>3, Written
    <3>5. run'[p].stage \in Modest
      BY <1>1, <2>1, <3>1, Going DEF Modest
    <3>6. QED
      BY <3>4, <3>5, Unsure
  <2>2. "recovery_required" \in Phases /\ "recovery_required" \notin Sure
    BY SureIs, PhasesAre DEF Terminal
  <2>3. QED
    BY <1>3, <1>4, <2>1, <2>2 DEF ApplyReturns
<1>5. CASE ApplyRaises(p)
  BY <1>3, <1>5, SureIs DEF ApplyRaises
<1>6. CASE Applied(p)
  <2>1. "verify" \in Modest \cap Stages /\ "verifying" \in Phases /\ "verifying" \notin Sure
    BY SureIs DEF Modest, Stages
  <2>2. QED
    BY <1>1, <1>6, <2>1, StoppedIs, UndoingIs, MovedIs DEF Applied
<1>7. CASE Verify(p)
  <2>1. ASSUME NEW k \in {"yes", "no"}, k = "yes" => world = "applied", Goes(p, "proved"),
               Records(p, [mem[p] EXCEPT !.phase = "provider_verified", !.verified = k])
        PROVE  Trusts(p)'
    <3> DEFINE r == [mem[p] EXCEPT !.phase = "provider_verified", !.verified = k]
    <3>1. "provider_verified" \in Phases /\ "provider_verified" \notin Sure /\ "proved" \in Stages
      BY SureIs DEF Stages
    <3>2. r \in GovernanceRecord /\ r.phase = "provider_verified" /\ r.verified = k
      BY <1>2, <3>1 DEF GovernanceRecord
    <3>3. Puts(p, r) /\ world' = world
      BY <2>1 DEF Records
    <3> HIDE DEF r
    <3>4. row'.phase \notin Sure /\ p \notin behind' /\ mem'[p].verified = k
      BY <3>1, <3>2, <3>3, Written
    <3>5. run'[p].stage = "proved"
      BY <1>1, <2>1, <3>1, Going
    <3>6. QED
      BY <2>1, <3>3, <3>4, <3>5 DEF Trusts
  <2>2. QED
    BY <1>1, <1>7, <2>1, StoppedIs DEF Verify
<1>8. CASE Proved(p)
  <2>1. CASE Stops(p)
    BY <1>1, <2>1, StoppedIs
  <2>2. CASE Moves(p, "rolling_back", "undo")
    BY <1>1, <2>2, UndoingIs
  <2>3. CASE mem[p].verified = "yes" /\ Moves(p, "path_verifying", "path")
    <3>1. world = "applied" /\ world' = world
      BY <1>8, <2>3 DEF Proved, Stands, Trusts, Moves, Enters, Records
    <3>2. run'[p].stage = "path"
      BY <1>1, <2>3, Going DEF Moves, Stages
    <3>3. QED
      BY <1>8, <3>1, <3>2, ProvedIs, InForceIs
  <2>4. QED
    BY <1>8, <2>1, <2>2, <2>3 DEF Proved
<1>9. CASE Undo(p)
  <2>1. \A s \in {"rolled_back", "manual_intervention", "ownership_conflict", "recovery_required"} :
           s \in Phases \ Good /\ s \notin Sure
    BY SureIs, PhasesAre DEF Terminal
  <2>2. CASE Puts(p, [mem[p] EXCEPT !.phase = "rolled_back", !.receipt = "rolled_back"])
             /\ Delivers(p, "rolled_back")
    <3> DEFINE r == [mem[p] EXCEPT !.phase = "rolled_back", !.receipt = "rolled_back"]
    <3>1. "rolled_back" \in Receipts /\ "rolled_back" \in Phases
      BY <2>1 DEF Receipts
    <3>2. r \in GovernanceRecord /\ r.phase = "rolled_back" /\ Puts(p, r)
      BY <1>2, <2>2, <3>1 DEF GovernanceRecord
    <3> HIDE DEF r
    <3>3. row'.phase \notin Sure /\ p \notin behind'
      BY <2>1, <3>2, Written
    <3>4. run'[p].stage = "ack" /\ run'[p].goal = "rolled_back"
      BY <1>1, <2>2, <3>1, Delivering
    <3>5. QED
      BY <2>1, <3>3, <3>4, Unsure
  <2>3. ASSUME NEW s \in {"manual_intervention", "ownership_conflict"},
               Puts(p, [mem[p] EXCEPT !.phase = s]), Delivers(p, s)
        PROVE  Trusts(p)'
    BY <1>3, <2>1, <2>3
  <2>4. CASE Puts(p, [mem[p] EXCEPT !.phase = "recovery_required"]) /\ Ends(p)
    BY <1>3, <2>1, <2>4
  <2>5. QED
    BY <1>9, <2>2, <2>3, <2>4 DEF Undo
<1>10. QED
  BY <1>4, <1>5, <1>6, <1>7, <1>8, <1>9

(* The path, and who is told. *)
LEMMA TrustPaths ==
    ASSUME NInv, NEW p \in Lifecycles, Trusts(p),
           Path(p) \/ Steer(p) \/ Ack(p) \/ PublishPath(p)
    PROVE  Trusts(p)'
<1>1. NetworkTypeOK /\ "steer" \in Stages /\ "tell" \in Stages /\ {"path_degraded", "verified"} \subseteq Phases
  BY DEF NInv, Stages, Phases, Good
<1>2. UNCHANGED world
  BY DEF Path, Steer, Ack, PublishPath, Degrades, Settles, Stops, Enters, Records, Silent
<1>3. Effect(p)
  BY PathIs, SteerIs, AckIs, PublishPathIs
<1>4. CASE Path(p) \/ Steer(p) \/ PublishPath(p)
  <2>1. world = "applied"
    BY <1>4 DEF Path, Steer, PublishPath, Stands, Trusts
  <2>2. run'[p].stage \in {"ack", "steer", "idle", "finally"}
    <3>1. CASE Path(p)
      BY <1>1, <3>1, Going, Delivering DEF Path, Degrades, Settles
    <3>2. CASE Steer(p)
      BY <1>1, <3>2, Ending, Delivering DEF Steer, Degrades, Settles, Stops
    <3>3. CASE PublishPath(p)
      BY <1>1, <3>3, Ending DEF PublishPath
    <3>4. QED
      BY <1>4, <3>1, <3>2, <3>3
  <2>3. QED
    BY <1>2, <1>3, <2>1, <2>2, InForceIs
<1>5. CASE Ack(p) /\ run[p].goal \in Good
  <2>1. world = "applied"
    BY <1>5 DEF Ack, Stands, Trusts
  <2>2. run'[p].stage \in {"tell", "idle", "finally"}
    BY <1>1, <1>5, Going, Ending DEF Ack
  <2>3. QED
    BY <1>2, <1>3, <2>1, <2>2, InForceIs
<1>6. CASE Ack(p) /\ run[p].goal \notin Good
  <2>1. /\ run[p].stage = "ack" /\ mem[p].phase = run[p].goal /\ run[p].goal \notin Sure
        /\ run[p].goal \in Phases /\ mem[p] \in GovernanceRecord
    <3>1. run[p].stage = "ack" /\ run[p].stage \in Before \cup Within \cup {"ack", "tell"}
      BY <1>6 DEF Ack, Stands
    <3>2. run[p].goal \in Terminal \cup {"awaiting_authorization"} /\ mem[p].phase = run[p].goal
      BY <1>6, <3>1 DEF NInv, Fitting, Fit
    <3>3. QED
      BY <1>1, <3>1, <3>2, SureIs, Goal, Working DEF Pre
  <2>2. run'[p].stage \in Modest
    BY <1>1, <1>6, Ending DEF Ack, Modest
  <2>3. CASE Silent
    BY <1>2, <2>2, <2>3, Unmoved DEF Silent, Trusts
  <2>4. CASE Enters(p, run[p].goal)
    BY <2>1, <2>2, <2>4, EnteredIs, Unsure
  <2>5. CASE Records(p, [mem[p] EXCEPT !.acked = TRUE])
    <3> DEFINE r == [mem[p] EXCEPT !.acked = TRUE]
    <3>1. r \in GovernanceRecord /\ r.phase = run[p].goal /\ Puts(p, r)
      BY <2>1, <2>5 DEF GovernanceRecord, Records
    <3> HIDE DEF r
    <3>2. QED
      BY <2>1, <2>2, <3>1, Written, Unsure
  <2>6. QED
    BY <1>6, <2>3, <2>4, <2>5 DEF Ack
<1>7. QED
  BY <1>4, <1>5, <1>6

(* What a recovery finds. *)
LEMMA TrustJudges ==
    ASSUME NInv, NEW p \in Lifecycles, Trusts(p), Judge(p) \/ Resume(p) \/ Concluded(p)
    PROVE  Trusts(p)'
<1>1. /\ NetworkTypeOK /\ run[p].stage \in Within /\ {"resume", "proved"} \subseteq Stages
      /\ {"verified", "path_degraded"} \subseteq Good /\ Good \subseteq Phases
      /\ {"manual_intervention", "ownership_conflict", "rolled_back", "cancelled"} \subseteq Terminal
  BY SureIs DEF NInv, Stages, Good, Terminal, Judge, Resume, Concluded, Stands, Within
<1>2. mem[p] \in GovernanceRecord
  BY <1>1, Working
<1>3. CASE Stops(p)
  BY <1>1, <1>3, StoppedIs
<1>4. CASE \E s \in Terminal : Settles(p, s)
  BY <1>1, <1>4, SettledIs
<1>5. CASE Judge(p) /\ Silent
  <2>1. UNCHANGED <<row, world, behind>> /\ p \notin behind'
    BY <1>5 DEF Silent, Trusts
  <2>2. CASE run[p].was = "acknowledging" /\ \E s \in Good : Delivers(p, s)
    <3>1. world = "applied"
      BY <1>5, <2>2 DEF Judge, Stands, Trusts
    <3>2. run'[p].stage = "ack"
      BY <1>1, <2>2, Delivering
    <3>3. QED
      BY <1>5, <2>1, <3>1, <3>2, Assured
  <2>3. CASE Goes(p, "resume")
    BY <1>1, <2>1, <2>3, Going, Unmoved DEF Modest
  <2>4. CASE Stops(p) \/ \E s \in Terminal : Settles(p, s)
    BY <1>3, <1>4, <2>4
  <2>5. QED
    BY <1>1, <1>5, <2>2, <2>3, <2>4 DEF Judge
<1>6. ASSUME NEW k \in Receipts, Goes(p, "resume"),
             Records(p, [mem[p] EXCEPT !.phase = "applied", !.receipt = k])
      PROVE  Trusts(p)'
  <2> DEFINE r == [mem[p] EXCEPT !.phase = "applied", !.receipt = k]
  <2>1. "applied" \in Phases /\ "applied" \notin Sure
    BY SureIs
  <2>2. r \in GovernanceRecord /\ r.phase = "applied" /\ Puts(p, r)
    BY <1>2, <1>6, <2>1 DEF GovernanceRecord, Records
  <2> HIDE DEF r
  <2>3. row'.phase \notin Sure /\ p \notin behind'
    BY <2>1, <2>2, Written
  <2>4. run'[p].stage \in Modest
    BY <1>1, <1>6, Going DEF Modest
  <2>5. QED
    BY <2>3, <2>4, Unsure
<1>7. CASE /\ world = "applied" /\ Goes(p, "proved")
           /\ Records(p, [mem[p] EXCEPT !.phase = "provider_verified", !.verified = "yes"])
  <2> DEFINE r == [mem[p] EXCEPT !.phase = "provider_verified", !.verified = "yes"]
  <2>1. "provider_verified" \in Phases
    BY SureIs
  <2>2. r \in GovernanceRecord /\ Puts(p, r) /\ world' = world
    BY <1>2, <1>7, <2>1 DEF GovernanceRecord, Records
  <2> HIDE DEF r
  <2>3. p \notin behind'
    BY <2>2, Written
  <2>4. run'[p].stage = "proved"
    BY <1>1, <1>7, Going
  <2>5. QED
    BY <1>7, <2>2, <2>3, <2>4, Assured
<1>8. CASE Judge(p)
  BY <1>1, <1>3, <1>4, <1>5, <1>8 DEF Judge
<1>9. CASE Resume(p)
  <2>1. Remembered \subseteq Receipts
    BY DEF Remembered, Receipts
  <2>2. QED
    BY <1>3, <1>6, <1>7, <1>9, <2>1 DEF Resume
<1>10. CASE Concluded(p)
  BY <1>1, <1>4, <1>10 DEF Concluded
<1>11. QED
  BY <1>8, <1>9, <1>10

(* What is cut off: a process that writes or undoes has not said yet that   *)
(* the plan is in force.                                                   *)
LEMMA TrustBreaks ==
    ASSUME NInv, NEW p \in Lifecycles, Trusts(p), Raises(p) \/ Dies(p)
    PROVE  Trusts(p)'
<1>1. NetworkTypeOK
  BY DEF NInv
<1>2. row' = row /\ p \notin behind'
  BY DEF Raises, Dies, Trusts
<1>3. run'[p].stage \in Modest
  <2>1. run[p].holds \in Nat /\ 0 \in Nat /\ run \in [Lifecycles -> Place]
    BY <1>1, PlaceOf DEF NetworkTypeOK
  <2>2. PICK n \in Nat : run' = [run EXCEPT ![p] = Resting(n)]
    BY <2>1 DEF Raises, Dies
  <2> DEFINE v == Resting(n)
  <2>3. v \in Place /\ v.stage = "idle" /\ run' = [run EXCEPT ![p] = v]
    BY <2>2, RestingIs
  <2> HIDE DEF v
  <2>4. run'[p] = v
    BY <1>1, <2>3, Turning
  <2>5. QED
    BY <2>3, <2>4 DEF Modest
<1>4. CASE run[p].stage \notin {"write", "undo"}
  <2>1. world' = world
    BY <1>4 DEF Raises, Dies, CutOff, Stands
  <2>2. QED
    BY <1>2, <1>3, <2>1, Unmoved
<1>5. CASE run[p].stage \in {"write", "undo"}
  <2>1. run[p].stage \in Within /\ p \in Lifecycles \ behind
    BY <1>5 DEF Within, Trusts
  <2>2. mem[p] # Nothing /\ row # Nothing /\ row.phase = mem[p].phase
    BY <2>1 DEF NInv, Fitting, Fit, InStep
  <2>3. mem[p].phase \notin Sure
    BY <1>5 DEF Trusts, Sure
  <2>4. QED
    BY <1>2, <1>3, <2>2, <2>3, Unsure
<1>6. QED
  BY <1>4, <1>5

LEMMA TrustStep ==
    ASSUME NInv, NEW p \in Lifecycles, Trusts(p), LifecycleStep(p)
    PROVE  Trusts(p)'
<1>1. CASE \/ FirstTime(p) \/ Look(p) \/ Again(p) \/ PathAgain(p) \/ RetrySinks(p)
           \/ Recover(p) \/ RecoverFails(p) \/ Raises(p) \/ Dies(p)
  BY <1>1, TrustBegins, TrustRepeats, TrustRecovers, TrustBreaks
<1>2. CASE \/ Plan(p) \/ Decide(p) \/ Recheck(p) \/ Wait(p) \/ Apply(p) \/ Withdrawn(p)
           \/ Claim(p) \/ AssertClaim(p) \/ Refused(p)
  BY <1>2, TrustPrepares, TrustClaims
<1>3. CASE \/ ApplyReturns(p) \/ ApplyRaises(p) \/ Applied(p) \/ Verify(p) \/ Proved(p)
           \/ Undo(p) \/ Path(p) \/ Steer(p)
  BY <1>3, TrustWrites, TrustPaths
<1>4. CASE \/ Ack(p) \/ PublishPath(p) \/ Finally(p) \/ Judge(p) \/ Resume(p) \/ Concluded(p)
  BY <1>4, TrustPaths, TrustBegins, TrustJudges
<1>5. QED
  BY <1>1, <1>2, <1>3, <1>4 DEF LifecycleStep

(* Who may run is settled at the start. *)
LEMMA WhoStays ==
    ASSUME NInv, NetworkNext
    PROVE  may'.who = may.who
<1>1. may \in Bounds
  BY DEF NInv, NetworkTypeOK
<1>2. \/ may' = may
      \/ may' = [may EXCEPT !.faults = @ - 1]
      \/ may' = [may EXCEPT !.deaths = @ - 1]
      \/ may' = [may EXCEPT !.pauses = @ - 1]
  <2>1. CASE \E p \in may.who : RecoverFails(p) \/ Raises(p)
    BY <2>1 DEF RecoverFails, Raises, Unwritten
  <2>2. CASE \E p \in may.who : Dies(p)
    BY <2>2 DEF Dies
  <2>3. CASE LeaseEnds
    BY <2>3 DEF LeaseEnds
  <2>4. CASE \E g \in Grants : Approve(g) \/ GrantEnds(g) \/ Revoke(g)
    BY <2>4 DEF Approve, GrantEnds, Revoke
  <2>5. CASE \E p \in may.who : \/ FirstTime(p) \/ Look(p) \/ Again(p) \/ Recover(p) \/ Claim(p)
                                \/ AssertClaim(p) \/ ApplyReturns(p) \/ ApplyRaises(p)
                                \/ Undo(p) \/ Finally(p) \/ RenewalFails(p)
    BY <2>5 DEF FirstTime, Look, Again, Recover, Claim, AssertClaim, ApplyReturns, ApplyRaises,
                Undo, Finally, RenewalFails, Silent
  <2>6. CASE \E p \in may.who : \/ PathAgain(p) \/ RetrySinks(p) \/ Plan(p) \/ Decide(p)
                                \/ Recheck(p) \/ Wait(p) \/ Apply(p) \/ Withdrawn(p)
    BY <2>6 DEF PathAgain, RetrySinks, Plan, Decide, Recheck, Wait, Apply, Withdrawn, Moves,
                Waits, Enters, Records
  <2>7. CASE \E p \in may.who : \/ Refused(p) \/ Applied(p) \/ Verify(p) \/ Proved(p) \/ Path(p)
                                \/ Steer(p) \/ Ack(p) \/ PublishPath(p) \/ Judge(p)
                                \/ Resume(p) \/ Concluded(p)
    BY <2>7 DEF Refused, Applied, Verify, Proved, Path, Steer, Ack, PublishPath, Judge, Resume,
                Concluded, Degrades, Settles, Stops, Moves, Enters, Records, Silent
  <2>8. QED
    BY <2>1, <2>2, <2>3, <2>4, <2>5, <2>6, <2>7 DEF NetworkNext
<1>3. QED
  BY <1>1, <1>2 DEF Bounds

(* What happens beside the process changes nothing it relies on. *)
LEMMA Beside ==
    ASSUME NInv, NEW p \in Lifecycles, Trusts(p), UNCHANGED <<row, mem, behind, world>>,
           run'[p].stage = run[p].stage, run'[p].goal = run[p].goal, run'[p].was = run[p].was
    PROVE  Trusts(p)'
BY DEF Trusts

LEMMA InForceInit == NetworkInit => InForce
<1> SUFFICES ASSUME NetworkInit, NEW p \in Lifecycles PROVE Trusts(p)
  BY DEF InForce
<1>1. run[p].stage = "idle" /\ row = Nothing /\ behind = {}
  BY DEF NetworkInit, Resting
<1>2. QED
  BY <1>1 DEF Trusts

LEMMA InForceStep == NInv /\ InForce /\ [NetworkNext]_netVars => InForce'
<1> SUFFICES ASSUME NInv, InForce, [NetworkNext]_netVars PROVE InForce'
  OBVIOUS
<1>1. CASE UNCHANGED netVars
  BY <1>1 DEF netVars, InForce, Lone, Trusts
<1>2. CASE NetworkNext
  <2> SUFFICES ASSUME NEW p \in Lifecycles, Lone(p)' PROVE Trusts(p)'
    BY DEF InForce
  <2>1. may.who = {p} /\ Trusts(p)
    BY <1>2, WhoStays DEF Lone, InForce
  <2>2. CASE LifecycleStep(p)
    BY <2>1, <2>2, TrustStep
  <2>3. CASE RenewalFails(p)
    BY <2>1, <2>3, RenewalFailsKeeps, Beside DEF Silent
  <2>4. CASE LeaseEnds \/ \E g \in Grants : Approve(g) \/ GrantEnds(g) \/ Revoke(g)
    <3>1. UNCHANGED <<row, mem, behind, world, run>>
      BY <2>4 DEF LeaseEnds, Approve, GrantEnds, Revoke
    <3>2. QED
      BY <2>1, <3>1, Beside
  <2>5. QED
    BY <1>2, <2>1, <2>2, <2>3, <2>4 DEF NetworkNext, LifecycleStep
<1>3. QED
  BY <1>1, <1>2

(* network/governance.py: a revision that one process calls verified is in  *)
(* force at the provider, by whatever way the record got there, however     *)
(* often the process died and wherever it was cut off.                     *)
THEOREM VerifiedInForce == NetworkSpec => []VerifiedIsApplied
<1>1. NInv /\ InForce => VerifiedIsApplied
  BY DEF InForce, Lone, Trusts, Sure, VerifiedIsApplied
<1>2. NetworkSpec => []InForce
  BY InForceInit, InForceStep, NetworkInvariant, PTL DEF NetworkSpec
<1>3. QED
  BY <1>1, <1>2, NetworkInvariant, PTL

-----------------------------------------------------------------------------
(* Nothing unasked                                                         *)

(* Where the provider was asked, and a copy without an answer of its own.   *)
Engaged == {"write", "applied", "verify", "proved", "undo"}
Clean(m) == m = Nothing \/ (m.receipt \in {"none", "failed"} /\ m.verified = "none")

(* What is so of the provider, the table and a process before it is asked.  *)
Bare ==
    /\ world = "none" /\ Clean(row)
    /\ \A p \in Lifecycles : Clean(mem[p]) /\ run[p].stage \notin Engaged

(* As long as the provider was not asked, nothing is in force, and nobody   *)
(* believes that anything was applied or verified.                         *)
Unasked == applies = 0 => Bare

(* What of it a step of p must keep. *)
Spares(p) ==
    /\ world' = "none" /\ Clean(row')
    /\ \A q \in Lifecycles : Clean(mem'[q])
    /\ run'[p].stage \notin Engaged

(* What is done to a record where nothing was applied leaves it clean. *)
LEMMA CleanOf ==
    ASSUME NEW r \in GovernanceRecord, Clean(r)
    PROVE  /\ Clean(Stored(r)) /\ Clean(Old(r)) /\ Clean(FreshRecord)
           /\ \A s \in Phases : Clean([r EXCEPT !.phase = s])
           /\ \A e \in {"none", "bad", "good"} : Clean([r EXCEPT !.evidence = e])
           /\ r.receipt \in {"none", "failed"} /\ r.verified = "none"
<1>1. r.receipt \in {"none", "failed"} /\ r.verified = "none"
  BY FieldsOf DEF Clean
<1>2. Clean(Stored(r))
  BY DEF Stored, GovernanceRecord, Clean
<1>3. Clean(FreshRecord) /\ Clean(Old(r))
  BY DEF Old, FreshRecord, Clean
<1>4. \A s \in Phases : Clean([r EXCEPT !.phase = s])
  BY <1>1 DEF GovernanceRecord, Clean
<1>5. \A e \in {"none", "bad", "good"} : Clean([r EXCEPT !.evidence = e])
  BY <1>1 DEF GovernanceRecord, Clean
<1>6. QED
  BY <1>1, <1>2, <1>3, <1>4, <1>5

LEMMA PutsClean ==
    ASSUME NInv, Bare, NEW p \in Lifecycles, NEW r \in GovernanceRecord, Clean(r), Puts(p, r)
    PROVE  Clean(row') /\ \A q \in Lifecycles : Clean(mem'[q])
<1>1. Clean(row')
  BY CleanOf DEF Puts
<1>2. ASSUME NEW q \in Lifecycles PROVE Clean(mem'[q])
  <2>1. mem'[q] = IF q = p THEN r ELSE IF mem[q] = Nothing THEN Nothing ELSE Old(mem[q])
    BY DEF Puts
  <2>2. mem[q] = Nothing \/ mem[q] \in GovernanceRecord
    BY DEF NInv, NetworkTypeOK
  <2>3. Clean(mem[q]) /\ Clean(Nothing)
    BY DEF Bare, Clean
  <2>4. QED
    BY <2>1, <2>2, <2>3, CleanOf
<1>3. QED
  BY <1>1, <1>2

(* A step that writes a clean record and goes on elsewhere. *)
LEMMA RecordsSpare ==
    ASSUME NInv, Bare, NEW p \in Lifecycles, NEW r \in GovernanceRecord, Clean(r), Records(p, r),
           run'[p].stage \notin Engaged
    PROVE  Spares(p)
<1>1. Puts(p, r) /\ world' = world
  BY DEF Records
<1>2. QED
  BY <1>1, PutsClean DEF Spares, Bare

LEMMA EntersSpare ==
    ASSUME NInv, Bare, NEW p \in Lifecycles,
           run[p].stage \in Before \cup Within \cup {"ack", "tell"},
           NEW s \in Phases, Enters(p, s), run'[p].stage \notin Engaged
    PROVE  Spares(p)
<1> DEFINE r == [mem[p] EXCEPT !.phase = s]
<1>1. mem[p] \in GovernanceRecord /\ Clean(mem[p])
  BY Working DEF Bare
<1>2. r \in GovernanceRecord /\ Clean(r)
  BY <1>1, Entering, CleanOf
<1>3. Records(p, r)
  BY DEF Enters
<1> HIDE DEF r
<1>4. QED
  BY <1>2, <1>3, RecordsSpare

LEMMA SilentSpares ==
    ASSUME Bare, NEW p \in Lifecycles, UNCHANGED <<row, mem, world>>, run'[p].stage \notin Engaged
    PROVE  Spares(p)
BY DEF Bare, Spares

(* A record that is read back says no more than the table and the copy. *)
LEMMA KnownClean ==
    ASSUME NInv, Bare, NEW p \in Lifecycles, row # Nothing, p \notin behind
    PROVE  Clean(Known(p)) /\ Clean(Restored(p))
<1>1. row \in GovernanceRecord /\ Clean(row) /\ Clean(mem[p])
  BY DEF NInv, NetworkTypeOK, Bare
<1>2. Clean(Known(p)) /\ Known(p) \in GovernanceRecord
  BY <1>1, CleanOf, KnownIs DEF Known
<1> DEFINE k == Known(p)
           e == IF k.evidence = "none" THEN row.evidence ELSE k.evidence
<1>3. k \in GovernanceRecord /\ Clean(k) /\ Restored(p) = [k EXCEPT !.evidence = e]
  BY <1>2 DEF Restored, GovernanceRecord
<1>4. e \in {"none", "bad", "good"}
  BY <1>1, <1>2, FieldsOf
<1> HIDE DEF k, e
<1>5. Clean(Restored(p))
  BY <1>3, <1>4, CleanOf
<1>6. QED
  BY <1>2, <1>5

LEMMA CleanMore ==
    ASSUME NEW r \in GovernanceRecord, Clean(r), NEW s \in Phases, NEW g \in Grants \cup {Nothing},
           NEW e \in {"bad", "good"}, NEW n
    PROVE  n \in {[r EXCEPT !.phase = s], [r EXCEPT !.phase = s, !.tried = TRUE],
                  [r EXCEPT !.phase = s, !.auth = g],
                  [r EXCEPT !.phase = s, !.auth = g, !.acked = FALSE],
                  [r EXCEPT !.phase = s, !.evidence = e],
                  [r EXCEPT !.phase = s, !.receipt = "failed"], [r EXCEPT !.acked = TRUE]}
           => n \in GovernanceRecord /\ Clean(n)
<1>1. r.receipt \in {"none", "failed"} /\ r.verified = "none"
  BY CleanOf
<1>2. CASE n = [r EXCEPT !.phase = s] \/ n = [r EXCEPT !.phase = s, !.tried = TRUE]
  BY <1>1, <1>2 DEF GovernanceRecord, Clean
<1>3. CASE n = [r EXCEPT !.phase = s, !.auth = g]
           \/ n = [r EXCEPT !.phase = s, !.auth = g, !.acked = FALSE]
  BY <1>1, <1>3 DEF GovernanceRecord, Clean
<1>4. CASE n = [r EXCEPT !.phase = s, !.evidence = e] \/ n = [r EXCEPT !.acked = TRUE]
  BY <1>1, <1>4 DEF GovernanceRecord, Clean
<1>5. CASE n = [r EXCEPT !.phase = s, !.receipt = "failed"]
  BY <1>1, <1>5 DEF GovernanceRecord, Clean, Receipts
<1>6. QED
  BY <1>2, <1>3, <1>4, <1>5

(* Where a process rests, waits or goes on before it asks. *)
LEMMA NotEngaged ==
    ASSUME NetworkTypeOK, NEW p \in Lifecycles
    PROVE  /\ Ends(p) => run'[p].stage \notin Engaged
           /\ \A s \in Phases : Delivers(p, s) => run'[p].stage \notin Engaged
           /\ \A s \in Stages \ Engaged : Goes(p, s) => run'[p].stage \notin Engaged
           /\ \A n \in Nat : run' = [run EXCEPT ![p] = Resting(n)] => run'[p].stage \notin Engaged
<1>1. Ends(p) => run'[p].stage \notin Engaged
  BY Ending DEF Engaged
<1>2. ASSUME NEW s \in Phases, Delivers(p, s) PROVE run'[p].stage \notin Engaged
  BY <1>2, Delivering DEF Engaged
<1>3. ASSUME NEW s \in Stages \ Engaged, Goes(p, s) PROVE run'[p].stage \notin Engaged
  BY <1>3, Going
<1>4. ASSUME NEW n \in Nat, run' = [run EXCEPT ![p] = Resting(n)] PROVE run'[p].stage \notin Engaged
  <2> DEFINE v == Resting(n)
  <2>1. v \in Place /\ v.stage = "idle" /\ run' = [run EXCEPT ![p] = v]
    BY <1>4, RestingIs
  <2> HIDE DEF v
  <2>2. run'[p] = v
    BY <2>1, Turning
  <2>3. QED
    BY <2>1, <2>2 DEF Engaged
<1>5. QED
  BY <1>1, <1>2, <1>3, <1>4

LEMMA StopsSpare ==
    ASSUME NInv, Bare, NEW p \in Lifecycles, run[p].stage \in Within, Stops(p)
    PROVE  Spares(p)
<1>1. NetworkTypeOK /\ "recovery_required" \in Phases
  BY DEF NInv, Phases, Terminal
<1>2. run'[p].stage \notin Engaged
  BY <1>1, NotEngaged DEF Stops
<1>3. QED
  BY <1>1, <1>2, EntersSpare DEF Stops

LEMMA SettlesSpare ==
    ASSUME NInv, Bare, NEW p \in Lifecycles, run[p].stage \in Within, NEW s \in Phases,
           Settles(p, s)
    PROVE  Spares(p)
<1>1. NetworkTypeOK
  BY DEF NInv
<1>2. run'[p].stage \notin Engaged
  BY <1>1, NotEngaged DEF Settles
<1>3. QED
  BY <1>2, EntersSpare DEF Settles

(* A call begins. *)
LEMMA BeginsSpare ==
    ASSUME NInv, Bare, NEW p \in Lifecycles,
           \/ FirstTime(p) \/ Look(p) \/ Again(p) \/ PathAgain(p) \/ RetrySinks(p)
           \/ Recover(p) \/ RecoverFails(p)
    PROVE  Spares(p)
<1>1. /\ NetworkTypeOK /\ 0 \in Nat /\ {"plan", "decide", "path", "ack", "judge", "idle"} \subseteq Stages \ Engaged
      /\ {"path_verifying", "acknowledging", "recovering"} \subseteq Phases
      /\ run \in [Lifecycles -> Place] /\ mem \in [Lifecycles -> GovernanceRecord \cup {Nothing}]
  BY DEF NInv, NetworkTypeOK, Stages, Engaged, Phases, Recoverable
<1>2. CASE FirstTime(p)
  <2>1. UNCHANGED <<row, mem, world>> /\ run'[p].stage \notin Engaged
    BY <1>1, <1>2, NotEngaged DEF FirstTime, Silent
  <2>2. QED
    BY <2>1, SilentSpares
<1>3. CASE Look(p) \/ Again(p)
  <2>1. row # Nothing /\ p \notin behind /\ mem' = [mem EXCEPT ![p] = Known(p)]
        /\ UNCHANGED <<row, world>>
    BY <1>3 DEF Look, Again, MayBegin
  <2>2. Clean(Known(p))
    BY <2>1, KnownClean
  <2>3. \A q \in Lifecycles : Clean(mem'[q])
    BY <1>1, <2>1, <2>2 DEF Bare
  <2>4. run'[p].stage \notin Engaged
    <3>1. CASE Look(p)
      BY <3>1 DEF Look, Bare
    <3>2. CASE Again(p)
      BY <1>1, <3>2, NotEngaged DEF Again
    <3>3. QED
      BY <1>3, <3>1, <3>2
  <2>5. QED
    BY <2>1, <2>3, <2>4 DEF Spares, Bare
<1>4. CASE PathAgain(p)
  <2> DEFINE r == Restored(p)
             n == [r EXCEPT !.phase = "path_verifying", !.tried = TRUE]
             o == [r EXCEPT !.phase = "path_verifying"]
  <2>1. row # Nothing /\ p \notin behind /\ Goes(p, "path") /\ (Records(p, n) \/ Records(p, o))
    BY <1>4 DEF PathAgain, MayBegin
  <2>2. r \in GovernanceRecord /\ Clean(r)
    BY <2>1, KnownIs, KnownClean
  <2>3. run'[p].stage \notin Engaged
    BY <1>1, <2>1, NotEngaged
  <2> HIDE DEF r
  <2>4. n \in GovernanceRecord /\ Clean(n) /\ o \in GovernanceRecord /\ Clean(o)
    BY <1>1, <2>2, CleanMore
  <2> HIDE DEF n, o
  <2>5. QED
    BY <2>1, <2>3, <2>4, RecordsSpare
<1>5. CASE RetrySinks(p)
  <2> DEFINE r == Restored(p)
             o == [r EXCEPT !.phase = "acknowledging"]
  <2>1. row # Nothing /\ p \notin behind /\ Delivers(p, r.phase) /\ Records(p, o)
    BY <1>5 DEF RetrySinks, MayBegin
  <2>2. r \in GovernanceRecord /\ Clean(r)
    BY <2>1, KnownIs, KnownClean
  <2> HIDE DEF r
  <2>3. run'[p].stage \notin Engaged
    BY <1>1, <2>1, <2>2, FieldsOf, NotEngaged
  <2>4. o \in GovernanceRecord /\ Clean(o)
    BY <1>1, <2>2, CleanMore
  <2> HIDE DEF o
  <2>5. QED
    BY <2>1, <2>3, <2>4, RecordsSpare
<1>6. CASE Recover(p)
  <2>1. row # Nothing /\ p \notin behind /\ world' = world
    BY <1>6 DEF Recover, MayBegin
  <2>2. PICK r \in {Known(p), Restored(p)} :
           /\ Puts(p, [r EXCEPT !.phase = "recovering"])
           /\ run' = [run EXCEPT ![p] = [Resting(0) EXCEPT !.stage = "judge", !.was = Kind(r)]]
    BY <1>6 DEF Recover
  <2>3. r \in GovernanceRecord /\ Clean(r)
    BY <2>1, <2>2, KnownIs, KnownClean
  <2> DEFINE o == [r EXCEPT !.phase = "recovering"]
             v == [Resting(0) EXCEPT !.stage = "judge", !.was = Kind(r)]
  <2>4. o \in GovernanceRecord /\ Clean(o) /\ Puts(p, o)
    BY <1>1, <2>2, <2>3, CleanMore
  <2>5. v.stage = "judge" /\ run' = [run EXCEPT ![p] = v]
    BY <2>2 DEF Resting
  <2> HIDE DEF o, v
  <2>6. run'[p].stage \notin Engaged
    BY <1>1, <2>5
  <2>7. QED
    BY <2>1, <2>4, <2>6, PutsClean DEF Spares, Bare
<1>7. CASE RecoverFails(p)
  <2>1. UNCHANGED <<row, mem, world>> /\ run'[p].stage \notin Engaged
    BY <1>1, <1>7, NotEngaged DEF RecoverFails
  <2>2. QED
    BY <2>1, SilentSpares
<1>8. QED
  BY <1>2, <1>3, <1>4, <1>5, <1>6, <1>7

(* Up to the claim. *)
LEMMA PreparesSpare ==
    ASSUME NInv, Bare, NEW p \in Lifecycles,
           Plan(p) \/ Decide(p) \/ Recheck(p) \/ Wait(p) \/ Apply(p) \/ Withdrawn(p)
    PROVE  Spares(p)
<1>1. /\ NetworkTypeOK /\ {"decide", "recheck", "apply", "wait", "claim"} \subseteq Stages \ Engaged
      /\ {"awaiting_authorization", "authorized", "rechecking", "cancelled", "applying"} \subseteq Phases
  BY DEF NInv, Stages, Engaged, Phases, Recoverable, Early, Terminal
<1>2. CASE Plan(p)
  <2>1. Records(p, FreshRecord) /\ run'[p].stage \notin Engaged
    BY <1>1, <1>2, NotEngaged DEF Plan
  <2>2. FreshRecord \in GovernanceRecord /\ Clean(FreshRecord)
    BY DEF FreshRecord, GovernanceRecord, Phases, Recoverable, Early, Receipts, Clean
  <2>3. QED
    BY <2>1, <2>2, RecordsSpare
<1>3. CASE ~Plan(p)
  <2>1. run[p].stage \in Before \cup Within /\ mem[p] \in GovernanceRecord /\ Clean(mem[p])
    <3>1. run[p].stage \in Before \cup Within
      BY <1>3 DEF Decide, Recheck, Wait, Apply, Withdrawn, Stands, Before, Within
    <3>2. QED
      BY <3>1, Working DEF Bare
  <2>2. ASSUME Waits(p) PROVE Spares(p)
    <3> DEFINE r == [mem[p] EXCEPT !.phase = "awaiting_authorization", !.auth = Nothing]
    <3>1. Records(p, r) /\ run'[p].stage \notin Engaged
      BY <1>1, <2>2, NotEngaged DEF Waits
    <3>2. r \in GovernanceRecord /\ Clean(r)
      BY <1>1, <2>1, CleanMore
    <3> HIDE DEF r
    <3>3. QED
      BY <3>1, <3>2, RecordsSpare
  <2>3. ASSUME NEW g \in Match, Goes(p, "recheck"),
               Records(p, [mem[p] EXCEPT !.phase = "authorized", !.auth = g, !.acked = FALSE])
        PROVE  Spares(p)
    <3> DEFINE r == [mem[p] EXCEPT !.phase = "authorized", !.auth = g, !.acked = FALSE]
    <3>1. Records(p, r) /\ run'[p].stage \notin Engaged /\ g \in Grants
      BY <1>1, <2>3, NotEngaged DEF Match
    <3>2. r \in GovernanceRecord /\ Clean(r)
      BY <1>1, <2>1, <3>1, CleanMore
    <3> HIDE DEF r
    <3>3. QED
      BY <3>1, <3>2, RecordsSpare
  <2>4. ASSUME NEW s \in {"rechecking", "cancelled", "applying"}, Enters(p, s),
               Ends(p) \/ \E t \in {"apply", "wait", "claim"} : Goes(p, t)
        PROVE  Spares(p)
    <3>1. run'[p].stage \notin Engaged
      BY <1>1, <2>4, NotEngaged
    <3>2. QED
      BY <1>1, <2>1, <2>4, <3>1, EntersSpare
  <2>5. CASE Decide(p) \/ Wait(p)
    BY <2>2, <2>3, <2>5 DEF Decide, Wait
  <2>6. CASE Recheck(p)
    BY <2>4, <2>6 DEF Recheck
  <2>7. CASE Apply(p) \/ Withdrawn(p)
    BY <2>4, <2>7 DEF Apply, Withdrawn, Moves
  <2>8. QED
    BY <1>3, <2>5, <2>6, <2>7
<1>4. QED
  BY <1>2, <1>3

(* The claim, as long as it does not hold. *)
LEMMA ClaimsSpare ==
    ASSUME NInv, Bare, NEW p \in Lifecycles, applies' = applies,
           Claim(p) \/ AssertClaim(p) \/ Refused(p) \/ Finally(p)
    PROVE  Spares(p)
<1>1. NetworkTypeOK /\ run \in [Lifecycles -> Place] /\ applies \in Nat /\ claim.token \in Nat
  BY DEF NInv, NetworkTypeOK
<1>2. CASE Refused(p)
  BY <1>2, StopsSpare DEF Refused, Stands, Within
<1>3. CASE Claim(p)
  <2>1. run'[p].stage \in {"assert", "refused"}
    <3>1. CASE Claimable(mem[p].auth)
      BY <1>1, <1>3, <3>1, ClaimIs DEF Claim, Effect, Yields, Takes, Place
    <3>2. CASE ~Claimable(mem[p].auth)
      BY <1>1, <1>3, <3>2, Going DEF Claim, Stages
    <3>3. QED
      BY <3>1, <3>2
  <2>2. QED
    BY <1>3, <2>1, SilentSpares DEF Claim, Engaged
<1>4. CASE AssertClaim(p)
  <2>1. ~Holds(p)
    <3>1. Holds(p) => applies' = applies + 1
      BY <1>4 DEF AssertClaim
    <3>2. QED
      BY <1>1, <3>1
  <2>2. run' = [run EXCEPT ![p].stage = "refused", ![p].holds = 0]
    BY <1>4, <2>1 DEF AssertClaim
  <2>3. run'[p].stage = "refused"
    BY <1>1, <2>2 DEF Place
  <2>4. QED
    BY <1>4, <2>3, SilentSpares DEF AssertClaim, Engaged
<1>5. CASE Finally(p)
  <2>1. run[p].holds \in Nat /\ 0 \in Nat
    BY <1>1, PlaceOf
  <2>2. \E n \in Nat : run' = [run EXCEPT ![p] = Resting(n)]
    BY <1>1, <1>5, <2>1 DEF Finally
  <2>3. run'[p].stage \notin Engaged
    BY <1>1, <2>2, NotEngaged
  <2>4. QED
    BY <1>5, <2>3, SilentSpares DEF Finally
<1>6. QED
  BY <1>2, <1>3, <1>4, <1>5

(* The path, and who is told. *)
LEMMA PathsSpare ==
    ASSUME NInv, Bare, NEW p \in Lifecycles, Path(p) \/ Steer(p) \/ Ack(p) \/ PublishPath(p)
    PROVE  Spares(p)
<1>1. /\ NetworkTypeOK /\ {"steer", "tell"} \subseteq Stages \ Engaged
      /\ {"path_degraded", "verified", "path_reconciling", "acknowledging"} \subseteq Phases
      /\ run[p].stage \in Before \cup Within \cup {"ack", "tell"}
  BY DEF NInv, Stages, Engaged, Phases, Recoverable, Good, Path, Steer, Ack, PublishPath, Stands, Within
<1>2. mem[p] \in GovernanceRecord /\ Clean(mem[p])
  BY <1>1, Working DEF Bare
<1>3. CASE Degrades(p) /\ run[p].stage \in Within
  BY <1>1, <1>3, SettlesSpare DEF Degrades
<1>4. CASE Path(p)
  <2>1. run[p].stage \in Within
    BY <1>4 DEF Path, Stands, Within
  <2>2. ASSUME NEW e \in {"bad", "good"}, Goes(p, "steer"),
               Records(p, [mem[p] EXCEPT !.phase = "path_reconciling", !.evidence = e])
        PROVE  Spares(p)
    <3> DEFINE r == [mem[p] EXCEPT !.phase = "path_reconciling", !.evidence = e]
    <3>1. Records(p, r) /\ run'[p].stage \notin Engaged
      BY <1>1, <2>2, NotEngaged
    <3>2. r \in GovernanceRecord /\ Clean(r)
      BY <1>1, <1>2, CleanMore
    <3> HIDE DEF r
    <3>3. QED
      BY <3>1, <3>2, RecordsSpare
  <2>3. QED
    BY <1>3, <1>4, <2>1, <2>2 DEF Path
<1>5. CASE Steer(p)
  <2>1. run[p].stage \in Within
    BY <1>5 DEF Steer, Stands, Within
  <2>2. CASE Enters(p, "acknowledging") /\ Delivers(p, "verified")
    <3>1. run'[p].stage \notin Engaged
      BY <1>1, <2>2, NotEngaged
    <3>2. QED
      BY <1>1, <2>2, <3>1, EntersSpare
  <2>3. QED
    BY <1>3, <1>5, <2>1, <2>2, StopsSpare DEF Steer
<1>6. CASE Ack(p)
  <2>1. CASE Enters(p, run[p].goal) /\ Ends(p)
    <3>1. run'[p].stage \notin Engaged /\ run[p].goal \in Phases
      BY <1>1, <1>6, <2>1, NotEngaged, Goal DEF Ack, Stands
    <3>2. QED
      BY <1>1, <2>1, <3>1, EntersSpare
  <2>2. CASE /\ Silent \/ Records(p, [mem[p] EXCEPT !.acked = TRUE])
             /\ Goes(p, "tell") \/ Ends(p)
    <3> DEFINE r == [mem[p] EXCEPT !.acked = TRUE]
    <3>1. run'[p].stage \notin Engaged /\ (Silent \/ Records(p, r))
      BY <1>1, <2>2, NotEngaged
    <3>2. r \in GovernanceRecord /\ Clean(r)
      BY <1>1, <1>2, CleanMore
    <3> HIDE DEF r
    <3>3. QED
      BY <3>1, <3>2, RecordsSpare, SilentSpares DEF Silent
  <2>3. QED
    BY <1>6, <2>1, <2>2 DEF Ack
<1>7. CASE PublishPath(p)
  <2>1. run'[p].stage \notin Engaged /\ run[p].goal \in Phases
    BY <1>1, <1>7, NotEngaged, Goal DEF PublishPath, Stands
  <2>2. QED
    BY <1>1, <1>7, <2>1, EntersSpare, SilentSpares DEF PublishPath, Silent
<1>8. QED
  BY <1>4, <1>5, <1>6, <1>7

(* A recovery of what was never applied finds nothing to take up. *)
LEMMA JudgesSpare ==
    ASSUME NInv, Bare, NEW p \in Lifecycles, Judge(p) \/ Resume(p) \/ Concluded(p)
    PROVE  Spares(p)
<1>1. /\ NetworkTypeOK /\ run[p].stage \in Within /\ "resume" \in Stages \ Engaged
      /\ {"verified", "path_degraded", "manual_intervention", "ownership_conflict", "rolled_back",
          "cancelled", "applied"} \subseteq Phases
  BY DEF NInv, Stages, Engaged, Phases, Recoverable, Good, Terminal, Judge, Resume, Concluded, Stands,
         Within
<1>2. mem[p] \in GovernanceRecord /\ Clean(mem[p]) /\ world = "none"
  BY <1>1, Working DEF Bare
<1>3. CASE Judge(p)
  <2>1. CASE Silent /\ (Goes(p, "resume") \/ \E s \in {"verified", "path_degraded"} : Delivers(p, s))
    <3>1. run'[p].stage \notin Engaged
      BY <1>1, <2>1, NotEngaged
    <3>2. QED
      BY <2>1, <3>1, SilentSpares DEF Silent
  <2>2. CASE \E s \in {"manual_intervention", "ownership_conflict"} : Settles(p, s)
    BY <1>1, <2>2, SettlesSpare
  <2>3. QED
    BY <1>1, <1>3, <2>1, <2>2, StopsSpare DEF Judge
<1>4. CASE Resume(p)
  <2>1. Remembered = {"failed"}
    BY <1>2 DEF Remembered
  <2>2. CASE Goes(p, "resume") /\ Records(p, [mem[p] EXCEPT !.phase = "applied", !.receipt = "failed"])
    <3> DEFINE r == [mem[p] EXCEPT !.phase = "applied", !.receipt = "failed"]
    <3>1. Records(p, r) /\ run'[p].stage \notin Engaged
      BY <1>1, <2>2, NotEngaged
    <3>2. r \in GovernanceRecord /\ Clean(r)
      BY <1>1, <1>2, CleanMore
    <3> HIDE DEF r
    <3>3. QED
      BY <3>1, <3>2, RecordsSpare
  <2>3. QED
    BY <1>1, <1>2, <1>4, <2>1, <2>2, StopsSpare DEF Resume
<1>5. CASE Concluded(p)
  BY <1>1, <1>5, SettlesSpare DEF Concluded
<1>6. QED
  BY <1>3, <1>4, <1>5

(* What is cut off was not at the provider. *)
LEMMA BreaksSpare ==
    ASSUME NInv, Bare, NEW p \in Lifecycles, Raises(p) \/ Dies(p)
    PROVE  Spares(p)
<1>1. /\ NetworkTypeOK /\ 0 \in Nat /\ run \in [Lifecycles -> Place] /\ run[p].holds \in Nat
      /\ mem \in [Lifecycles -> GovernanceRecord \cup {Nothing}]
  BY PlaceOf DEF NInv, NetworkTypeOK
<1>2. world' = world /\ row' = row
  BY DEF Raises, Dies, CutOff, Stands, Bare, Engaged
<1>3. \E n \in Nat : run' = [run EXCEPT ![p] = Resting(n)]
  BY <1>1 DEF Raises, Dies
<1>4. run'[p].stage \notin Engaged
  BY <1>1, <1>3, NotEngaged
<1>5. \A q \in Lifecycles : Clean(mem'[q])
  BY <1>1 DEF Raises, Dies, Bare, Clean
<1>6. QED
  BY <1>2, <1>4, <1>5 DEF Spares, Bare

(* What needs the provider to have been asked. *)
LEMMA Unreachable ==
    ASSUME NInv, Bare, NEW p \in Lifecycles
    PROVE  ~(\/ ApplyReturns(p) \/ ApplyRaises(p) \/ Applied(p) \/ Verify(p) \/ Proved(p) \/ Undo(p))
<1>1. run[p].stage \notin Engaged
  BY DEF Bare
<1>2. ~(Stands(p, "resume") /\ mem[p].receipt = "applied")
  <2>1. SUFFICES ASSUME Stands(p, "resume") PROVE mem[p].receipt # "applied"
    OBVIOUS
  <2>2. run[p].stage \in Within
    BY <2>1 DEF Stands, Within
  <2>3. mem[p] # Nothing
    BY <2>2, Working
  <2>4. QED
    BY <2>3 DEF Bare, Clean
<1>3. QED
  BY <1>1, <1>2 DEF ApplyReturns, ApplyRaises, Applied, Verify, Proved, Undo, Stands, Engaged

LEMMA StepSpares ==
    ASSUME NInv, Bare, NEW p \in Lifecycles, LifecycleStep(p), applies' = applies
    PROVE  Spares(p)
<1>1. CASE \/ FirstTime(p) \/ Look(p) \/ Again(p) \/ PathAgain(p) \/ RetrySinks(p)
           \/ Recover(p) \/ RecoverFails(p)
  BY <1>1, BeginsSpare
<1>2. CASE Plan(p) \/ Decide(p) \/ Recheck(p) \/ Wait(p) \/ Apply(p) \/ Withdrawn(p)
  BY <1>2, PreparesSpare
<1>3. CASE Claim(p) \/ AssertClaim(p) \/ Refused(p) \/ Finally(p)
  BY <1>3, ClaimsSpare
<1>4. CASE Path(p) \/ Steer(p) \/ Ack(p) \/ PublishPath(p)
  BY <1>4, PathsSpare
<1>5. CASE Judge(p) \/ Resume(p) \/ Concluded(p)
  BY <1>5, JudgesSpare
<1>6. CASE Raises(p) \/ Dies(p)
  BY <1>6, BreaksSpare
<1>7. QED
  BY <1>1, <1>2, <1>3, <1>4, <1>5, <1>6, Unreachable DEF LifecycleStep

LEMMA UnaskedInit == NetworkInit => Unasked
<1> SUFFICES ASSUME NetworkInit PROVE Bare
  BY DEF Unasked
<1>1. \A p \in Lifecycles : run[p].stage = "idle" /\ mem[p] = Nothing
  BY RestingIs DEF NetworkInit
<1>2. QED
  BY <1>1 DEF NetworkInit, Bare, Clean, Engaged

LEMMA UnaskedStep == NInv /\ Unasked /\ [NetworkNext]_netVars => Unasked'
<1> SUFFICES ASSUME NInv, Unasked, [NetworkNext]_netVars, applies' = 0 PROVE Bare'
  BY DEF Unasked
<1>1. CASE UNCHANGED netVars
  BY <1>1 DEF netVars, Unasked, Bare
<1>2. CASE NetworkNext
  <2>1. ASSUME NEW p \in Lifecycles, LifecycleStep(p) PROVE Bare'
    <3>1. Effect(p) /\ Turned(p)
      BY <2>1, StepIs DEF Effect
    <3>2. applies' = applies
      <4>1. applies' = applies \/ applies = 0
        BY <3>1 DEF Effect, NInv, Unapplied, Gate
      <4>2. QED
        BY <4>1
    <3>3. Bare
      BY <3>2 DEF Unasked
    <3>4. Spares(p)
      BY <2>1, <3>2, <3>3, StepSpares
    <3>5. QED
      BY <3>1, <3>3, <3>4 DEF Spares, Turned, Bare
  <2>2. ASSUME NEW p \in Lifecycles, RenewalFails(p) PROVE Bare'
    <3>1. Silent /\ \A q \in Lifecycles : run'[q].stage = run[q].stage
      BY <2>2, RenewalFailsKeeps
    <3>2. QED
      BY <3>1 DEF Silent, Unasked, Bare
  <2>3. CASE LeaseEnds
    BY <2>3 DEF LeaseEnds, Unasked, Bare
  <2>4. ASSUME NEW g \in Grants, Approve(g) \/ GrantEnds(g) \/ Revoke(g) PROVE Bare'
    BY <2>4 DEF Approve, GrantEnds, Revoke, Unasked, Bare
  <2>5. QED
    BY <1>2, <2>1, <2>2, <2>3, <2>4, StepsAre
<1>3. QED
  BY <1>1, <1>2

-----------------------------------------------------------------------------
(* The promise is kept                                                     *)

(* What was done to the provider is never as if it had not been. *)
Moved == world' \in {world, "partly", "applied", "undone"}

LEMMA WorldMoves ==
    ASSUME NInv, NEW p \in Lifecycles, LifecycleStep(p)
    PROVE  Moved
<1>1. CASE \/ FirstTime(p) \/ Look(p) \/ Again(p) \/ PathAgain(p) \/ RetrySinks(p)
           \/ Recover(p) \/ RecoverFails(p)
  BY <1>1 DEF FirstTime, Look, Again, PathAgain, RetrySinks, Recover, RecoverFails, Records, Silent,
              Moved
<1>2. CASE \/ Plan(p) \/ Decide(p) \/ Recheck(p) \/ Wait(p) \/ Apply(p) \/ Withdrawn(p)
           \/ Claim(p) \/ AssertClaim(p) \/ Refused(p)
  BY <1>2 DEF Plan, Decide, Recheck, Wait, Waits, Apply, Withdrawn, Claim, AssertClaim, Refused,
              Stops, Moves, Enters, Records, Moved
<1>3. CASE ApplyReturns(p) \/ ApplyRaises(p) \/ Undo(p)
  BY <1>3 DEF ApplyReturns, ApplyRaises, Undo, Touched, Moved
<1>4. CASE Applied(p) \/ Verify(p) \/ Proved(p)
  BY <1>4 DEF Applied, Verify, Proved, Stops, Moves, Enters, Records, Moved
<1>5. CASE Path(p) \/ Steer(p) \/ Ack(p) \/ PublishPath(p) \/ Finally(p)
  BY <1>5 DEF Path, Degrades, Steer, Ack, PublishPath, Finally, Stops, Settles, Enters, Records,
              Silent, Moved
<1>6. CASE Judge(p) \/ Resume(p) \/ Concluded(p)
  BY <1>6 DEF Judge, Resume, Concluded, Stops, Settles, Enters, Records, Silent, Moved
<1>7. CASE Raises(p) \/ Dies(p)
  BY <1>7 DEF Raises, Dies, CutOff, Touched, Moved
<1>8. QED
  BY <1>1, <1>2, <1>3, <1>4, <1>5, <1>6, <1>7 DEF LifecycleStep

(* Only who has asserted the claim asks. *)
LEMMA AskingIs ==
    ASSUME NInv, NEW p \in Lifecycles, LifecycleStep(p), applies' # applies
    PROVE  AssertClaim(p) /\ Holds(p)
<1>1. run[p].stage = "assert"
  BY StepIs DEF Effect
<1>2. AssertClaim(p) \/ Dies(p) \/ Raises(p)
  BY <1>1 DEF LifecycleStep, FirstTime, Look, Again, PathAgain, RetrySinks, Recover, RecoverFails,
              MayBegin, Plan, Decide, Recheck, Wait, Apply, Withdrawn, Claim, Refused, ApplyReturns,
              ApplyRaises, Applied, Verify, Proved, Undo, Path, Steer, Ack, PublishPath, Finally,
              Judge, Resume, Concluded, Stands
<1>3. QED
  BY <1>2 DEF AssertClaim, Dies, Raises

(* How far the journal has come when it is written. *)
LEMMA CourseIs ==
    ASSUME NInv, NEW p \in Lifecycles, Effect(p)
    PROVE  /\ Course \in {"open", "working", "over"} /\ Course' \in {"open", "working", "over"}
           /\ Course # "open" => Course' # "open"
           /\ Course = "over" => Course' = "over"
           /\ Course # "open" <=> row # Nothing /\ row.phase \notin Pre
<1>1. Pre = Early \cup {"awaiting_authorization"} /\ \A s \in Terminal : s \notin Pre
  BY PhasesAre DEF Pre
<1>2. Course # "open" <=> row # Nothing /\ row.phase \notin Pre
  BY <1>1 DEF Course
<1>3. Course' # "open" <=> row' # Nothing /\ row'.phase \notin Pre
  BY <1>1 DEF Course
<1>4. Course = "over" <=> row # Nothing /\ row.phase \in Terminal
  BY <1>1 DEF Course, Pre
<1>5. Course' = "over" <=> row' # Nothing /\ row'.phase \in Terminal
  BY <1>1 DEF Course, Pre
<1>6. Course \in {"open", "working", "over"} /\ Course' \in {"open", "working", "over"}
  BY DEF Course
<1>7. row' = row \/ (row' # Nothing /\ (row # Nothing => Follows(row.phase, row'.phase)))
  BY FieldsOf DEF Effect, Wrote, Kept, Glanced, Forgot
<1>8. QED
  BY <1>2, <1>3, <1>4, <1>5, <1>6, <1>7 DEF Follows

(* Who is at work holds the claim, and is alone. *)
LEMMA OneWriter ==
    ASSUME NInv, Leased, NEW p \in Writing
    PROVE  /\ \A q \in Writing : q = p
           /\ claim.state = "active" /\ claim.of = mem[p].auth
<1>1. /\ \A q \in Writing : q \in Lifecycles /\ run[q].holds = claim.token
      /\ claim.state = "active" /\ claim.of = mem[p].auth /\ claim.token \in Nat
      /\ claim.token >= 1
  BY DEF Writing, Leased, NInv, NetworkTypeOK
<1>2. claim.token # 0
  BY <1>1
<1>3. QED
  BY <1>1, <1>2 DEF Leased

(* What a process works under stays, or its work is over. *)
LEMMA HandIs ==
    ASSUME NInv, Leased, NEW p \in Lifecycles, Effect(p), applies # 0
    PROVE  Hand' \in {Hand, {}}
<1>1. run'[p].stage # "write" /\ \A q \in Lifecycles \ {p} : run'[q] = run[q]
  BY DEF Effect, Turned, Yields, Takes, NInv, Unapplied, Gate
<1>2. Writing' = Writing \ {p}
  BY <1>1 DEF Writing
<1>3. CASE p \in Writing
  <2>1. Writing' = {}
    BY <1>2, <1>3, OneWriter
  <2>2. QED
    BY <2>1 DEF Hand
<1>4. CASE p \notin Writing
  <2>1. Writing' = Writing
    BY <1>2, <1>4
  <2>2. ASSUME NEW q \in Writing PROVE mem'[q].auth = mem[q].auth
    <3>1. q \in Lifecycles \ {p} /\ mem[q] # Nothing
      BY <1>4, <2>2 DEF Writing, NInv, Fitting, Fit, Within
    <3>2. QED
      BY <3>1 DEF Effect, Wrote, Kept, Glanced, Forgot, Remains
  <2>3. Hand' = Hand
    BY <2>1, <2>2 DEF Hand
  <2>4. QED
    BY <2>3
<1>5. QED
  BY <1>3, <1>4

LEMMA RevisionInit == NetworkInit => R!Init
<1> SUFFICES ASSUME NetworkInit PROVE R!Init
  OBVIOUS
<1>1. Writing = {}
  BY RestingIs DEF NetworkInit, Writing
<1>2. Course = "open" /\ Hand = {} /\ Asked = FALSE
  BY <1>1 DEF NetworkInit, Course, Hand, Asked
<1>3. QED
  BY <1>2 DEF NetworkInit, R!Init

(* Who asks does so after the journal, and under a grant that is active. *)
LEMMA AskingKeeps ==
    ASSUME NInv, Leased, Unasked, NEW p \in Lifecycles, AssertClaim(p), Holds(p)
    PROVE  R!Next
<1>1. /\ run[p].stage = "assert" /\ run \in [Lifecycles -> Place]
      /\ run' = [run EXCEPT ![p].stage = "write", ![p].claimed = TRUE]
      /\ applies' = applies + 1 /\ UNCHANGED <<grants, row, mem, world>>
  BY DEF AssertClaim, Stands, NInv, NetworkTypeOK
<1>2. applies = 0 /\ row # Nothing /\ row.phase \notin Pre
  BY <1>1 DEF NInv, Unapplied, Gate
<1>3. Course # "open" /\ Course' = Course
  BY <1>1, <1>2 DEF Course, Pre
<1>4. Asked = FALSE /\ Asked' = TRUE
  BY <1>1, <1>2 DEF Asked
<1>5. mem[p].auth \in Grants /\ grants[mem[p].auth] = "active"
  <2>1. claim.of = mem[p].auth /\ claim.of \in Grants \cup {Nothing}
    BY <1>1 DEF Leased, NInv, NetworkTypeOK
  <2>2. QED
    BY <2>1 DEF Holds, Active
<1>6. Hand' = {mem[p].auth}
  <2>1. \A q \in Lifecycles : run[q].stage # "write"
    BY <1>2 DEF Unasked, Bare, Engaged
  <2>2. run'[p].stage = "write" /\ \A q \in Lifecycles \ {p} : run'[q] = run[q]
    BY <1>1 DEF Place
  <2>3. Writing' = {p}
    BY <2>1, <2>2 DEF Writing
  <2>4. QED
    BY <1>1, <2>3 DEF Hand
<1>7. R!Ask(mem[p].auth)
  BY <1>1, <1>3, <1>4, <1>5, <1>6 DEF R!Ask
<1>8. QED
  BY <1>5, <1>7 DEF R!Next

LEMMA ProcessKeeps ==
    ASSUME NInv, Leased, Unasked, Unasked', NEW p \in Lifecycles, LifecycleStep(p)
    PROVE  [R!Next]_(R!vars)
<1>1. Effect(p) /\ Moved /\ grants' = grants /\ applies \in Nat /\ applies' \in Nat
  BY StepIs, WorldMoves DEF Effect, NInv, NetworkTypeOK
<1>2. CASE applies' # applies
  BY <1>2, AskingIs, AskingKeeps
<1>3. CASE applies' = applies /\ applies = 0
  <2>1. Bare /\ Asked = FALSE /\ Asked' = FALSE
    BY <1>3 DEF Unasked, Asked
  <2>2. Bare'
    BY <1>3 DEF Unasked
  <2>3. world' = world /\ Writing = {} /\ Writing' = {}
    BY <2>1, <2>2 DEF Bare, Engaged, Writing
  <2>4. Hand' = Hand
    BY <2>3 DEF Hand
  <2>5. CASE Course' = Course
    BY <1>1, <2>1, <2>3, <2>4, <2>5 DEF R!vars
  <2>6. CASE Course' # Course
    <3>1. (Course = "open" /\ Course' \in {"working", "over"}) \/ (Course = "working" /\ Course' = "over")
      BY <1>1, <2>6, CourseIs
    <3>2. R!Commit \/ R!GiveUp
      BY <1>1, <2>1, <2>3, <2>4, <3>1 DEF R!Commit, R!GiveUp
    <3>3. QED
      BY <3>2 DEF R!Next
  <2>7. QED
    BY <2>5, <2>6
<1>4. CASE applies' = applies /\ applies # 0
  <2>1. Asked = TRUE /\ Asked' = TRUE
    BY <1>4 DEF Asked
  <2>2. Course # "open" /\ Course' \in {Course, "over"}
    <3>1. row # Nothing /\ row.phase \notin Pre
      BY <1>4 DEF NInv, Unapplied
    <3>2. QED
      BY <1>1, <3>1, CourseIs
  <2>3. Hand' \in {Hand, {}}
    BY <1>1, <1>4, HandIs
  <2>4. R!Act
    BY <1>1, <2>1, <2>2, <2>3 DEF R!Act, Moved
  <2>5. QED
    BY <2>4 DEF R!Next
<1>5. QED
  BY <1>2, <1>3, <1>4

LEMMA OwnerKeeps ==
    ASSUME NInv, Leased, NEW g \in Grants, Approve(g) \/ GrantEnds(g) \/ Revoke(g)
    PROVE  R!Next
<1>1. UNCHANGED <<claim, row, mem, run, world, applies>>
  BY DEF Approve, GrantEnds, Revoke
<1>2. Writing' = Writing
  BY <1>1 DEF Writing
<1>3. Course' = Course /\ Hand' = Hand /\ Asked' = Asked
  BY <1>1, <1>2 DEF Course, Hand, Asked
<1>4. CASE Approve(g)
  <2>1. R!Approve(g)
    BY <1>1, <1>3, <1>4 DEF Approve, R!Approve, R!Says
  <2>2. QED
    BY <2>1 DEF R!Next
<1>5. CASE GrantEnds(g)
  <2>1. R!Expire(g)
    BY <1>1, <1>3, <1>5 DEF GrantEnds, R!Expire, R!Says
  <2>2. QED
    BY <2>1 DEF R!Next
<1>6. CASE Revoke(g)
  <2>1. g \notin Hand
    <3>1. SUFFICES ASSUME NEW p \in Writing, mem[p].auth = g PROVE FALSE
      BY DEF Hand
    <3>2. QED
      BY <1>6, <3>1, OneWriter DEF Revoke
  <2>2. R!Revoke(g)
    BY <1>1, <1>3, <1>6, <2>1 DEF Revoke, R!Revoke, R!Says
  <2>3. QED
    BY <2>2 DEF R!Next
<1>7. QED
  BY <1>4, <1>5, <1>6

LEMMA StepPromised ==
    NInv /\ Leased /\ Unasked /\ [NetworkNext]_netVars /\ Unasked' => [R!Next]_(R!vars)
<1> SUFFICES ASSUME NInv, Leased, Unasked, [NetworkNext]_netVars, Unasked'
             PROVE  [R!Next]_(R!vars)
  OBVIOUS
<1>1. ASSUME UNCHANGED <<grants, row, mem, world, applies>>,
             \A q \in Lifecycles : run'[q].stage = run[q].stage
      PROVE  UNCHANGED R!vars
  <2>1. Writing' = Writing
    BY <1>1 DEF Writing
  <2>2. Course' = Course /\ Hand' = Hand /\ Asked' = Asked
    BY <1>1, <2>1 DEF Course, Hand, Asked
  <2>3. QED
    BY <1>1, <2>2 DEF R!vars
<1>2. CASE UNCHANGED netVars
  BY <1>1, <1>2 DEF netVars
<1>3. CASE NetworkNext
  <2>1. ASSUME NEW p \in Lifecycles, LifecycleStep(p) PROVE [R!Next]_(R!vars)
    BY <2>1, ProcessKeeps
  <2>2. ASSUME NEW p \in Lifecycles, RenewalFails(p) PROVE UNCHANGED R!vars
    BY <1>1, <2>2, RenewalFailsKeeps DEF Silent
  <2>3. CASE LeaseEnds
    BY <1>1, <2>3 DEF LeaseEnds
  <2>4. ASSUME NEW g \in Grants, Approve(g) \/ GrantEnds(g) \/ Revoke(g) PROVE R!Next
    BY <2>4, OwnerKeeps
  <2>5. QED
    BY <1>3, <2>1, <2>2, <2>3, <2>4, StepsAre
<1>4. QED
  BY <1>2, <1>3

(* network/governance.py keeps what RevisionPromise says, for any number of *)
(* processes and grants: the provider is asked once, after the journal and  *)
(* under a grant that is active; the grant stays while it is at work; and   *)
(* what is in force was asked for, whoever dies, is late or recovers.       *)
THEOREM RevisionKeepsPromise == NetworkSpec => RevisionKept
<1>1. NetworkInit => NInv /\ Leased /\ Unasked /\ R!Init
  BY NInvInit, LeasedInit, UnaskedInit, RevisionInit
<1>2. NInv /\ Leased /\ Unasked /\ [NetworkNext]_netVars =>
         (NInv /\ Leased /\ Unasked)' /\ [R!Next]_(R!vars)
  BY NInvStep, LeasedStep, UnaskedStep, StepPromised
<1>3. QED
  BY <1>1, <1>2, PTL DEF NetworkSpec, RevisionKept, R!Spec

(* network/governance.py journals before it writes (_apply_and_verify): a   *)
(* provider at work, or with anything in force, was asked, and the table no *)
(* longer says that the revision is planned or waits for the owner, so that *)
(* whoever reads an early phase knows that nothing was applied.             *)
THEOREM JournalledFirst ==
    NetworkSpec => [](world # "none" \/ Writing # {} => applies # 0 /\ Course # "open")
<1>1. NetworkInit => NInv /\ Unasked
  BY NInvInit, UnaskedInit
<1>2. NInv /\ Unasked /\ [NetworkNext]_netVars => (NInv /\ Unasked)'
  BY NInvStep, UnaskedStep
<1>3. NInv /\ Unasked => (world # "none" \/ Writing # {} => applies # 0 /\ Course # "open")
  <2> SUFFICES ASSUME NInv, Unasked, world # "none" \/ Writing # {}
               PROVE  applies # 0 /\ Course # "open"
    OBVIOUS
  <2>1. applies # 0
    BY DEF Unasked, Bare, Engaged, Writing
  <2>2. row # Nothing /\ row.phase \notin Pre
    BY <2>1 DEF NInv, Unapplied
  <2>3. QED
    BY <2>1, <2>2 DEF Course, Pre
<1>4. QED
  BY <1>1, <1>2, <1>3, PTL DEF NetworkSpec

=============================================================================
