-------------------------- MODULE NetworkGovernance --------------------------
(***************************************************************************)
(* How one revision of a managed network is put in force on this computer   *)
(* (network/governance.py): the owner's grants, the claim that one writer   *)
(* holds, the record with its journal, and the lifecycle that goes from the *)
(* plan to what is acknowledged, or back, and recovers after a crash.       *)
(*                                                                         *)
(* Every process has a lifecycle and a copy of the record, and they share   *)
(* the tables in governance.sqlite3.  A step of a process is one write of   *)
(* the journal, with what was awaited before it and what it reads after it; *)
(* writes that nothing can tell apart are one step (observing and planning, *)
(* the attempt of a refresh and its first phase, an acknowledgement that    *)
(* failed and the phase it ends in).                                       *)
(*                                                                         *)
(* Abstractions.  One network, node and revision.  Scopes match.  A lease   *)
(* runs out or not: no clock, and so whether a refresh is too early is a    *)
(* choice.  Whether the controller has gone direct is a choice at each look.*)
(* The provider answers for what is in force, and what it may answer beside *)
(* that is a choice.  The sinks for path statuses and the kill switch,      *)
(* which has records of its own, are left out.  The table keeps the         *)
(* provider's answers and never reads them back; a copy that is not the     *)
(* tail keeps what its call still uses.                                    *)
(***************************************************************************)
EXTENDS Integers

CONSTANTS
    Lifecycles,     \* processes that have governance.sqlite3 open
    Grants,         \* authorizations, in the order of their ids
    Nothing,        \* no record, no grant
    Trouble         \* what may happen in a behaviour: records of bounds

\* Which processes run, and how often they die, are paused while a lease is
\* renewed, and fail to write or are cancelled; which grants the owner approves.
Bounds == [who : SUBSET Lifecycles, deaths : Nat, pauses : Nat, faults : Nat,
           approvals : SUBSET Grants]

ASSUME NetworkAssumption ==
    /\ Grants \subseteq Nat
    /\ Nothing \notin Grants
    /\ Trouble \subseteq Bounds

VARIABLES
    grants,     \* network_authorization_grants
    claim,      \* the row in network_apply_claims
    row,        \* the row in network_governance, with its path status
    mem,        \* _records of each process
    behind,     \* processes whose copy is not the tail of the journal
    run,        \* where each lifecycle is
    world,      \* what the provider has in force
    applies,    \* how often provider.apply was called
    may         \* how much may still go wrong

netVars == <<grants, claim, row, mem, behind, run, world, applies, may>>

-----------------------------------------------------------------------------
(* Phases                                                                  *)

Early == {"planning", "authorized", "rechecking"}
Recoverable ==
    Early \cup {"applying", "applied", "verifying", "provider_verified", "path_verifying",
                "path_reconciling", "rolling_back", "acknowledging", "recovering"}
Good == {"verified", "path_degraded"}
Terminal == {"rolled_back", "ownership_conflict", "manual_intervention", "cancelled",
             "recovery_required"}
Phases == Recoverable \cup Good \cup Terminal \cup {"awaiting_authorization"}

Receipts == {"none", "applied", "failed", "rolled_back"}

GovernanceRecord ==
    [phase : Phases, auth : Grants \cup {Nothing}, receipt : Receipts,
     verified : {"none", "yes", "no"}, evidence : {"none", "bad", "good"},
     tried : BOOLEAN, acked : BOOLEAN]

ASSUME NothingIsNoRecord == Nothing \notin GovernanceRecord

FreshRecord ==
    [phase |-> "planning", auth |-> Nothing, receipt |-> "none", verified |-> "none",
     evidence |-> "none", tried |-> FALSE, acked |-> FALSE]

Stages == {"idle", "plan", "decide", "recheck", "apply", "claim", "assert", "write",
           "applied", "verify", "proved", "undo", "path", "steer", "ack", "tell",
           "judge", "resume", "refused", "wait", "finally"}

Origins == {"early", "refresh", "acknowledging", "other"}

(* was: what kind of phase a recovery began with; goal: the phase that a    *)
(* delivery ends in; claimed: apply is under way and its lease is renewed;  *)
(* invalid: a renewal failed; holds: the claim in _local_claims.           *)
Place == [stage : Stages, was : Origins \cup {Nothing}, goal : Phases \cup {Nothing},
          claimed : BOOLEAN, invalid : BOOLEAN, holds : Nat]

Resting(t) == [stage |-> "idle", was |-> Nothing, goal |-> Nothing, claimed |-> FALSE,
               invalid |-> FALSE, holds |-> t]

-----------------------------------------------------------------------------
(* The store                                                               *)

Writing == {p \in Lifecycles : run[p].stage = "write"}

Stored(r) == [r EXCEPT !.receipt = "none", !.verified = "none"]
Old(r) == [FreshRecord EXCEPT !.phase = r.phase, !.auth = r.auth, !.acked = r.acked]

(* As CanPut would be if a plan made anew replaced the record. *)
CanPutAnew(p) == p \notin behind

(* A journal step is written on top of the tail it was made from, the first *)
(* one of a record where there is none.                                    *)
CanPut(p) == IF run[p].stage = "plan" THEN row = Nothing ELSE p \notin behind

Puts(p, r) ==
    /\ CanPut(p)
    /\ row' = Stored(r)
    /\ mem' = [q \in Lifecycles |-> IF q = p THEN r
                                  ELSE IF mem[q] = Nothing THEN Nothing ELSE Old(mem[q])]
    /\ behind' = {q \in Lifecycles \ {p} : mem[q] # Nothing}

(* A record that is read again has lost what the provider answered; the     *)
(* evidence is in the path status, which only some callers read.            *)
Known(p) ==
    IF mem[p] = Nothing
    THEN [row EXCEPT !.evidence = "none"]
    ELSE mem[p]
Restored(p) ==
    [Known(p) EXCEPT !.evidence = IF @ = "none" THEN row.evidence ELSE @]

Active(g) == g # Nothing /\ grants[g] = "active"

(* The grant the policy finds, if there is one: the first that is active. *)
Match == {g \in Grants : Active(g) /\ \A h \in Grants : Active(h) => g <= h}

(* assert_apply_claim *)
Holds(p) ==
    /\ claim.state = "active" /\ claim.token = run[p].holds /\ claim.fresh
    /\ Active(claim.of)

Fenced(c, t) == IF c.state = "active" /\ c.token = t THEN [c EXCEPT !.state = "uncertain"] ELSE c
Resolved(c) == IF c.state = "uncertain" THEN [c EXCEPT !.state = "resolved"] ELSE c
Released(c, t) == IF c.state = "active" /\ c.token = t THEN [c EXCEPT !.state = "released"] ELSE c

(* has_active_apply_claim, of somebody else *)
Foreign(p) == claim.state = "active" /\ claim.fresh /\ run[p].holds = 0

(* The journal refuses a write, or cannot be written. *)
Unwritten(p) ==
    IF CanPut(p) THEN may.faults > 0 /\ may' = [may EXCEPT !.faults = @ - 1]
    ELSE UNCHANGED may

Stands(p, s) == run[p].stage = s
Goes(p, s) == run' = [run EXCEPT ![p].stage = s]
Delivers(p, s) == run' = [run EXCEPT ![p].stage = "ack", ![p].goal = s]

(* The call is over: the claim is dealt with last. *)
Ends(p) ==
    run' = [run EXCEPT ![p] = IF @.claimed THEN [@ EXCEPT !.stage = "finally"]
                              ELSE Resting(@.holds)]

(* A step that writes the record and touches neither the claim nor the      *)
(* provider.                                                               *)
Records(p, r) ==
    Puts(p, r) /\ UNCHANGED <<grants, claim, world, applies, may>>
Enters(p, s) == Records(p, [mem[p] EXCEPT !.phase = s])
Moves(p, s, stage) == Enters(p, s) /\ Goes(p, stage)
Stops(p) == Enters(p, "recovery_required") /\ Ends(p)
Settles(p, s) == Enters(p, s) /\ Delivers(p, s)

(* A step that only goes on. *)
Silent == UNCHANGED <<grants, claim, row, mem, behind, world, applies, may>>

-----------------------------------------------------------------------------
(* A call begins                                                           *)

(* reconcile and refresh_path refuse a copy that is not the tail. *)
MayBegin(p) == Stands(p, "idle") /\ row # Nothing /\ p \notin behind

(* Nothing is known of the revision; or it was cancelled or rolled back, and *)
(* then the plan is made anew and its first step refused by the journal.    *)
FirstTime(p) ==
    /\ Stands(p, "idle")
    /\ \/ row = Nothing /\ mem[p] = Nothing
       \/ mem[p] # Nothing /\ p \notin behind /\ mem[p].phase \in {"rolled_back", "cancelled"}
    /\ Goes(p, "plan")
    /\ Silent

(* The record is read and returned as it is. *)
Look(p) ==
    /\ MayBegin(p) /\ mem[p] = Nothing
    /\ mem' = [mem EXCEPT ![p] = Known(p)]
    /\ UNCHANGED <<grants, claim, row, behind, run, world, applies, may>>

(* A record that waits for the owner is looked at again. *)
Again(p) ==
    /\ MayBegin(p) /\ Known(p).phase = "awaiting_authorization" /\ ~Foreign(p)
    /\ mem' = [mem EXCEPT ![p] = Known(p)]
    /\ Goes(p, "decide")
    /\ UNCHANGED <<grants, claim, row, behind, world, applies, may>>

(* The path is verified again: by refresh_path, which is limited, or by     *)
(* reconcile while the controller has not gone direct.                     *)
PathAgain(p) ==
    /\ MayBegin(p)
    /\ LET r == Restored(p)
       IN /\ r.phase \in Good
          /\ \/ /\ r.verified # "no"
                /\ Records(p, [r EXCEPT !.phase = "path_verifying", !.tried = TRUE])
             \/ /\ r.verified = "yes" /\ r.evidence = "good"
                /\ Records(p, [r EXCEPT !.phase = "path_verifying"])
    /\ Goes(p, "path")

(* What could not be delivered is delivered again: the acknowledgement, or a *)
(* path status.                                                            *)
RetrySinks(p) ==
    /\ MayBegin(p)
    /\ LET r == Restored(p)
       IN /\ r.phase \in Good
          /\ Records(p, [r EXCEPT !.phase = "acknowledging"])
          /\ Delivers(p, r.phase)

Kind(r) ==
    CASE r.phase \in Early -> "early"
      [] r.phase = "acknowledging" -> "acknowledging"
      [] r.phase \in {"path_verifying", "path_reconciling"} /\ r.tried -> "refresh"
      [] OTHER -> "other"

(* _recover_record, called by reconcile (which reads the path status) or by *)
(* recover (which does not).  It fences the claim of its own lifecycle and  *)
(* calls an uncertain one resolved.                                        *)
Recover(p) ==
    /\ MayBegin(p) /\ ~Foreign(p)
    /\ \E r \in {Known(p), Restored(p)} :
         /\ r.phase \in Recoverable
         /\ Puts(p, [r EXCEPT !.phase = "recovering"])
         /\ run' = [run EXCEPT ![p] = [Resting(0) EXCEPT !.stage = "judge", !.was = Kind(r)]]
    /\ claim' = Resolved(Fenced(claim, run[p].holds))
    /\ UNCHANGED <<grants, world, applies, may>>

(* The claim is dealt with and the first write fails; that of recover is    *)
(* refused when it takes its own copy, which is not the tail.              *)
RecoverFails(p) ==
    /\ Stands(p, "idle") /\ row # Nothing /\ row.phase \in Recoverable /\ ~Foreign(p)
    /\ Unwritten(p)
    /\ claim' = Resolved(Fenced(claim, run[p].holds))
    /\ run' = [run EXCEPT ![p] = Resting(0)]
    /\ UNCHANGED <<grants, row, mem, behind, world, applies>>

-----------------------------------------------------------------------------
(* Up to the write                                                         *)

(* observe and plan, and the first two phases. *)
Plan(p) == Stands(p, "plan") /\ Records(p, FreshRecord) /\ Goes(p, "decide")

Waits(p) ==
    /\ Records(p, [mem[p] EXCEPT !.phase = "awaiting_authorization", !.auth = Nothing])
    /\ Delivers(p, "awaiting_authorization")

Decide(p) ==
    /\ Stands(p, "decide")
    /\ \/ Match = {} /\ Waits(p)
       \/ /\ \E g \in Match :
               Records(p, [mem[p] EXCEPT !.phase = "authorized", !.auth = g, !.acked = FALSE])
          /\ Goes(p, "recheck")

(* The authorization is read a second time, unless the caller has given up. *)
Recheck(p) ==
    /\ Stands(p, "recheck")
    /\ \/ Enters(p, "rechecking") /\ Goes(p, IF mem[p].auth \in Match THEN "apply" ELSE "wait")
       \/ Enters(p, "cancelled") /\ Ends(p)

Wait(p) == Stands(p, "wait") /\ Waits(p)

Apply(p) == Stands(p, "apply") /\ Moves(p, "applying", "claim")

(* The caller has given up before the claim. *)
Withdrawn(p) == Stands(p, "claim") /\ Enters(p, "cancelled") /\ Ends(p)

(* claim_apply takes the first claim of the revision, or one of the same    *)
(* authorization that was released.                                        *)
Claimable(g) ==
    Active(g) /\ (claim.state = "none" \/ (claim.state = "released" /\ claim.of = g))

Claim(p) ==
    /\ Stands(p, "claim")
    /\ IF Claimable(mem[p].auth)
       THEN /\ claim' = [state |-> "active", token |-> claim.token + 1, fresh |-> TRUE,
                         of |-> mem[p].auth]
            /\ run' = [run EXCEPT ![p].stage = "assert", ![p].holds = claim.token + 1]
       ELSE Goes(p, "refused") /\ UNCHANGED claim
    /\ UNCHANGED <<grants, row, mem, behind, world, applies, may>>

(* assert_apply_claim, and provider.apply is called.  A claim that does not *)
(* hold any more is left as it is, and nobody remembers it.                *)
AssertClaim(p) ==
    /\ Stands(p, "assert")
    /\ IF Holds(p)
       THEN /\ run' = [run EXCEPT ![p].stage = "write", ![p].claimed = TRUE]
            /\ applies' = applies + 1
       ELSE /\ run' = [run EXCEPT ![p].stage = "refused", ![p].holds = 0]
            /\ UNCHANGED applies
    /\ UNCHANGED <<grants, claim, row, mem, behind, world, may>>

Refused(p) == Stands(p, "refused") /\ Stops(p)

(* The claim still holds, as far as this lifecycle must know. *)
StillMine(p) == ~run[p].claimed \/ (~run[p].invalid /\ Holds(p))

-----------------------------------------------------------------------------
(* The write, and what the provider says of it                             *)

(* What a write may leave behind. *)
Touched == {world, "partly", "applied"}

(* A receipt of this plan; a receipt of another is a conflict. *)
ApplyReturns(p) ==
    /\ Stands(p, "write")
    /\ \/ \E k \in {"applied", "failed"} :
            /\ world' \in IF k = "applied" THEN {"partly", "applied"} ELSE {world, "partly"}
            /\ Puts(p, [mem[p] EXCEPT !.phase = "applied", !.receipt = k])
            /\ Goes(p, "applied")
       \/ /\ world' \in Touched
          /\ Puts(p, [mem[p] EXCEPT !.phase = "recovery_required"])
          /\ Ends(p)
    /\ UNCHANGED <<grants, claim, applies, may>>

(* provider.apply raises: nobody knows what was written. *)
ApplyRaises(p) ==
    /\ Stands(p, "write")
    /\ world' \in Touched
    /\ Puts(p, [mem[p] EXCEPT !.phase = "applying"])
    /\ claim' = Fenced(claim, run[p].holds)
    /\ run' = [run EXCEPT ![p] = Resting(@.holds)]
    /\ UNCHANGED <<grants, applies, may>>

Applied(p) ==
    /\ Stands(p, "applied")
    /\ \/ ~StillMine(p) /\ Stops(p)
       \/ StillMine(p) /\ mem[p].receipt # "applied" /\ Moves(p, "rolling_back", "undo")
       \/ StillMine(p) /\ mem[p].receipt = "applied" /\ Moves(p, "verifying", "verify")

(* provider.verify, in the lifecycle or in a recovery that has a receipt. *)
Verify(p) ==
    /\ Stands(p, "verify") \/ (Stands(p, "resume") /\ mem[p].receipt = "applied")
    /\ \/ Stops(p)
       \/ \E ok \in {"yes", "no"} :
            /\ ok = "yes" => world = "applied"
            /\ Records(p, [mem[p] EXCEPT !.phase = "provider_verified", !.verified = ok])
            /\ Goes(p, "proved")

(* As Proved would be if what the provider says of it were not looked at. *)
ProvedAnyway(p) ==
    /\ Stands(p, "proved")
    /\ \/ ~StillMine(p) /\ Stops(p)
       \/ StillMine(p) /\ Moves(p, "path_verifying", "path")

Proved(p) ==
    /\ Stands(p, "proved")
    /\ \/ ~StillMine(p) /\ Stops(p)
       \/ StillMine(p) /\ mem[p].verified = "no" /\ Moves(p, "rolling_back", "undo")
       \/ StillMine(p) /\ mem[p].verified = "yes" /\ Moves(p, "path_verifying", "path")

(* provider.rollback *)
Undo(p) ==
    /\ Stands(p, "undo")
    /\ \/ /\ world' = "undone"
          /\ Puts(p, [mem[p] EXCEPT !.phase = "rolled_back", !.receipt = "rolled_back"])
          /\ Delivers(p, "rolled_back")
       \/ \E s \in {"manual_intervention", "ownership_conflict"} :
            /\ world' \in {world, "undone"}
            /\ Puts(p, [mem[p] EXCEPT !.phase = s])
            /\ Delivers(p, s)
       \/ /\ world' \in {world, "undone"}
          /\ Puts(p, [mem[p] EXCEPT !.phase = "recovery_required"])
          /\ Ends(p)
    /\ UNCHANGED <<grants, claim, applies, may>>

-----------------------------------------------------------------------------
(* The path, and who is told                                               *)

Degrades(p) == Settles(p, "path_degraded")

Path(p) ==
    /\ Stands(p, "path")
    /\ \/ Degrades(p)
       \/ \E e \in {"bad", "good"} :
            /\ Records(p, [mem[p] EXCEPT !.phase = "path_reconciling", !.evidence = e])
            /\ Goes(p, "steer")

Steer(p) ==
    /\ Stands(p, "steer")
    /\ \/ Degrades(p)
       \/ mem[p].evidence = "good" /\ ~StillMine(p) /\ Stops(p)
       \/ /\ mem[p].evidence = "good" /\ StillMine(p)
          /\ Enters(p, "acknowledging") /\ Delivers(p, "verified")

(* _ack_only; _deliver_sinks ends in a phase of its own. *)
Ack(p) ==
    /\ Stands(p, "ack")
    /\ \/ /\ IF mem[p].acked THEN Silent ELSE Records(p, [mem[p] EXCEPT !.acked = TRUE])
          /\ IF run[p].goal \in Good THEN Goes(p, "tell") ELSE Ends(p)
       \/ ~mem[p].acked /\ Enters(p, run[p].goal) /\ Ends(p)

PublishPath(p) ==
    /\ Stands(p, "tell")
    /\ IF mem[p].phase = run[p].goal
       THEN Silent ELSE Enters(p, run[p].goal)
    /\ Ends(p)

(* What the write ends in settles the claim; a claim that is fenced stays   *)
(* in _local_claims.                                                       *)
Finally(p) ==
    /\ Stands(p, "finally")
    /\ IF mem[p].phase \in Good \cup {"rolled_back"}
       THEN /\ claim' = Released(claim, run[p].holds)
            /\ run' = [run EXCEPT ![p] = Resting(0)]
       ELSE /\ claim' = Fenced(claim, run[p].holds)
            /\ run' = [run EXCEPT ![p] = Resting(@.holds)]
    /\ UNCHANGED <<grants, row, mem, behind, world, applies, may>>

-----------------------------------------------------------------------------
(* Recovery                                                                *)

(* The authorization, the ledger and what is there decide how it goes on. *)
Judge(p) ==
    /\ Stands(p, "judge")
    /\ \/ Stops(p)
       \/ /\ mem[p].auth \in Match
          /\ \/ \E s \in {"manual_intervention", "ownership_conflict"} :
                   Settles(p, s)
             \/ /\ IF run[p].was = "acknowledging"
                   THEN Delivers(p, IF mem[p].evidence = "good" THEN "verified" ELSE "path_degraded")
                   ELSE Goes(p, "resume")
                /\ Silent

(* What the provider can say of an operation it was asked for. *)
Remembered ==
    CASE world = "applied" -> {"applied"}
      [] world = "partly" -> {"applied", "failed"}
      [] world = "undone" -> {"rolled_back"}
      [] OTHER -> {"failed"}

(* Without a receipt: what was never applied is not applied now, a refresh  *)
(* is taken up, and the provider is asked for anything else.               *)
Resume(p) ==
    /\ Stands(p, "resume") /\ mem[p].receipt = "none"
    /\ \/ Stops(p)
       \/ /\ run[p].was = "refresh" /\ world = "applied"
          /\ Records(p, [mem[p] EXCEPT !.phase = "provider_verified", !.verified = "yes"])
          /\ Goes(p, "proved")
       \/ /\ run[p].was = "other"
          /\ \E k \in Remembered :
               Records(p, [mem[p] EXCEPT !.phase = "applied", !.receipt = k])
          /\ Goes(p, "resume")

(* A receipt that says nothing is in force ends it. *)
Concluded(p) ==
    /\ Stands(p, "resume") /\ mem[p].receipt \in {"failed", "rolled_back"}
    /\ \E s \in IF mem[p].receipt = "rolled_back" THEN {"rolled_back"}
                 ELSE {"manual_intervention", "cancelled"} :
         Settles(p, s)

-----------------------------------------------------------------------------
(* What else happens                                                       *)

(* A write that is cut off may have been done. *)
CutOff(p) ==
    world' \in {world} \cup (IF Stands(p, "write") THEN Touched ELSE {})
                       \cup (IF Stands(p, "undo") THEN {"undone"} ELSE {})

(* The journal cannot be written, or the call is cancelled while it awaits  *)
(* something: it raises, and leaves the claim as it is.                     *)
Raises(p) ==
    /\ run[p].stage \notin {"idle", "claim", "assert", "finally"}
    /\ Unwritten(p)
    /\ CutOff(p)
    /\ run' = [run EXCEPT ![p] = Resting(@.holds)]
    /\ UNCHANGED <<grants, claim, row, mem, behind, applies>>

(* The process dies, and another is started in its place. *)
Dies(p) ==
    /\ may.deaths > 0
    /\ may' = [may EXCEPT !.deaths = @ - 1]
    /\ CutOff(p)
    /\ run' = [run EXCEPT ![p] = Resting(0)]
    /\ mem' = [mem EXCEPT ![p] = Nothing]
    /\ behind' = behind \ {p}
    /\ UNCHANGED <<grants, claim, row, applies>>

(* A lease that nobody renews runs out, and one that is renewed when its    *)
(* process is paused.                                                      *)
Renewed == \E p \in Lifecycles : /\ run[p].claimed \/ run[p].stage = "assert"
                                /\ ~run[p].invalid /\ run[p].holds = claim.token
LeaseEnds ==
    /\ claim.state = "active" /\ claim.fresh
    /\ IF Renewed THEN may.pauses > 0 /\ may' = [may EXCEPT !.pauses = @ - 1]
       ELSE UNCHANGED may
    /\ claim' = [claim EXCEPT !.fresh = FALSE]
    /\ UNCHANGED <<grants, row, mem, behind, run, world, applies>>

(* _renew_claim: the first renewal that is refused is the last.  What it    *)
(* wrote to the row is taken back with the transaction.                    *)
RenewalFails(p) ==
    /\ run[p].claimed /\ ~run[p].invalid /\ ~Holds(p)
    /\ run' = [run EXCEPT ![p].invalid = TRUE]
    /\ Silent

Approve(g) ==
    /\ grants[g] = "none" /\ g \in may.approvals
    /\ grants' = [grants EXCEPT ![g] = "active"]
    /\ UNCHANGED <<claim, row, mem, behind, run, world, applies, may>>

GrantEnds(g) ==
    /\ grants[g] = "active"
    /\ grants' = [grants EXCEPT ![g] = "expired"]
    /\ UNCHANGED <<claim, row, mem, behind, run, world, applies, may>>

(* As Revoke would be if only a claim whose lease runs stood in its way. *)
RevokeOfExpired(g) ==
    /\ grants[g] \in {"active", "expired"}
    /\ ~(claim.state = "active" /\ claim.of = g /\ claim.fresh)
    /\ grants' = [grants EXCEPT ![g] = "revoked"]
    /\ UNCHANGED <<claim, row, mem, behind, run, world, applies, may>>

Revoke(g) ==
    /\ grants[g] \in {"active", "expired"}
    /\ ~(claim.state = "active" /\ claim.of = g)
    /\ grants' = [grants EXCEPT ![g] = "revoked"]
    /\ UNCHANGED <<claim, row, mem, behind, run, world, applies, may>>

-----------------------------------------------------------------------------
NetworkInit ==
    /\ grants = [g \in Grants |-> "none"]
    /\ claim = [state |-> "none", token |-> 0, fresh |-> FALSE, of |-> Nothing]
    /\ row = Nothing
    /\ mem = [p \in Lifecycles |-> Nothing]
    /\ behind = {}
    /\ run = [p \in Lifecycles |-> Resting(0)]
    /\ world = "none"
    /\ applies = 0
    /\ may \in Trouble

NetworkNext ==
    \/ \E p \in may.who :
         \/ FirstTime(p) \/ Look(p) \/ Again(p) \/ PathAgain(p) \/ RetrySinks(p)
         \/ Recover(p) \/ RecoverFails(p)
         \/ Plan(p) \/ Decide(p) \/ Recheck(p) \/ Wait(p) \/ Apply(p) \/ Withdrawn(p) \/ Claim(p)
         \/ AssertClaim(p) \/ Refused(p) \/ ApplyReturns(p) \/ ApplyRaises(p) \/ Applied(p)
         \/ Verify(p) \/ Proved(p) \/ Undo(p) \/ Path(p) \/ Steer(p) \/ Ack(p) \/ PublishPath(p)
         \/ Finally(p) \/ Judge(p) \/ Resume(p) \/ Concluded(p)
         \/ Raises(p) \/ Dies(p) \/ RenewalFails(p)
    \/ LeaseEnds
    \/ \E g \in Grants : Approve(g) \/ GrantEnds(g) \/ Revoke(g)

NetworkSpec == NetworkInit /\ [][NetworkNext]_netVars

-----------------------------------------------------------------------------
NetworkTypeOK ==
    /\ grants \in [Grants -> {"none", "active", "expired", "revoked"}]
    /\ claim \in [state : {"none", "active", "released", "uncertain", "resolved"},
                  token : Nat, fresh : BOOLEAN, of : Grants \cup {Nothing}]
    /\ row \in GovernanceRecord \cup {Nothing}
    /\ mem \in [Lifecycles -> GovernanceRecord \cup {Nothing}]
    /\ behind \subseteq Lifecycles
    /\ run \in [Lifecycles -> Place]
    /\ world \in {"none", "partly", "applied", "undone"}
    /\ applies \in Nat
    /\ may \in Bounds

(* A revision is applied at most once, whatever dies, is paused, recovers or *)
(* still holds an old copy; and one that has ended is not taken up again,   *)
(* not even by a reconcile that plans it anew.                             *)
NoReplay ==
    [][/\ applies' # applies => applies = 0
       /\ row # Nothing /\ row.phase \in Terminal => row'.phase = row.phase]_netVars

(* While the provider is at work the authorization it works under cannot be *)
(* taken back, also when the lease has run out or its owner has died: revoke *)
(* and the claim are one race for the table.                               *)
RevokedNotWriting == \A p \in Writing : grants[mem[p].auth] # "revoked"

(* One process calls a revision verified only when the provider has it in   *)
(* force, by whatever way it got there: write, refresh, retry of what could *)
(* not be delivered, or a recovery after any of them was cut off.  (Two     *)
(* processes may recover at once, since a recovery takes no claim; then one *)
(* can roll back what the other is about to call verified.)                *)
VerifiedIsApplied ==
    (\E p \in Lifecycles : may.who = {p}) /\ row # Nothing /\ row.phase = "verified"
       => world = "applied"

=============================================================================
