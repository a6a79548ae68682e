--------------------------- MODULE RevisionPromise ---------------------------
(***************************************************************************)
(* What the owner is promised of one revision of a managed network: until   *)
(* the journal says that it is under way nothing is asked of the provider;  *)
(* it is asked once, under a grant that is active then and cannot be taken  *)
(* back while the provider is at work; what is in force is nothing that was *)
(* not asked for; and a revision that is over stays over.                   *)
(* NetworkGovernance implements this specification.                        *)
(***************************************************************************)
CONSTANT Grants

VARIABLES
    grants,     \* what the owner has said of each authorization
    course,     \* how far the journal says the revision has come
    asked,      \* the provider was asked to apply it
    hand,       \* the grant under which the provider is at work, if it is
    effect      \* what it has in force

vars == <<grants, course, asked, hand, effect>>

Init ==
    /\ grants = [g \in Grants |-> "none"]
    /\ course = "open"
    /\ asked = FALSE
    /\ hand = {}
    /\ effect = "none"

-----------------------------------------------------------------------------
(* The owner                                                               *)

Says(g, from, to) ==
    /\ grants[g] \in from
    /\ grants' = [grants EXCEPT ![g] = to]
    /\ UNCHANGED <<course, asked, hand, effect>>

Approve(g) == Says(g, {"none"}, "active")
Expire(g) == Says(g, {"active"}, "expired")
Revoke(g) == g \notin hand /\ Says(g, {"active", "expired"}, "revoked")

-----------------------------------------------------------------------------
(* The computer                                                            *)

\* The journal says that the revision is under way, or that it is not wanted.
Commit ==
    /\ course = "open"
    /\ course' \in {"working", "over"}
    /\ UNCHANGED <<grants, asked, hand, effect>>

\* The provider is asked, after the journal was written; by a process that is
\* late, perhaps when another one has ended the revision.
Ask(g) ==
    /\ course # "open" /\ ~asked
    /\ grants[g] = "active"
    /\ asked' = TRUE
    /\ hand' = {g}
    /\ UNCHANGED <<grants, course, effect>>

\* What it was asked for is done, undone or cut off, and the journal says so
\* or is left behind.
Act ==
    /\ asked /\ course # "open"
    /\ effect' \in {effect, "partly", "applied", "undone"}
    /\ hand' \in {hand, {}}
    /\ course' \in {course, "over"}
    /\ UNCHANGED <<grants, asked>>

\* The revision ends without it.
GiveUp ==
    /\ course = "working"
    /\ course' = "over"
    /\ UNCHANGED <<grants, asked, hand, effect>>

Next ==
    \/ \E g \in Grants : Approve(g) \/ Expire(g) \/ Revoke(g) \/ Ask(g)
    \/ Commit \/ Act \/ GiveUp

Spec == Init /\ [][Next]_vars

=============================================================================
