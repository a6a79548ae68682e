------------------------- MODULE NetworkKeepsPromise -------------------------
(***************************************************************************)
(* The refinement mapping from the tables, processes and provider of        *)
(* NetworkGovernance to what RevisionPromise tells the owner.               *)
(***************************************************************************)
EXTENDS NetworkGovernance

\* A record that waits for the owner, or is yet to ask him, promises nothing.
Course ==
    IF row = Nothing \/ row.phase \in Early \cup {"awaiting_authorization"} THEN "open"
    ELSE IF row.phase \in Terminal THEN "over" ELSE "working"

Asked == applies # 0
Hand == {mem[p].auth : p \in Writing}

R == INSTANCE RevisionPromise
        WITH course <- Course, asked <- Asked, hand <- Hand, effect <- world

\* Whatever dies, is paused, recovers or still holds an old copy: every step of
\* any process is one the promise allows, or leaves the owner's view as it is.
RevisionKept == R!Spec

=============================================================================
