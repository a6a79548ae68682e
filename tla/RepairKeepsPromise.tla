-------------------------- MODULE RepairKeepsPromise --------------------------
(***************************************************************************)
(* The refinement mapping from the store of RepairControl to the stages of  *)
(* RepairPromise.                                                           *)
(***************************************************************************)
EXTENDS RepairControl

\* A repair that fails before its claim is rolled back although nothing was
\* done: its owner still sees an approved repair until it is given up.
StageOf(row) ==
  CASE row.status = "none"             -> "none"
    [] row.status = Waiting            -> "waiting"
    [] row.status = Granted            -> "approved"
    [] row.status \in Active           -> IF row.started = 0 THEN "approved" ELSE "working"
    [] row.status = "succeeded"        -> "fixed"
    [] row.status = "rolled_back"      -> "failed"
    [] row.status = "cleanup_failed"   -> "unclear"
    [] row.status = "rejected"         -> "rejected"
    [] row.status = "cancelled"        -> "cancelled"
    [] row.status = Lapsed             -> "lapsed"

P == INSTANCE RepairPromise WITH stage <- [r \in Repairs |-> StageOf(store[r])]

\* On one event loop every step of the control is a step of the promise or
\* leaves the stages as they are.
StagesKept == P!Safe

\* With fair scheduling the promised ends are reached, too: a proposal is
\* decided or expires, and work that has begun is finished, by its session or,
\* when that has died, by whoever lists the repairs next.
PromiseKept == P!Promise

=============================================================================
