---------------------------- MODULE RepairPromise ----------------------------
(***************************************************************************)
(* What a repair goes through, as its owner is promised it: it is proposed, *)
(* waits for one decision, and an approved repair is worked on once, alone, *)
(* and comes to an end.  RepairControl implements this specification on one *)
(* event loop.                                                              *)
(***************************************************************************)
CONSTANT Repairs
VARIABLE stage

Over == {"fixed", "failed", "unclear", "rejected", "lapsed", "cancelled"}

Stages == {"none", "waiting", "approved", "working"} \cup Over

Init == stage = [r \in Repairs |-> "none"]

Becomes(r, from, to) ==
  /\ stage[r] = from
  /\ stage' = [stage EXCEPT ![r] = to]

Propose(r) == Becomes(r, "none", "waiting")

Decide(r) == \E to \in {"approved", "rejected", "lapsed"} : Becomes(r, "waiting", to)

\* The live check found the service changed, the computer was busy, the
\* approval was too old, or something went wrong before the work began.
GiveUp(r) == \E to \in {"cancelled", "lapsed", "unclear"} : Becomes(r, "approved", to)

Start(r) ==
  /\ \A q \in Repairs : stage[q] # "working"
  /\ Becomes(r, "approved", "working")

End(r) == \E to \in {"fixed", "failed", "unclear"} : Becomes(r, "working", to)

Next == \E r \in Repairs : Propose(r) \/ Decide(r) \/ GiveUp(r) \/ Start(r) \/ End(r)

Safe == Init /\ [][Next]_stage

\* Work that has begun ends, and a proposal does not wait for ever.
Promise ==
  /\ Safe
  /\ \A r \in Repairs : WF_stage(Decide(r)) /\ WF_stage(End(r))

=============================================================================
