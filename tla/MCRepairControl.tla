--------------------------- MODULE MCRepairControl ---------------------------
(* Instances of RepairControl for TLC. *)
EXTENDS RepairKeepsPromise, RepairInvariant, TLC

CONSTANTS r1, r2, r3, photos, restart, relaunch

\* Three repairs of one service.  r1 and r3 are the same repair proposed twice,
\* r2 is of another kind.
ServiceOfRepair == [r \in Repairs |-> photos]

KeyOfRepair == [r \in Repairs |-> IF r = r2 THEN relaunch ELSE restart]

SessionSymmetry == Permutations(Sessions)

=============================================================================
