------------------------------ MODULE MCPatrol ------------------------------
(* Instances of Patrol for TLC. *)
EXTENDS Patrol, TLC

CONSTANTS photos, notes

\* Scripts have a kind of repair for each way they can be down; a container
\* beside one is watched by other rules.
KindOfService == [s \in Services |-> IF s = photos THEN "script" ELSE "container"]

=============================================================================
