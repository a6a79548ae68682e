---------------------------- MODULE RepairStatus ----------------------------
(***************************************************************************)
(* The statuses a repair record passes through and the table of moves that *)
(* transition_operation accepts.  "none" stands for a row that does not    *)
(* exist yet; a PLANNED record is never stored, so it is left out.         *)
(***************************************************************************)
EXTENDS Naturals

Waiting == "awaiting_authorization"
Granted == "authorized"
Lapsed  == "authorization_expired"

\* Statuses in which this computer is at work on the repair.
Active == {"executing", "verifying", "rolling_back"}

\* Statuses a repair never leaves (REPAIR_TERMINAL_STATUSES).
Terminal == {"succeeded", "rolled_back", "cleanup_failed",
             "rejected", "cancelled", Lapsed}

Status == {"none", Waiting, Granted} \cup Active \cup Terminal

\* _ALLOWED_TRANSITIONS, restricted to the statuses a stored repair can have.
\* "succeeded" may still be rolled back according to the table, although a
\* repair in that status counts as finished.
Allowed ==
  [st \in Status |->
     CASE st = "none"         -> {Waiting}
       [] st = Waiting        -> {Granted, "rejected", "cancelled", Lapsed}
       [] st = Granted        -> {"executing", "rolling_back", "cancelled", Lapsed}
       [] st = "executing"    -> {"verifying", "rolling_back"}
       [] st = "verifying"    -> {"succeeded", "rolling_back"}
       [] st = "succeeded"    -> {"rolling_back"}
       [] st = "rolling_back" -> {"rolled_back", "cleanup_failed"}
       [] OTHER               -> {}]

=============================================================================
