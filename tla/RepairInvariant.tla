--------------------------- MODULE RepairInvariant ---------------------------
(***************************************************************************)
(* Why RepairControl keeps what it promises: the inductive invariants.     *)
(*                                                                         *)
(* Placed and Ticketed hold however the sessions interleave.  The others   *)
(* hold when all sessions run on one event loop and the machine does not   *)
(* sleep; they say what a session still knows of the store at each point.  *)
(***************************************************************************)
EXTENDS RepairControl

-----------------------------------------------------------------------------
(* Any number of processes and threads.                                    *)

\* A session is only at the points its job leads to, and it carries an approval
\* from the put of that approval on.
Placed(s) ==
  /\ pc[s] = "idle" => call[s] = NoCall
  /\ pc[s] = "submit" => call[s].job = "propose"
  /\ pc[s] = "expire" => call[s].job \in {"poll", "approve", "reject"}
  /\ pc[s] = "decide" => call[s].job \in {"approve", "reject"}
  /\ pc[s] \in {"write", "audit"} =>
        /\ call[s].job \in {"poll", "approve", "reject"}
        /\ call[s].row \in Repairs
        /\ rec[s].status \in {Granted, "rejected", Lapsed}
        /\ rec[s].status = Granted => call[s].job = "approve" /\ call[s].row = call[s].rep
  /\ pc[s] \in {"recover", "recoverEnd"} => call[s].job \in {"poll", "execute"}
  /\ pc[s] = "recoverEnd" => call[s].row \in Repairs
  /\ pc[s] \in {"granted", "precheck", "settle", "claim"} => call[s].job = "execute"
  /\ pc[s] \in {"run", "verify", "succeed"} => call[s].job = "repair"
  /\ pc[s] \in {"rollback", "cleanup"} => call[s].job \in {"execute", "repair"}
  /\ call[s].job \in {"propose", "approve", "reject", "execute", "repair"} =>
        call[s].rep \in Repairs
  /\ call[s].ticket # 0 <=>
        \/ call[s].job \in {"execute", "repair"}
        \/ pc[s] = "audit" /\ rec[s].status = Granted

\* The type invariant needs to know where the sessions are.
Shape == TypeOK /\ \A s \in Sessions : Placed(s)

\* Approvals are numbered as they are written, so no two sessions carry the
\* same one, and one that has been spent is carried by no session that may
\* still claim.
Ticketed ==
  /\ \A s \in Sessions : call[s].ticket # 0 => call[s].ticket <= grants[call[s].rep]
  /\ \A s, t \in Sessions :
        s # t /\ call[s].ticket # 0 /\ call[s].rep = call[t].rep =>
           call[s].ticket # call[t].ticket
  /\ \A s \in Sessions : \A c \in claims :
        call[s].job # "repair" /\ c.rep = call[s].rep => c.ticket # call[s].ticket

\* Between its last look at the clock and its claim a session keeps the record
\* whose approval it found valid.
InTime ==
  \A s \in Sessions :
     /\ call[s].job = "execute"
     /\ pc[s] \in {"recover", "recoverEnd", "claim"}
     => call[s].at < rec[s].expires

TicketInv == Ticketed /\ InTime /\ OneRunPerApproval /\ RunsOnlyApproved

-----------------------------------------------------------------------------
(* One event loop, on a machine that does not sleep.                       *)

OneLoop == Loop = Sessions /\ ~Suspends

\* Only one session is between two awaits.
Alone ==
  \A s, t \in Sessions : s # t => pc[s] \in Await \/ pc[t] \in Await

\* The points at which a session goes by the time it has read.
Dated == {"expire", "decide", "write", "audit", "recover", "recoverEnd", "claim"}

\* The clock has started, and nobody has read a time that is still to come.
Clocked ==
  /\ now # 0
  /\ \A s \in Sessions :
        /\ call[s].at <= now
        /\ pc[s] \in Dated => call[s].at # 0

\* Nothing has been done yet for a repair that is not claimed.
Untouched ==
  \A r \in Repairs : store[r].status \in {Waiting, Granted} => store[r].started = 0

\* A repair that was claimed is at work or over, and was never rejected.
Claimed ==
  \A c \in claims : store[c.rep].status \in (Active \cup Terminal) \ {"rejected"}

\* A proposal is submitted under a key that is still free.
Submitting(s) ==
  pc[s] = "submit" =>
     /\ store[call[s].rep].status = "none"
     /\ Open(KeyOf[call[s].rep]) = {}
     /\ rec[s].status = Waiting
     /\ rec[s].started = 0

\* What a decision or an expiry overwrites is still waiting.
Deciding(s) ==
  /\ pc[s] \in {"expire", "write", "audit"} =>
        \A r \in call[s].todo : store[r].status = Waiting
  /\ pc[s] = "decide" => call[s].todo = {}
  /\ pc[s] = "write" => /\ store[call[s].row].status = Waiting
                        /\ call[s].row \notin call[s].todo
                        /\ rec[s].started = 0
  /\ pc[s] = "audit" => store[call[s].row] = rec[s]

\* What recover_interrupted is about to roll back is as it was listed, and
\* nobody is at work on it.
Recovering(s) ==
  /\ pc[s] \in {"recover", "recoverEnd"} =>
        \A r \in call[s].todo :
           /\ call[s].snap[r].status \in Active
           /\ store[r].status \in Active
           /\ store[r].started = call[s].snap[r].started
           /\ \A t \in Sessions : ~Acting(t, r)
  /\ pc[s] = "recoverEnd" => call[s].row \in call[s].todo

\* Until its claim an execution holds the record as it is stored.
Executing(s) ==
  call[s].job = "execute" =>
     /\ pc[s] # "cleanup" => store[call[s].rep].status = Granted
     /\ pc[s] \in {"precheck", "recover", "recoverEnd", "claim", "rollback", "cleanup"} =>
           store[call[s].rep] = rec[s]
     /\ pc[s] = "settle" => rec[s].status \in {"cancelled", Lapsed} /\ rec[s].started = 0
     /\ pc[s] \in {"rollback", "cleanup"} => call[s].end = "cleanup_failed"
     /\ pc[s] = "cleanup" => rec[s].status = "rolling_back" /\ rec[s].started = 0

\* So does the session at work, and it puts its record often enough.
Working(s) ==
  call[s].job = "repair" =>
     /\ store[call[s].rep] = rec[s]
     /\ rec[s].status \in Active
     /\ rec[s].started # 0
     /\ now <= rec[s].updated + StepTime

\* A repair is executed by one session.
Separate ==
  \A s, t \in Sessions :
     s # t /\ call[s].ticket # 0 /\ call[t].ticket # 0 => call[s].rep # call[t].rep

Informed(s) ==
  Submitting(s) /\ Deciding(s) /\ Recovering(s) /\ Executing(s) /\ Working(s)

LoopInv ==
  /\ Alone /\ Clocked /\ Untouched /\ Claimed /\ Separate
  /\ \A s \in Sessions : Informed(s)
  /\ OneAtATime /\ ExecutedOnce /\ OneOpenPerKey

-----------------------------------------------------------------------------
(* How often a service is worked on.                                       *)

\* The repairs whose execution has begun, as far as the table knows.
Begun == {r \in Repairs : store[r].started # 0}

\* The table knows of every claim and when it was made, and no session goes by
\* a time before the last claim.
Reckoned ==
  /\ IsFiniteSet(Begun)
  /\ \A c \in claims :
        c.at # 0 /\ c.at <= now /\ store[c.rep].started = c.at
  /\ \A s \in Sessions : pc[s] \in Dated => \A c \in claims : c.at <= call[s].at

RateInv == Reckoned /\ RateKept

=============================================================================
