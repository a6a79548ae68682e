----------------------------- MODULE MCMachine -----------------------------
(***************************************************************************)
(* Instances of Machine for TLC.  Its three parts share no state and do not *)
(* disturb each other (MachineProofs), so a behaviour is about one of them  *)
(* and the others rest: part says which, and their states add up.          *)
(***************************************************************************)
EXTENDS Machine, TLC

CONSTANTS gateway, local, v0, v1, v2, db, cache, web, a, b

OrderDef == <<gateway, local>>

Still == [spawns |-> 0, kills |-> 0, unsaved |-> 0, taken |-> 0, exits |-> 0,
          updates |-> 0, asks |-> 0, releases |-> 0, deaths |-> 0]

\* What may go wrong together; each record bounds one family of behaviours.
LimitsDef ==
    { [Still EXCEPT !.spawns = 2, !.updates = 3, !.deaths = 1],
      [Still EXCEPT !.spawns = 6, !.updates = 2, !.deaths = 1],
      [Still EXCEPT !.spawns = 6, !.updates = 1, !.unsaved = 1, !.exits = 1],
      [Still EXCEPT !.spawns = 4, !.asks = 3, !.unsaved = 1, !.exits = 1,
                    !.taken = 1, !.kills = 1],
      [Still EXCEPT !.spawns = 8, !.updates = 2, !.releases = 1],
      [Still EXCEPT !.spawns = 6, !.updates = 1, !.asks = 1],
      [Still EXCEPT !.spawns = 6, !.updates = 1, !.unsaved = 1, !.taken = 1],
      [Still EXCEPT !.spawns = 6, !.updates = 1, !.exits = 1, !.kills = 1] }

Group(service, needs, on) ==
    [service |-> service, needs |-> needs, on |-> on, compose |-> TRUE]
Apart == (db :> "db") @@ (cache :> "cache") @@ (web :> "web")
Twice == (db :> "db") @@ (cache :> "db") @@ (web :> "web")
Needless == [c \in Containers |-> {}]

\* All dependencies of three services, two containers of one of two services
\* (with a need outside the group), a container that is in no compose file.
GroupsDef ==
    {Group(s, (db :> x) @@ (cache :> y) @@ (web :> z), on) :
        s \in {Apart, Twice}, x \in SUBSET {"cache", "web"}, y \in SUBSET {"db", "web"},
        z \in SUBSET {"db", "cache", "web"},
        on \in {{}, {db}, {db, cache}, Containers}}
      \cup {Group((db :> "db") @@ (cache :> "cache") @@ (web :> Nameless), Needless, {})}
      \cup {[Group(Apart, Needless, on) EXCEPT !.compose = FALSE] : on \in SUBSET Containers}

\* Troubles of one process, and of two that have the same database open.
Calm == [who |-> Lifecycles, deaths |-> 0, pauses |-> 0, faults |-> 0, approvals |-> {1}]
TroubleDef ==
    {[Calm EXCEPT !.who = {x}, !.deaths = 2, !.pauses = 1, !.faults = 1] : x \in Lifecycles}
      \cup {[Calm EXCEPT !.who = {x}, !.deaths = 1, !.approvals = {1, 2}] : x \in Lifecycles}
      \cup {[Calm EXCEPT !.deaths = 1], [Calm EXCEPT !.pauses = 1], [Calm EXCEPT !.faults = 1]}

\* The processes of a network are alike.
Alike == Permutations(Lifecycles)

VARIABLE part

MCInit ==
    /\ part \in {"program", "repair", "network"}
    /\ MachineInit
    /\ part # "repair" => kind = "agent"
    /\ part # "network" => may = [Calm EXCEPT !.deaths = 1]
    \* Updates begin with a program that runs, the commands of a person with
    \* any part of it; without a spawn the releases are alike.
    /\ limit.asks = 3 \/ Cardinality(procs) = 2 \/ part # "program"
    /\ limit.spawns = 2 => newest = v2
    /\ part # "program" =>
         /\ limit = [Still EXCEPT !.spawns = 6, !.updates = 1, !.asks = 1]
         /\ procs = {} /\ newest = v1

MCNext ==
    \/ part = "program" /\ ProgramStep /\ UNCHANGED part
    \/ part = "repair" /\ RepairStep /\ UNCHANGED part
    \/ part = "network" /\ NetworkStep /\ UNCHANGED part

MCSpec == MCInit /\ [][MCNext]_<<machineVars, part>>

=============================================================================
