----------------------------- MODULE MCGateway ------------------------------
(***************************************************************************)
(* Small gateway runs: paired ones, one request at a time, for the resets; *)
(* and single ones without resets, for two pool threads at once.  The      *)
(* concurrency is an option of a run like its mode: each is tried at one   *)
(* lane and at two, and runs where it is not refused.                      *)
(***************************************************************************)
EXTENDS GatewayReplay, TLC

GItem(i, donors) == [id |-> i, donors |-> donors, refs |-> {}, gap |-> 0]
SeededItem(i, ref) == [id |-> i, donors |-> 0, refs |-> {ref}, gap |-> 0]

\* Engines are alike.
EngineSymmetry == Permutations(Engines)

PairedRun(items, settle) ==
    [items |-> items, mode |-> "paired", minGap |-> 0, settle |-> settle, resets |-> TRUE]

PairedRuns == {PairedRun(<<GItem(1, 2)>>, s) : s \in BOOLEAN}
              \cup {PairedRun(<<GItem(1, 1), SeededItem(2, 1)>>, TRUE)}

\* Refused: no donors, no resets, an id twice.
RefusedRuns == {PairedRun(<<GItem(1, 0)>>, TRUE), PairedRun(<<GItem(1, 1), GItem(1, 1)>>, TRUE),
                [PairedRun(<<GItem(1, 1)>>, TRUE) EXCEPT !.resets = FALSE]}

\* Single arms without resets, each item bringing donors, the second perhaps
\* seeded by the first; and one with resets, which is refused at two lanes.
SingleRun(items, settle) ==
    [items |-> items, mode |-> "single", minGap |-> 1, settle |-> settle, resets |-> FALSE]

ConcurrentRuns ==
    {SingleRun(<<GItem(1, 1), GItem(2, n)>>, s) : n \in 1 .. 2, s \in BOOLEAN}
    \cup {SingleRun(<<GItem(1, 1), [SeededItem(2, 1) EXCEPT !.donors = 1]>>, TRUE),
          [SingleRun(<<GItem(1, 1), GItem(2, 1)>>, FALSE) EXCEPT !.resets = TRUE]}

SmallRuns == PairedRuns \cup RefusedRuns \cup ConcurrentRuns
SmallLists == {BuildStages(ReplayPlan(r.items, r.mode), r.minGap, r.settle) : r \in SmallRuns}

VARIABLE lanes    \* this run's concurrency

TwoLanes == INSTANCE GatewayReplay WITH Width <- 2

LanesInit == \/ lanes = 1 /\ GatewayInit
             \/ lanes = 2 /\ TwoLanes!GatewayInit

LanesNext == \/ lanes = 1 /\ GatewayNext /\ UNCHANGED lanes
             \/ lanes = 2 /\ TwoLanes!GatewayNext /\ UNCHANGED lanes

LanesSpec == LanesInit /\ [][LanesNext]_<<vars, gateway, lanes>>
=============================================================================
