---------------------------- MODULE EngineWindow ----------------------------
(***************************************************************************)
(* The counters an arm reads off its engines before and after it:          *)
(* src/sembench/prometheus.py from the samples on.                         *)
(*                                                                         *)
(* An engine exposes a function from the counters it has registered to     *)
(* their values.  A counter that is absent is no member of the domain, at  *)
(* every level: the code's None is never a zero.                           *)
(***************************************************************************)
EXTENDS Integers, FiniteSets, FiniteSetsExt

Keys == {"queries", "hits", "transfer"}

\* snapshot_from_text, or a scrape that failed and says so.
Snapshot(exposed) ==
    [ok |-> TRUE, counters |-> [key \in DOMAIN exposed \cap Keys |-> exposed[key]]]
FailedSnapshot == [ok |-> FALSE, counters |-> [key \in {} |-> 0]]

\* counter_deltas.  before and after are functions from the URLs scraped.
Paired(before, after) ==
    {u \in DOMAIN before \cap DOMAIN after : before[u].ok /\ after[u].ok}

\* The endpoints of a pair of snapshots that give a difference of key.
Measured(before, after, key) ==
    {u \in Paired(before, after) :
        key \in DOMAIN before[u].counters \cap DOMAIN after[u].counters}

\* LifetimeDelta is the mutated form: the engine's total, not the arm's.
LifetimeDelta(before, after, u, key) == after[u].counters[key]
Delta(before, after, u, key) == after[u].counters[key] - before[u].counters[key]

\* The counters some endpoint measured, each with its sum over the fleet.
Totals(before, after) ==
    [key \in {k \in Keys : Measured(before, after, k) # {}} |->
        MapThenSumSet(LAMBDA u : Delta(before, after, u, key), Measured(before, after, key))]

ResetDetected(before, after) ==
    \E key \in Keys : \E u \in Measured(before, after, key) :
        Delta(before, after, u, key) < 0
=============================================================================
