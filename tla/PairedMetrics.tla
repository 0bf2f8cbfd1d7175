--------------------------- MODULE PairedMetrics ----------------------------
(***************************************************************************)
(* What a result document publishes of its rows: the speedups and the miss *)
(* tax of a paired document (src/sembench/paired_metrics.py), and the      *)
(* rates of any document (src/sembench/per_arm_metrics.py).                *)
(*                                                                         *)
(* A rate is in percent; a median is doubled, so that the mean of two      *)
(* whole numbers is whole; a metric that was not measured is None.         *)
(***************************************************************************)
EXTENDS Propagation, Pairing, FiniteSetsExt

CONSTANTS
    Tick,            \* ttfts are whole multiples of a tick; a ratio is of ticks
    RequestBlocks    \* total_blocks of a request

SumOver(S, f(_)) == MapThenSumSet(f, S)

\* Twice the median of the values of f (metric_math._pctl at 50,
\* stats._median).  (TwiceMean is the mutated form.)
TwiceMean(f) ==
    IF DOMAIN f = {} THEN None
    ELSE (2 * SumOver(DOMAIN f, LAMBDA s : f[s])) \div Cardinality(DOMAIN f)
TwiceMedian(f) ==
    IF DOMAIN f = {} THEN None
    ELSE LET S == DOMAIN f
             below(s) == {t \in S : f[t] < f[s]}
             upto(s) == {t \in S : f[t] <= f[s]}
             at(k) == CHOOSE s \in S : Cardinality(below(s)) < k /\ k <= Cardinality(upto(s))
             n == Cardinality(S)
         IN  f[at((n + 1) \div 2)] + f[at(n \div 2 + 1)]

\* metric_math._rate and _mean: nothing over nothing is 0, or None.
Rate(n, total) == IF total = 0 THEN 0 ELSE (100 * n) \div total
RateOrNone(n, total) == IF total = 0 THEN None ELSE (100 * n) \div total

-----------------------------------------------------------------------------
(* The paired block. *)

Timed(pairs) == {p \in pairs : p.cold.ttft > 0 /\ p.warm.ttft > 0}
Controls(pairs) == {p \in pairs : p.cold.control}

\* In ticks: how many times the warm ttft goes into the cold one.
Speedup(p) == (Tick * p.cold.ttft) \div p.warm.ttft

Speedups(pairs) == [p \in pairs |-> Speedup(p)]

Answered(pairs) == {p \in pairs : p.cold.output # "" /\ p.warm.output # ""}
Similar(p) == p.cold.output = p.warm.output

-----------------------------------------------------------------------------
(* M4, the miss tax. *)

\* audit_was_joined: the audit was read for some warm row.
AuditJoined(pairs) == \E p \in pairs : p.warm.audit # "unread"
\* audit_measured_row, and a row that advertised nothing.  (ReadRow, the
\* mutated form, takes a row the audit holds nothing about for measured.)
ReadRow(row) == row.audit # "unread"
MeasuredRow(row) == row.audit = "joined"
Advertised(row) == row.advertised > 0

ClassOf(p) == IF p.warm.class = "" THEN p.cold.class ELSE p.warm.class

\* _miss_tax_summary: the pairs it prices, and those it leaves out.
Candidates(pairs) == pairs \ Controls(pairs)
Audited(pairs) == {p \in Candidates(pairs) : MeasuredRow(p.warm)}
NotAudited(pairs) == Candidates(pairs) \ Audited(pairs)
Advertising(pairs) == {p \in Audited(pairs) : Advertised(p.warm)}
OutsideClass(pairs, pair) ==
    {p \in Audited(pairs) \ Advertising(pairs) : pair = "m4_capture" /\ ClassOf(p) # "no_reuse"}
MissedPairs(pairs, pair) ==
    (Audited(pairs) \ Advertising(pairs)) \ OutsideClass(pairs, pair)

MissTaxSummary(pairs, pair) ==
    LET missed == MissedPairs(pairs, pair)
        timed == Timed(missed)
        joined == AuditJoined(pairs)
        count(S) == IF joined THEN Cardinality(S) ELSE None
    IN  [measured |-> joined /\ timed # {},
         tax |-> IF joined /\ timed # {}
                 THEN TwiceMedian([p \in timed |-> p.warm.ttft])
                      - TwiceMedian([p \in timed |-> p.cold.ttft])
                 ELSE 0,
         pairs |-> count(timed),
         priced |-> IF joined THEN {p.item : p \in timed} ELSE {},
         without_ttft |-> count(missed \ timed),
         advertising |-> count(Advertising(pairs)),
         not_audited |-> count(NotAudited(pairs)),
         outside_class |-> count(OutsideClass(pairs, pair)),
         controls |-> Cardinality(Controls(pairs))]

\* paired_summary: nothing at all for a document that does not hold both arms.
NoSummary == [present |-> FALSE]
PairedSummary(rows, counted, pair, reference) ==
    LET cold == ArmRows(rows, "cold")
        warm == ArmRows(rows, "warm")
        pairs == CleanPairs(cold, warm)
        timed == Timed(pairs)
        both == Answered(pairs)
    IN  IF DOMAIN cold = {} \/ DOMAIN warm = {} THEN NoSummary
        ELSE [present |-> TRUE,
              total |-> Cardinality(DOMAIN cold),
              used |-> Cardinality(timed),
              contaminated |-> Cardinality(ContaminatedPairs(cold, warm)),
              errored |-> Cardinality(ErroredPairs(cold, warm)),
              unpaired |-> Cardinality(DOMAIN cold \ DOMAIN warm),
              mismatched |-> Cardinality(Twins(cold, warm) \ (pairs
                                 \cup ContaminatedPairs(cold, warm) \cup ErroredPairs(cold, warm))),
              speedup |-> TwiceMedian(Speedups(timed \ Controls(timed))),
              control_speedup |-> TwiceMedian(Speedups(Controls(timed))),
              similarity |-> RateOrNone(Cardinality({p \in both : Similar(p)}), Cardinality(both)),
              propagation |-> PropagationSummary(pairs, warm, ExcludedRows(cold, warm),
                                                 counted, reference),
              miss_tax |-> MissTaxSummary(pairs, pair)]

-----------------------------------------------------------------------------
(* aggregate_metrics: the rates the gates read. *)

AggregateMetrics(rows) ==
    LET all == DOMAIN rows
        scored == {n \in all : rows[n].quality # "unscored"}
        passed == {n \in all : rows[n].quality = "pass"}
        controls == {n \in all : rows[n].control}
        placed(S) == {n \in S : rows[n].placed}
        confirmed(S) == SumOver({n \in S : rows[n].confirmed # None}, LAMBDA n : rows[n].confirmed)
        confirmedRate(S) ==
            IF \A n \in all : rows[n].confirmed = None THEN None
            ELSE Rate(confirmed(S), RequestBlocks * Cardinality(S))
    IN  [quality |-> RateOrNone(Cardinality(passed), Cardinality(scored)),
         placement |-> Rate(Cardinality(placed(all)), Cardinality(all)),
         confirmed |-> confirmedRate(all),
         control_confirmed |-> confirmedRate(controls),
         control_placement |-> Rate(Cardinality(placed(controls)), Cardinality(controls))]
=============================================================================
