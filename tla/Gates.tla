------------------------------- MODULE Gates --------------------------------
(***************************************************************************)
(* sembench assert-result-gates: the verdict over a written document,      *)
(* src/sembench/gates_cli.py.                                              *)
(***************************************************************************)
EXTENDS PairedMetrics

CONSTANTS
    Thresholds,   \* what the caller asks of each gate: gate -> number
    RougeFloor,   \* the calibrated floor less the allowed drop, in percent
    RougeCeiling  \* the top of the plausible band

AtLeast == {"min_quality_pass_rate", "min_semantic_placement_rate",
            "min_backend_confirmed_block_rate", "min_blended_ttft_speedup"}
AtMost == {"max_negative_control_confirmed_rate",
           "max_negative_control_semantic_placement_rate"}
Deviation == "max_negative_control_speedup_deviation"
RougeDrop == "max_warm_vs_cold_rouge_drop"

\* A gate that is read whether it is asked for or not, at its default.
Defaults == [min_quality_pass_rate |-> 0, min_semantic_placement_rate |-> 0,
             min_backend_confirmed_block_rate |-> 0, max_negative_control_confirmed_rate |-> 0,
             max_negative_control_semantic_placement_rate |-> 100]
PairedGates == {"min_blended_ttft_speedup", Deviation, RougeDrop}
MetricGates == AtLeast \cup AtMost \cup {Deviation}

ASSUME GatesAssumption ==
    Thresholds \in [MetricGates -> Int] /\ RougeFloor \in Nat /\ RougeCeiling \in Nat /\ Tick \in Nat

\* The metric a gate reads of a document.
OfPaired(doc, metric) == IF doc.paired.present THEN metric ELSE None
Metric(doc, gate) ==
    CASE gate = "min_quality_pass_rate" -> doc.aggregate.quality
      [] gate = "min_semantic_placement_rate" -> doc.aggregate.placement
      [] gate = "min_backend_confirmed_block_rate" -> doc.aggregate.confirmed
      [] gate = "max_negative_control_confirmed_rate" -> doc.aggregate.control_confirmed
      [] gate = "max_negative_control_semantic_placement_rate" -> doc.aggregate.control_placement
      [] gate = "min_blended_ttft_speedup" -> OfPaired(doc, doc.paired.speedup)
      [] gate = Deviation -> OfPaired(doc, doc.paired.control_speedup)
      [] gate = RougeDrop -> OfPaired(doc, doc.paired.similarity)

\* Read at the caller's threshold if asked for, else at the default.
Threshold(gate, requested) == IF gate \in requested THEN Thresholds[gate] ELSE Defaults[gate]
Meets(gate, value, requested) ==
    \/ gate \in AtLeast /\ value >= Threshold(gate, requested)
    \/ gate \in AtMost /\ value <= Threshold(gate, requested)
    \/ gate = Deviation /\ value - 2 * Tick \in -Thresholds[gate] .. Thresholds[gate]

\* require_metric: a metric that is absent fails the gate that was asked for.
\* (FailsIfMeasured is the mutated form: a missing metric is skipped.)
FailsIfMeasured(doc, gate, args) ==
    Metric(doc, gate) # None /\ ~Meets(gate, Metric(doc, gate), args.requested)
FailsMetric(doc, gate, args) ==
    IF Metric(doc, gate) = None THEN gate \in args.requested /\ ~args.allow_missing
    ELSE ~Meets(gate, Metric(doc, gate), args.requested)

\* The gates over the rows; those of the speedups only when they are asked for.
FailedMetrics(doc, args) ==
    {g \in MetricGates \cap (DOMAIN Defaults \cup args.requested) : FailsMetric(doc, g, args)}

\* The quality of the pairs against the calibrated floor, and no higher than
\* the band: measured, whatever may be missing.
RougeFails(doc, args) ==
    /\ RougeDrop \in args.requested
    /\ ~(Metric(doc, RougeDrop) \in RougeFloor .. RougeCeiling)

ContaminationFails(doc, args) ==
    args.contamination /\ ~(doc.paired.present /\ doc.paired.contaminated = 0)

PairedMissing(doc, args) ==
    /\ args.requested \cap PairedGates # {} \/ args.contamination
    /\ ~doc.paired.present /\ ~args.allow_missing

\* The engine summaries: what was materialized, and the engines' errors.
MaterializationFails(args) ==
    LET summaries == DOMAIN args.summaries
    IN  \/ SumOver(summaries, LAMBDA n : args.summaries[n].events) < args.min_events
        \/ args.require_reuse /\ \A n \in summaries : ~args.summaries[n].reuse
        \/ args.no_errors /\ \E n \in summaries : args.summaries[n].errors > 0

Passes(doc, args) ==
    /\ FailedMetrics(doc, args) = {}
    /\ ~RougeFails(doc, args) /\ ~ContaminationFails(doc, args)
    /\ ~PairedMissing(doc, args) /\ ~MaterializationFails(args)
=============================================================================
