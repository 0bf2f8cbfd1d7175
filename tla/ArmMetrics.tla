----------------------------- MODULE ArmMetrics -----------------------------
(***************************************************************************)
(* The metric blocks of one arm's rows: connector_audit_metrics of         *)
(* src/sembench/per_arm_metrics.py and all it calls, with the rows an      *)
(* audit-derived metric may be computed over (reuse_signals.py) and the    *)
(* classes and strata of traffic_classes.py.                               *)
(*                                                                         *)
(* A row is a row of AuditJoin; what the manifest and the replay put on it *)
(* is looked up by its id.  A rate is its numerator over its denominator,  *)
(* or NoRate.  The four causes of a boundary miss stand as one.            *)
(***************************************************************************)
EXTENDS AuditJoin

CONSTANTS
    Items,                 \* from an id to its item: [arm, traffic_class, transform,
                           \* wrapper_rank, expected_supplied, cached]
    SharedWrapperMaxRank   \* SHARED_WRAPPER_MAX_RANK

NoRate == <<>>
NoCounts == [class \in {} |-> 0]

ItemOf(row) == Items[row.sent]

\* _rate_or_none, and a value that is published when an audit was joined.
RateOrNone(numerator, denominator) ==
    IF denominator = 0 THEN NoRate ELSE <<numerator, denominator>>
RateIf(joined, numerator, denominator) ==
    IF joined THEN RateOrNone(numerator, denominator) ELSE NoRate
CountIf(joined, count) == IF joined THEN count ELSE None

-----------------------------------------------------------------------------
(* Classes and strata. *)

TrafficClassOf(row) ==
    IF ItemOf(row).traffic_class # "" THEN ItemOf(row).traffic_class ELSE ItemOf(row).transform

OpportunityClasses == {"same_doc_new_instruction", "revised_doc"}
OpportunityRows(rows) == {row \in rows : TrafficClassOf(row) \in OpportunityClasses}

ManifestClassTotal(counts, classes) ==
    IF counts = NoCounts THEN None
    ELSE MapThenSumSet(LAMBDA class : counts[class], classes \cap DOMAIN counts)

\* A row whose manifest names no wrapper is in neither stratum.
WrapperStrata == {"shared_wrapper", "ad_hoc", "unstratified"}
WrapperStratumOf(row) ==
    IF ItemOf(row).wrapper_rank = None THEN "unstratified"
    ELSE IF ItemOf(row).wrapper_rank <= SharedWrapperMaxRank THEN "shared_wrapper" ELSE "ad_hoc"
InStratum(rows, stratum) == {row \in rows : WrapperStratumOf(row) = stratum}

WrapperHeadShare(rows) ==
    RateOrNone(Cardinality(InStratum(rows, "shared_wrapper")),
               Cardinality(rows \ InStratum(rows, "unstratified")))

-----------------------------------------------------------------------------
(* The rows an audit-derived metric is about. *)

ColdRows(rows) == {row \in rows : ItemOf(row).arm = "cold"}
UnreadRows(rows) == {row \in rows \ ColdRows(rows) : ~row.read}

\* auditable_rows.  (ReadRows, the mutated form, keeps the cold ones.)
ReadRows(rows) == {row \in rows : row.read}
Considered(rows) == rows \ (ColdRows(rows) \cup UnreadRows(rows))

AuditWasJoined(rows) == \E row \in rows : row.read

-----------------------------------------------------------------------------
(* M1: alignment. *)

AdvertisedAtBoundary(rows) == {row \in rows : row.advertised > 0 /\ row.boundary > 0}
LookupHitsAtBoundary(rows) == {row \in rows : row.hit /\ row.hit_boundary > 0}

MissBreakdown(rows) == Cardinality({row \in rows : row.missed_at > 0})
DeclineBreakdown(rows) ==
    [event \in SpanDeclineEvents |-> Cardinality({row \in rows : row.decline = event})]

\* _m1_stratum_block; the denominator is the rows the stratum holds.
StratumBlock(rows) ==
    LET aligned == Cardinality(AdvertisedAtBoundary(rows))
        hits    == Cardinality(LookupHitsAtBoundary(rows))
        chances == Cardinality(OpportunityRows(rows))
    IN  [rows_considered |-> Cardinality(rows),
         aligned         |-> aligned,
         hits            |-> hits,
         opportunities   |-> chances,
         given_match     |-> RateOrNone(aligned, hits),
         given_chance    |-> RateOrNone(aligned, chances),
         misses          |-> MissBreakdown(rows),
         declines        |-> DeclineBreakdown(rows)]

\* _m1_integrity_check, of the token counts: the planner's and the model's.
SuppliedClaims(rows) ==
    {row \in rows : ItemOf(row).expected_supplied # None /\ row.advertised # None}
SuppliedAgreed(rows) ==
    {row \in SuppliedClaims(rows) : row.advertised = ItemOf(row).expected_supplied}

\* _m1_alignment.  The advertises are of all classes, the denominator is the
\* manifest's count of two, where the document has one.
M1Alignment(rows, joined, counts) ==
    LET aligned     == Cardinality(AdvertisedAtBoundary(rows))
        inside      == Cardinality(OpportunityRows(AdvertisedAtBoundary(rows)))
        hits        == Cardinality(LookupHitsAtBoundary(rows))
        present     == Cardinality(OpportunityRows(rows))
        asked       == ManifestClassTotal(counts, OpportunityClasses)
        denominator == IF asked = None THEN present ELSE asked
    IN  [aligned         |-> CountIf(joined, aligned),
         hits            |-> hits,
         given_match     |-> RateIf(joined, aligned, hits),
         outside_classes |-> CountIf(joined, aligned - inside),
         denominator     |-> denominator,
         given_chance    |-> RateIf(joined, aligned, denominator),
         in_class        |-> RateIf(joined, inside, denominator),
         opportunities   |-> present,
         rows_present    |-> RateIf(joined, aligned, present),
         misses          |-> CountIf(joined, MissBreakdown(rows)),
         declines        |-> IF joined THEN DeclineBreakdown(rows) ELSE [event \in {} |-> 0],
         strata          |-> [stratum \in IF joined THEN WrapperStrata ELSE {} |->
                                 StratumBlock(InStratum(rows, stratum))],
         head_share      |-> WrapperHeadShare(rows),
         supplied        |-> RateIf(joined, Cardinality(SuppliedAgreed(rows)),
                                            Cardinality(SuppliedClaims(rows)))]

-----------------------------------------------------------------------------
(* M2: what materialized of what was promised; what M7 takes from one arm. *)

Promised(rows) == {row \in rows : row.advertised # None}
Materialized(rows) == {row \in Promised(rows) : row.confirmed # None}
AdvertisedTokens(rows) == MapThenSumSet(LAMBDA row : row.advertised, Promised(rows))
MaterializedTokens(rows) == MapThenSumSet(LAMBDA row : row.confirmed, Materialized(rows))
SupersededSum(rows) ==
    MapThenSumSet(LAMBDA row : row.superseded, {row \in rows : row.superseded # None})

M2MaterializedReuse(rows, joined) ==
    [superseded   |-> CountIf(joined, SupersededSum(rows)),
     tokens       |-> CountIf(joined, MaterializedTokens(rows)),
     advertised   |-> CountIf(joined, AdvertisedTokens(rows)),
     rate         |-> RateIf(joined, MaterializedTokens(rows), AdvertisedTokens(rows)),
     request_rate |-> RateIf(joined, Cardinality(Materialized(rows)), Cardinality(Promised(rows)))]

\* _m7_inputs: probes with cached tokens and nothing materialized.
M7Inputs(rows, joined) ==
    LET probes == {row \in rows : TrafficClassOf(row) = "propagation_probe"}
    IN  RateIf(joined,
               Cardinality({row \in probes : row.confirmed = None /\ ItemOf(row).cached}),
               Cardinality(probes))

-----------------------------------------------------------------------------
\* connector_audit_metrics: the whole block, of all the rows of a document.
ConnectorAuditMetrics(rows, counts) ==
    LET considered == Considered(rows)
        joined     == AuditWasJoined(considered)
    IN  [present             |-> joined,
         rows_joined         |-> CountIf(joined, Cardinality({row \in considered : row.joined})),
         rows_considered     |-> Cardinality(considered),
         excluded_cold       |-> Cardinality(ColdRows(rows)),
         excluded_not_joined |-> Cardinality(UnreadRows(rows)),
         m1                  |-> M1Alignment(considered, joined, counts),
         m2                  |-> M2MaterializedReuse(considered, joined),
         m7                  |-> M7Inputs(considered, joined)]
=============================================================================
