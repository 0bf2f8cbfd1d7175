---------------------------- MODULE Propagation -----------------------------
(***************************************************************************)
(* M7, the contamination rate of a paired document: which pairs of rows    *)
(* are clean (src/sembench/pairs.py), which answers are taken for the cold *)
(* ones, and the probes counted against them (src/sembench/propagation.py).*)
(*                                                                         *)
(* An answer is a value: two answers are the same or have nothing in       *)
(* common, which is what the comparison of their ROUGE-L scores tells.     *)
(* "" is no answer, no class, no parent.                                   *)
(***************************************************************************)
EXTENDS ArmMatrix, Integers, FiniteSets

None == -1

-----------------------------------------------------------------------------
(* Pairs. *)

\* The row of each item in one arm: the last one, as in a dictionary.
ArmRows(rows, arm) ==
    LET mine == {n \in DOMAIN rows : rows[n].arm = arm}
        last == {n \in mine : \A m \in mine : rows[m].item = rows[n].item => m <= n}
    IN  [i \in {rows[n].item : n \in mine} |-> rows[CHOOSE n \in last : rows[n].item = i]]

Pair(cold, warm, i) == [item |-> i, cold |-> cold[i], warm |-> warm[i]]

\* _clean_pairs, in the order it asks.
SamePosition(pair) ==
    \/ None \in {pair.cold.position, pair.warm.position}
    \/ pair.cold.position = pair.warm.position
Twins(cold, warm) == {Pair(cold, warm, i) : i \in DOMAIN cold \cap DOMAIN warm}
ContaminatedPairs(cold, warm) == {p \in Twins(cold, warm) : p.cold.flushed}
ErroredPairs(cold, warm) ==
    {p \in Twins(cold, warm) : ~p.cold.flushed /\ (p.cold.error \/ p.warm.error)}
CleanPairs(cold, warm) ==
    {p \in Twins(cold, warm) :
        ~p.cold.flushed /\ ~p.cold.error /\ ~p.warm.error /\ SamePosition(p)}

\* The cold rows of the items that did not become a pair.
ExcludedRows(cold, warm) ==
    {cold[i] : i \in DOMAIN cold \ {p.item : p \in CleanPairs(cold, warm)}}

-----------------------------------------------------------------------------
(* Whose answers are the cold ones. *)

Undeclared == "undeclared"
Required == "required: A1"
ColdArm == "A1"               \* PROPAGATION_COLD_REFERENCE_ARM

NoRows == <<>>
Missing(arm) == [rows |-> NoRows, arm |-> arm, source |-> "", missing |-> TRUE]

\* _reference_rows_by_item: the first row of each item, no warm ones.
ReferenceLines(rows) == {n \in DOMAIN rows : rows[n].arm # "warm"}
ReferenceRows(rows) ==
    LET lines == ReferenceLines(rows)
        first == {n \in lines : \A m \in lines : rows[m].item = rows[n].item => n <= m}
    IN  [i \in {rows[n].item : n \in lines} |-> rows[CHOOSE n \in first : rows[n].item = i]]

\* cold_reference_conflicts: it holds no row of any item of this merge.
ReferenceConflict(rows, warmItems) == DOMAIN ReferenceRows(rows) \cap warmItems = {}

\* cold_reference_for: a reference run if one was given, else the pair's cold
\* twin when the pair, or what the cold run declared, says the baseline is A1.
FromReference(rows, arm) ==
    [rows |-> ReferenceRows(rows), missing |-> FALSE,
     arm |-> IF arm = "" THEN Undeclared ELSE arm,
     source |-> IF arm = "" THEN "reference_arm_undeclared" ELSE "reference_arm"]
Baseline(pair, declared) ==
    IF pair = NoPair THEN ArmIdOf(declared) ELSE ArmPairs[pair].baseline
FromBaseline(baseline) ==
    IF baseline = ColdArm
    THEN [rows |-> NoRows, arm |-> baseline, source |-> "baseline_arm", missing |-> FALSE]
    ELSE Missing(IF baseline = "" THEN Undeclared ELSE Required)
ColdReferenceFor(pair, referenceRows, referenceArm, declared) ==
    IF referenceRows # NoRows
    THEN FromReference(referenceRows, referenceArm)
    ELSE FromBaseline(Baseline(pair, declared))

-----------------------------------------------------------------------------
(* The probes. *)

ProbeClass == "propagation_probe"
Probes(pairs) == {p \in pairs : p.warm.class = ProbeClass}

ParentOf(p) == IF p.warm.parent = "" THEN p.cold.parent ELSE p.warm.parent

\* The answers the document takes for the cold ones, by item: _reference_
\* answers, or the twins' own.  A reference row at another position, or
\* without an answer, is none.
AtPosition(p, row) == None \in {p.warm.position, row.position} \/ p.warm.position = row.position
ReferenceAnswers(probes, rows) ==
    LET answered == {p \in probes : /\ p.item \in DOMAIN rows
                                    /\ AtPosition(p, rows[p.item])
                                    /\ rows[p.item].output # ""}
    IN  [i \in {p.item : p \in answered} |-> rows[i].output]
ReferenceMismatched(probes, rows) ==
    {p \in probes : p.item \in DOMAIN rows /\ ~AtPosition(p, rows[p.item])}
TwinAnswers(probes) ==
    [i \in {p.item : p \in {q \in probes : q.cold.output # ""}} |->
        (CHOOSE p \in probes : p.item = i).cold.output]
ColdAnswers(probes, reference) ==
    IF reference.source = "baseline_arm" THEN TwinAnswers(probes)
    ELSE IF reference.missing THEN <<>>
    ELSE ReferenceAnswers(probes, reference.rows)

\* _count_propagation: why a probe is not scored, in the order it asks.
Unlinked(probes) == {p \in probes : ParentOf(p) = ""}
Linked(probes) == probes \ Unlinked(probes)
Unserved(probes, warm) ==
    {p \in Linked(probes) : ParentOf(p) \notin DOMAIN warm \/ warm[ParentOf(p)].output = ""}
Unanswered(probes, warm) ==
    {p \in Linked(probes) \ Unserved(probes, warm) : p.warm.output = ""}
Readable(probes, warm) ==
    Linked(probes) \ (Unserved(probes, warm) \cup Unanswered(probes, warm))
Scored(probes, warm, answers) == {p \in Readable(probes, warm) : p.item \in DOMAIN answers}

\* Closer to the answer served to the parent than to the cold one: strictly.
Propagated(probes, warm, answers) ==
    {p \in Scored(probes, warm, answers) :
        p.warm.output = warm[ParentOf(p)].output /\ p.warm.output # answers[p.item]}

\* The denominator: the manifest's count of probes when the document has it.
\* (PairsOnly, the mutated form, counts the probes that became pairs.)
NoCounts == None
PairsOnly(counted, probes, excluded) == Cardinality(probes)
ProbeSet(counted, probes, excluded) ==
    IF counted = NoCounts THEN Cardinality(probes) + Cardinality(excluded) ELSE counted

\* _nothing_was_scored.  (NeverNothing is the mutated form.)
NeverNothing(probeSet, scored) == FALSE
NothingScored(probeSet, scored) == probeSet > 0 /\ scored = {}

\* _reference_scored_nothing asks it of a reference run that was given.
FromReferenceRun(reference) == reference.source \notin {"", "baseline_arm"}

\* _propagation_summary.  A rate is published as its numerator over the probe
\* set, or not at all (None).
PropagationSummary(pairs, warm, excludedRows, counted, reference) ==
    LET probes == Probes(pairs)
        excluded == {r \in excludedRows : r.class = ProbeClass}
        answers == ColdAnswers(probes, reference)
        scored == Scored(probes, warm, answers)
        probeSet == ProbeSet(counted, probes, excluded)
        readable == Readable(probes, warm)
        withoutCold == Cardinality(readable \ scored)
        twins == reference.source = "baseline_arm"
        nulled == \/ reference.missing
                  \/ NothingScored(probeSet, scored)
                  \/ FromReferenceRun(reference) /\ scored = {}
    IN  [arm |-> reference.arm,
         source |-> reference.source,
         missing |-> reference.missing,
         numerator |-> IF nulled THEN None ELSE Cardinality(Propagated(probes, warm, answers)),
         denominator |-> probeSet,
         scored |-> IF nulled THEN None ELSE Cardinality(scored),
         cold_answers |-> [p \in {q.item : q \in scored} |-> answers[p]],
         probe_pairs |-> Cardinality(probes),
         excluded |-> Cardinality(excluded),
         unlinked |-> Cardinality(Unlinked(probes)),
         without_served |-> Cardinality(Unserved(probes, warm)),
         without_answers |-> Cardinality(Unanswered(probes, warm))
                             + IF twins THEN withoutCold ELSE 0,
         without_reference |-> IF twins THEN 0 ELSE withoutCold,
         mismatched |-> Cardinality(ReferenceMismatched(probes, reference.rows)),
         absent |-> LET left == probeSet - Cardinality(probes) - Cardinality(excluded)
                    IN  IF left < 0 THEN 0 ELSE left]
=============================================================================
