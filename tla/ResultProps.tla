---------------------------- MODULE ResultProps -----------------------------
(***************************************************************************)
(* What can be relied on in a result document, however it came about.      *)
(***************************************************************************)
EXTENDS ResultDocs

IsMerged(f) == Written(f) /\ docs[f].config.mode = "merge-results"
PropagationOf(f) == docs[f].paired.propagation
TaxOf(f) == docs[f].paired.miss_tax

-----------------------------------------------------------------------------
(* Merging. *)

\* Both documents hold each item once, of one manifest and one fingerprint.
ItemsOnce(rows) == \A m, n \in DOMAIN rows : m # n => rows[m].item # rows[n].item
Within(rows, others) ==
    \A n \in DOMAIN rows : \E m \in DOMAIN others :
        others[m].item = rows[n].item /\ others[m].fingerprint = rows[n].fingerprint
OneToOne(cold, warm) ==
    /\ cold.run.sha = warm.run.sha
    /\ ItemsOnce(cold.rows) /\ ItemsOnce(warm.rows)
    /\ Within(cold.rows, warm.rows) /\ Within(warm.rows, cold.rows)

\* cmd_merge_results: without --allow-unpaired a merge is refused unless the
\* rows of its two documents pair one to one, item by item, in both
\* directions: neither arm may have an item the other has not.
MergePairsOneToOne ==
    \A f \in Files : IsMerged(f) /\ ~docs[f].config.unpaired =>
        OneToOne(docs[docs[f].config.cold], docs[docs[f].config.warm])

\* join_arms and paired_summary: of a one-to-one merge every row of either
\* document is in the merged one, under the role it was given as and else as
\* it was, and every item is accounted for in the paired block, whatever the
\* runs had called themselves.
Bare(row) == [row EXCEPT !.arm = "", !.audit = "", !.advertised = None]
Holds(rows, role, others) ==
    \A n \in DOMAIN others :
        Cardinality({m \in DOMAIN rows : rows[m].arm = role /\ Bare(rows[m]) = Bare(others[n])}) = 1
MergedRowsWhole ==
    \A f \in Files : IsMerged(f) /\ ~docs[f].config.unpaired =>
        LET cold == docs[docs[f].config.cold].rows
            warm == docs[docs[f].config.warm].rows
            paired == docs[f].paired
        IN  /\ Len(docs[f].rows) = Len(cold) + Len(warm)
            /\ Holds(docs[f].rows, "cold", cold) /\ Holds(docs[f].rows, "warm", warm)
            /\ paired.present
            /\ paired.total = Len(cold) /\ paired.unpaired = 0 /\ paired.mismatched = 0
            /\ paired.used + paired.contaminated + paired.errored <= paired.total

-----------------------------------------------------------------------------
(* M7. *)

\* Where the answers came from that a document takes for the cold ones.
ColdSource(f) ==
    IF PropagationOf(f).source = "baseline_arm" THEN docs[f].config.cold
    ELSE docs[f].config.reference
\* The arm is the one --pair names, and the cold run does not say which it was.
VouchedFor(f) ==
    /\ PropagationOf(f).source = "baseline_arm"
    /\ docs[f].config.pair # NoPair
    /\ BackendArm(docs[docs[f].config.cold].run) = ""

\* cold_reference_for: a contamination rate published against a named arm was
\* counted on answers of that arm: not on those of a run that was called so on
\* the command line, or whose run id reads like it.
ColdAnswersAreItsArms ==
    \A f \in Files : IsMerged(f) /\ docs[f].paired.present =>
        LET m7 == PropagationOf(f)
            rows == docs[ColdSource(f)].rows
        IN  m7.numerator # None /\ m7.arm # Undeclared /\ ~VouchedFor(f) =>
            \A i \in DOMAIN m7.cold_answers :
                \E n \in DOMAIN rows : /\ rows[n].item = i
                                       /\ rows[n].output = m7.cold_answers[i]
                                       /\ rows[n].ran = m7.arm

\* _propagation_summary: every probe the runs were asked is in the denominator
\* of M7, and in exactly one of the counters that say why it was not scored:
\* a probe that failed, or whose pair is no pair, does not lower the set.
ProbesAsked(f) ==
    Cardinality({n \in DOMAIN docs[f].rows : docs[f].rows[n].class = ProbeClass})
ProbesAccounted ==
    \A f \in Files : IsMerged(f) /\ ~docs[f].config.unpaired =>
        LET m7 == PropagationOf(f)
        IN  /\ m7.denominator = ProbesAsked(docs[f].config.warm)
            /\ m7.numerator # None =>
                m7.denominator = m7.scored + m7.excluded + m7.unlinked + m7.without_served
                                 + m7.without_answers + m7.without_reference + m7.absent

\* _nothing_was_scored: a rate over probes of which none was scored is no
\* rate: a published 0 was measured on at least one.
ZeroIsMeasured ==
    \A f \in Files : IsMerged(f) /\ docs[f].paired.present =>
        LET m7 == PropagationOf(f)
        IN  m7.numerator # None /\ m7.denominator > 0 => DOMAIN m7.cold_answers # {}

-----------------------------------------------------------------------------
(* M4. *)

\* _miss_tax_summary: the tax is of requests the audit file holds a lookup
\* of, that promised nothing: a request it holds nothing about, and a control,
\* is not priced; every clean pair is in one of the counts.
MissTaxIsOfMisses ==
    \A f \in Files : IsMerged(f) /\ docs[f].paired.present =>
        LET m4 == TaxOf(f)
            paired == docs[f].paired
            clean == paired.total - paired.contaminated - paired.errored
                     - paired.unpaired - paired.mismatched
        IN  /\ \A i \in m4.priced :
                /\ i \in DOMAIN docs[f].config.audit /\ docs[f].config.audit[i] = "silent"
                /\ \A n \in DOMAIN docs[f].rows : docs[f].rows[n].item = i =>
                    ~docs[f].rows[n].control
            /\ m4.pairs # None =>
                clean = m4.pairs + m4.without_ttft + m4.advertising + m4.not_audited
                        + m4.outside_class + m4.controls

-----------------------------------------------------------------------------
(* Gates. *)

\* Half of the pairs a speedup is about reached it.
FastEnough(doc, atLeast) ==
    LET cold == ArmRows(doc.rows, "cold")
        warm == ArmRows(doc.rows, "warm")
        timed == {p \in CleanPairs(cold, warm) :
                    p.cold.ttft > 0 /\ p.warm.ttft > 0 /\ ~p.cold.control}
        fast == {p \in timed : 2 * Speedup(p) >= atLeast}
    IN  2 * Cardinality(fast) >= Cardinality(timed)

\* require_metric and _assert_blended_speedup: a gate that was asked for and
\* did not allow missing metrics is green only where its metric was measured,
\* and a green speedup gate is not the work of one very fast request.
Green == verdict.given /\ verdict.passed /\ ~verdict.args.allow_missing
EveryGateMeasured ==
    Green => \A g \in verdict.args.requested : Metric(docs[verdict.result], g) # None
GreenIsEarned ==
    /\ EveryGateMeasured
    /\ Green /\ "min_blended_ttft_speedup" \in verdict.args.requested =>
        FastEnough(docs[verdict.result], Thresholds["min_blended_ttft_speedup"])

-----------------------------------------------------------------------------
(* What the documentation says and the code does not do. *)

\* arm_pair_conflicts: a run merged under a pair ran, if it says what it ran,
\* the arm the pair expects of it.
SaysOtherwise(run, role, arm) == ArmIdOf(DeclaredId(run, role)) \notin {"", arm}
MergedUnderItsPair ==
    \A f \in Files : IsMerged(f) /\ docs[f].config.pair # NoPair =>
        /\ ~SaysOtherwise(docs[docs[f].config.cold].run, "cold",
                          ArmPairs[docs[f].config.pair].baseline)
        /\ ~SaysOtherwise(docs[docs[f].config.warm].run, "warm",
                          ArmPairs[docs[f].config.pair].treatment)
=============================================================================
