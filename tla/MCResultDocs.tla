---------------------------- MODULE MCResultDocs ----------------------------
(***************************************************************************)
(* Small campaigns: whose answers are the cold ones, which documents pair, *)
(* and what is published of the rows of a pair and asserted on it.         *)
(***************************************************************************)
EXTENDS ResultProps

-----------------------------------------------------------------------------
(* Manifests: a document d, its verbatim repeat p, a request x that can    *)
(* reuse nothing and a control n.                                          *)

AnItem(item, class, parent, position) ==
    [item |-> item, fingerprint |-> IF item = "n" THEN "control" ELSE class, class |-> class, parent |-> parent,
     position |-> position, control |-> item = "n"]
D == AnItem("d", "revised_doc", "", 0)
P == AnItem("p", ProbeClass, "d", 1)
X == AnItem("x", "no_reuse", "", 2)
N == AnItem("n", "revised_doc", "", 3)
At(item, position) == [item EXCEPT !.position = position]

MCManifests == [
    pair   |-> <<D, P>>,
    turned |-> <<At(P, 0), At(D, 1)>>,          \* the same items in another order
    other  |-> <<D, [P EXCEPT !.fingerprint = "other"]>>,
    twice  |-> <<D, P, At(D, 2)>>,              \* an id that repeats
    orphan |-> <<D, [P EXCEPT !.parent = ""], X, N>>,
    full   |-> <<D, P, X, N>>]

Size(manifest) == Len(MCManifests[manifest])

-----------------------------------------------------------------------------
(* Runs. *)

Answer(output) ==
    [output |-> output, error |-> FALSE, flushed |-> FALSE, ttft |-> 4, quality |-> "pass",
     confirmed |-> 8, placed |-> TRUE]
Answers(outputs) == [n \in DOMAIN outputs |-> Answer(outputs[n])]

Run(arm, ran, manifest, outcomes) ==
    [manifest |-> manifest, max_items |-> Size(manifest), arm |-> arm, id |-> <<"r1">>,
     backend_id |-> Nothing, baseline_id |-> Nothing, ran |-> ran, outcomes |-> outcomes]

Labels == [A1 |-> <<"A1">>, A2 |-> <<"stock", "pc", "rerun">>, A4 |-> <<"conn", "span">>,
           A5 |-> <<"conn", "span", "noaudit">>, A6 |-> <<"A6", "conn", "span", "nomitigation">>]

\* The ways a run says which arm it was, or does not.
Labelled(run) == {run, [run EXCEPT !.backend_id = Labels[run.ran]],
                  [run EXCEPT !.baseline_id = Labels[run.ran]]}
\* ... and may be called.
Called(run) == {run, [run EXCEPT !.id = <<"A1", "day2">>]}

Merge(cold, warm, reference, output) ==
    [cold |-> cold, warm |-> warm, reference |-> reference, asserted |-> <<"A1">>,
     pair |-> NoPair, unpaired |-> FALSE, audit |-> NoAudit, output |-> output]

Untouched == [f \in {"cold", "warm", "ref", "out", "out2"} |-> {}]

-----------------------------------------------------------------------------
(* Provenance: baselines, treatments and references that are what they say *)
(* they are, or say nothing, merged under any pair.                        *)

Answered4 == {<<"s", "c">>, <<"s", "s">>}    \* d's answer was served to p, or not
Baselines ==
    {Run("cold", "A1", "pair", Answers(<<"c", "c">>))}
    \cup {Run("cold", "A4", "pair", Answers(a)) : a \in Answered4}
Treatments == {Run("warm", "A6", "pair", Answers(<<"s", "s">>)),
               Run("warm", "A4", "pair", Answers(<<"s", "c">>))}
References == {Run("single", "A1", m, Answers(<<"c", "c">>)) : m \in {"pair", "turned"}}
              \cup {Run("single", "A4", "pair", Answers(<<"s", "s">>))}

ProvenanceRuns ==
    [Untouched EXCEPT
        !["cold"] = UNION {UNION {Called(r) : r \in Labelled(b)} : b \in Baselines},
        !["warm"] = UNION {{t, [t EXCEPT !.backend_id = Labels[t.ran]]} : t \in Treatments},
        !["ref"] = UNION {UNION {Called(r) : r \in Labelled(b)} : b \in References}]
ProvenanceMerges ==
    {[Merge("cold", "warm", reference, "out") EXCEPT !.pair = pair, !.asserted = asserted] :
        reference \in {NoFile, "ref"}, pair \in {NoPair, "m3_ttft", "m7_propagation"},
        asserted \in {<<"A1">>, <<"A4">>}}
Provenance == [runs |-> ProvenanceRuns, merges |-> ProvenanceMerges, gates |-> Untouched]

-----------------------------------------------------------------------------
(* Pairing: runs of different manifests, stamps and lengths, and a merged  *)
(* document that is merged again.                                          *)

Sent(arm, manifest) == Run(arm, "A4", manifest, Answers([n \in 1 .. Size(manifest) |-> "s"]))
AnyRun ==
    UNION {{Sent(arm, manifest), [Sent(arm, manifest) EXCEPT !.max_items = 1]} :
        arm \in {"cold", "warm", "single"}, manifest \in {"pair", "turned", "other", "twice"}}
PairingMerges ==
    {[Merge("cold", "warm", NoFile, "out") EXCEPT !.unpaired = u, !.pair = pair] :
        u \in BOOLEAN, pair \in {NoPair, "m3_ttft"}}
    \cup {Merge("out", "warm", NoFile, "out2"), Merge("cold", "out", NoFile, "out2")}
Pairings == [runs |-> [Untouched EXCEPT !["cold"] = AnyRun, !["warm"] = AnyRun],
             merges |-> PairingMerges, gates |-> Untouched]

-----------------------------------------------------------------------------
(* Measurements: requests that failed, were not flushed for, sent no token *)
(* or no answer, one at a time; audits that speak of some; and the gates.  *)

Deviations == {"none", "flushed", "error", "no_ttft", "other", "no_answer"}
Deviating(outcome, deviation) ==
    [outcome EXCEPT
        !.flushed = deviation = "flushed",
        !.error = deviation = "error",
        !.ttft = IF deviation = "no_ttft" THEN 0 ELSE @,
        !.output = CASE deviation = "other" -> "t" [] deviation = "no_answer" -> "" [] OTHER -> @]
Base(ttfts) == [n \in 1 .. 4 |-> [Answer("s") EXCEPT !.ttft = ttfts[n], !.confirmed = IF n = 4 THEN 0 ELSE 8]]
OneDeviates(outcomes) ==
    {[outcomes EXCEPT ![n] = Deviating(@, d)] : n \in 1 .. 4, d \in Deviations}
AllOf(outcomes) == {[n \in 1 .. 4 |-> [outcomes[n] EXCEPT !.quality = q, !.confirmed = c]] :
                        q \in {"fail", "unscored"}, c \in {None, 8}}

Colds == {Run("cold", "A3", "full", o) : o \in OneDeviates(Base(<<4, 4, 4, 4>>))}
        \cup {Run("cold", "A3", "orphan", Base(<<4, 4, 4, 4>>))}
Warms(ttfts) == {Run("warm", "A4", "full", o) : o \in OneDeviates(Base(ttfts)) \cup AllOf(Base(ttfts))}
        \cup {Run("warm", "A4", "orphan", Base(ttfts))}

Audits == {NoAudit, [d |-> "silent", p |-> "advertised", x |-> "silent"],
           [x |-> "silent", n |-> "silent"], [d |-> "absent", p |-> "silent"]}

MissTaxes ==
    [runs |-> [Untouched EXCEPT !["cold"] = Colds, !["warm"] = Warms(<<1, 4, 2, 4>>)],
     merges |-> {[Merge("cold", "warm", NoFile, "out") EXCEPT !.pair = p, !.audit = a] :
                    p \in {NoPair, "m3_ttft", "m4_capture"}, a \in Audits},
     gates |-> Untouched]

Asked4(requested) ==
    [requested |-> requested, contamination |-> FALSE, allow_missing |-> FALSE,
     summaries |-> <<>>, min_events |-> 0, require_reuse |-> FALSE, no_errors |-> FALSE]
Summary(events, reuse, errors) == [events |-> events, reuse |-> reuse, errors |-> errors]
SpeedGate == Asked4({"min_blended_ttft_speedup"})
QualityGate == Asked4({"min_quality_pass_rate", "min_backend_confirmed_block_rate"})
GateArgs ==
    {Asked4({}), SpeedGate, [SpeedGate EXCEPT !.allow_missing = TRUE],
     QualityGate, Asked4({Deviation, RougeDrop}), Asked4(AtMost),
     [Asked4({}) EXCEPT !.contamination = TRUE],
     [Asked4({"min_semantic_placement_rate"}) EXCEPT
        !.summaries = <<Summary(1, FALSE, 1), Summary(1, TRUE, 0)>>, !.min_events = 2,
        !.require_reuse = TRUE]}
Gated ==
    [runs |-> [Untouched EXCEPT !["cold"] = Colds,
                                !["warm"] = Warms(<<4, 1, 4, 4>>) \cup Warms(<<1, 1, 1, 4>>)],
     merges |-> {Merge("cold", "warm", NoFile, "out")},
     gates |-> [Untouched EXCEPT !["out"] = GateArgs, !["warm"] = {QualityGate, SpeedGate}]]

-----------------------------------------------------------------------------
(* A merged document as the reference of a later merge, and runs labelled  *)
(* with the names of the reruns and variants of an arm.                    *)

Chained ==
    {[runs |-> [Untouched EXCEPT !["cold"] = {[Run("cold", "A4", "pair", Answers(<<"s", "c">>))
                                                EXCEPT !.id = <<"A1", "day2">>]},
                                 !["warm"] = {Run("warm", "A6", "pair", Answers(<<"s", "s">>))}],
      merges |-> {Merge("cold", "warm", NoFile, "out"),
                  [Merge("cold", "warm", "out", "out2") EXCEPT !.pair = "m7_propagation"]},
      gates |-> Untouched]}

OfArm(arm, ran) ==
    [Run(arm, ran, "pair", Answers(<<"s", "c">>)) EXCEPT !.backend_id = Labels[ran]]
Variants ==
    {[runs |-> [Untouched EXCEPT !["cold"] = {OfArm("cold", "A1"), OfArm("cold", "A2")},
                                 !["warm"] = {OfArm("warm", "A4"), OfArm("warm", "A5")}],
      merges |-> {[Merge("cold", "warm", NoFile, "out") EXCEPT !.pair = "m3_ttft"]},
      gates |-> Untouched]}

-----------------------------------------------------------------------------
\* 2x, three blocks of ten; everything else as in the documentation.
MCThresholds == [
    min_quality_pass_rate |-> 50, min_semantic_placement_rate |-> 50,
    min_backend_confirmed_block_rate |-> 30, min_blended_ttft_speedup |-> 40,
    max_negative_control_confirmed_rate |-> 90,
    max_negative_control_semantic_placement_rate |-> 100,
    max_negative_control_speedup_deviation |-> 4]

MCCampaigns == {Provenance, Pairings, MissTaxes, Gated}
=============================================================================
