----------------------------- MODULE Transforms -----------------------------
(***************************************************************************)
(* From source records to workload items: src/sembench/transforms.py.      *)
(*                                                                         *)
(* A wrapper's wording is abstracted to a few words of its own, so that a  *)
(* wrapper still separates what it separates and ends where it ends.       *)
(* Lengths are counted in words where the code counts characters, and a    *)
(* cut never falls inside a word.  A record is [id, dataset, domain,       *)
(* context, input, edits], edits the sentences its seed has edited.        *)
(***************************************************************************)
EXTENDS Paraphrase

CONSTANTS
    MaxSegments,     \* max_segments
    MinSegment,      \* min_segment_chars
    Lookahead,       \* how far past a segment's end a sentence's end is looked for
    Reworded         \* _PARAPHRASE_REWRITES, question word by question word

ASSUME SegmentAssumption == MaxSegments \in Nat

\* What a probe's donor is worded with, beside its source and its numbers.
Wording ==
    {Stop, "workspace", "source", "user request", "answer",
     "tally", "logged", "and", "of", "items", "passed"}

\* Two numbers are two words, and none is a word of the wording.
ASSUME NumberWords ==
    /\ \A m, n \in 0..120 : ToString(m) = ToString(n) => m = n
    /\ Numbers \cap Wording = {}

DefaultTransforms ==
    <<"exact_repeat", "instruction_variant", "same_evidence_new_task",
      "leading_evidence_new_task", "rag_reorder", "multi_donor_composite",
      "fuzzy_edit", "negative_control">>
TransformsV2 == Append(DefaultTransforms, "entity_swap_control")
TransformsV4 == TransformsV2 \o <<"repeat_shifted", "question_paraphrase", "sparse_edit">>
ProbeTransforms ==
    <<"fact_paraphrase", "fact_divergent_paraphrase",
      "arithmetic_restatement", "complement_restatement">>
TransformsV5 == TransformsV4 \o ProbeTransforms

-----------------------------------------------------------------------------
(* Segments. *)

\* A text without the blank lines at its two ends.
Strip(text) ==
    LET words == {p \in DOMAIN text : text[p] # Break}
    IN  IF words = {} THEN <<>>
        ELSE SubSeq(text, CHOOSE p \in words : \A q \in words : p <= q,
                          CHOOSE p \in words : \A q \in words : q <= p)

Stripped(pieces) ==
    Picked([k \in DOMAIN pieces |-> Strip(pieces[k])],
           {k \in DOMAIN pieces : Strip(pieces[k]) # <<>>})

Paragraphs(text) ==
    Stripped(Pieces(text, {p \in DOMAIN text : text[p] = Break} \cup {Len(text)}))

\* Where the segment that starts at a position ends: at its size, or behind
\* the last sentence that ends a little further on.
SegmentEnd(text, start) ==
    LET size == IF Len(text) \div MaxSegments > MinSegment
                THEN Len(text) \div MaxSegments ELSE MinSegment
        end  == IF start + size < Len(text) THEN start + size ELSE Len(text)
        last == IF end + Lookahead < Len(text) THEN end + Lookahead ELSE Len(text)
        stops == {p \in (start + 1)..last : text[p] = Stop /\ p < Len(text) /\ text[p + 1] # Break}
        stop  == CHOOSE p \in stops : \A q \in stops : q <= p
    IN  IF end < Len(text) /\ stops # {} /\ stop - 1 > start + MinSegment \div 2
        THEN stop ELSE end

SplitContext(context) ==
    LET paragraphs == Paragraphs(context)
        text       == Strip(context)
        Cut[k \in 0..MaxSegments] == IF k = 0 THEN 0 ELSE SegmentEnd(text, Cut[k - 1])
    IN  IF Len(paragraphs) >= MaxSegments THEN SubSeq(paragraphs, 1, MaxSegments)
        ELSE IF text = <<>> THEN << <<>> >>
        ELSE Stripped(Pieces(text, {Cut[k] : k \in 1..MaxSegments}))

-----------------------------------------------------------------------------
(* Prompts. *)

BasePrompt(context, request) ==
    <<"workspace", "source">> \o context \o <<"user request">> \o request \o <<"answer">>

ShiftedSessionPrompt(context, request) ==
    <<"session">> \o context \o <<"user request">> \o request \o <<"answer">>

InstructionVariantPrompt(context, request) ==
    <<"analyst", "concise", "packet">> \o context \o <<"task">> \o request \o <<"facts only">>

SameEvidenceTaskPrompt(context, request) ==
    <<"brief", "original">> \o request \o <<"evidence">> \o context \o <<"brief">>

LeadingEvidenceDonorPrompt(context) ==
    <<"reusable">> \o context \o <<"summary">>

LeadingEvidenceTaskPrompt(context, request) ==
    context \o <<"using only">> \o request \o <<"answer">>

RagReorderPrompt(segments, request) ==
    <<"bundle">>
        \o FlattenSeq([k \in DOMAIN segments |->
                          <<"record", ToString(k)>> \o Reverse(segments)[k]])
        \o <<"cite">> \o request \o <<"answer">>

SegmentDonorPrompt(segment, k) == <<"cached", ToString(k)>> \o segment \o <<"summary">>

MultiDonorPrompt(segments, request) ==
    <<"cross document">>
        \o FlattenSeq([k \in DOMAIN segments |-> <<"document", ToString(k)>> \o segments[k]])
        \o <<"synthesize">> \o request \o <<"answer">>

\* The sentences the seed picks get a mark before their end; a sentence ends
\* where a blank follows its stop.
SparseEditPrompt(context, request, edits) ==
    LET ends      == {p \in DOMAIN context :
                         \/ p = Len(context)
                         \/ context[p] = Stop /\ context[p + 1] # Break}
        sentences == Pieces(context, ends)
        edited    == [k \in DOMAIN sentences |->
                         IF k \in edits
                         THEN WithoutStop(sentences[k]) \o <<"annotation", Stop>>
                         ELSE sentences[k]]
    IN  <<"doc v2">> \o FlattenSeq(edited) \o <<"request">> \o request \o <<"answer">>

FuzzyEditPrompt(context, request) ==
    <<"workspace", "metadata">> \o Encode(context) \o <<"request">> \o request \o <<"answer">>

ParaphraseRequest(request) ==
    FlattenSeq([k \in DOMAIN request |->
        IF request[k] \in DOMAIN Reworded THEN Reworded[request[k]] ELSE <<request[k]>>])

-----------------------------------------------------------------------------
(* Items. *)

\* What the four probe classes say: the donor's fact, the recipient's, the
\* answer, and the donor's number that would be the wrong one.
Tally(n) == <<"tally", ToString(n), Stop>>
Precisely(n) == <<"precisely", ToString(n), "tally", Stop>>
TwoParts(a, b) == <<"logged", ToString(a), "and", ToString(b), Stop>>
Passed(total, n) == <<"of", ToString(total), "items", ToString(n), "passed", Stop>>
FailedItems(total, n) == <<"of", ToString(total), "items", ToString(n), "failed", Stop>>

\* Everything that lands in either prompt: no probe may occur in it.
\* (ContextOnly, the mutated form, forgets the question.)
ContextOnly(record) == record.context
Haystack(record) == record.context \o record.input

FactProbe(record) == FactDraws[FirstOf(FactSalts(Haystack(record)))]
PartProbe(record) ==
    LET n == FactProbe(record).n
    IN  PartOf(n, FirstOf(PartSalts(Haystack(record), n)))
TotalProbe(record) == TotalDraws[FirstOf(ComplementSalts(Haystack(record)))]

ProbeFacts(record, transform) ==
    LET n == FactProbe(record).n
    IN  CASE transform = "fact_paraphrase" ->
               [donor |-> Tally(n), recipient |-> Precisely(n), answer |-> n]
          [] transform = "fact_divergent_paraphrase" ->
               [donor |-> Tally(Divergent(FactProbe(record))), recipient |-> Precisely(n),
                answer |-> n]
          [] transform = "arithmetic_restatement" ->
               [donor |-> TwoParts(PartProbe(record), n - PartProbe(record)),
                recipient |-> Precisely(n), answer |-> n]
          [] transform = "complement_restatement" ->
               LET draw == TotalProbe(record)
               IN  [donor     |-> Passed(draw.total, draw.total - draw.failed),
                    recipient |-> FailedItems(draw.total, draw.failed),
                    answer    |-> draw.failed]

\* A source the probe classes cannot be built from raises, and the build
\* ends without a manifest.
Buildable(record, transform) ==
    transform \in ToSet(ProbeTransforms) =>
        /\ ~TooShallow(record.context)
        /\ transform = "complement_restatement" => ComplementSalts(Haystack(record)) # {}
        /\ transform # "complement_restatement" => FactSalts(Haystack(record)) # {}
        /\ transform = "arithmetic_restatement" =>
               PartSalts(Haystack(record), FactProbe(record).n) # {}

BasePrompts(transform) ==
    transform \notin {"leading_evidence_new_task", "multi_donor_composite",
                      "negative_control", "entity_swap_control"} \cup ToSet(ProbeTransforms)

\* _build_item: the donors' texts, one for each donor, by transform.
DonorTexts(record, transform, other) ==
    CASE BasePrompts(transform) -> <<BasePrompt(record.context, record.input)>>
      [] transform = "leading_evidence_new_task" ->
           <<LeadingEvidenceDonorPrompt(record.context)>>
      [] transform = "multi_donor_composite" ->
           LET segments == SplitContext(record.context)
           IN  [k \in DOMAIN segments |-> SegmentDonorPrompt(segments[k], k)]
      [] transform \in {"negative_control", "entity_swap_control"} ->
           <<BasePrompt(other.context, other.input)>>
      [] OTHER ->
           <<BasePrompt(InjectSentence(record.context, ProbeFacts(record, transform).donor),
                        record.input)>>

RecipientText(record, transform) ==
    LET context == record.context
        request == record.input
    IN  CASE transform \in {"exact_repeat", "entity_swap_control"} -> BasePrompt(context, request)
          [] transform = "repeat_shifted" -> ShiftedSessionPrompt(context, request)
          [] transform = "question_paraphrase" ->
               ShiftedSessionPrompt(context, ParaphraseRequest(request))
          [] transform \in {"instruction_variant", "negative_control"} ->
               InstructionVariantPrompt(context, request)
          [] transform = "same_evidence_new_task" -> SameEvidenceTaskPrompt(context, request)
          [] transform = "leading_evidence_new_task" ->
               LeadingEvidenceTaskPrompt(context, request)
          [] transform = "rag_reorder" -> RagReorderPrompt(SplitContext(context), request)
          [] transform = "multi_donor_composite" ->
               MultiDonorPrompt(SplitContext(context), request)
          [] transform = "fuzzy_edit" -> FuzzyEditPrompt(context, request)
          [] transform = "sparse_edit" -> SparseEditPrompt(context, request, record.edits)
          [] OTHER ->
               BasePrompt(InjectSentence(RewritePreservingFacts(context),
                                         ProbeFacts(record, transform).recipient),
                          <<"how many">>)

\* The item's id is a hash of what names it here.  A donor is borrowed when
\* its text is another source's.
BuildItem(record, transform, other) ==
    [id        |-> <<record.dataset, record.id, transform>>,
     source    |-> record.id,
     transform |-> transform,
     donors    |-> LET texts == DonorTexts(record, transform, other)
                   IN  [k \in DOMAIN texts |->
                          [text |-> texts[k],
                           from |-> IF transform \in {"negative_control", "entity_swap_control"}
                                    THEN other.id ELSE NoSource]],
     recipient |-> RecipientText(record, transform),
     answer    |-> IF transform \in ToSet(ProbeTransforms)
                   THEN ToString(ProbeFacts(record, transform).answer) ELSE record.answer,
     negative  |-> transform = "negative_control"]

-----------------------------------------------------------------------------
(* The workload. *)

NextOf(records, i) == records[(i % Len(records)) + 1]

\* _pick_negative: the next record, or the first one on of another domain.
PickNegative(records, i, selection) ==
    LET n       == Len(records)
        At(d)   == records[((i - 1 + d) % n) + 1]
        foreign == {d \in 1..(n - 1) : At(d).domain # records[i].domain}
    IN  IF selection = "cross_domain" /\ foreign # {}
        THEN At(CHOOSE d \in foreign : \A e \in foreign : d <= e)
        ELSE NextOf(records, i)

\* A control is left out where its other source is the record itself, and
\* the entity swap where the next record is of another domain.
Other(records, i, transform, selection) ==
    IF transform = "entity_swap_control" THEN NextOf(records, i)
    ELSE PickNegative(records, i, selection)

Wanted(records, i, transform, selection) ==
    LET other == Other(records, i, transform, selection)
    IN  /\ transform = "negative_control" => other.id # records[i].id
        /\ transform = "entity_swap_control" =>
               other.id # records[i].id /\ other.domain = records[i].domain

ItemsOf(records, i, spec) ==
    LET ts == spec.transforms
    IN  Picked([k \in DOMAIN ts |->
                   BuildItem(records[i], ts[k], Other(records, i, ts[k], spec.negative_selection))],
               {k \in DOMAIN ts : Wanted(records, i, ts[k], spec.negative_selection)})

WorkloadBuilds(records, spec) ==
    \A i \in DOMAIN records : \A t \in ToSet(spec.transforms) : Buildable(records[i], t)

BuildWorkload(records, spec) ==
    FlattenSeq([i \in DOMAIN records |-> ItemsOf(records, i, spec)])
=============================================================================
