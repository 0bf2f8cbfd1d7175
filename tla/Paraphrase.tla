----------------------------- MODULE Paraphrase -----------------------------
(***************************************************************************)
(* The rewrite of a source that keeps its facts, and the numbers planted   *)
(* in it: src/sembench/paraphrase.py and the probe part of transforms.py.  *)
(*                                                                         *)
(* Words are compared without case, as the tokenizer makes them.  A number *)
(* is the word ToString makes of it.  derived_int takes its numbers from   *)
(* a hash of the source and a salt; here the draws of the successive salts *)
(* are constants.                                                          *)
(***************************************************************************)
EXTENDS Blocks

CONSTANTS
    Stop,         \* the sentence's end
    Swaps,        \* _SWAPS: what a word is replaced by
    Fillers,      \* _FILLERS
    ForceWindow,  \* _FORCE_WINDOW
    Capitals,     \* the words written with a capital
    SafeStarters, \* _SAFE_STARTERS
    FillerBase,   \* the filler the seed starts with
    Shingle,      \* block_words
    FactDraws,    \* the draws of _fact_probe_numbers, salt by salt
    PartDraws,    \* of _restated_parts
    TotalDraws    \* of _complement_numbers

\* The ranges are those the calls of derived_int name.
ASSUME ParaphraseAssumption ==
    /\ \A word \in DOMAIN Swaps : IsSequence(Swaps[word])
    /\ IsSequence(Fillers) /\ Fillers # <<>> /\ FillerBase \in Nat
    /\ FactDraws \in Seq([n : 23..89, more : 0..9])
    /\ PartDraws \in Seq(Nat)
    /\ TotalDraws \in Seq([total : 60..95, failed : 21..39])

Numbers == {ToString(n) : n \in 0..120}

\* A text cut behind each of the given positions.
Pieces(text, ends) ==
    LET From(p) == 1 + Max({0} \cup {q \in ends : q < p})
    IN  Picked([p \in DOMAIN text |-> SubSeq(text, From(p), p)], ends)

\* split_sentences: blank lines are white space like any other.
SplitSentences(text) ==
    LET words == Encode(text)
    IN  Pieces(words, {p \in DOMAIN words : words[p] = Stop \/ p = Len(words)})

WithoutStop(sentence) ==
    IF sentence # <<>> /\ Last(sentence) = Stop THEN Front(sentence) ELSE sentence

\* A word no rewrite touches: a number, its neighbours, a name.
\* (GuardedNumber, the mutated form, leaves the neighbours open.)
GuardedNumber(words, i) == words[i] \in Numbers \cup Capitals

FactGuard(words, i) ==
    \/ words[i] \in Numbers \cup Capitals
    \/ i > 1 /\ words[i - 1] \in Numbers
    \/ i < Len(words) /\ words[i + 1] \in Numbers

\* The body of _rewrite_sentence's loop: a word that is guarded, swapped,
\* preceded by a filler where too little changed, or left.
RewriteWord(done, words, i, base) ==
    LET word    == words[i]
        since   == done.since + 1
        guarded == FactGuard(words, i)
    IN  CASE ~guarded /\ word \in DOMAIN Swaps /\ since >= 2 ->
               [done EXCEPT !.out = @ \o Swaps[word], !.since = 0]
          [] ~guarded /\ word \notin DOMAIN Swaps /\ since >= ForceWindow ->
               [out     |-> done.out \o <<Fillers[((base + done.fillers) % Len(Fillers)) + 1], word>>,
                since   |-> 0,
                fillers |-> done.fillers + 1]
          [] OTHER -> [done EXCEPT !.out = Append(@, word), !.since = since]

RewriteSentence(sentence, base) ==
    LET words == WithoutStop(sentence)
        After[i \in 0..Len(words)] ==
            IF i = 0 THEN [out |-> <<>>, since |-> 0, fillers |-> 0]
            ELSE RewriteWord(After[i - 1], words, i, base)
    IN  After[Len(words)].out \o (IF words = sentence THEN <<>> ELSE <<Stop>>)

MergeSafe(sentence) ==
    /\ sentence[1] \in SafeStarters
    /\ Len(sentence) > 1 => sentence[2] \notin Capitals

\* The body of rewrite_preserving_facts' loop: a sentence the one before it
\* has taken along, one that takes the next along, or one on its own.
JoinSentence(done, sentences, k) ==
    LET Rewritten(j) == RewriteSentence(sentences[j], FillerBase + j - 1)
    IN  CASE done.joined -> [done EXCEPT !.joined = FALSE]
          [] ~done.joined /\ k < Len(sentences) /\ MergeSafe(sentences[k + 1]) ->
               [out    |-> done.out \o WithoutStop(Rewritten(k)) \o <<";", "in other words">>
                               \o Rewritten(k + 1),
                joined |-> TRUE]
          [] OTHER -> [done EXCEPT !.out = @ \o Rewritten(k)]

RewritePreservingFacts(text) ==
    LET sentences == SplitSentences(text)
        After[k \in 0..Len(sentences)] ==
            IF k = 0 THEN [out |-> <<>>, joined |-> FALSE]
            ELSE JoinSentence(After[k - 1], sentences, k)
    IN  After[Len(sentences)].out

Shingles(words) ==
    IF Len(words) < Shingle THEN {words} \ {<<>>} ELSE Windows(words, Shingle)

\* block_overlap_ratio above _MAX_RESIDUAL_OVERLAP: too shallow a rewrite.
TooShallow(context) ==
    LET shingles == Shingles(RewritePreservingFacts(context))
    IN  \/ shingles = {}
        \/ 100 * Cardinality(shingles \cap Shingles(Encode(context)))
              > 35 * Cardinality(shingles)

InjectSentence(text, sentence) ==
    LET sentences == SplitSentences(text)
        mid       == Len(sentences) \div 2
    IN  FlattenSeq(SubSeq(sentences, 1, mid) \o <<sentence>>
                   \o SubSeq(sentences, mid + 1, Len(sentences)))

-----------------------------------------------------------------------------
(* Probe numbers, none of which the source may hold already.               *)

LeadingDigit(n) == IF n >= 100 THEN n \div 100 ELSE n \div 10

\* A number is one of the words; the code also finds it inside a longer one.
AbsentFrom(text, numbers) == \A n \in numbers : ToString(n) \notin TokensOf(text)

\* The divergent twin starts with another digit.
Divergent(draw) ==
    LET fits == {k \in 0..9 : LeadingDigit(draw.n + 10 + draw.more + 10 * k)
                                 # LeadingDigit(draw.n)}
    IN  draw.n + 10 + draw.more + 10 * (CHOOSE k \in fits : \A j \in fits : k <= j)

\* The salts whose draws will do; the first of them is taken, and a source
\* that has none fails the build.
FactSalts(text) ==
    {s \in DOMAIN FactDraws : AbsentFrom(text, {FactDraws[s].n, Divergent(FactDraws[s])})}

\* The part is drawn from 11 to n - 11.
PartOf(n, s) == 11 + (PartDraws[s] % (n - 21))
PartSalts(text, n) ==
    {s \in DOMAIN PartDraws :
        /\ PartOf(n, s) # n - PartOf(n, s)
        /\ AbsentFrom(text, {PartOf(n, s), n - PartOf(n, s)})}

ComplementSalts(text) ==
    {s \in DOMAIN TotalDraws :
        LET draw   == TotalDraws[s]
            passed == draw.total - draw.failed
        IN  /\ LeadingDigit(draw.failed) # LeadingDigit(passed)
            /\ AbsentFrom(text, {draw.total, draw.failed, passed})}

FirstOf(salts) == CHOOSE s \in salts : \A t \in salts : s <= t
=============================================================================
