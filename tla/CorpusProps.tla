---------------------------- MODULE CorpusProps -----------------------------
(***************************************************************************)
(* What a corpus promises the runs that replay it.                         *)
(***************************************************************************)
EXTENDS Corpus

Built == pc \in {"write", "compare"}

\* What the dedupe keeps shares no window of content: of two kept records no
\* run of tokens as long as the window is in both, at whatever offsets
\* (drop_overlapping_sources; the loop only compares with `seen`).
KeptShareNothing ==
    spec.real =>
        \A i, j \in DOMAIN kept :
            i # j => WindowHashes(kept[i]) \cap WindowHashes(kept[j]) = {}

\* In a corpus of real data no recipient finds evidence in another source's
\* donor: a block of a recipient that is content of the item's own source,
\* wherever the transforms moved it, is no block of any donor whose text came
\* from another source (the promise of dedupe.py's head).
NoForeignEvidence ==
    Built /\ spec.real =>
        \A item \in TokensOf(items), other \in TokensOf(items) :
            \A donor \in TokensOf(other.donors) :
                Origin(other, donor) # item.source =>
                    {block \in ContentBlocks(item.recipient, Window) :
                        \E r \in TokensOf(kept) :
                            r.id = item.source /\ block \in Windows(Material(r), Window)}
                    \cap ContentBlocks(donor.text, Window) = {}

\* A wrapper's block: one of as many sources as the audit asks for, or of all
\* the sources donors have content from, and never of one alone.
SharedWidely(block, corpus, size) ==
    LET shared == Cardinality(Sources(Owners(corpus, block, size)))
        all    == Cardinality(UNION {Sources(Owners(corpus, b, size)) :
                                        b \in DonorBlocks(corpus, size)})
    IN  shared >= 2 /\ shared >= Min({BoilerplateThreshold, all})

\* What an offline run of an audited manifest counts as exact hits is the
\* source's own text, but for blocks without content and for wrappers: a hit
\* never comes from the donor a control borrowed (audit_manifest_items and
\* _run_one_item, which index the same donors apart from each other).
ExactHitsAreOwn ==
    rows # <<>> /\ AuditPasses(manifest.items, cmd.size) =>
        \A i \in DOMAIN rows :
            LET item   == manifest.items[i]
                blocks == IterFullBlocks(Encode(item.recipient), cmd.size)
            IN  \A b \in rows[i].exact :
                    \/ IsDegenerateBlock(blocks[b + 1])
                    \/ SharedWidely(blocks[b + 1], manifest.items, cmd.size)
                    \/ /\ ~item.negative
                       /\ \A donor \in TokensOf(item.donors) : donor.from = NoSource

\* A corpus verify-frozen accepts is one that passed the audit when it was
\* frozen, at the block size it was frozen with, whatever was killed, failed
\* its audit or moved in between (cmd_freeze, cmd_verify_frozen).
VerifiedIsClean ==
    cmd.name = "verify" /\ exit = "ok" =>
        AuditPasses(items, FreezeSize)

\* A probe's answer can only come from the recipient: no donor of a probe
\* whose fact the donor does not state holds the answer's number, while the
\* recipient does (_build_v5_probe_item's collision checks).
NoProbeLeak ==
    Built =>
        \A item \in TokensOf(items) :
            item.transform \in ToSet(ProbeTransforms) =>
                /\ item.answer \in TokensOf(item.recipient)
                /\ item.transform # "fact_paraphrase" =>
                       \A donor \in TokensOf(item.donors) :
                           item.answer \notin TokensOf(donor.text)

\* The rewrite keeps every number of a text, with the word before it and the
\* word behind it, whatever is swapped, filled in or joined around them
\* (paraphrase.py's head); here of every piece of the sources' contexts.
UnitsOf(sentence) ==
    {[word |-> sentence[i],
      before |-> IF i > 1 THEN {sentence[i - 1]} ELSE {},
      behind |-> IF i < Len(sentence) THEN {sentence[i + 1]} ELSE {}] :
         i \in {j \in DOMAIN sentence : sentence[j] \in Numbers}}

HoldsUnit(text, unit) ==
    \E at \in DOMAIN text :
        /\ text[at] = unit.word
        /\ unit.before \subseteq {text[j] : j \in DOMAIN text \cap {at - 1}}
        /\ unit.behind \subseteq {text[j] : j \in DOMAIN text \cap {at + 1}}

FactsSurvive ==
    pc = "dedupe" /\ todo = <<>> =>
        \A r \in TokensOf(kept) :
            \A piece \in {SubSeq(r.context, a, b) : a, b \in DOMAIN r.context} \ {<<>>} :
                \A sentence \in TokensOf(SplitSentences(piece)) :
                    \A unit \in UnitsOf(WithoutStop(sentence)) :
                        HoldsUnit(RewritePreservingFacts(piece), unit)
=============================================================================
