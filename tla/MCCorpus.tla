------------------------------ MODULE MCCorpus ------------------------------
(***************************************************************************)
(* Blocks and windows of three tokens, of which two differ.  The loader's  *)
(* sources: three with nothing in common, a copy of a passage at another   *)
(* offset, a copy in a question, and two that begin with the same word.    *)
(***************************************************************************)
EXTENDS CorpusProps

CONSTANTS Unknown, Blank

ARecord(id, dataset, domain, context, input) ==
    [id |-> id, dataset |-> dataset, domain |-> domain, context |-> context,
     input |-> input, answer |-> "reference", edits |-> {1}]

Incident ==
    ARecord("A", "qasper", "ops", <<"a1", "a2", ".", "the", "a3", "24", "a4", ".", "a5", "the", "a6">>,
            <<"what", "qa">>)
Contract ==
    ARecord("B", "qasper", "legal", <<"b1", "b2", "b3", ".", Blank, "b4", "the", "b5", ".">>,
            <<"which", "24">>)
Research ==
    ARecord("C", "lcc", "ops", <<"c1", "c2", Blank, "it", "c3", "c4", "the", "c5", ".">>, <<"what">>)
\* The incident's second sentence, one word on; its passage in a question.
Follow ==
    ARecord("D", "qasper", "ops", <<"d1", "a2", ".", "the", "a3", "d2", "d3">>, <<"what", "qd">>)
Quoted ==
    ARecord("E", "lcc", "legal", <<"e1", "the", "e2", ".", "e3">>, <<"e4", "the", "a3", "24">>)
\* The incident's first word at the very beginning.
Opening ==
    ARecord("F", "qasper", "legal", <<"a1", "f2", "f3", ".", "f4", "the", "f5">>, <<"which">>)

Loads ==
    {<<Incident, Contract, Research>>, <<Incident, Follow, Research>>,
     <<Contract, Incident, Quoted>>, <<Incident, Opening, Research>>}

ASpec(name, real, cap, transforms, selection) ==
    [name |-> name, real |-> real, cap |-> cap, transforms |-> transforms,
     negative_selection |-> selection]

FewSpecs ==
    {ASpec("v1", TRUE, 2, DefaultTransforms, "adjacent"),
     ASpec("synthetic-v2", FALSE, Unknown, TransformsV2, "cross_domain"),
     ASpec("v5", TRUE, 1, TransformsV5, "cross_domain")}

FewSwaps == [w \in {"the"} |-> <<"that same">>]
TwoFillers == <<"indeed", "notably">>
FewRewordings == [w \in {"what"} |-> <<"describe", "the">>]
Names == {"a5"}
Starters == {"the", "it"}
Facts == <<[n |-> 24, more |-> 3], [n |-> 35, more |-> 1], [n |-> 41, more |-> 9]>>
Parts == <<3, 9>>
Totals == <<[total |-> 60, failed |-> 31], [total |-> 72, failed |-> 24], [total |-> 90, failed |-> 25]>>

Copy(target, donor, at) == [target |-> target, donor |-> donor, at |-> at]
FewOutcomes ==
    {Unknown, <<>>,
     <<Copy(0, "one", 3), Copy(1, "one", 4), Copy(2, "one", 5), Copy(3, "one", 1)>>,
     <<Copy(0, "one", 3), Copy(1, "two", 4), Copy(2, "one", 5), Copy(1, Unknown, 4)>>,
     <<Copy(0, "one", 3), Copy(1, "two", Unknown), Copy(2, "one", 5)>>}
=============================================================================
