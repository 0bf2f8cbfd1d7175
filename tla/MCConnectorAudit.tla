-------------------------- MODULE MCConnectorAudit --------------------------
(***************************************************************************)
(* Two rows, the first with a digest of digits only, and a stage of it;    *)
(* every front end connector_audit.py names, and one that strips the id.   *)
(***************************************************************************)
EXTENDS ConnectorAudit

RowA == <<"sembench", "d1">>
RowB == <<"sembench", "x2">>
TwoRows == {RowA, RowB}
Stages == {RowA \o <<"stage0">>}

\* The second row's item names no wrapper and has its class as its transform.
AnItem(arm, class, transform, rank, expected, cached) ==
    [arm |-> arm, traffic_class |-> class, transform |-> transform, wrapper_rank |-> rank,
     expected_supplied |-> expected, cached |-> cached]

ColdA == <<"sembench", "c1">>
ColdB == <<"sembench", "c2">>
ColdTwins == [id \in {ColdA, ColdB} |-> IF id = ColdA THEN RowA ELSE <<>>]
RowItems ==
    [id \in {RowA, RowB, ColdA, ColdB} |->
        CASE id = RowA -> AnItem("warm", "same_doc_new_instruction", "v", 0, 1, FALSE)
          [] id = RowB -> AnItem("warm", "", "propagation_probe", None, 2, TRUE)
          [] OTHER -> AnItem("cold", "same_doc_new_instruction", "v", 0, 1, FALSE)]
SomeCounts == {[class \in {"same_doc_new_instruction", "propagation_probe"} |-> 3]}

OpenAIPrefixes == {"chatcmpl", "cmpl"}
Numbers == {"0", "1", "d1"}
Randoms == {"r1", "r2"}
Draws == <<"r1", "r2">>

AFront(prefix, prompts, random, strips, carry) ==
    [prefix |-> prefix, prompts |-> prompts, random |-> random, strips |-> strips,
     hits_carry_boundary |-> carry]

FewFronts ==
    {AFront(<<"chatcmpl">>, FALSE, TRUE, FALSE, TRUE),   \* chat
     AFront(<<"cmpl">>, TRUE, FALSE, FALSE, FALSE),      \* completions; hits say no boundary
     AFront(<<>>, FALSE, FALSE, FALSE, TRUE),            \* the id as it was sent
     AFront(<<"chatcmpl">>, FALSE, TRUE, TRUE, TRUE)}    \* the id stripped

\* Six lines: one request looked up, promised and materialized, twice over.
\* Five: the same once, and a second request of its id looked up and promised.
\* Four: two requests of two ids, each looked up and promised or declined.
Lines == << <<6>>, <<5, 4>> >>
=============================================================================
