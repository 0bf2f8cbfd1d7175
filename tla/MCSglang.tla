------------------------------ MODULE MCSglang ------------------------------
(***************************************************************************)
(* Two items, two or three sessions over the same checkpoint, and          *)
(* calibrations before the first row is recorded.                          *)
(***************************************************************************)
EXTENDS Calibration

CONSTANTS NoAnswer, NoPayload

TwoItems == <<"a", "b">>

PairedOnly == {[paired |-> TRUE, flush_per_item |-> TRUE]}
EveryConfig == [paired : BOOLEAN, flush_per_item : BOOLEAN]

Qwen == <<"Qwen", "7B">>
Say(server, model) == [server_info |-> server, model_info |-> model]
FewAnswers ==
    {Say(<<"models", "7B">>, NoAnswer), Say(NoAnswer, <<"7B">>), Say(<<"other">>, NoAnswer),
     Say(NoAnswer, NoAnswer), Say(NoPayload, <<"7B">>), Say(<<>>, NoAnswer)}
=============================================================================
