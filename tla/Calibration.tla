---------------------------- MODULE Calibration -----------------------------
(***************************************************************************)
(* The noise floor, measured on the engine the replays use:                *)
(* run_calibration and build_artifact of src/sembench/calibration.py, the  *)
(* command of cli.py around them, and the check of the endpoint that comes *)
(* first (verify.py, _preflight).  SglangReplay is the other user of the   *)
(* engine; the two commands run one after the other, and the engine keeps  *)
(* what either left in it.                                                 *)
(*                                                                         *)
(* A model's name is the sequence of the components of its path.           *)
(***************************************************************************)
EXTENDS SglangReplay

CONSTANTS
    Answers,         \* what the endpoint may say: [server_info, model_info]
    Silent,          \* a request that is not answered, or not with JSON
    Broken,          \* an answer that is no payload: whatever else is raised
    Expected,        \* --model
    CalibrateBefore  \* bound: rows a replay has recorded when a calibration may come

VARIABLE cal  \* the calibration

calVars == <<vars, cal>>

Resting == [pc |-> "idle", pos |-> 1, first |-> <<>>, pairs |-> {},
            contaminated |-> 0, errored |-> 0]

-----------------------------------------------------------------------------
(* The endpoint. *)

NamedIn(long, short) ==
    \E a \in 1..Len(long), b \in 0..Len(long) : SubSeq(long, a, b) = short

\* _model_matches: one name in the other, or the same last component.
ModelMatches(served, expected) ==
    /\ served # <<>>
    /\ NamedIn(served, expected) \/ NamedIn(expected, served) \/ Last(served) = Last(expected)

\* verify_endpoint: the second address is asked when the first is silent.
Payload(answer) ==
    IF answer.server_info = Silent THEN answer.model_info ELSE answer.server_info

EndpointPassed(answer) ==
    /\ Payload(answer) \notin {Silent, Broken}
    /\ ModelMatches(Payload(answer), Expected)

-----------------------------------------------------------------------------
(* Every item's prompt is sent twice, each time behind a flush. *)

CalInit == Init /\ cal = Resting

CalItem == Manifest[cal.pos]

\* The warm-up requests, of no item's prompt, leave nothing the items meet.
CalStart(answer, skip_verify) ==
    /\ ~Running /\ Len(checkpoint) <= CalibrateBefore /\ cal.pc = "idle"
    /\ cal' = [cal EXCEPT !.pc = IF skip_verify \/ EndpointPassed(answer)
                             THEN "flush" ELSE "refused"]
    /\ UNCHANGED vars

\* The transport's flush: the cache is emptied, or nobody is told it is not.
CalFlush ==
    /\ cal.pc = "flush"
    /\ cal' = [cal EXCEPT !.pc = "generate"]
    /\ cache' \in {{}, cache}
    /\ UNCHANGED <<config, pc, session, resume, pos, arm, results, done, measured, file>>

\* What one run found: whether the engine reused anything, and what it says.
RunOf(item, reported, error) ==
    LET hit == {<<"prompt", item>>, <<"donor", item>>} \cap cache # {}
    IN  [hit |-> hit, cached |-> hit /\ reported, error |-> error]

\* A pair is contaminated when either run reports cached tokens.
\* (SecondContaminated, the mutated form, trusts the first flush.)
SecondContaminated(first, second) == second.cached
Contaminated(first, second) == first.cached \/ second.cached

\* The two runs of an item: errored, contaminated, or a pair.
Judged(first, second) ==
    IF first.error \/ second.error THEN [cal EXCEPT !.errored = @ + 1]
    ELSE IF Contaminated(first, second) THEN [cal EXCEPT !.contaminated = @ + 1]
    ELSE [cal EXCEPT !.pairs = @ \cup {[item |-> CalItem, hit |-> first.hit \/ second.hit]}]

CalGenerate(reported, error) ==
    /\ cal.pc = "generate"
    /\ error \/ reported
    /\ LET this == RunOf(CalItem, reported, error)
       IN  IF cal.first = <<>>
           THEN cal' = [cal EXCEPT !.first = <<this>>, !.pc = "flush"]
           ELSE cal' = [Judged(cal.first[1], this) EXCEPT
                           !.first = <<>>,
                           !.pos = @ + 1,
                           !.pc = IF cal.pos = Len(Manifest) THEN "build" ELSE "flush"]
    /\ cache' \in (IF error THEN {cache} ELSE {}) \cup {cache \cup {<<"prompt", CalItem>>}}
    /\ UNCHANGED <<config, pc, session, resume, pos, arm, results, done, measured, file>>

\* build_artifact refuses a floor of no pairs; otherwise the artifact is
\* written, with its counts.
CalBuild ==
    /\ cal.pc = "build"
    /\ cal' = [cal EXCEPT !.pc = IF cal.pairs = {} THEN "refused" ELSE "written"]
    /\ UNCHANGED vars

\* The command ends, or is killed; what is left is the engine's cache.
CalEnd == cal.pc # "idle" /\ cal' = Resting /\ UNCHANGED vars

CalNext ==
    \/ cal.pc = "idle" /\ Next /\ UNCHANGED cal
    \/ \E answer \in Answers, skip_verify \in BOOLEAN : CalStart(answer, skip_verify)
    \/ CalFlush
    \/ \E reported, error \in BOOLEAN : CalGenerate(reported, error)
    \/ CalBuild \/ CalEnd

CalSpec == CalInit /\ [][CalNext]_calVars

-----------------------------------------------------------------------------
\* The floor the quality gates stand on is of pairs cold in both runs, with
\* whatever earlier replays and calibrations left in the engine and whatever
\* flushes did not take, and every item is accounted for: a pair, contaminated
\* or errored (calibration.py's head; the artifact's three counts).
FloorIsOfColdPairs ==
    cal.pc = "written" =>
        /\ cal.pairs # {}
        /\ \A pair \in cal.pairs : ~pair.hit
        /\ Cardinality(cal.pairs) + cal.contaminated + cal.errored = Len(Manifest)
=============================================================================
