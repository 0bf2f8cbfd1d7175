---------------------------- MODULE SglangReplay ----------------------------
(***************************************************************************)
(* The live SGLang runner and its checkpoint: replay_items, _run_arm and   *)
(* load_checkpoint of src/sembench/sglang_live.py, with the engine cache   *)
(* they drive and the pairs paired_summary makes of what they return.      *)
(*                                                                         *)
(* A session is one execution of the command.  It may be killed anywhere   *)
(* (a GPU arm runs for hours) and be started again, with --resume or       *)
(* without, over the checkpoint and the engine it left behind.             *)
(***************************************************************************)
EXTENDS Naturals, Sequences, FiniteSets, SequencesExt

CONSTANTS
    Manifest,       \* the item ids to replay, in order
    Configs,        \* the options a run may have: [paired, flush_per_item]
    ResumeChoices,  \* what --resume may be: a subset of BOOLEAN
    Tearing,        \* whether a kill may cut a checkpoint write in two
    MaxSessions     \* bound: sessions that get as far as replaying; the last is not killed

ASSUME SglangAssumption ==
    /\ Manifest \in Seq(STRING) /\ Manifest # <<>>
    /\ Configs \subseteq [paired : BOOLEAN, flush_per_item : BOOLEAN]
    /\ Tearing \in BOOLEAN
    /\ ResumeChoices \subseteq BOOLEAN /\ ResumeChoices # {}
    /\ MaxSessions \in Nat \ {0}

VARIABLES
    config,      \* the options, the same for every session over one checkpoint
    pc,          \* where the session is; "down", "returned" or "failed" when there is none
    session,     \* sessions so far
    resume,      \* config.resume of this session
    pos,         \* the item the loop is at
    arm,         \* the arm of it being run
    results,     \* the rows held in memory, and returned
    done,        \* completed keys, computed once, from the checkpoint
    measured,    \* the pair's rows, measured and not yet recorded
    checkpoint,  \* the rows of the file, in order
    tail,        \* how the file ends: "clean", "unterminated", or it is "corrupt"
    cache        \* engine: what is cached, <<"prompt" or "donor", item>>

file == <<checkpoint, tail>>
vars == <<config, pc, session, resume, pos, arm, results, done, measured, file, cache>>

Ids == ToSet(Manifest)
Item == Manifest[pos]
Running == pc \in {"next", "flush", "seed", "generate", "record"}
FirstArm == IF config.paired THEN "cold" ELSE "single"

\* The rows an item needs before a resumed session passes it over: both arms
\* in paired mode (EitherArmDone is its mutated form: one is enough).
EitherArmDone == \E a \in {"cold", "warm"} : <<Item, a>> \in done
ItemDone == IF config.paired THEN {<<Item, "cold">>, <<Item, "warm">>} \subseteq done
                      ELSE <<Item, "single">> \in done

Init == /\ config \in Configs
        /\ pc = "down" /\ session = 0 /\ resume = FALSE
        /\ pos = 1 /\ arm = FirstArm
        /\ results = <<>> /\ done = {} /\ measured = <<>>
        /\ checkpoint = <<>> /\ tail = "clean"
        /\ cache = {}

\* load_checkpoint: nothing without --resume, else every row of the file
\* (LoadsNothing is its mutated form).
LoadsNothing(r) == <<>>
Loaded(r) == IF r THEN checkpoint ELSE <<>>

Keys(rows) == {<<row.item, row.arm>> : row \in ToSet(rows)}

(* A session starts.  One undecodable line makes load_checkpoint raise.     *)

Start(r) == /\ ~Running /\ session < MaxSessions
            /\ ~(r /\ tail = "corrupt")
            /\ pc' = "next"
            /\ session' = session + 1 /\ resume' = r
            /\ pos' = 1 /\ arm' = FirstArm /\ measured' = <<>>
            /\ results' = Loaded(r)
            /\ done' = Keys(Loaded(r))
            /\ UNCHANGED <<config, file, cache>>

StartFails == /\ ~Running /\ TRUE \in ResumeChoices /\ tail = "corrupt"
              /\ pc' = "failed" /\ resume' = TRUE
              /\ results' = <<>> /\ done' = {} /\ measured' = <<>>
              /\ UNCHANGED <<config, session, pos, arm, file, cache>>

(* The loop over the items. *)

Skip == /\ pc = "next" /\ pos <= Len(Manifest) /\ ItemDone
        /\ pos' = pos + 1
        /\ UNCHANGED <<config, pc, session, resume, arm, results, done, measured, file, cache>>

\* BeginMissingArm, its mutated form, goes on with the arm that is missing.
BeginMissingArm ==
    /\ pc = "next" /\ pos <= Len(Manifest) /\ ~ItemDone
    /\ arm' = IF config.paired /\ <<Item, "cold">> \in done THEN "warm" ELSE FirstArm
    /\ pc' = IF config.paired \/ config.flush_per_item THEN "flush" ELSE "seed"
    /\ UNCHANGED <<config, session, resume, pos, results, done, measured, file, cache>>

Begin == /\ pc = "next" /\ pos <= Len(Manifest) /\ ~ItemDone
         /\ arm' = FirstArm
         /\ pc' = IF config.paired \/ config.flush_per_item THEN "flush" ELSE "seed"
         /\ UNCHANGED <<config, session, resume, pos, results, done, measured, file, cache>>

Finish == /\ pc = "next" /\ pos > Len(Manifest)
          /\ pc' = "returned"
          /\ UNCHANGED <<config, session, resume, pos, arm, results, done, measured, file, cache>>

\* What the engine can reuse for the item: its prompt, or its donors'.
Prompt == <<"prompt", Item>>
Donors == <<"donor", Item>>
Warm == {Prompt, Donors} \cap cache # {}

(* One arm: flush the engine, seed the donors, send the recipient. *)

\* _post_json swallows whatever goes wrong: the cache is emptied, or it is
\* not and nobody is told.
Flush == /\ pc = "flush"
         /\ \/ cache' = {}
            \/ UNCHANGED cache
         /\ pc' = IF arm = "cold" THEN "generate" ELSE "seed"
         /\ UNCHANGED <<config, session, resume, pos, arm, results, done, measured, file>>

\* The donors' answers are discarded, errors too.
Seed == /\ pc = "seed"
        /\ \/ cache' = cache \cup {Donors}
           \/ UNCHANGED cache
        /\ pc' = "generate"
        /\ UNCHANGED <<config, session, resume, pos, arm, results, done, measured, file>>

\* A cold arm whose recipient found more than a block cached was not flushed
\* (NeverFlagged is its mutated form).
NeverFlagged(a, hit) == FALSE
FlushContaminated(a, hit) == a = "cold" /\ hit

\* The row: `hit` is what the engine did, `flagged` what the row says of it.
\* A request that failed may have reported its cached tokens before or not.
Row(hit, reported, error) ==
    [item |-> Item, arm |-> arm, session |-> session, hit |-> hit,
     flagged |-> FlushContaminated(arm, hit /\ reported), error |-> error]

\* _send_generate never raises: a request that timed out is a row with an
\* error, and the engine may have worked on it all the same.
Answer(row) ==
    /\ measured' = Append(measured, row)
    /\ IF arm = "cold" THEN pc' = "flush" /\ arm' = "warm"
                       ELSE pc' = "record" /\ arm' = arm
    /\ UNCHANGED <<config, session, resume, pos, results, done, file>>

GenerateAnswered == /\ pc = "generate"
                    /\ Answer(Row(Warm, TRUE, FALSE))
                    /\ cache' = cache \cup {Prompt}

GenerateFailed == /\ pc = "generate"
                  /\ \E reported \in BOOLEAN : Answer(Row(Warm, reported, TRUE))
                  /\ cache' \in {cache, cache \cup {Prompt}}

(* record(): append to the results and to the file, which is flushed. *)

TailAfterWrite == IF tail = "clean" THEN "clean" ELSE "corrupt"

Record == /\ pc = "record"
          /\ results' = Append(results, Head(measured))
          /\ checkpoint' = Append(checkpoint, Head(measured))
          /\ tail' = TailAfterWrite
          /\ measured' = Tail(measured)
          /\ IF Len(measured) = 1 THEN pc' = "next" /\ pos' = pos + 1
                                  ELSE UNCHANGED <<pc, pos>>
          /\ UNCHANGED <<config, session, resume, arm, done, cache>>

-----------------------------------------------------------------------------
(* The session is killed.  What it held in memory is gone; the file and the *)
(* engine stay, the engine perhaps with the request it was working on.      *)

Dies == /\ pc' = "down"
        /\ results' = <<>> /\ done' = {} /\ measured' = <<>>
        /\ UNCHANGED <<config, session, resume, pos, arm>>

Kill == /\ Running /\ session < MaxSessions /\ Dies
        /\ cache' \in {cache} \cup (CASE pc = "flush" -> {{}}
                                      [] pc = "seed" -> {cache \cup {Donors}}
                                      [] pc = "generate" -> {cache \cup {Prompt}}
                                      [] OTHER -> {})
        /\ UNCHANGED file

\* In the middle of writing a row: all of it but the newline is in the file,
\* or less than that.  A row written behind an unterminated one joins its line.
KillInWrite == /\ pc = "record" /\ Tearing /\ session < MaxSessions /\ Dies
               /\ \/ /\ tail = "clean" /\ tail' = "unterminated"
                     /\ checkpoint' = Append(checkpoint, Head(measured))
                  \/ tail' = "corrupt" /\ UNCHANGED checkpoint
               /\ UNCHANGED cache

SessionStep == \/ Skip \/ Begin \/ Finish \/ Flush \/ Seed
               \/ GenerateAnswered \/ GenerateFailed \/ Record

Restart == \/ \E r \in ResumeChoices : Start(r)
           \/ StartFails

\* Nobody starts another session.
Over == ~Running /\ UNCHANGED vars

Next == SessionStep \/ Restart \/ Kill \/ KillInWrite \/ Over

Spec == Init /\ [][Next]_vars

-----------------------------------------------------------------------------
(* What paired_summary makes of the rows: one cold and one warm row per     *)
(* item, the last one of each, and _clean_pairs' rule for the usable ones.  *)

HasRow(i, a) == \E n \in DOMAIN results : results[n].item = i /\ results[n].arm = a
LastRow(i, a) == SelectLastInSeq(results, LAMBDA row : row.item = i /\ row.arm = a)
ColdRow(i) == results[LastRow(i, "cold")]
WarmRow(i) == results[LastRow(i, "warm")]

UsablePairs ==
    {i \in Ids : /\ HasRow(i, "cold") /\ HasRow(i, "warm")
                 /\ ~ColdRow(i).flagged
                 /\ ~ColdRow(i).error /\ ~WarmRow(i).error}

-----------------------------------------------------------------------------
\* "A pair missing either arm reruns whole (arms are only comparable from the
\* same session)" (sglang_live.py:157): no pair the summary uses joins the
\* arms of two sessions, however often the run was killed and resumed.
PairsFromOneSession ==
    pc = "returned" => \A i \in UsablePairs : ColdRow(i).session = WarmRow(i).session

\* A cold twin whose flush did not take is not used: flush errors are
\* swallowed (sglang_live.py:283), so the row itself has to give it away, with
\* whatever earlier arms and sessions left in the engine.
UsableColdWasCold ==
    pc = "returned" => \A i \in UsablePairs : ~ColdRow(i).hit

\* A session that returns has every row of every item, those it passed over
\* because of the checkpoint included.
EveryItemReturned ==
    pc = "returned" => \A i \in Ids : IF config.paired THEN HasRow(i, "cold") /\ HasRow(i, "warm")
                                                ELSE HasRow(i, "single")

\* A resumed session sends nothing for an item the file has complete: its
\* hours of engine time are not spent twice.
ResumeNeverRepeats ==
    [][pc = "generate" /\ pc' # pc /\ resume
         => ~({Item} \X (IF config.paired THEN {"cold", "warm"} ELSE {"single"}) \subseteq Keys(checkpoint))]_vars
=============================================================================
