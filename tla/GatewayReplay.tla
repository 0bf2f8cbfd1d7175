--------------------------- MODULE GatewayReplay ----------------------------
(***************************************************************************)
(* A gateway run: the dispatcher of Dispatch.tla driving the stages that   *)
(* replay_plan and build_stages make of a manifest, and execute() of       *)
(* src/sembench/gateway_live.py (in _replay_dispatched) run by the pool    *)
(* threads: the engine cache reset before each step, the donors' requests, *)
(* the recipient's, and the rows they are folded into.                     *)
(*                                                                         *)
(* The engines behind the gateway are external and modelled by what the    *)
(* runner relies on: a request leaves its prompt in the cache of the       *)
(* engine that served it, a reset that answered 2xx emptied that engine,   *)
(* and a donor can be reused once its settle has elapsed.                  *)
(***************************************************************************)
EXTENDS Dispatch, ReplayStages

CONSTANTS
    Runs,      \* manifests and options: [items, mode, minGap, settle, resets]
    Engines    \* the engines behind reset_urls and the gateway

ASSUME GatewayAssumption ==
    /\ \A r \in Runs : r.mode \in RunModes /\ {r.settle, r.resets} \subseteq BOOLEAN
    /\ \A r \in Runs : /\ Len(r.items) \in Nat /\ DOMAIN r.items = 1 .. Len(r.items)
                      /\ \A i \in DOMAIN r.items : r.items[i].donors \in Nat
    /\ Engines # {} /\ IsFiniteSet(Engines)

VARIABLES
    run,          \* this run's member of Runs
    resets,       \* cache_resets: per step "none", "took" or "failed"
    answers,      \* per donor stage: how each donor prompt's request ended, so far
    outcome,      \* per stage: "none" until execute returns, then "value" or
                  \* "error"; "skipped" for a recipient whose donors raised
    reply,        \* per recipient stage: what its request found and how it ended
    donorFailed,  \* donor_failures: the steps whose donor stage raised
    indexing,     \* engine: donors answered, not yet reusable
    cache         \* engine: what each one can reuse

gateway == <<run, resets, answers, outcome, reply, donorFailed, indexing, cache>>

Plan == ReplayPlan(run.items, run.mode)
StepOf(p) == stages[p].step
ItemOf(p) == Plan[StepOf(p)].item

\* What an engine can reuse: an item's prompt or one of its donors'.  For an
\* item, its own, and the prompts of the items it names as donors.
Prompt(item) == [item |-> item.id, donor |-> 0]
Donor(item, n) == [item |-> item.id, donor |-> n]
Entries(item) == {[item |-> item.id, donor |-> n] : n \in 0 .. item.donors}
                 \cup {[item |-> ref, donor |-> 0] : ref \in item.refs}

\* A recipient's reply: what it reused, whether it says so, whether it is an
\* error (of which only that is kept).
NoReply == [found |-> {}, hit |-> FALSE, error |-> FALSE]
ErrorReply == [NoReply EXCEPT !.error = TRUE]
Answered(found, reported) == [found |-> found, hit |-> reported /\ found # {}, error |-> FALSE]

(***************************************************************************)
(* What run_live_gateway_measured refuses: duplicate ids in a joined arm,  *)
(* paired runs without donors or without resets, and resets while several  *)
(* requests are in flight.                                                 *)
(***************************************************************************)
Refused(r) == \/ PlanRefused(r.items, r.mode)
              \/ r.mode = "paired" /\ (~r.resets \/ \A i \in DOMAIN r.items : r.items[i].donors = 0)
              \/ Width > 1 /\ r.resets

GatewayInit ==
    /\ run \in {r \in Runs : ~Refused(r)}
    /\ Init
    /\ stages = BuildStages(Plan, run.minGap, run.settle)
    /\ resets = [k \in DOMAIN Plan |-> "none"]
    /\ answers = [p \in Positions |-> <<>>]
    /\ outcome = [p \in Positions |-> "none"]
    /\ reply = [p \in Positions |-> NoReply]
    /\ donorFailed = {} /\ indexing = {}
    /\ cache = [e \in Engines |-> {}]

-----------------------------------------------------------------------------
(* execute(stage), one pool thread per stage in flight. *)

Executing(p) == p \in pending \ (finished \cup batch) /\ outcome[p] = "none"

\* reset_before has nothing left to do: no reset_urls, or this step's reset
\* is behind it.  ResetBeforeRecipient, its mutated form, resets only then.
ResetBeforeRecipient(p) ==
    ~run.resets \/ stages[p].kind = "donors" \/ resets[StepOf(p)] # "none"
ResetBehind(p) == ~run.resets \/ resets[StepOf(p)] # "none"

\* reset_engine_caches is True only if every endpoint answered 2xx
\* (AnyResetTook is its mutated form).
AnyResetTook(ok) == ok # {}
ResetTook(ok) == ok = Engines

\* Some engines are emptied, and some of those answer that they were.
Reset(p) == /\ Executing(p) /\ ~ResetBehind(p)
            /\ \E emptied \in SUBSET Engines, ok \in SUBSET Engines :
                  /\ ok \subseteq emptied
                  /\ cache' = [e \in Engines |-> IF e \in emptied THEN {} ELSE cache[e]]
                  /\ indexing' = {x \in indexing : x.at \notin emptied}
                  /\ resets' = [resets EXCEPT ![StepOf(p)] =
                                   IF ResetTook(ok) THEN "took" ELSE "failed"]
            /\ UNCHANGED <<run, answers, outcome, reply, donorFailed>>

Sending(p, kind) == Executing(p) /\ ResetBehind(p) /\ stages[p].kind = kind

\* The next donor prompt is answered, by the engine it was placed on ...
DonorAnswered(p) ==
    /\ Sending(p, "donors") /\ Len(answers[p]) < ItemOf(p).donors
    /\ answers' = [answers EXCEPT ![p] = Append(@, "answered")]
    /\ \E e \in Engines :
          indexing' = indexing \cup
              {[at |-> e, step |-> StepOf(p), entry |-> Donor(ItemOf(p), Len(answers[p]) + 1)]}
    /\ UNCHANGED <<run, resets, outcome, reply, donorFailed, cache>>

\* ... or with an HTTP or URL error, which _chat_completion returns ...
DonorRefused(p) ==
    /\ Sending(p, "donors") /\ Len(answers[p]) < ItemOf(p).donors
    /\ answers' = [answers EXCEPT ![p] = Append(@, "refused")]
    /\ UNCHANGED <<run, resets, outcome, reply, donorFailed, indexing, cache>>

DonorsSent(p) ==
    /\ Sending(p, "donors") /\ Len(answers[p]) = ItemOf(p).donors
    /\ outcome' = [outcome EXCEPT ![p] = "value"]
    /\ UNCHANGED <<run, resets, answers, reply, donorFailed, indexing, cache>>

\* ... or the connection breaks, which it does not catch: the stage fails.
\* (DonorsRaiseLast, the mutated form, keeps one failure for all threads: the
\* last one.)
DonorsRaiseLast(p) ==
    /\ Sending(p, "donors") /\ Len(answers[p]) < ItemOf(p).donors
    /\ outcome' = [outcome EXCEPT ![p] = "error"]
    /\ donorFailed' = {StepOf(p)}
    /\ UNCHANGED <<run, resets, answers, reply, indexing, cache>>

DonorsRaise(p) ==
    /\ Sending(p, "donors") /\ Len(answers[p]) < ItemOf(p).donors
    /\ outcome' = [outcome EXCEPT ![p] = "error"]
    /\ donorFailed' = donorFailed \cup {StepOf(p)}
    /\ UNCHANGED <<run, resets, answers, reply, indexing, cache>>

RecipientSkipped(p) ==
    /\ Sending(p, "recipient") /\ StepOf(p) \in donorFailed
    /\ outcome' = [outcome EXCEPT ![p] = "skipped"]
    /\ UNCHANGED <<run, resets, answers, reply, donorFailed, indexing, cache>>

\* The gateway routes the recipient to an engine, which may report the cached
\* tokens it found, answer with an error, or break off.
RecipientSent(p) ==
    /\ Sending(p, "recipient") /\ StepOf(p) \notin donorFailed
    /\ \E e \in Engines :
          /\ cache' = [cache EXCEPT ![e] = @ \cup {Prompt(ItemOf(p))}]
          /\ \/ /\ \E reported \in BOOLEAN :
                      reply' = [reply EXCEPT ![p] = Answered(cache[e] \cap Entries(ItemOf(p)), reported)]
                /\ outcome' = [outcome EXCEPT ![p] = "value"]
             \/ /\ reply' = [reply EXCEPT ![p] = ErrorReply]
                /\ outcome' = [outcome EXCEPT ![p] = "value"]
             \/ /\ outcome' = [outcome EXCEPT ![p] = "error"]
                /\ UNCHANGED reply
    /\ UNCHANGED <<run, resets, answers, donorFailed, indexing>>

\* An engine has captured a donor: from now on it can be reused there.
Indexed(x) == /\ x \in indexing
              /\ indexing' = indexing \ {x}
              /\ cache' = [cache EXCEPT ![x.at] = @ \cup {x.entry}]
              /\ UNCHANGED <<run, resets, answers, outcome, reply, donorFailed>>

Execute(p) == \/ Reset(p) \/ DonorAnswered(p) \/ DonorRefused(p) \/ DonorsSent(p)
              \/ DonorsRaise(p) \/ RecipientSkipped(p) \/ RecipientSent(p)

-----------------------------------------------------------------------------
(* The dispatcher and the clock; a stage finishes when execute has ended,  *)
(* and no settle is shorter than what the engines need.                    *)

GatewayNext ==
    \/ Dispatcher /\ UNCHANGED gateway
    \/ \E p \in Positions : /\ outcome[p] # "none"
                            /\ Complete(p)
                            /\ UNCHANGED gateway
    \/ \E p \in Positions : /\ \A x \in indexing : x.step # StepOf(p)
                            /\ SettleElapses(p)
                            /\ UNCHANGED gateway
    \/ \E p \in Positions : Execute(p) /\ UNCHANGED vars
    \/ \E x \in indexing : Indexed(x) /\ UNCHANGED vars
    \/ Returned /\ UNCHANGED gateway

GatewaySpec == GatewayInit /\ [][GatewayNext]_<<vars, gateway>>

-----------------------------------------------------------------------------
(* The rows, folded from the outcomes once the dispatcher has returned.    *)

RecipientStageOf(k) == RecipientAt(Plan, k)
OwnDonorsRaised(k) == SeedsDonors(Plan[k]) /\ outcome[RecipientStageOf(k) - 1] = "error"

\* error = donors.error or recipient.error or response.get("error")
RowError(k) == \/ OwnDonorsRaised(k)
               \/ outcome[RecipientStageOf(k)] = "error"
               \/ reply[RecipientStageOf(k)].error

\* cold_arm_contaminated, None read as False.  TrustsReset is its mutated
\* form: a reset that did not take is taken for none.
ReportsHit(k) == reply[RecipientStageOf(k)].hit
TrustsReset(k) == Plan[k].arm = "cold" /\ resets[k] # "none" /\ ReportsHit(k)
FlushContaminated(k) ==
    Plan[k].arm = "cold" /\ resets[k] # "none" /\ (resets[k] = "failed" \/ ReportsHit(k))

\* _clean_pairs over a paired run: twin steps k and k + 1 of one item.
UsablePairs ==
    {k \in DOMAIN Plan : /\ run.mode = "paired" /\ k % 2 = 1
                         /\ ~FlushContaminated(k)
                         /\ ~RowError(k) /\ ~RowError(k + 1)}

-----------------------------------------------------------------------------
\* In a pair that is used the cold twin was served by an engine that held
\* nothing of its item ("genuinely cold", pairs.py:57), whatever earlier steps
\* left there, whichever endpoints answered, and whichever engine served it.
UsableColdWasCold ==
    pc = "returned" => \A k \in UsablePairs : reply[RecipientStageOf(k)].found = {}

\* A recipient that is sent finds every answered donor of its step: the
\* step's one reset comes before them, and the settle is waited out before it
\* (when the run has one), however the stage came to be issued.
DonorsReusable ==
    [][\A p \in Positions :
          (outcome[p] = "none" /\ outcome'[p] = "value" /\ stages[p].kind = "recipient"
           /\ SeedsDonors(Plan[StepOf(p)]) /\ run.settle)
          => \A n \in DOMAIN answers[p - 1] :
                answers[p - 1][n] = "answered" =>
                    \E e \in Engines : Donor(ItemOf(p), n) \in cache[e]]_<<vars, gateway>>

\* A recipient is sent only when every donor request of its step has ended,
\* none of them by raising (gateway_live.py:231, 266): donor_failures, which the
\* donor stages of several steps write on their threads, is read by each
\* recipient's thread after its own step's donors, and still has what they wrote.
DonorsEndFirst ==
    \A p \in Positions :
        stages[p].kind = "recipient" /\ outcome[p] \in {"value", "error"}
        /\ SeedsDonors(Plan[StepOf(p)]) =>
            outcome[p - 1] = "value" /\ Len(answers[p - 1]) = ItemOf(p).donors

\* "A donor failure still skips its recipient"
\* (tests/test_gateway_concurrency.py:292).
DonorFailureSkips ==
    \A p \in Positions :
        stages[p].kind = "recipient" /\ SeedsDonors(Plan[StepOf(p)])
        /\ (\E n \in DOMAIN answers[p - 1] : answers[p - 1][n] = "refused") =>
            outcome[p] \in {"none", "skipped"}
=============================================================================
