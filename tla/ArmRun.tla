------------------------------- MODULE ArmRun -------------------------------
(***************************************************************************)
(* Arms run one after the other against the same engines: the counters     *)
(* are scraped, the stages are run on pool threads, the counters are       *)
(* scraped again (cli.py, cmd_run_live_gateway; run-load scrapes nothing). *)
(*                                                                         *)
(* The dispatcher is what OrderedDispatch promises.  Here is what a pool   *)
(* thread does with a stage: set the id of a request (request_ids.py),     *)
(* send its HTTP requests one after the other (gateway_live.py), and offer *)
(* the first chunk with metrics to the one capture of the run              *)
(* (metrics_chunk.py).  The engines are external: they count what they     *)
(* look up, accept and allocate, and may go on with a request whose client *)
(* has given up.                                                           *)
(***************************************************************************)
EXTENDS EngineWindow, ReplayStages

CONSTANTS
    Arms,         \* the runs, in order: [command, run_id, items, cuts]
    Threads,      \* pool threads
    Urls,         \* the endpoints to scrape, in order
    Flaky,        \* bound: the endpoints a scrape may fail on
    Connected     \* the engines with a connector, which have the counters

\* An arm at least, and an endpoint: the gateway's own, when no other is named.
ASSUME ArmsAssumption ==
    /\ Len(Arms) \in Nat \ {0} /\ DOMAIN Arms = 1 .. Len(Arms)
    /\ Len(Urls) \in Nat \ {0} /\ DOMAIN Urls = 1 .. Len(Urls)

VARIABLES
    arm,       \* the arm now running
    doing,     \* "before", "run", "after" or "over"
    stages, phase,             \* of the dispatcher
    worker,    \* what each pool thread does
    sent,      \* the id of every HTTP request so far, and what it was sent for
    wire,      \* the arm's HTTP requests, and those an engine still works on
    counts,    \* the counters of each engine
    before, after,             \* the scrapes of the arm
    taken, file                \* the capture: its flag and its file

dispatching == <<stages, phase>>
window == <<before, after>>
capture == <<taken, file>>
vars == <<arm, doing, dispatching, worker, sent, wire, counts, window, capture>>

NoId == <<>>
NoUrl == [u \in {} |-> FailedSnapshot]
Engines == {Urls[n] : n \in DOMAIN Urls}

-----------------------------------------------------------------------------
(* Ids. *)

\* The run id an arm's requests are derived from.  load.py's gateway_config
\* leaves LiveGatewayConfig's default.
ConfigRunId(a) == IF Arms[a].command = "run-load" THEN "" ELSE Arms[a].run_id

\* deterministic_request_id: distinct for distinct fields.
RequestId(a, step, role) == <<ConfigRunId(a), Arms[a].items[step].id, step, role>>
DonorId(a, step, index) == RequestId(a, step, <<"donor", index>>)
RecipientId(a, step) == RequestId(a, step, <<"recipient">>)

\* _send_stage's id.  (SameId is the mutated form.)
SameId(id, index) == id
StageId(id, index) == id \o <<"stage", index>>

StagesOf(a) == BuildStages(ReplayPlan(Arms[a].items, "single"), 0, FALSE)

Dispatcher == INSTANCE OrderedDispatch WITH
    Width <- Cardinality(Threads), StageLists <- {StagesOf(a) : a \in DOMAIN Arms}

-----------------------------------------------------------------------------
(* The HTTP requests of a stage. *)

IsDonors(p) == stages[p].kind = "donors"
CutsOf(p) == Arms[arm].cuts[stages[p].step]
PartsOf(p) == IF IsDonors(p) THEN stages[p].requests ELSE CutsOf(p) + 1

\* A recipient's stages and its full prompt are under one id, a donor has
\* one of its own.
OpensBlock(p, part) == IsDonors(p) \/ part = 1
ClosesBlock(p, part) == IsDonors(p) \/ part = PartsOf(p)
BlockId(p, part) == IF IsDonors(p) THEN DonorId(arm, stages[p].step, part)
                                   ELSE RecipientId(arm, stages[p].step)
IsFull(p, part) == ~IsDonors(p) /\ part = PartsOf(p)

\* Only recipients, with their full prompts, are given the capture.  (AnyPart
\* is the mutated form.)
AnyPart(p, part) == TRUE
OffersChunk(p, part) == IsFull(p, part)

\* Where a request may land: donors on the first engine, the gateway's anywhere.
Placement(p) == IF IsDonors(p) THEN {Urls[1]} ELSE Engines

-----------------------------------------------------------------------------
(* The command. *)

Idle == [stage |-> 0, part |-> 0, at |-> "idle", id |-> NoId, saved |-> NoId]

FirstThing(a) == IF Arms[a].command = "run-load" THEN "run" ELSE "before"

Init ==
    /\ arm = 1 /\ doing = FirstThing(1)
    /\ stages = StagesOf(1) /\ phase = [p \in DOMAIN StagesOf(1) |-> "queued"]
    /\ worker = [t \in Threads |-> Idle]
    /\ sent = {} /\ wire = {}
    /\ counts = [u \in Engines |->
                    IF u \in Connected THEN [queries |-> 2, hits |-> 1, transfer |-> 1]
                                       ELSE [key \in {} |-> 0]]
    /\ before = NoUrl /\ after = NoUrl
    /\ taken = FALSE /\ file = NoId

\* scrape_all goes through the endpoints in order, an endpoint named twice
\* once; a scrape that fails is a snapshot of its own.
NextUrl(scraped) ==
    LET left == {n \in DOMAIN Urls : Urls[n] \notin DOMAIN scraped}
    IN  Urls[Min(left)]
AllScraped(scraped) == DOMAIN scraped = Engines

Scraped(scraped) ==
    LET u == NextUrl(scraped)
    IN  {[v \in DOMAIN scraped \cup {u} |-> IF v = u THEN snapshot ELSE scraped[v]] :
            snapshot \in {Snapshot(counts[u])} \cup {FailedSnapshot : f \in Flaky \cap {u}}}

ScrapeBefore ==
    /\ doing = "before"
    /\ before' \in Scraped(before)
    /\ doing' = IF AllScraped(before') THEN "run" ELSE "before"
    /\ UNCHANGED <<arm, dispatching, worker, sent, wire, counts, after, capture>>

\* run_live_gateway_measured returns when every stage has completed.
RunOver == \A p \in DOMAIN phase : phase[p] = "done"

RunReturns ==
    /\ doing = "run" /\ RunOver
    /\ doing' = IF Arms[arm].command = "run-load" THEN "over" ELSE "after"
    /\ UNCHANGED <<arm, dispatching, worker, sent, wire, counts, window, capture>>

ScrapeAfter ==
    /\ doing = "after"
    /\ after' \in Scraped(after)
    /\ doing' = IF AllScraped(after') THEN "over" ELSE "after"
    /\ UNCHANGED <<arm, dispatching, worker, sent, wire, counts, before, capture>>

NextArm ==
    /\ doing = "over" /\ arm < Len(Arms)
    /\ arm' = arm + 1 /\ doing' = FirstThing(arm + 1)
    /\ stages' = StagesOf(arm + 1) /\ phase' = [p \in DOMAIN StagesOf(arm + 1) |-> "queued"]
    /\ before' = NoUrl /\ after' = NoUrl
    /\ taken' = FALSE /\ file' = NoId
    /\ wire' = {w \in wire : w.live}
    /\ UNCHANGED <<worker, sent, counts>>

-----------------------------------------------------------------------------
(* A pool thread. *)

Own(t) == {w \in wire : w.arm = arm /\ w.stage = worker[t].stage /\ w.part = worker[t].part}
Becomes(w, v) == (wire \ {w}) \cup {v}

Takes(t, p) ==
    /\ doing = "run" /\ worker[t].at = "idle"
    /\ Dispatcher!Issue(p)
    /\ worker' = [worker EXCEPT ![t].stage = p, ![t].part = 1, ![t].at = "send"]
    /\ UNCHANGED <<arm, doing, sent, wire, counts, window, capture>>

\* A recipient whose donors raised is not sent.
DonorsRaised(step) == \E w \in wire :
    w.arm = arm /\ w.ended = "raised" /\ IsDonors(w.stage) /\ stages[w.stage].step = step
Skipped(p) == ~IsDonors(p) /\ DonorsRaised(stages[p].step)

Skips(t) ==
    LET p == worker[t].stage
    IN  /\ worker[t].at = "send" /\ worker[t].part = 1 /\ Skipped(p)
        /\ worker' = [worker EXCEPT ![t] = [Idle EXCEPT !.id = worker[t].id]]
        /\ Dispatcher!Finish(p)
        /\ UNCHANGED <<arm, doing, sent, wire, counts, window, capture>>

\* sending_request_id, where a block of requests begins, and the request with
\* the id then current.
Sends(t) ==
    LET p    == worker[t].stage
        part == worker[t].part
        id   == IF OpensBlock(p, part) THEN BlockId(p, part) ELSE worker[t].id
        onwire == IF IsDonors(p) \/ IsFull(p, part) THEN id ELSE StageId(id, part)
    IN  /\ worker[t].at = "send" /\ ~Skipped(p)
        /\ \E u \in Placement(p) :
              wire' = wire \cup {[arm |-> arm, stage |-> p, part |-> part, url |-> u,
                                  live |-> TRUE, counted |-> "no", ended |-> "open"]}
        /\ sent' = sent \cup {[id |-> onwire, arm |-> arm, step |-> stages[p].step,
                                full |-> IsFull(p, part)]}
        /\ worker' = [worker EXCEPT ![t].at = "wait", ![t].id = id,
                          ![t].saved = IF OpensBlock(p, part) THEN worker[t].id ELSE @]
        /\ UNCHANGED <<arm, doing, dispatching, counts, window, capture>>

\* The first chunk that carries metrics is offered: the flag is tested and
\* set under the lock, the file is written after it.  (SeenOnly, the mutated
\* form, leaves setting it to the write.)
SeenOnly == FALSE
SetUnderLock == TRUE
Offers(t) ==
    /\ worker[t].at = "wait" /\ OffersChunk(worker[t].stage, worker[t].part)
    /\ Arms[arm].command # "run-load"
    /\ \E w \in Own(t) : w.ended = "open" /\ w.live
    /\ ~taken
    /\ taken' = SetUnderLock
    /\ worker' = [worker EXCEPT ![t].at = "write"]
    /\ UNCHANGED <<arm, doing, dispatching, sent, wire, counts, window, file>>

Writes(t) ==
    /\ worker[t].at = "write"
    /\ file' \in {worker[t].id, file}
    /\ taken' = TRUE
    /\ worker' = [worker EXCEPT ![t].at = "wait"]
    /\ UNCHANGED <<arm, doing, dispatching, sent, wire, counts, window>>

\* The block's end restores the id, whether the request returned or raised.
Restored(t, raised) == worker[t].saved

\* The request is over: the next one of the stage, or the stage's end.
Continues(t, raised) ==
    LET p    == worker[t].stage
        part == worker[t].part
        id   == IF raised \/ ClosesBlock(p, part) THEN Restored(t, raised) ELSE worker[t].id
    IN  IF raised \/ part = PartsOf(p)
        THEN /\ worker' = [worker EXCEPT ![t] = [Idle EXCEPT !.id = id]]
             /\ Dispatcher!Finish(p)
        ELSE /\ worker' = [worker EXCEPT ![t].part = part + 1, ![t].at = "send", ![t].id = id]
             /\ UNCHANGED dispatching

Ends(t, w, ended, live) ==
    /\ worker[t].at = "wait" /\ w.ended = "open"
    /\ wire' = Becomes(w, [w EXCEPT !.ended = ended, !.live = live])
    /\ Continues(t, ended = "raised")
    /\ UNCHANGED <<arm, doing, sent, counts, window, capture>>

\* The answer; an HTTP or URL error, which is an answer to the runner; or
\* what is raised: a timeout, after which the engine may well go on.
Answered(t) ==
    \E w \in Own(t) : /\ w.live
                      /\ w.url \in Connected => w.counted \in {"missed", "allocated"}
                      /\ Ends(t, w, "answered", FALSE)
Refused(t) == \E w \in Own(t) : w.counted = "no" /\ Ends(t, w, "refused", FALSE)
Raises(t) == \E w \in Own(t) : Ends(t, w, "raised", w.live)

-----------------------------------------------------------------------------
(* The engines. *)

Counts(u, keys) == counts' = [counts EXCEPT ![u] =
    [key \in DOMAIN counts[u] |-> IF key \in keys THEN @[key] + 1 ELSE @[key]]]

LooksUp(w) ==
    /\ w.live /\ w.counted = "no" /\ w.url \in Connected
    /\ \/ wire' = Becomes(w, [w EXCEPT !.counted = "missed"]) /\ Counts(w.url, {"queries"})
       \/ /\ wire' = Becomes(w, [w EXCEPT !.counted = "accepted"])
          /\ Counts(w.url, {"queries", "transfer"})
    /\ UNCHANGED <<arm, doing, dispatching, worker, sent, window, capture>>

Allocates(w) ==
    /\ w.live /\ w.counted = "accepted"
    /\ wire' = Becomes(w, [w EXCEPT !.counted = "allocated"]) /\ Counts(w.url, {"hits"})
    /\ UNCHANGED <<arm, doing, dispatching, worker, sent, window, capture>>

Over == doing = "over" /\ arm = Len(Arms) /\ UNCHANGED vars

Next == \/ ScrapeBefore \/ RunReturns \/ ScrapeAfter \/ NextArm
        \/ \E t \in Threads :
              \/ \E p \in DOMAIN stages : Takes(t, p)
              \/ Skips(t) \/ Sends(t) \/ Offers(t) \/ Writes(t)
              \/ Answered(t) \/ Refused(t) \/ Raises(t)
        \/ \E w \in wire : LooksUp(w) \/ Allocates(w)
        \/ Over

Spec == Init /\ [][Next]_vars

-----------------------------------------------------------------------------
(* Properties. *)

\* The window holds the arm's own work: with nothing abandoned,
\* each counter's total is what the arm's requests counted on the
\* engines scraped both times, and there is no total where no such engine has
\* the counter (cli.py:574, "not a process-lifetime total"; prometheus.py:130,
\* "Absent must not read as zero").
CountedAs == [queries |-> {"missed", "accepted", "allocated"},
              transfer |-> {"accepted", "allocated"}, hits |-> {"allocated"}]
WindowIsTheArm ==
    (/\ doing = "over" /\ Arms[arm].command # "run-load"
     /\ \A w \in wire : w.ended # "raised") =>
        LET measured == Paired(before, after) \cap Connected
        IN  /\ ~ResetDetected(before, after)
            /\ Totals(before, after) =
                  [key \in {k \in Keys : measured # {}} |->
                      Cardinality({w \in wire : /\ w.arm = arm /\ w.url \in measured
                                                /\ w.counted \in CountedAs[key]})]

\* The id on a row, derived again when the rows are made, was sent with that
\* row's full prompt and with nothing else: no donor, no stage, no other row,
\* whatever the threads did before (gateway_live.py:387; request_ids.py:132).
RowIdIsItsOwn ==
    \A a \in 1 .. arm : \A k \in DOMAIN Arms[a].items :
        {r \in sent : r.id = RecipientId(a, k)} =
            {r \in sent : r.arm = a /\ r.step = k /\ r.full}

\* The captured file is written once in a run and holds a recipient's chunk,
\* never a donor's or a stage's (metrics_chunk.py:13, gateway_live.py:141).
CapturedOnce ==
    [][arm' = arm => /\ file = NoId
                     /\ \E r \in sent : r.arm = arm /\ r.full /\ r.id = file']_file
=============================================================================
