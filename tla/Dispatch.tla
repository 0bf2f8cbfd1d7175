------------------------------ MODULE Dispatch ------------------------------
(***************************************************************************)
(* The bounded, order-preserving dispatcher: run_stages of                 *)
(* src/sembench/dispatch.py.                                               *)
(*                                                                         *)
(* One dispatcher thread walks its loop (pc) while Width pool threads      *)
(* finish stages behind its back; it learns of a finished stage only when  *)
(* its wait returns.  Stages are named by their position in the list.  The *)
(* queue of the code is range(len(stages)) with elements popped out of it, *)
(* hence always ascending: here it is the set of positions still in it,    *)
(* and queue[i] is the member with i smaller members.                      *)
(*                                                                         *)
(* Time is abstracted to the one thing the dispatcher asks of it: whether  *)
(* the settle a stage owes on a dependency has elapsed.  It may elapse     *)
(* between any two steps of the dispatcher, which reads the clock afresh   *)
(* each time it asks.                                                      *)
(***************************************************************************)
EXTENDS Integers, Sequences, FiniteSets

CONSTANTS
    Width,          \* max(1, concurrency): lanes, and pool threads
    WindowFloor,    \* the 64 of max(64, 4 * width)
    WindowPerLane,  \* the 4 of it
    StageLists      \* the stage lists a run may be given

\* A stage it depends on, the completed requests that must follow it
\* (min_gap_requests), and whether a settle is owed on it (min_seconds > 0).
Dependency == [on : Nat \ {0}, gap : Nat, settle : BOOLEAN]
Stage == [kind : {"donors", "recipient"}, step : Nat, requests : Nat,
          deps : SUBSET Dependency]

\* Every list build_stages makes: dependencies point backward in the stream.
BackwardOnly(list) ==
    \A p \in DOMAIN list : \A d \in list[p].deps : d.on \in 1 .. p - 1

ASSUME DispatchAssumption ==
    /\ Width \in Nat \ {0}
    /\ WindowFloor \in Nat \ {0}
    /\ WindowPerLane \in Nat \ {0}
    /\ \A list \in StageLists : list \in Seq(Stage) /\ BackwardOnly(list)

\* A queue position is looked at when fewer than Lookahead precede it.
\* LookaheadEverywhere is its mutated form, without the case of one lane.
LookaheadEverywhere == IF WindowFloor >= WindowPerLane * Width THEN WindowFloor
                                                               ELSE WindowPerLane * Width
Lookahead == IF Width = 1 THEN 1 ELSE LookaheadEverywhere

-----------------------------------------------------------------------------
VARIABLES
    stages,     \* the stage list, fixed for the run
    pc,         \* where the dispatcher is in its loop
    cursor,     \* the last queue position the scan has looked at, 0 at its start
    queue,      \* positions not yet issued
    pending,    \* positions issued and not yet collected
    finished,   \* those of them whose future is done
    batch,      \* the futures the last wait returned, not yet collected
    timed,      \* whether the wait has a timeout
    completed,  \* Progress.completed_requests
    rank,       \* Progress.ranks: completed_requests as of it; 0 when none
    elapsed,    \* <<p, q>>: the settle p owes on q has elapsed
    forced      \* forced_positions

lists == <<queue, pending, finished, batch>>
progress == <<completed, rank>>
vars == <<stages, pc, cursor, queue, pending, finished, batch, timed,
          completed, rank, elapsed, forced>>

Positions == DOMAIN stages
Done == {p \in Positions : rank[p] > 0}

\* Mutated form of GapMet: an uncompleted dependency owes nothing.
GapMetUnordered(p) ==
    \A d \in stages[p].deps : rank[d.on] = 0 \/ completed - rank[d.on] >= d.gap

\* gap_shortfall(stage) == 0: an uncompleted dependency owes at least one
\* request whatever its gap, a completed one what is left of its gap.
GapMet(p) ==
    \A d \in stages[p].deps : rank[d.on] > 0 /\ completed - rank[d.on] >= d.gap

\* settle_remaining(stage) > 0
SettleOwed(p) ==
    \E d \in stages[p].deps : d.settle /\ <<p, d.on>> \notin elapsed

Ready(p) == GapMet(p) /\ ~SettleOwed(p)

Preceding(p) == {q \in queue : q < p}
InWindow(p) == p \in queue /\ Cardinality(Preceding(p)) < Lookahead

\* Mutated form of IsHead: any queued stage.
AnyQueued(p) == p \in queue
IsHead(p) == p \in queue /\ Preceding(p) = {}

\* Mutated form of LaneFree: one stage too many.
LaneFreeOffByOne == Cardinality(pending) <= Width
LaneFree == Cardinality(pending) < Width

\* Mutated forms of Drained: blind to what is in flight, and never taken.
QueuedOnly == queue # {}
NeverUnblocks == FALSE
Drained == pending = {} /\ queue # {}

\* The position the scan looks at next: the first one behind the cursor.
Candidate(p) == InWindow(p) /\ p > cursor /\ Preceding(p) \subseteq 1 .. cursor
NoCandidate == \A p \in queue : InWindow(p) => p <= cursor

-----------------------------------------------------------------------------
Init == /\ stages \in StageLists
        /\ pc = IF stages = <<>> THEN "returned" ELSE "scan"
        /\ cursor = 0
        /\ queue = Positions
        /\ pending = {} /\ finished = {} /\ batch = {}
        /\ timed = FALSE
        /\ completed = 0
        /\ rank = [p \in Positions |-> 0]
        /\ elapsed = {}
        /\ forced = {}

\* submit(): the position leaves the queue, its future enters pending.
Submit(p) == /\ queue' = queue \ {p}
             /\ pending' = pending \cup {p}
             /\ UNCHANGED <<stages, finished, batch, timed, progress, elapsed>>

\* The loop's next turn starts a scan from the head of the queue (ScanOn, its
\* mutated form, goes on where the last one ended).
ScanOn == cursor' = cursor
ScanAfresh == cursor' = 0

(* The scan: while a lane is free, issue every ready stage of the window. *)

ScanSubmit(p) == /\ pc = "scan" /\ LaneFree /\ Candidate(p) /\ Ready(p)
                 /\ Submit(p)
                 /\ cursor' = p
                 /\ UNCHANGED <<pc, forced>>

ScanSkip(p) == /\ pc = "scan" /\ LaneFree /\ Candidate(p) /\ ~Ready(p)
               /\ cursor' = p
               /\ UNCHANGED <<stages, pc, lists, timed, progress, elapsed, forced>>

ScanEnd == /\ pc = "scan" /\ (~LaneFree \/ NoCandidate)
           /\ pc' = IF Drained THEN "rescan" ELSE "timeout"
           /\ ScanAfresh
           /\ UNCHANGED <<stages, lists, timed, progress, elapsed, forced>>

(* Nothing in flight and stages queued: look once more, asking the clock   *)
(* again, then sleep out the head's settle or issue the head regardless.   *)

RescanSubmit(p) == /\ pc = "rescan" /\ Candidate(p) /\ Ready(p)
                   /\ Submit(p)
                   /\ pc' = "timeout"
                   /\ ScanAfresh
                   /\ UNCHANGED forced

RescanSkip(p) == /\ pc = "rescan" /\ Candidate(p) /\ ~Ready(p)
                 /\ cursor' = p
                 /\ UNCHANGED <<stages, pc, lists, timed, progress, elapsed, forced>>

RescanEnd == /\ pc = "rescan" /\ NoCandidate
             /\ pc' = "unblock"
             /\ ScanAfresh
             /\ UNCHANGED <<stages, lists, timed, progress, elapsed, forced>>

SleepSettle(p) == /\ pc = "unblock" /\ IsHead(p) /\ SettleOwed(p)
                  /\ pc' = "asleep"
                  /\ UNCHANGED <<stages, cursor, lists, timed, progress, elapsed, forced>>

\* time.sleep returns once the head's settle has elapsed; `continue`.
WakeFromSleep(p) == /\ pc = "asleep" /\ IsHead(p) /\ ~SettleOwed(p)
                    /\ pc' = "scan"
                    /\ UNCHANGED <<stages, cursor, lists, timed, progress, elapsed, forced>>

ForceHead(p) == /\ pc = "unblock" /\ IsHead(p) /\ ~SettleOwed(p)
                /\ forced' = forced \cup {p}
                /\ Submit(p)
                /\ pc' = "timeout"
                /\ UNCHANGED cursor

(* The wait, and what it collects. *)

\* _next_settle: a timeout only when a lane is free and a stage of the window
\* owes a settle, whether or not what it owes it on has completed.
SetTimeout == /\ pc = "timeout"
              /\ timed' = (LaneFree /\ \E p \in queue : InWindow(p) /\ SettleOwed(p))
              /\ pc' = "wait"
              /\ UNCHANGED <<stages, cursor, lists, progress, elapsed, forced>>

WaitReturns == /\ pc = "wait" /\ finished # {}
               /\ batch' = finished
               /\ finished' = {}
               /\ pc' = "collect"
               /\ UNCHANGED <<stages, cursor, queue, pending, timed, progress, elapsed, forced>>

WaitTimesOut == /\ pc = "wait" /\ timed /\ finished = {}
                /\ pc' = "scan"
                /\ UNCHANGED <<stages, cursor, lists, timed, progress, elapsed, forced>>

\* Progress.with_completion: a stage counts for the requests it holds, at
\* least one (CountedPerStage, its mutated form, counts stages) ...
CountedPerStage(p) == 1
Counted(p) == IF stages[p].requests > 1 THEN stages[p].requests ELSE 1

\* ... and its own requests are part of its rank (RankBeforeItself, its mutated
\* form, stamps the count as it was before).
RankBeforeItself(p) == completed
RankOf(p) == completed + Counted(p)

\* `done` is a set: its futures are collected in any order.
Collect(p) == /\ pc = "collect" /\ p \in batch
              /\ batch' = batch \ {p}
              /\ pending' = pending \ {p}
              /\ completed' = completed + Counted(p)
              /\ rank' = [rank EXCEPT ![p] = RankOf(p)]
              /\ pc' = IF batch # {p} THEN "collect"
                       ELSE IF queue = {} /\ pending = {p} THEN "returned" ELSE "scan"
              /\ UNCHANGED <<stages, cursor, queue, finished, timed, elapsed, forced>>

Dispatcher == \/ \E p \in Positions :
                    \/ ScanSubmit(p) \/ ScanSkip(p)
                    \/ RescanSubmit(p) \/ RescanSkip(p)
                    \/ SleepSettle(p) \/ WakeFromSleep(p) \/ ForceHead(p)
                    \/ Collect(p)
              \/ ScanEnd \/ RescanEnd \/ SetTimeout \/ WaitReturns \/ WaitTimesOut

-----------------------------------------------------------------------------
(* What happens behind the dispatcher's back. *)

\* A pool thread finishes a stage.  _guarded turns whatever execute raised
\* into the stage's error, so a stage that failed finishes like any other.
Complete(p) == /\ p \in pending \ (finished \cup batch)
               /\ finished' = finished \cup {p}
               /\ UNCHANGED <<stages, pc, cursor, queue, pending, batch, timed, progress,
                              elapsed, forced>>

\* Time passes: the settle a queued stage owes on a completed one elapses.
SettleElapses(p) ==
    /\ p \in queue
    /\ \E d \in stages[p].deps :
          /\ d.settle /\ rank[d.on] > 0 /\ <<p, d.on>> \notin elapsed
          /\ elapsed' = elapsed \cup {<<p, d.on>>}
    /\ UNCHANGED <<stages, pc, cursor, lists, timed, progress, forced>>

Returned == pc = "returned" /\ UNCHANGED vars

Next == \/ Dispatcher
        \/ \E p \in Positions : Complete(p) \/ SettleElapses(p)
        \/ Returned

Spec == Init /\ [][Next]_vars

\* The dispatcher thread keeps running, a request in flight ends (its client
\* has a timeout), and time passes.  A stage finishes once and a settle elapses
\* once, so fairness to some stage is fairness to every stage.
Fairness == /\ WF_vars(Dispatcher)
            /\ WF_vars(\E p \in Positions : Complete(p))
            /\ WF_vars(\E p \in Positions : SettleElapses(p))
FairSpec == Spec /\ Fairness
=============================================================================
