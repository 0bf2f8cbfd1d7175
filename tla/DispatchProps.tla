--------------------------- MODULE DispatchProps ----------------------------
(***************************************************************************)
(* What must hold of the dispatcher.                                       *)
(***************************************************************************)
EXTENDS Dispatch, FiniteSetsExt

\* Type invariant.  A position is in exactly one of the queue, the pending
\* futures and the completed stages, so no stage is lost or issued twice
\* (run_stages: queue.pop, pending.pop).
TypeOK ==
    /\ stages \in Seq(Stage) /\ BackwardOnly(stages)
    /\ pc \in {"scan", "rescan", "unblock", "asleep", "timeout", "wait", "collect", "returned"}
    /\ cursor \in Nat
    /\ queue \subseteq Positions
    /\ pending \subseteq Positions \ queue
    /\ finished \subseteq pending
    /\ batch \subseteq pending \ finished
    /\ timed \in BOOLEAN
    /\ completed \in Nat
    /\ rank \in [Positions -> Nat]
    /\ Done = Positions \ (queue \cup pending)
    /\ forced \subseteq Positions \ queue

\* "A recipient may only be issued once the request that seeds it has
\* completed" (dispatch.py:3): also when it is forced, out of order, or in a
\* batch with its donor.
DependenciesCompleted ==
    \A p \in pending \cup Done : \A d \in stages[p].deps : d.on \in Done

\* At most Width stages in flight, over every path that submits one
\* (run_stages: "at most `concurrency` requests in flight").
WidthBound == Cardinality(pending) <= Width

\* The dispatcher never sleeps with a request in flight, and never returns
\* with one: the sleep and the return are outside the wait that collects.
NeverAsleepOnWork == pc \in {"asleep", "unblock", "rescan", "returned"} => pending = {}

\* At width 1 nothing overtakes: the issued stages are a prefix of the stream
\* and at most one is in flight ("in exactly manifest order", dispatch.py:13).
StreamOrderAtWidth1 ==
    Width = 1 => /\ \A p \in Positions \ queue, q \in queue : p < q
                 /\ \A p \in pending : \A q \in Done : q < p

-----------------------------------------------------------------------------
\* The requests a set of stages holds, each stage counting at least one.
RequestsIn(S) ==
    MapThenSumSet(LAMBDA p : IF stages[p].requests > 0 THEN stages[p].requests ELSE 1, S)

\* The donor -> recipient gap, counted afresh from which stages completed
\* after the dependency did: "the gap is counted in completed requests"
\* (dispatch.py:4).  Holds for every stage issued without being forced.
GapElapsed(p) ==
    \A d \in stages[p].deps :
        /\ d.on \in Done
        /\ RequestsIn({q \in Done : rank[q] > rank[d.on]}) >= d.gap

\* No stage is issued inside its donor gap or its settle unless it is one the
\* report counts as forced.
GapsHeld ==
    [][\A p \in queue \ queue' : p \in forced' \/ (GapElapsed(p) /\ ~SettleOwed(p))]_vars

\* "Submission follows manifest order among the stages that are ready": a
\* stage that owes no settle at all is overtaken only while it is short of its
\* gap.  (A settle can elapse just after the scan has passed its stage.)
NeverOvertakenWhenReady ==
    [][\A p \in queue \ queue', q \in queue' :
          (q < p /\ \A d \in stages[q].deps : ~d.settle) => ~GapElapsed(q)]_vars

\* Every stage gets its outcome and run_stages returns: forcing the head and
\* sleeping out its settle leave no stage waiting for ever.
EveryStageCompletes == <>[](pc = "returned" /\ Done = Positions)

-----------------------------------------------------------------------------
\* A manifest whose gaps agree with its stream order: between a stage and one
\* it depends on stand at least as many requests as its gap asks for.
GapsAgree ==
    \A p \in Positions : \A d \in stages[p].deps :
        RequestsIn(d.on + 1 .. p - 1) >= d.gap

\* In such a manifest a serial run never issues a stage inside its gap, and
\* never forces one (run_stages: "never reaches that second branch"), unless
\* the settle it owes elapses just as the dispatcher looks.
SerialGapsHold ==
    [][Width = 1 /\ GapsAgree =>
          \A p \in queue \ queue' :
              GapElapsed(p) /\ (p \in forced' => \E d \in stages[p].deps : d.settle)]_vars

-----------------------------------------------------------------------------
\* The abstract dispatcher: a stage is queued, in flight or done.
Phase == [p \in Positions |-> IF p \in queue THEN "queued"
                              ELSE IF p \in pending THEN "inflight" ELSE "done"]
Promise == INSTANCE OrderedDispatch WITH phase <- Phase

\* Every step of run_stages is a step of the promise or invisible to it.
KeepsPromise == Promise!Spec
=============================================================================
