--------------------------- MODULE DispatchProofs ---------------------------
(***************************************************************************)
(* Proofs about the dispatcher, for every width, window and stage list.    *)
(*                                                                         *)
(* The argument rests on one fact the code never states: its second branch *)
(* is only taken with nothing in flight.  A queue head all of whose        *)
(* dependencies stand before it has then none that is queued (it is the    *)
(* head) and none in flight, so all of them have completed, and forcing it *)
(* breaks its gap but never its order behind its donor.                    *)
(***************************************************************************)
EXTENDS DispatchProps, DataLemmas, SequenceTheorems

\* The inductive invariant.
IInv == TypeOK /\ NeverAsleepOnWork /\ DependenciesCompleted

\* Any stage of a well-formed list depends on earlier positions of the list.
LEMMA DependencyPositions ==
    ASSUME TypeOK, NEW p \in Positions, NEW d \in stages[p].deps
    PROVE  d.on \in Positions /\ d.on < p /\ p \in Nat /\ d.on \in Nat
<1>1. Positions = 1 .. Len(stages) /\ Len(stages) \in Nat
  BY DEF TypeOK, Positions
<1>2. d.on \in 1 .. p - 1
  BY DEF TypeOK, BackwardOnly, Positions
<1>3. p \in Nat /\ p <= Len(stages)
  BY <1>1
<1>4. d.on \in Nat /\ d.on < p /\ d.on \in 1 .. Len(stages)
  BY <1>1, <1>2, <1>3
<1> QED BY <1>1, <1>3, <1>4

\* A run starts with every stage queued, and well typed.
LEMMA InitTyped == Init => TypeOK
<1> SUFFICES ASSUME Init PROVE TypeOK
  OBVIOUS
<1>1. stages \in Seq(Stage) /\ BackwardOnly(stages)
  BY DispatchAssumption DEF Init
<1>2. rank = [p \in Positions |-> 0] /\ Done = {}
  BY DEF Init, Done
<1>3. queue = Positions /\ pending = {} /\ finished = {} /\ batch = {} /\ forced = {}
  BY DEF Init
<1>4. rank \in [Positions -> Nat]
  BY <1>2
<1>5. completed \in Nat /\ cursor \in Nat
  BY DEF Init
<1>6. pc \in {"scan", "returned"} /\ timed \in BOOLEAN
  BY DEF Init
<1> QED BY <1>1, <1>2, <1>3, <1>4, <1>5, <1>6 DEF TypeOK

\* Every action keeps the types and moves a stage whole: out of the queue into
\* flight, out of flight into the completed.
LEMMA NextTyped == TypeOK /\ [Next]_vars => TypeOK'
<1> SUFFICES ASSUME TypeOK, [Next]_vars PROVE TypeOK'
  OBVIOUS
<1> USE DEF TypeOK, Positions, Done
<1>1. ASSUME NEW p \in Positions, ScanSubmit(p) PROVE TypeOK'
  BY <1>1 DEF ScanSubmit, Submit, progress, Candidate, InWindow
<1>2. ASSUME NEW p \in Positions, ScanSkip(p) PROVE TypeOK'
  BY <1>2 DEF ScanSkip, lists, progress
<1>3. ASSUME NEW p \in Positions, RescanSubmit(p) PROVE TypeOK'
  BY <1>3 DEF RescanSubmit, Submit, progress, Candidate, InWindow, ScanAfresh
<1>4. ASSUME NEW p \in Positions, RescanSkip(p) PROVE TypeOK'
  BY <1>4 DEF RescanSkip, lists, progress
<1>5. ASSUME NEW p \in Positions, SleepSettle(p) PROVE TypeOK'
  BY <1>5 DEF SleepSettle, lists, progress
<1>6. ASSUME NEW p \in Positions, WakeFromSleep(p) PROVE TypeOK'
  BY <1>6 DEF WakeFromSleep, lists, progress
<1>7. ASSUME NEW p \in Positions, ForceHead(p) PROVE TypeOK'
  BY <1>7 DEF ForceHead, Submit, progress, IsHead
<1>8. ASSUME NEW p \in Positions, Collect(p) PROVE TypeOK'
  <2>a. stages[p] \in Stage
    BY ElementOfSeq
  <2>1. Counted(p) \in Nat /\ Counted(p) > 0
    BY <2>a DEF Counted, Stage
  <2>2. completed' \in Nat /\ RankOf(p) \in Nat /\ RankOf(p) > 0
    BY <1>8, <2>1 DEF Collect, RankOf
  <2>3. rank' \in [Positions -> Nat] /\ Done' = Done \cup {p}
    BY <1>8, <2>2 DEF Collect
  <2> QED BY <1>8, <2>2, <2>3 DEF Collect
<1>9. CASE ScanEnd
  BY <1>9 DEF ScanEnd, ScanAfresh, lists, progress
<1>10. CASE RescanEnd
  BY <1>10 DEF RescanEnd, ScanAfresh, lists, progress
<1>11. CASE SetTimeout
  BY <1>11 DEF SetTimeout, lists, progress
<1>12. CASE WaitReturns
  BY <1>12 DEF WaitReturns, progress
<1>13. CASE WaitTimesOut
  BY <1>13 DEF WaitTimesOut, lists, progress
<1>14. ASSUME NEW p \in Positions, Complete(p) PROVE TypeOK'
  BY <1>14 DEF Complete, progress
<1>15. ASSUME NEW p \in Positions, SettleElapses(p) PROVE TypeOK'
  BY <1>15 DEF SettleElapses, lists, progress
<1>16. CASE UNCHANGED vars
  BY <1>16 DEF vars
<1> QED
  BY <1>1, <1>2, <1>3, <1>4, <1>5, <1>6, <1>7, <1>8, <1>9, <1>10, <1>11, <1>12, <1>13,
     <1>14, <1>15, <1>16 DEF Next, Dispatcher, Returned

\* No stage is lost or issued twice, and every variable keeps its type.
THEOREM TypeCorrect == Spec => []TypeOK
<1> QED BY InitTyped, NextTyped, PTL DEF Spec

-----------------------------------------------------------------------------
\* The second branch of the loop is entered with nothing in flight, and
\* nothing is submitted while the dispatcher is in it.
LEMMA NextDrained == TypeOK /\ NeverAsleepOnWork /\ [Next]_vars => NeverAsleepOnWork'
<1> SUFFICES ASSUME TypeOK, NeverAsleepOnWork, [Next]_vars PROVE NeverAsleepOnWork'
  OBVIOUS
<1> USE DEF NeverAsleepOnWork
<1>1. ASSUME NEW p \in Positions,
             ScanSubmit(p) \/ ScanSkip(p) \/ RescanSubmit(p) \/ RescanSkip(p)
      PROVE NeverAsleepOnWork'
  BY <1>1 DEF ScanSubmit, ScanSkip, RescanSubmit, RescanSkip, Submit, lists
<1>2. ASSUME NEW p \in Positions, SleepSettle(p) \/ WakeFromSleep(p) \/ ForceHead(p)
      PROVE NeverAsleepOnWork'
  BY <1>2 DEF SleepSettle, WakeFromSleep, ForceHead, Submit, lists
<1>3. ASSUME NEW p \in Positions, Collect(p) PROVE NeverAsleepOnWork'
  BY <1>3 DEF Collect
<1>4. CASE ScanEnd
  BY <1>4 DEF ScanEnd, Drained, lists
<1>5. CASE RescanEnd \/ SetTimeout \/ WaitReturns \/ WaitTimesOut
  BY <1>5 DEF RescanEnd, SetTimeout, WaitReturns, WaitTimesOut, lists
<1>6. ASSUME NEW p \in Positions, Complete(p) \/ SettleElapses(p) PROVE NeverAsleepOnWork'
  BY <1>6 DEF Complete, SettleElapses, lists
<1>7. CASE UNCHANGED vars
  BY <1>7 DEF vars
<1> QED
  BY <1>1, <1>2, <1>3, <1>4, <1>5, <1>6, <1>7 DEF Next, Dispatcher, Returned

\* The head of the queue, with nothing in flight, has only completed
\* dependencies: each stands before it, and is neither queued nor in flight.
LEMMA HeadDependenciesDone ==
    ASSUME TypeOK, pending = {}, NEW p \in Positions, IsHead(p), NEW d \in stages[p].deps
    PROVE  d.on \in Done
<1>1. d.on \in Positions /\ d.on < p
  BY DependencyPositions
<1>2. d.on \notin queue
  BY <1>1 DEF IsHead, Preceding
<1> QED BY <1>1, <1>2 DEF TypeOK

\* A completed stage stays completed, and only Collect completes one.
LEMMA DoneGrows ==
    ASSUME TypeOK, NEW p \in Positions, Collect(p)
    PROVE  Done' = Done \cup {p} /\ pending' = pending \ {p} /\ stages' = stages
<1>1. stages[p] \in Stage
  BY ElementOfSeq DEF TypeOK, Positions
<1>2. Counted(p) \in Nat /\ Counted(p) > 0
  BY <1>1 DEF Counted, Stage
<1>3. RankOf(p) \in Nat /\ RankOf(p) > 0
  BY <1>2 DEF RankOf, TypeOK
<1> QED BY <1>3 DEF Collect, TypeOK, Done, Positions

\* A stage is issued with its dependencies completed, whichever branch issues it.
LEMMA NextOrdered == IInv /\ [Next]_vars => DependenciesCompleted'
<1> SUFFICES ASSUME IInv, [Next]_vars PROVE DependenciesCompleted'
  OBVIOUS
<1> USE DEF IInv
\* A submitted stage needs its dependencies done; nothing else changes.
<1>1. ASSUME NEW p \in Positions, Submit(p), \A d \in stages[p].deps : d.on \in Done
      PROVE DependenciesCompleted'
  BY <1>1 DEF Submit, progress, DependenciesCompleted, Done, Positions
<1>2. ASSUME NEW p \in Positions, Ready(p), NEW d \in stages[p].deps PROVE d.on \in Done
  BY <1>2, DependencyPositions DEF Ready, GapMet, Done
<1>3. ASSUME NEW p \in Positions, ScanSubmit(p) \/ RescanSubmit(p)
      PROVE DependenciesCompleted'
  BY <1>1, <1>2, <1>3 DEF ScanSubmit, RescanSubmit
<1>4. ASSUME NEW p \in Positions, ForceHead(p) PROVE DependenciesCompleted'
  <2>1. pending = {} /\ IsHead(p) /\ Submit(p)
    BY <1>4 DEF ForceHead, NeverAsleepOnWork
  <2> QED BY <1>1, <2>1, HeadDependenciesDone
<1>5. ASSUME NEW p \in Positions, Collect(p) PROVE DependenciesCompleted'
  <2>1. Done' = Done \cup {p} /\ pending' = pending \ {p} /\ stages' = stages
    BY <1>5, DoneGrows
  <2>2. p \in pending
    BY <1>5 DEF Collect, TypeOK
  <2> QED BY <2>1, <2>2 DEF DependenciesCompleted
<1>6. ASSUME UNCHANGED <<stages, pending, progress>> PROVE DependenciesCompleted'
  BY <1>6 DEF progress, DependenciesCompleted, Done, Positions
<1>7. ASSUME NEW p \in Positions,
             ScanSkip(p) \/ RescanSkip(p) \/ SleepSettle(p) \/ WakeFromSleep(p)
      PROVE DependenciesCompleted'
  BY <1>6, <1>7 DEF ScanSkip, RescanSkip, SleepSettle, WakeFromSleep, lists
<1>8. ASSUME NEW p \in Positions, Complete(p) \/ SettleElapses(p)
      PROVE DependenciesCompleted'
  BY <1>6, <1>8 DEF Complete, SettleElapses, lists
<1>9. CASE ScanEnd \/ RescanEnd \/ SetTimeout \/ WaitReturns \/ WaitTimesOut
  BY <1>6, <1>9 DEF ScanEnd, RescanEnd, SetTimeout, WaitReturns, WaitTimesOut, lists
<1>10. CASE UNCHANGED vars
  BY <1>6, <1>10 DEF vars, progress
<1> QED
  BY <1>3, <1>4, <1>5, <1>7, <1>8, <1>9, <1>10 DEF Next, Dispatcher, Returned

\* A stage is only ever issued once every stage it depends on has completed,
\* forced or not, at every width.
THEOREM DonorsBeforeRecipients == Spec => []DependenciesCompleted
<1>1. Init => IInv
  <2> SUFFICES ASSUME Init PROVE IInv
    OBVIOUS
  <2>1. TypeOK
    BY InitTyped
  <2>2. pending = {} /\ Done = {}
    BY DEF Init, Done
  <2> QED BY <2>1, <2>2 DEF IInv, NeverAsleepOnWork, DependenciesCompleted
<1>2. IInv /\ [Next]_vars => IInv'
  BY NextTyped, NextDrained, NextOrdered DEF IInv
<1>3. IInv => DependenciesCompleted
  BY DEF IInv
<1> QED BY <1>1, <1>2, <1>3, PTL DEF Spec

\* The dispatcher never sleeps and never returns with a request in flight: the
\* branch that does either is entered with nothing pending, and left without.
THEOREM AwakeWhileWorking == Spec => []NeverAsleepOnWork
<1>1. Init => TypeOK /\ NeverAsleepOnWork
  BY InitTyped DEF Init, NeverAsleepOnWork
<1>2. TypeOK /\ NeverAsleepOnWork /\ [Next]_vars => (TypeOK /\ NeverAsleepOnWork)'
  BY NextTyped, NextDrained
<1> QED BY <1>1, <1>2, PTL DEF Spec

-----------------------------------------------------------------------------
\* The positions are finitely many, hence the pending futures are.
LEMMA PendingFinite == TypeOK => IsFiniteSet(pending) /\ Cardinality(pending) \in Nat
<1> SUFFICES ASSUME TypeOK PROVE IsFiniteSet(pending) /\ Cardinality(pending) \in Nat
  OBVIOUS
<1>1. Positions = 1 .. Len(stages) /\ Len(stages) \in Nat
  BY DEF TypeOK, Positions
<1>2. IsFiniteSet(Positions)
  BY <1>1, FS_Interval
<1>3. pending \subseteq Positions
  BY DEF TypeOK
<1>4. IsFiniteSet(pending)
  BY <1>2, <1>3, FS_Subset
<1> QED BY <1>4, FS_CardinalityType

\* Submitting adds one future; it is done with a lane free or with none used.
LEMMA SubmitBounded ==
    ASSUME TypeOK, NEW p \in queue, Submit(p),
           Cardinality(pending) < Width \/ pending = {}
    PROVE  Cardinality(pending') <= Width
<1>1. Width \in Nat \ {0}
  BY DispatchAssumption
<1>2. IsFiniteSet(pending) /\ Cardinality(pending) \in Nat
  BY PendingFinite
<1>3. p \notin pending /\ pending' = pending \cup {p}
  BY DEF TypeOK, Submit
<1>4. Cardinality(pending') = Cardinality(pending) + 1
  BY <1>2, <1>3, FS_AddElement
<1>5. CASE pending = {}
  BY <1>1, <1>4, <1>5, FS_EmptySet
<1>6. CASE Cardinality(pending) < Width
  BY <1>1, <1>2, <1>4, <1>6
<1> QED BY <1>5, <1>6

\* No path that submits a stage exceeds the lanes.
LEMMA NextBounded ==
    TypeOK /\ NeverAsleepOnWork /\ WidthBound /\ [Next]_vars => WidthBound'
<1> SUFFICES ASSUME TypeOK, NeverAsleepOnWork, WidthBound, [Next]_vars PROVE WidthBound'
  OBVIOUS
<1>1. ASSUME pending' = pending PROVE WidthBound'
  BY <1>1 DEF WidthBound
<1>2. ASSUME NEW p \in Positions, ScanSubmit(p) PROVE WidthBound'
  BY <1>2, SubmitBounded DEF ScanSubmit, LaneFree, Candidate, InWindow, WidthBound
<1>3. ASSUME NEW p \in Positions, RescanSubmit(p) \/ ForceHead(p) PROVE WidthBound'
  BY <1>3, SubmitBounded
     DEF RescanSubmit, ForceHead, IsHead, Candidate, InWindow, WidthBound, NeverAsleepOnWork
<1>4. ASSUME NEW p \in Positions, Collect(p) PROVE WidthBound'
  <2>1. IsFiniteSet(pending) /\ Cardinality(pending) \in Nat
    BY PendingFinite
  <2>2. p \in pending /\ pending' = pending \ {p}
    BY <1>4 DEF Collect, TypeOK
  <2>3. Cardinality(pending') = Cardinality(pending) - 1
    BY <2>1, <2>2, FS_RemoveElement
  <2> QED BY <2>1, <2>3, DispatchAssumption DEF WidthBound
<1>5. ASSUME NEW p \in Positions,
             ScanSkip(p) \/ RescanSkip(p) \/ SleepSettle(p) \/ WakeFromSleep(p)
             \/ Complete(p) \/ SettleElapses(p)
      PROVE WidthBound'
  BY <1>1, <1>5
     DEF ScanSkip, RescanSkip, SleepSettle, WakeFromSleep, Complete, SettleElapses, lists
<1>6. CASE ScanEnd \/ RescanEnd \/ SetTimeout \/ WaitReturns \/ WaitTimesOut
  BY <1>1, <1>6 DEF ScanEnd, RescanEnd, SetTimeout, WaitReturns, WaitTimesOut, lists
<1>7. CASE UNCHANGED vars
  BY <1>1, <1>7 DEF vars
<1> QED
  BY <1>2, <1>3, <1>4, <1>5, <1>6, <1>7 DEF Next, Dispatcher, Returned

\* No path that submits ever opens one lane too many.
THEOREM InFlightBounded == Spec => []WidthBound
<1> DEFINE Inv == TypeOK /\ NeverAsleepOnWork /\ WidthBound
<1>1. Init => Inv
  <2> SUFFICES ASSUME Init PROVE Inv
    OBVIOUS
  <2>1. pending = {} /\ Cardinality({}) = 0
    BY FS_EmptySet DEF Init
  <2> QED BY <2>1, InitTyped, DispatchAssumption DEF NeverAsleepOnWork, WidthBound
<1>2. Inv /\ [Next]_vars => Inv'
  BY NextTyped, NextDrained, NextBounded
<1> QED BY <1>1, <1>2, PTL DEF Spec

-----------------------------------------------------------------------------
\* With one lane the window is the head of the queue and a free lane means
\* nothing in flight.
LEMMA OneLane ==
    ASSUME TypeOK, Width = 1
    PROVE  /\ LaneFree => pending = {}
           /\ \A p \in Positions : InWindow(p) => IsHead(p)
<1>1. LaneFree => pending = {}
  <2>1. IsFiniteSet(pending) /\ Cardinality(pending) \in Nat
    BY PendingFinite
  <2> QED BY <2>1, FS_EmptySet DEF LaneFree
<1>2. ASSUME NEW p \in Positions, InWindow(p) PROVE IsHead(p)
  <2>1. Positions = 1 .. Len(stages) /\ Len(stages) \in Nat
    BY DEF TypeOK, Positions
  <2>2. IsFiniteSet(Positions)
    BY <2>1, FS_Interval
  <2>3. IsFiniteSet(Preceding(p))
    <3>1. Preceding(p) \subseteq Positions
      BY DEF TypeOK, Preceding
    <3> QED BY <2>2, <3>1, FS_Subset
  <2>4. Cardinality(Preceding(p)) \in Nat /\ Cardinality(Preceding(p)) < 1
    BY <2>3, <1>2, FS_CardinalityType DEF InWindow, Lookahead
  <2>5. Cardinality(Preceding(p)) = 0
    BY <2>4
  <2>6. Preceding(p) = {}
    BY <2>3, <2>5, FS_EmptySet
  <2> QED BY <2>6, <1>2 DEF IsHead, InWindow
<1> QED BY <1>1, <1>2

\* At one lane the issued stages stay a prefix of the stream.
LEMMA NextStreamOrder ==
    TypeOK /\ NeverAsleepOnWork /\ WidthBound /\ StreamOrderAtWidth1 /\ [Next]_vars
        => StreamOrderAtWidth1'
<1> SUFFICES ASSUME TypeOK, NeverAsleepOnWork, WidthBound, StreamOrderAtWidth1,
                    [Next]_vars, Width = 1
             PROVE  StreamOrderAtWidth1'
  BY DEF StreamOrderAtWidth1
<1>0. Positions \subseteq Nat
  BY DEF TypeOK, Positions
\* The head joins an empty set of futures: all that was issued stands before it.
<1>1. ASSUME NEW p \in Positions, pending = {}, IsHead(p), Submit(p)
      PROVE  StreamOrderAtWidth1'
  <2>1. /\ Positions' = Positions /\ Done' = Done
        /\ queue' = queue \ {p} /\ pending' = {p} /\ p \in queue
    BY <1>1 DEF Submit, progress, Positions, Done, IsHead
  <2>2. \A q \in queue' : p < q
    BY <2>1, <1>0, <1>1 DEF TypeOK, IsHead, Preceding
  <2>3. \A q \in Positions \ queue : q < p /\ \A r \in queue : q < r
    BY <2>1 DEF StreamOrderAtWidth1
  <2>4. Done \subseteq Positions \ queue
    BY DEF TypeOK
  <2> QED BY <2>1, <2>2, <2>3, <2>4 DEF StreamOrderAtWidth1
<1>2. ASSUME NEW p \in Positions, ScanSubmit(p) \/ RescanSubmit(p) \/ ForceHead(p)
      PROVE  StreamOrderAtWidth1'
  BY <1>1, <1>2, OneLane
     DEF ScanSubmit, RescanSubmit, ForceHead, Candidate, NeverAsleepOnWork
<1>3. ASSUME NEW p \in Positions, Collect(p) PROVE StreamOrderAtWidth1'
  <2>1. Done' = Done \cup {p} /\ pending' = pending \ {p} /\ stages' = stages
    BY <1>3, DoneGrows
  <2>2. p \in pending /\ queue' = queue
    BY <1>3 DEF Collect, TypeOK
  <2>3. IsFiniteSet(pending) /\ Cardinality(pending) \in Nat /\ Cardinality(pending) <= 1
    BY PendingFinite DEF WidthBound
  <2>4. IsFiniteSet(pending \ {p}) /\ Cardinality(pending \ {p}) = Cardinality(pending) - 1
    BY <2>2, <2>3, FS_RemoveElement
  <2>5. Cardinality(pending \ {p}) \in Nat
    BY <2>4, FS_CardinalityType
  <2>6. pending \ {p} = {}
    <3>1. Cardinality(pending \ {p}) = 0
      BY <2>3, <2>4, <2>5
    <3> QED BY <2>4, <3>1, FS_EmptySet
  <2> QED BY <2>1, <2>2, <2>6 DEF StreamOrderAtWidth1, Positions
<1>4. ASSUME UNCHANGED <<stages, queue, pending, progress>> PROVE StreamOrderAtWidth1'
  BY <1>4 DEF StreamOrderAtWidth1, progress, Positions, Done
<1>5. ASSUME NEW p \in Positions,
             ScanSkip(p) \/ RescanSkip(p) \/ SleepSettle(p) \/ WakeFromSleep(p)
             \/ Complete(p) \/ SettleElapses(p)
      PROVE  StreamOrderAtWidth1'
  BY <1>4, <1>5
     DEF ScanSkip, RescanSkip, SleepSettle, WakeFromSleep, Complete, SettleElapses, lists
<1>6. CASE ScanEnd \/ RescanEnd \/ SetTimeout \/ WaitReturns \/ WaitTimesOut
  BY <1>4, <1>6 DEF ScanEnd, RescanEnd, SetTimeout, WaitReturns, WaitTimesOut, lists
<1>7. CASE UNCHANGED vars
  BY <1>4, <1>7 DEF vars, progress
<1> QED
  BY <1>2, <1>3, <1>5, <1>6, <1>7 DEF Next, Dispatcher, Returned

\* A serial run issues its stages in exactly manifest order, one at a time.
THEOREM SerialIsInOrder == Spec => []StreamOrderAtWidth1
<1> DEFINE Inv == TypeOK /\ NeverAsleepOnWork /\ WidthBound /\ StreamOrderAtWidth1
<1>1. Init => Inv
  <2> SUFFICES ASSUME Init PROVE Inv
    OBVIOUS
  <2>1. pending = {} /\ queue = Positions /\ Cardinality({}) = 0
    BY FS_EmptySet DEF Init
  <2> QED BY <2>1, InitTyped, DispatchAssumption
          DEF NeverAsleepOnWork, WidthBound, StreamOrderAtWidth1
<1>2. Inv /\ [Next]_vars => Inv'
  BY NextTyped, NextDrained, NextBounded, NextStreamOrder
<1> QED BY <1>1, <1>2, PTL DEF Spec

-----------------------------------------------------------------------------
\* The stages the promise sees in flight are the pending futures, the ones it
\* sees done the completed stages.
LEMMA PhaseIs ==
    ASSUME TypeOK
    PROVE  /\ Promise!InPhase("inflight") = pending
           /\ \A p \in Positions : /\ Phase[p] = "queued" <=> p \in queue
                                   /\ Phase[p] = "inflight" <=> p \in pending
                                   /\ Phase[p] = "done" <=> p \in Done
BY DEF TypeOK, Phase, Promise!InPhase

\* The dispatcher starts where its promise does.
LEMMA InitPromised == Init => Promise!Init
BY DEF Init, Promise!Init, Phase, Positions

\* A submission whose dependencies are done, with a lane to take it, is the
\* promise's Issue.
LEMMA SubmitIssues ==
    ASSUME TypeOK, NEW p \in queue, Submit(p),
           \A d \in stages[p].deps : d.on \in Done,
           Cardinality(pending) < Width
    PROVE  Promise!Next
<1>1. p \in Positions /\ stages' = stages /\ Positions' = Positions
  BY DEF TypeOK, Submit, Positions
<1>2. \A d \in stages[p].deps : Phase[d.on] = "done"
  BY PhaseIs, DependencyPositions, <1>1
<1>3. /\ Promise!Cardinality(Promise!InPhase("inflight")) < Width
      /\ Phase[p] = "queued"
  <2>1. Promise!Cardinality(pending) = Cardinality(pending)
    BY DEF Promise!Cardinality, Cardinality
  <2> QED BY <2>1, PhaseIs, <1>1
<1>4. Phase' = [Phase EXCEPT ![p] = "inflight"]
  BY <1>1 DEF Phase, Submit, TypeOK
<1>5. Promise!Issue(p)
  BY <1>1, <1>2, <1>3, <1>4 DEF Promise!Issue
<1> QED BY <1>1, <1>5 DEF Promise!Next, Positions

\* Every action of the dispatcher issues a stage, collects one, or is invisible
\* to the promise.
LEMMA NextPromised ==
    IInv /\ [Next]_vars => [Promise!Next]_(Promise!vars)
<1> SUFFICES ASSUME IInv, [Next]_vars PROVE Promise!Next \/ UNCHANGED Promise!vars
  OBVIOUS
<1> USE DEF IInv
<1>1. ASSUME NEW p \in Positions, ScanSubmit(p) PROVE Promise!Next
  <2>1. p \in queue /\ Submit(p) /\ Cardinality(pending) < Width
    BY <1>1 DEF ScanSubmit, Candidate, InWindow, LaneFree
  <2>2. \A d \in stages[p].deps : d.on \in Done
    BY <1>1, DependencyPositions DEF ScanSubmit, Ready, GapMet, Done
  <2> QED BY <2>1, <2>2, SubmitIssues
<1>2. ASSUME NEW p \in Positions, RescanSubmit(p) \/ ForceHead(p) PROVE Promise!Next
  <2>1. p \in queue /\ Submit(p) /\ pending = {}
    BY <1>2 DEF RescanSubmit, ForceHead, Candidate, InWindow, IsHead, NeverAsleepOnWork
  <2>2. Cardinality(pending) < Width
    BY <2>1, FS_EmptySet, DispatchAssumption
  <2>3. \A d \in stages[p].deps : d.on \in Done
    <3>1. CASE RescanSubmit(p)
      BY <3>1, DependencyPositions DEF RescanSubmit, Ready, GapMet, Done
    <3>2. CASE ForceHead(p)
      BY <3>2, <2>1, HeadDependenciesDone DEF ForceHead
    <3> QED BY <1>2, <3>1, <3>2
  <2> QED BY <2>1, <2>2, <2>3, SubmitIssues
<1>3. ASSUME NEW p \in Positions, Collect(p) PROVE Promise!Next
  <2>1. p \in pending /\ queue' = queue /\ pending' = pending \ {p} /\ stages' = stages
    BY <1>3 DEF Collect, TypeOK
  <2>2. Phase' = [Phase EXCEPT ![p] = "done"]
    BY <2>1 DEF Phase, TypeOK, Positions
  <2>3. Promise!Finish(p)
    BY <2>1, <2>2, PhaseIs DEF Promise!Finish
  <2> QED BY <2>3 DEF Promise!Next, Positions
<1>4. ASSUME UNCHANGED <<stages, queue, pending>> PROVE UNCHANGED Promise!vars
  BY <1>4 DEF Promise!vars, Phase, Positions
<1>5. ASSUME NEW p \in Positions,
             ScanSkip(p) \/ RescanSkip(p) \/ SleepSettle(p) \/ WakeFromSleep(p)
             \/ Complete(p) \/ SettleElapses(p)
      PROVE  UNCHANGED Promise!vars
  BY <1>4, <1>5
     DEF ScanSkip, RescanSkip, SleepSettle, WakeFromSleep, Complete, SettleElapses, lists
<1>6. CASE ScanEnd \/ RescanEnd \/ SetTimeout \/ WaitReturns \/ WaitTimesOut
  BY <1>4, <1>6 DEF ScanEnd, RescanEnd, SetTimeout, WaitReturns, WaitTimesOut, lists
<1>7. CASE UNCHANGED vars
  BY <1>4, <1>7 DEF vars
<1> QED
  BY <1>1, <1>2, <1>3, <1>5, <1>6, <1>7 DEF Next, Dispatcher, Returned

\* The dispatcher implements the promise: every step is an Issue, a Finish or
\* invisible.
THEOREM DispatchKeepsPromise == Spec => KeepsPromise
<1>1. Init => IInv
  BY InitTyped DEF Init, IInv, NeverAsleepOnWork, DependenciesCompleted, Done
<1>2. IInv /\ [Next]_vars => IInv'
  BY NextTyped, NextDrained, NextOrdered DEF IInv
<1> QED
  BY <1>1, <1>2, InitPromised, NextPromised, PTL DEF Spec, KeepsPromise, Promise!Spec

-----------------------------------------------------------------------------
\* What each stage counts for, as a function.
Weights == [p \in Positions |-> IF stages[p].requests > 0 THEN stages[p].requests ELSE 1]

\* The stages completed after d was.
After(d) == {q \in Done : rank[q] > rank[d]}

\* A stage counts for what with_completion counts it for, which is something.
LEMMA WeightIsCounted ==
    ASSUME TypeOK, NEW p \in Positions
    PROVE  Weights[p] = Counted(p) /\ Counted(p) \in Nat \ {0}
<1>1. stages[p] \in Stage
  BY ElementOfSeq DEF TypeOK, Positions
<1>2. stages[p].requests \in Nat
  BY <1>1 DEF Stage
<1> QED BY <1>2 DEF Weights, Counted

\* Sets of stages are finite.
LEMMA StagesFinite ==
    ASSUME TypeOK, NEW S \in SUBSET Positions
    PROVE  IsFiniteSet(S)
<1>1. Positions = 1 .. Len(stages) /\ Len(stages) \in Nat
  BY DEF TypeOK, Positions
<1>2. IsFiniteSet(Positions)
  BY <1>1, FS_Interval
<1> QED BY <1>2, FS_Subset

\* The fold the gap is stated with is the sum of the weights.
LEMMA RequestsAreTotal ==
    ASSUME TypeOK, NEW S \in SUBSET Positions
    PROVE  RequestsIn(S) = Total(Weights, S)
<1> DEFINE Folds(g) ==
             g = [s \in SUBSET S |->
                    IF s = {} THEN 0
                    ELSE (IF stages[CHOOSE x \in s : TRUE].requests > 0
                          THEN stages[CHOOSE x \in s : TRUE].requests ELSE 1)
                         + g[s \ {CHOOSE x \in s : TRUE}]]
           f == CHOOSE g : Folds(g)
           h == CHOOSE g : Sums(g, Weights, S)
<1>1. RequestsIn(S) = f[S]
  BY DEF RequestsIn, MapThenSumSet, MapThenFoldSet
<1>2. ASSUME NEW g, Sums(g, Weights, S) PROVE Folds(g)
  <2>1. \A s \in SUBSET S : s # {} =>
            Weights[First(s)] = IF stages[First(s)].requests > 0
                                THEN stages[First(s)].requests ELSE 1
    BY DEF First, Weights
  <2> QED BY <1>2, <2>1 DEF Sums, First
<1>3. ASSUME NEW g, Folds(g) PROVE Sums(g, Weights, S)
  <2>1. \A s \in SUBSET S : s # {} =>
            Weights[First(s)] = IF stages[First(s)].requests > 0
                                THEN stages[First(s)].requests ELSE 1
    BY DEF First, Weights
  <2> QED BY <1>3, <2>1 DEF Sums, First
<1> HIDE DEF Folds
<1>4. PICK g : Sums(g, Weights, S)
  BY StagesFinite, SumsExist
<1>5. Folds(f) /\ Sums(h, Weights, S)
  BY <1>2, <1>4
<1>6. Sums(f, Weights, S)
  BY <1>3, <1>5
<1> HIDE DEF f, h
<1>7. IsFiniteSet(S) /\ (\A x \in S \cup S : Weights[x] \in Nat) /\ S \in SUBSET (S \cap S)
  BY StagesFinite, WeightIsCounted
<1>8. f[S] = h[S]
  BY <1>5, <1>6, <1>7, SumsAgree
<1> QED BY <1>1, <1>8 DEF Total, h

\* Progress counts what completed: nothing is ranked beyond the count, and what
\* was counted since a stage completed is what completed after it.
RanksAddUp ==
    /\ \A p \in Positions : rank[p] <= completed
    /\ \A p \in Done : Total(Weights, After(p)) = completed - rank[p]

\* Only a completion moves the count, and it adds the stage to what came after
\* each stage before it.
LEMMA NextAddsUp == TypeOK /\ RanksAddUp /\ [Next]_vars => RanksAddUp'
<1> SUFFICES ASSUME TypeOK, RanksAddUp, [Next]_vars PROVE RanksAddUp'
  OBVIOUS
<1>1. ASSUME UNCHANGED <<stages, progress>> PROVE RanksAddUp'
  BY <1>1 DEF RanksAddUp, Weights, After, Done, Positions, progress
<1>2. ASSUME NEW p \in Positions, Collect(p) PROVE RanksAddUp'
  <2> DEFINE c == Counted(p)
  <2>1. c \in Nat \ {0} /\ Weights[p] = c
    BY WeightIsCounted
  <2>2. completed \in Nat /\ rank \in [Positions -> Nat] /\ \A q \in Positions : rank[q] <= completed
    BY DEF TypeOK, RanksAddUp
  <2>3. /\ completed' = completed + c
        /\ rank' = [rank EXCEPT ![p] = completed + c]
        /\ stages' = stages
    BY <1>2 DEF Collect, RankOf
  <2>4. Positions' = Positions /\ Weights' = Weights
    BY <2>3 DEF Positions, Weights
  <2>5. Done' = Done \cup {p} /\ p \in pending /\ p \notin Done
    BY <1>2, DoneGrows DEF Collect, TypeOK
  <2> HIDE DEF c
  <2>6. \A q \in Positions : rank'[q] <= completed'
    BY <2>1, <2>2, <2>3
  <2>7. After(p)' = {}
    <3>1. \A q \in Positions : rank'[q] <= rank'[p]
      BY <2>1, <2>2, <2>3
    <3>2. Done' \subseteq Positions /\ \A q \in Positions : rank'[q] \in Nat
      BY <2>1, <2>2, <2>3, <2>4 DEF Done
    <3> QED BY <3>1, <3>2 DEF After
  <2>8. Total(Weights, After(p))' = completed' - rank'[p]
    <3>1. Total(Weights, After(p))' = 0
      BY <2>7, TotalOfNone
    <3>2. completed' - rank'[p] = 0
      BY <2>1, <2>2, <2>3
    <3> QED BY <3>1, <3>2
  <2>9. ASSUME NEW q \in Done
        PROVE  Total(Weights, After(q))' = completed' - rank'[q]
    <3>1. q \in Positions /\ q # p /\ rank'[q] = rank[q]
      BY <2>2, <2>3, <2>5 DEF Done
    <3>2. After(q)' = After(q) \cup {p} /\ p \notin After(q)
      <4>1. rank'[p] > rank'[q]
        BY <2>1, <2>2, <2>3, <3>1
      <4>2. \A r \in Done : rank'[r] = rank[r]
        BY <2>2, <2>3, <2>5 DEF Done
      <4> QED BY <2>5, <3>1, <4>1, <4>2 DEF After
    <3>3. After(q) \in SUBSET Positions /\ IsFiniteSet(After(q))
      BY StagesFinite DEF After, Done
    <3>4. \A y \in After(q) \cup {p} : Weights[y] \in Nat
      BY <3>3, WeightIsCounted
    <3>5. Total(Weights, After(q) \cup {p}) = Weights[p] + Total(Weights, After(q))
      BY <3>2, <3>3, <3>4, TotalOfOneMore
    <3>6. Total(Weights, After(q)) = completed - rank[q]
      BY DEF RanksAddUp
    <3>7. Total(Weights, After(q))' = Weights[p] + (completed - rank[q])
      BY <2>4, <3>2, <3>5, <3>6
    <3> QED BY <2>1, <2>2, <2>3, <3>1, <3>7
  <2> QED BY <2>4, <2>5, <2>6, <2>8, <2>9 DEF RanksAddUp
<1>3. ASSUME NEW p \in Positions,
             \/ ScanSubmit(p) \/ ScanSkip(p) \/ RescanSubmit(p) \/ RescanSkip(p)
             \/ SleepSettle(p) \/ WakeFromSleep(p) \/ ForceHead(p)
             \/ Complete(p) \/ SettleElapses(p)
      PROVE RanksAddUp'
  BY <1>1, <1>3 DEF ScanSubmit, ScanSkip, RescanSubmit, RescanSkip, SleepSettle,
     WakeFromSleep, ForceHead, Complete, SettleElapses, Submit
<1>4. CASE ScanEnd \/ RescanEnd \/ SetTimeout \/ WaitReturns \/ WaitTimesOut
  BY <1>1, <1>4 DEF ScanEnd, RescanEnd, SetTimeout, WaitReturns, WaitTimesOut
<1>5. CASE UNCHANGED vars
  BY <1>1, <1>5 DEF vars, progress
<1> QED BY <1>2, <1>3, <1>4, <1>5 DEF Next, Dispatcher, Returned


\* At the start nothing is counted.
LEMMA InitAddsUp == Init => RanksAddUp
<1> SUFFICES ASSUME Init PROVE RanksAddUp
  OBVIOUS
<1>1. completed = 0 /\ rank = [p \in Positions |-> 0] /\ Done = {}
  BY DEF Init, Done
<1> QED BY <1>1 DEF RanksAddUp

\* Counted afresh or read off the ranks, the gap is the same.
LEMMA GapIsCounted ==
    ASSUME TypeOK, RanksAddUp, NEW p \in Positions
    PROVE  GapElapsed(p) <=> GapMet(p)
<1>1. ASSUME NEW d \in stages[p].deps
      PROVE  /\ d.on \in Done <=> rank[d.on] > 0
             /\ d.on \in Done => RequestsIn({q \in Done : rank[q] > rank[d.on]})
                                     = completed - rank[d.on]
  <2>1. d.on \in Positions
    BY DependencyPositions
  <2>2. After(d.on) \in SUBSET Positions
    BY DEF After, Done
  <2>3. RequestsIn(After(d.on)) = Total(Weights, After(d.on))
    BY <2>2, RequestsAreTotal
  <2>4. d.on \in Done => Total(Weights, After(d.on)) = completed - rank[d.on]
    BY DEF RanksAddUp
  <2> QED BY <2>1, <2>3, <2>4 DEF Done, After
<1> QED BY <1>1 DEF GapElapsed, GapMet

\* The steps that take a position out of the queue, and how.
LEMMA IssuedHow ==
    ASSUME TypeOK, [Next]_vars, NEW p \in queue \ queue'
    PROVE  p \in Positions /\ (ScanSubmit(p) \/ RescanSubmit(p) \/ ForceHead(p))
<1>1. p \in Positions
  BY DEF TypeOK
<1>2. queue' # queue
  OBVIOUS
<1>3. ASSUME NEW q \in Positions, ScanSubmit(q) \/ RescanSubmit(q) \/ ForceHead(q)
      PROVE  q = p
  BY <1>3 DEF ScanSubmit, RescanSubmit, ForceHead, Submit
<1>4. ~ (ScanEnd \/ RescanEnd \/ SetTimeout \/ WaitReturns \/ WaitTimesOut \/ UNCHANGED vars)
  BY <1>2 DEF ScanEnd, RescanEnd, SetTimeout, WaitReturns, WaitTimesOut, vars, lists
<1>5. ASSUME NEW q \in Positions
      PROVE  ~ (\/ ScanSkip(q) \/ RescanSkip(q) \/ SleepSettle(q) \/ WakeFromSleep(q)
                \/ Collect(q) \/ Complete(q) \/ SettleElapses(q))
  BY <1>2 DEF ScanSkip, RescanSkip, SleepSettle, WakeFromSleep, Collect, Complete,
              SettleElapses, lists
<1> QED BY <1>1, <1>3, <1>4, <1>5 DEF Next, Dispatcher, Returned

\* A stage is issued with its gap and its settle over, or it is one the report
\* counts as forced, at every width.
THEOREM GapsAreHeld == Spec => GapsHeld
<1> DEFINE Inv == TypeOK /\ RanksAddUp
           Held == \A p \in queue \ queue' :
                      p \in forced' \/ (GapElapsed(p) /\ ~SettleOwed(p))
<1>1. Init => Inv
  BY InitTyped, InitAddsUp
<1>2. Inv /\ [Next]_vars => Inv'
  BY NextTyped, NextAddsUp
<1>3. Inv /\ [Next]_vars => Held
  <2> SUFFICES ASSUME Inv, [Next]_vars, NEW p \in queue \ queue'
               PROVE  p \in forced' \/ (GapElapsed(p) /\ ~SettleOwed(p))
    OBVIOUS
  <2>1. p \in Positions /\ (ScanSubmit(p) \/ RescanSubmit(p) \/ ForceHead(p))
    BY IssuedHow
  <2>2. CASE ScanSubmit(p) \/ RescanSubmit(p)
    BY <2>1, <2>2, GapIsCounted DEF ScanSubmit, RescanSubmit, Ready
  <2>3. CASE ForceHead(p)
    BY <2>3 DEF ForceHead
  <2> QED BY <2>1, <2>2, <2>3
<1>4. Inv /\ [Next]_vars => [Held]_vars
  BY <1>3
<1> HIDE DEF Held, Inv
<1>5. Spec => [][Held]_vars
  BY <1>1, <1>2, <1>4, PTL DEF Spec
<1> QED BY <1>5 DEF Held, GapsHeld

-----------------------------------------------------------------------------
\* A stage that owes no settle at all: only its gap can hold it back.
Unsettled(q) == \A d \in stages[q].deps : ~d.settle

\* What the scan has passed over is short of its gap, until a completion; what
\* the second look found the head to be it still is.
PassedOver ==
    /\ pc \in {"scan", "rescan"} =>
           \A q \in queue : q <= cursor /\ Unsettled(q) => ~GapMet(q)
    /\ pc \in {"unblock", "asleep"} =>
           \A q \in queue : IsHead(q) /\ Unsettled(q) => ~GapMet(q)
    /\ pc \notin {"scan", "rescan"} => cursor = 0

\* The head is in every window.
LEMMA HeadInWindow ==
    ASSUME NEW p, IsHead(p)
    PROVE  InWindow(p)
<1>1. Lookahead \in Nat \ {0}
  BY DispatchAssumption DEF Lookahead, LookaheadEverywhere
<1>2. Cardinality(Preceding(p)) = 0
  BY FS_EmptySet DEF IsHead
<1> QED BY <1>1, <1>2 DEF IsHead, InWindow

\* Each scan starts at the head and looks at every stage it passes.
LEMMA NextPassedOver == TypeOK /\ PassedOver /\ [Next]_vars => PassedOver'
<1> SUFFICES ASSUME TypeOK, PassedOver, [Next]_vars PROVE PassedOver'
  OBVIOUS
<1>0. Positions \subseteq Nat \ {0} /\ queue \subseteq Positions /\ cursor \in Nat
  BY DEF TypeOK, Positions
<1>1. ASSUME UNCHANGED <<stages, progress>>, NEW q
      PROVE  GapMet(q)' = GapMet(q) /\ Unsettled(q)' = Unsettled(q)
  BY <1>1 DEF GapMet, Unsettled, progress
<1>2. ASSUME NEW q, Unsettled(q), ~Ready(q) PROVE ~GapMet(q)
  BY <1>2 DEF Ready, Unsettled, SettleOwed
<1>3. ASSUME NEW p \in Positions, ScanSubmit(p) PROVE PassedOver'
  <2>1. UNCHANGED <<stages, progress, pc>> /\ queue' = queue \ {p} /\ cursor' = p /\ pc = "scan"
    BY <1>3 DEF ScanSubmit, Submit
  <2>2. \A q \in queue' : q <= p => q <= cursor /\ q \in queue
    BY <1>3, <1>0, <2>1 DEF ScanSubmit, Candidate, Preceding
  <2> QED BY <1>1, <2>1, <2>2 DEF PassedOver
<1>4. ASSUME NEW p \in Positions, ScanSkip(p) \/ RescanSkip(p) PROVE PassedOver'
  <2>1. /\ UNCHANGED <<stages, progress, pc, queue>> /\ cursor' = p
        /\ pc \in {"scan", "rescan"} /\ ~Ready(p)
    BY <1>4 DEF ScanSkip, RescanSkip, lists
  <2>2. \A q \in queue : q <= p => q <= cursor \/ q = p
    BY <1>4, <1>0 DEF ScanSkip, RescanSkip, Candidate, Preceding
  <2> QED BY <1>1, <1>2, <2>1, <2>2 DEF PassedOver
<1>5. ASSUME NEW p \in Positions, RescanSubmit(p) \/ ForceHead(p) PROVE PassedOver'
  <2>1. pc' = "timeout" /\ cursor' = 0
    BY <1>5 DEF RescanSubmit, ForceHead, ScanAfresh, PassedOver
  <2> QED BY <2>1 DEF PassedOver
<1>6. ASSUME NEW p \in Positions, SleepSettle(p) PROVE PassedOver'
  <2>1. /\ UNCHANGED <<stages, progress, queue, cursor>>
        /\ pc = "unblock" /\ pc' = "asleep"
    BY <1>6 DEF SleepSettle, lists
  <2> QED BY <1>1, <2>1 DEF PassedOver, IsHead, Preceding
<1>7. ASSUME cursor' = 0, queue' \subseteq queue, pc' \notin {"unblock", "asleep"}
      PROVE  PassedOver'
  BY <1>0, <1>7 DEF PassedOver
<1>8. ASSUME NEW p \in Positions, WakeFromSleep(p) \/ Collect(p) PROVE PassedOver'
  BY <1>7, <1>8 DEF WakeFromSleep, Collect, lists, PassedOver
<1>9. CASE ScanEnd \/ SetTimeout \/ WaitReturns \/ WaitTimesOut
  BY <1>7, <1>9 DEF ScanEnd, SetTimeout, WaitReturns, WaitTimesOut, lists, PassedOver,
                    ScanAfresh
<1>10. CASE RescanEnd
  <2>1. /\ UNCHANGED <<stages, progress, queue>> /\ cursor' = 0 /\ pc' = "unblock"
        /\ pc = "rescan"
    BY <1>10 DEF RescanEnd, ScanAfresh, lists
  <2>2. \A q \in queue : IsHead(q) => q <= cursor
    BY <1>10, HeadInWindow DEF RescanEnd, NoCandidate
  <2> QED BY <1>1, <2>1, <2>2 DEF PassedOver, IsHead, Preceding
<1>11. ASSUME UNCHANGED <<stages, progress, pc, queue, cursor>> PROVE PassedOver'
  BY <1>1, <1>11 DEF PassedOver, IsHead, Preceding
<1>12. ASSUME NEW p \in Positions, Complete(p) \/ SettleElapses(p) PROVE PassedOver'
  BY <1>11, <1>12 DEF Complete, SettleElapses, lists
<1>13. CASE UNCHANGED vars
  BY <1>11, <1>13 DEF vars, progress
<1> QED
  BY <1>3, <1>4, <1>5, <1>6, <1>8, <1>9, <1>10, <1>12, <1>13 DEF Next, Dispatcher, Returned


\* The first scan has passed over nothing yet.
LEMMA InitPassedOver == Init => PassedOver
<1> SUFFICES ASSUME Init PROVE PassedOver
  OBVIOUS
<1>1. queue = Positions /\ cursor = 0 /\ pc \in {"scan", "returned"}
  BY DEF Init
<1>2. Positions \subseteq Nat \ {0}
  BY InitTyped DEF TypeOK, Positions
<1> QED BY <1>1, <1>2 DEF PassedOver

\* A stage held back by its gap alone is overtaken only while it is short of it,
\* at every width and with every look-ahead.
THEOREM OvertakenOnlyShortOfGap == Spec => NeverOvertakenWhenReady
<1> DEFINE Inv == TypeOK /\ RanksAddUp /\ PassedOver
           Fair == \A p \in queue \ queue', q \in queue' :
                      (q < p /\ \A d \in stages[q].deps : ~d.settle) => ~GapElapsed(q)
<1>1. Init => Inv
  BY InitTyped, InitAddsUp, InitPassedOver
<1>2. Inv /\ [Next]_vars => Inv'
  BY NextTyped, NextAddsUp, NextPassedOver
<1>3. Inv /\ [Next]_vars => Fair
  <2> SUFFICES ASSUME Inv, [Next]_vars, NEW p \in queue \ queue', NEW q \in queue',
                      q < p, Unsettled(q)
               PROVE  ~GapElapsed(q)
    BY DEF Unsettled
  <2>1. p \in Positions /\ (ScanSubmit(p) \/ RescanSubmit(p) \/ ForceHead(p))
    BY IssuedHow
  <2>2. queue' = queue \ {p} /\ q \in queue /\ q \in Preceding(p) /\ q \in Positions
    BY <2>1 DEF ScanSubmit, RescanSubmit, ForceHead, Submit, Preceding, TypeOK
  <2>3. ScanSubmit(p) \/ RescanSubmit(p)
    BY <2>1, <2>2 DEF ForceHead, IsHead
  <2>4. pc \in {"scan", "rescan"} /\ q \in 1 .. cursor /\ cursor \in Nat
    BY <2>2, <2>3 DEF ScanSubmit, RescanSubmit, Candidate, TypeOK
  <2>5. ~GapMet(q)
    BY <2>2, <2>4 DEF PassedOver
  <2> QED BY <2>2, <2>5, GapIsCounted
<1>4. Inv /\ [Next]_vars => [Fair]_vars
  BY <1>3
<1> HIDE DEF Fair, Inv
<1>5. Spec => [][Fair]_vars
  BY <1>1, <1>2, <1>4, PTL DEF Spec
<1> QED BY <1>5 DEF Fair, NeverOvertakenWhenReady

-----------------------------------------------------------------------------
\* At one lane stages complete in the order of the stream.
RanksInOrder == Width = 1 => \A p, q \in Done : p < q => rank[p] < rank[q]

\* The one stage in flight stands behind all that completed, and is ranked
\* beyond them.
LEMMA NextRanksInOrder ==
    TypeOK /\ RanksAddUp /\ StreamOrderAtWidth1 /\ RanksInOrder /\ [Next]_vars
        => RanksInOrder'
<1> SUFFICES ASSUME TypeOK, RanksAddUp, StreamOrderAtWidth1, RanksInOrder, [Next]_vars,
                    Width = 1
             PROVE  RanksInOrder'
  BY DEF RanksInOrder
<1>1. ASSUME UNCHANGED <<stages, progress>> PROVE RanksInOrder'
  BY <1>1 DEF RanksInOrder, Done, Positions, progress
<1>2. ASSUME NEW p \in Positions, Collect(p) PROVE RanksInOrder'
  <2>1. Counted(p) \in Nat \ {0}
    BY WeightIsCounted
  <2>2. completed \in Nat /\ rank \in [Positions -> Nat] /\ \A q \in Positions : rank[q] <= completed
    BY DEF TypeOK, RanksAddUp
  <2>3. rank' = [rank EXCEPT ![p] = completed + Counted(p)]
    BY <1>2 DEF Collect, RankOf
  <2>4. Done' = Done \cup {p} /\ p \in pending /\ p \notin Done /\ Done \subseteq Positions
    BY <1>2, DoneGrows DEF Collect, TypeOK, Done
  <2>5. \A q \in Done : q < p /\ ~(p < q)
    <3>1. \A q \in Done : q < p
      BY <2>4 DEF StreamOrderAtWidth1
    <3>2. Positions \subseteq Nat
      BY DEF TypeOK, Positions
    <3> QED BY <2>4, <3>1, <3>2
  <2>6. \A q \in Done : rank'[q] = rank[q] /\ rank'[q] < rank'[p]
    BY <2>1, <2>2, <2>3, <2>4
  <2>7. ~(p < p)
    BY DEF TypeOK, Positions
  <2> QED BY <2>4, <2>5, <2>6, <2>7 DEF RanksInOrder
<1>3. ASSUME NEW p \in Positions,
             \/ ScanSubmit(p) \/ ScanSkip(p) \/ RescanSubmit(p) \/ RescanSkip(p)
             \/ SleepSettle(p) \/ WakeFromSleep(p) \/ ForceHead(p)
             \/ Complete(p) \/ SettleElapses(p)
      PROVE RanksInOrder'
  BY <1>1, <1>3 DEF ScanSubmit, ScanSkip, RescanSubmit, RescanSkip, SleepSettle,
     WakeFromSleep, ForceHead, Complete, SettleElapses, Submit
<1>4. CASE ScanEnd \/ RescanEnd \/ SetTimeout \/ WaitReturns \/ WaitTimesOut
  BY <1>1, <1>4 DEF ScanEnd, RescanEnd, SetTimeout, WaitReturns, WaitTimesOut
<1>5. CASE UNCHANGED vars
  BY <1>1, <1>5 DEF vars, progress
<1> QED BY <1>2, <1>3, <1>4, <1>5 DEF Next, Dispatcher, Returned

\* With the gaps agreeing with the order, what completed since a dependency did
\* is all that stands between it and the head: the gap is over.
LEMMA SerialGapIsOver ==
    ASSUME TypeOK, StreamOrderAtWidth1, RanksInOrder, Width = 1, GapsAgree,
           pending = {}, NEW p \in Positions, IsHead(p)
    PROVE  GapElapsed(p)
<1>1. Positions \subseteq Nat \ {0} /\ p \in Nat
  BY DEF TypeOK, Positions
<1>2. Done = {q \in Positions : q < p}
  <2>1. Done = Positions \ queue
    BY DEF TypeOK
  <2>2. \A q \in Positions : q \in queue <=> ~(q < p)
    <3>1. \A q \in Positions \ queue : q < p
      BY DEF StreamOrderAtWidth1, IsHead
    <3>2. \A q \in queue : ~(q < p)
      BY DEF IsHead, Preceding
    <3> QED BY <3>1, <3>2
  <2> QED BY <2>1, <2>2
<1>3. ASSUME NEW d \in stages[p].deps
      PROVE  /\ d.on \in Done
             /\ {q \in Done : rank[q] > rank[d.on]} = d.on + 1 .. p - 1
  <2>1. d.on \in Positions /\ d.on < p /\ d.on \in Nat
    BY DependencyPositions
  <2>2. d.on \in Done
    BY <1>2, <2>1
  <2>3. \A q \in Done : rank[q] > rank[d.on] <=> d.on < q
    <3>1. rank \in [Positions -> Nat] /\ Done \subseteq Positions
      BY DEF TypeOK, Done
    <3> TAKE q \in Done
    <3>2. q \in Nat /\ rank[q] \in Nat /\ rank[d.on] \in Nat
      BY <1>1, <2>1, <3>1
    <3>3. d.on < q => rank[d.on] < rank[q]
      BY <2>2 DEF RanksInOrder
    <3>4. q < d.on => rank[q] < rank[d.on]
      BY <2>2 DEF RanksInOrder
    <3> QED BY <2>1, <3>2, <3>3, <3>4
  <2>4. \A q : q \in Done /\ d.on < q <=> q \in d.on + 1 .. p - 1
    <3>1. Positions = 1 .. Len(stages) /\ Len(stages) \in Nat
      BY DEF TypeOK, Positions
    <3> QED BY <1>1, <1>2, <2>1, <3>1
  <2> QED BY <2>2, <2>3, <2>4
<1> QED BY <1>3 DEF GapElapsed, GapsAgree

\* A serial run of a manifest whose gaps agree with its order issues no stage
\* inside its gap, and forces none but for a settle that elapsed as it looked.
THEOREM SerialRunsNeverForce == Spec => SerialGapsHold
<1> DEFINE Inv == /\ TypeOK /\ NeverAsleepOnWork /\ WidthBound /\ StreamOrderAtWidth1
                  /\ RanksAddUp /\ RanksInOrder /\ PassedOver
           Holds == Width = 1 /\ GapsAgree =>
                       \A p \in queue \ queue' :
                          GapElapsed(p) /\ (p \in forced' => \E d \in stages[p].deps : d.settle)
<1>1. Init => Inv
  <2> SUFFICES ASSUME Init PROVE Inv
    OBVIOUS
  <2>1. pending = {} /\ queue = Positions /\ Cardinality({}) = 0 /\ Done = {}
    BY FS_EmptySet DEF Init, Done
  <2>2. NeverAsleepOnWork /\ WidthBound /\ StreamOrderAtWidth1 /\ RanksInOrder
    BY <2>1, DispatchAssumption
       DEF NeverAsleepOnWork, WidthBound, StreamOrderAtWidth1, RanksInOrder
  <2> QED BY <2>2, InitTyped, InitAddsUp, InitPassedOver
<1>2. Inv /\ [Next]_vars => Inv'
  BY NextTyped, NextDrained, NextBounded, NextStreamOrder, NextAddsUp, NextRanksInOrder,
     NextPassedOver
<1>3. Inv /\ [Next]_vars => Holds
  <2> SUFFICES ASSUME Inv, [Next]_vars, Width = 1, GapsAgree, NEW p \in queue \ queue'
               PROVE  GapElapsed(p) /\ (p \in forced' => ~Unsettled(p))
    BY DEF Unsettled
  <2>1. p \in Positions /\ (ScanSubmit(p) \/ RescanSubmit(p) \/ ForceHead(p))
    BY IssuedHow
  <2>2. pending = {} /\ IsHead(p)
    <3>1. CASE ScanSubmit(p)
      BY <2>1, <3>1, OneLane DEF ScanSubmit, Candidate
    <3>2. CASE RescanSubmit(p)
      BY <2>1, <3>2, OneLane DEF RescanSubmit, Candidate, NeverAsleepOnWork
    <3>3. CASE ForceHead(p)
      BY <3>3 DEF ForceHead, NeverAsleepOnWork
    <3> QED BY <2>1, <3>1, <3>2, <3>3
  <2>3. GapElapsed(p)
    BY <2>1, <2>2, SerialGapIsOver
  <2>4. p \in forced' => ForceHead(p)
    BY <2>1 DEF ScanSubmit, RescanSubmit, TypeOK
  <2>5. ForceHead(p) => ~Unsettled(p)
    BY <2>1, <2>2, <2>3, GapIsCounted DEF ForceHead, PassedOver, IsHead
  <2> QED BY <2>3, <2>4, <2>5
<1>4. Inv /\ [Next]_vars => [Holds]_vars
  BY <1>3
<1> HIDE DEF Holds, Inv
<1>5. Spec => [][Holds]_vars
  BY <1>1, <1>2, <1>4, PTL DEF Spec
<1> QED BY <1>5 DEF Holds, SerialGapsHold
=============================================================================
