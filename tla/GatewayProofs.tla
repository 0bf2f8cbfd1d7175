---------------------------- MODULE GatewayProofs ----------------------------
(***************************************************************************)
(* Proofs about a gateway run, for every manifest, option, number of lanes *)
(* and engines, and any interleaving of the dispatcher, its pool threads   *)
(* and what the engines capture.                                           *)
(*                                                                         *)
(* The dispatcher's invariant is the one of DispatchProofs: a step of the  *)
(* run moves the dispatcher by a step of its own or not at all.  What is   *)
(* added is where the stages of a step stand in the list, which of them    *)
(* has run, and what that says of the engines.  Runs that reset the        *)
(* engines have one lane (Refused), and then nothing overtakes: this is    *)
(* what keeps a reset between the steps it separates.                      *)
(***************************************************************************)
EXTENDS GatewayReplay, DispatchProofs, DataLemmas

-----------------------------------------------------------------------------
(* The inductive invariant, in parts. *)

\* The stages that execute has ended for, collected or not.
Ended == Done \cup finished \cup batch

\* What a run is given never changes.
Given == run \in Runs /\ ~Refused(run) /\ stages = BuildStages(Plan, run.minGap, run.settle)

GatewayTypeOK ==
    /\ resets \in [DOMAIN Plan -> {"none", "took", "failed"}]
    /\ answers \in [Positions -> Seq({"answered", "refused"})]
    /\ outcome \in [Positions -> {"none", "value", "error", "skipped"}]
    /\ DOMAIN reply = Positions /\ DOMAIN cache = Engines
    /\ \A x \in indexing : x.at \in Engines

\* What a stage's outcome says: it has been issued, its step's reset is behind
\* it, and a donor stage has sent every prompt or recorded its failure.
OutcomesTell ==
    \A p \in Positions :
        /\ p \in Ended => outcome[p] # "none"
        /\ outcome[p] # "none" \/ answers[p] # <<>> => p \notin queue /\ ResetBehind(p)
        /\ stages[p].kind = "donors" =>
              /\ outcome[p] # "skipped"
              /\ outcome[p] = "value" => Len(answers[p]) = ItemOf(p).donors
              /\ outcome[p] = "error" => StepOf(p) \in donorFailed
        /\ outcome[p] # "value" => reply[p].found = {}
ResetsAsked == \A k \in DOMAIN Plan : resets[k] # "none" => run.resets

\* A recipient that has left the queue has waited its settle out, and then its
\* donors have ended and none of them is still being captured.
SettlesWaited ==
    \A p \in Positions :
        stages[p].kind = "recipient" /\ SeedsDonors(Plan[StepOf(p)]) =>
            /\ p \notin queue /\ run.settle => <<p, p - 1>> \in elapsed
            /\ <<p, p - 1>> \in elapsed =>
                  p - 1 \in Done /\ \A x \in indexing : x.step # StepOf(p)

\* An answered donor is captured, or being captured, until its recipient ends.
DonorsKept ==
    \A p \in Positions :
        stages[p].kind = "recipient" /\ SeedsDonors(Plan[StepOf(p)]) /\ outcome[p] = "none" =>
            \A n \in DOMAIN answers[p - 1] :
                answers[p - 1][n] = "answered" =>
                    \/ \E e \in Engines : Donor(ItemOf(p), n) \in cache[e]
                    \/ \E x \in indexing : x.step = StepOf(p) /\ x.entry = Donor(ItemOf(p), n)

\* From a reset that took to the recipient of a step without donors, the
\* engines hold nothing and nothing is on its way to them.
ResetsHold ==
    \A k \in DOMAIN Plan :
        ~SeedsDonors(Plan[k]) /\ resets[k] = "took" =>
            /\ outcome[RecipientStageOf(k)] = "none" =>
                  /\ RecipientStageOf(k) \in pending
                  /\ indexing = {} /\ \A e \in Engines : cache[e] = {}
            /\ reply[RecipientStageOf(k)].found = {}

\* run_stages returns only when it has issued and collected everything.
ReturnsLast == pc = "returned" => queue = {}

DispatchInv ==
    /\ TypeOK /\ NeverAsleepOnWork /\ DependenciesCompleted /\ WidthBound /\ StreamOrderAtWidth1
    /\ ReturnsLast
GatewayInv ==
    /\ DispatchInv /\ Given /\ GatewayTypeOK /\ OutcomesTell /\ ResetsAsked
    /\ DonorsEndFirst /\ SettlesWaited /\ DonorsKept /\ ResetsHold

-----------------------------------------------------------------------------
(* Where the stages of a step stand in the list.                            *)

\* The steps that seed donors are finitely many.
LEMMA SeedingFinite ==
    ASSUME NEW plan, NEW n \in Nat
    PROVE  LET D == {i \in 1 .. n : SeedsDonors(plan[i])}
           IN  IsFiniteSet(D) /\ Cardinality(D) \in Nat
<1> DEFINE D == {i \in 1 .. n : SeedsDonors(plan[i])}
<1>1. IsFiniteSet(1 .. n) /\ D \in SUBSET (1 .. n)
    BY FS_Interval
<1> QED BY <1>1, FS_Subset, FS_CardinalityType

\* The recipients of two steps stand apart, with room for the donors of the
\* later one.
LEMMA RecipientGrows ==
    ASSUME NEW plan, NEW j \in Nat, NEW k \in Nat, j < k
    PROVE  /\ RecipientAt(plan, j) \in Nat /\ RecipientAt(plan, k) \in Nat
           /\ RecipientAt(plan, j) < RecipientAt(plan, k)
           /\ SeedsDonors(plan[k]) => RecipientAt(plan, j) < RecipientAt(plan, k) - 1
<1> DEFINE D(n) == {i \in 1 .. n : SeedsDonors(plan[i])}
<1>1. ASSUME NEW n \in Nat
      PROVE  IsFiniteSet(D(n)) /\ Cardinality(D(n)) \in Nat
    BY SeedingFinite
<1>2. D(j) \subseteq D(k)
    OBVIOUS
<1>3. Cardinality(D(j)) <= Cardinality(D(k))
    BY <1>1, <1>2, FS_Subset
<1>4. ASSUME SeedsDonors(plan[k]) PROVE Cardinality(D(j)) + 1 <= Cardinality(D(k))
    <2>1. k \notin D(j) /\ D(j) \cup {k} \subseteq D(k)
        BY <1>2, <1>4
    <2>2. Cardinality(D(j) \cup {k}) = Cardinality(D(j)) + 1
        BY <1>1, <2>1, FS_AddElement
    <2> QED BY <1>1, <2>1, <2>2, FS_Subset
<1>5. /\ RecipientAt(plan, j) = j + Cardinality(D(j))
      /\ RecipientAt(plan, k) = k + Cardinality(D(k))
    BY DEF RecipientAt
<1> HIDE DEF D
<1> QED BY <1>1, <1>3, <1>4, <1>5

\* From one step to the next there are one stage or two.
LEMMA RecipientNext ==
    ASSUME NEW plan, NEW k \in Nat
    PROVE  /\ RecipientAt(plan, 0) = 0 /\ RecipientAt(plan, k) \in Nat
           /\ RecipientAt(plan, k + 1) =
                 RecipientAt(plan, k) + (IF SeedsDonors(plan[k + 1]) THEN 2 ELSE 1)
<1> DEFINE D(n) == {i \in 1 .. n : SeedsDonors(plan[i])}
<1>1. IsFiniteSet(D(k)) /\ Cardinality(D(k)) \in Nat
    BY SeedingFinite
<1>2. D(k + 1) = IF SeedsDonors(plan[k + 1]) THEN D(k) \cup {k + 1} ELSE D(k)
    <2>1. 1 .. (k + 1) = 1 .. k \cup {k + 1}
        OBVIOUS
    <2> QED BY <2>1
<1>3. k + 1 \notin D(k)
    OBVIOUS
<1> HIDE DEF D
<1>4. Cardinality(D(k + 1)) = Cardinality(D(k)) + (IF SeedsDonors(plan[k + 1]) THEN 1 ELSE 0)
    <2>1. Cardinality(D(k) \cup {k + 1}) = Cardinality(D(k)) + 1
        BY <1>1, <1>3, FS_AddElement
    <2> QED BY <1>1, <1>2, <2>1
<1>5. D(0) = {} /\ Cardinality({}) = 0
    BY FS_EmptySet DEF D
<1>6. /\ RecipientAt(plan, 0) = 0 + Cardinality(D(0))
      /\ RecipientAt(plan, k) = k + Cardinality(D(k))
      /\ RecipientAt(plan, k + 1) = k + 1 + Cardinality(D(k + 1))
    BY DEF RecipientAt, D
<1> QED BY <1>1, <1>4, <1>5, <1>6

\* The places of a step, and the stage at each.
Slots(plan, k) == IF SeedsDonors(plan[k]) THEN {RecipientAt(plan, k) - 1, RecipientAt(plan, k)}
                                          ELSE {RecipientAt(plan, k)}
StageAt(plan, k, p, minGap, settle) ==
    IF p = RecipientAt(plan, k) THEN RecipientStage(plan, k, minGap, settle) ELSE DonorStage(plan, k)

\* Every place of the list belongs to exactly one step, and every place of a
\* step is one of the list.
LEMMA SlotsTile ==
    ASSUME NEW plan, Len(plan) \in Nat, DOMAIN plan = 1 .. Len(plan)
    PROVE  /\ \A p \in 1 .. RecipientAt(plan, Len(plan)) : \E k \in DOMAIN plan : p \in Slots(plan, k)
           /\ \A k \in DOMAIN plan : Slots(plan, k) \subseteq 1 .. RecipientAt(plan, Len(plan))
           /\ \A j, k \in DOMAIN plan : j # k => Slots(plan, j) \cap Slots(plan, k) = {}
<1>1. ASSUME NEW p \in 1 .. RecipientAt(plan, Len(plan))
      PROVE  \E k \in DOMAIN plan : p \in Slots(plan, k)
    <2> DEFINE reach == {k \in Nat : p <= RecipientAt(plan, k)}
    <2>1. PICK k \in reach : \A m \in reach : k <= m
        <3>1. Len(plan) \in reach
            BY RecipientNext
        <3> QED BY <3>1, Least
    <2>2. k <= Len(plan)
        BY <2>1, RecipientNext
    <2>3. k # 0
        BY <2>1, RecipientNext
    <2> DEFINE j == k - 1
    <2>4. j \in Nat /\ k = j + 1 /\ j \notin reach
        BY <2>1, <2>3
    <2> HIDE DEF j
    <2>5. /\ RecipientAt(plan, j) < p /\ RecipientAt(plan, j) \in Nat
          /\ p <= RecipientAt(plan, k)
          /\ RecipientAt(plan, k) = RecipientAt(plan, j) + (IF SeedsDonors(plan[k]) THEN 2 ELSE 1)
        <3>1. p <= RecipientAt(plan, k) /\ ~(p <= RecipientAt(plan, j)) /\ p \in Nat
            BY <2>1, <2>4, RecipientNext
        <3>2. /\ RecipientAt(plan, j) \in Nat
              /\ RecipientAt(plan, k) = RecipientAt(plan, j) + (IF SeedsDonors(plan[k]) THEN 2 ELSE 1)
            BY <2>4, RecipientNext
        <3> QED BY <3>1, <3>2
    <2>6. p \in Slots(plan, k)
        BY <2>5 DEF Slots
    <2> QED BY <2>2, <2>3, <2>6
<1>2. ASSUME NEW k \in DOMAIN plan
      PROVE  Slots(plan, k) \subseteq 1 .. RecipientAt(plan, Len(plan))
    <2>1. /\ RecipientAt(plan, k) \in Nat /\ RecipientAt(plan, Len(plan)) \in Nat
          /\ RecipientAt(plan, k) <= RecipientAt(plan, Len(plan))
        <3>1. CASE k < Len(plan)
            BY <3>1, RecipientGrows
        <3>2. CASE k = Len(plan)
            BY <3>2, RecipientNext
        <3> QED BY <3>1, <3>2
    <2>2. 0 < RecipientAt(plan, k) /\ (SeedsDonors(plan[k]) => 0 < RecipientAt(plan, k) - 1)
        <3>1. 0 < k /\ RecipientAt(plan, 0) = 0
            BY RecipientNext
        <3> QED BY <3>1, RecipientGrows
    <2> QED BY <2>1, <2>2 DEF Slots
<1>3. ASSUME NEW j \in DOMAIN plan, NEW k \in DOMAIN plan, j < k
      PROVE  Slots(plan, j) \cap Slots(plan, k) = {}
    <2>1. /\ RecipientAt(plan, j) \in Nat /\ RecipientAt(plan, k) \in Nat
          /\ RecipientAt(plan, j) < RecipientAt(plan, k)
          /\ SeedsDonors(plan[k]) => RecipientAt(plan, j) < RecipientAt(plan, k) - 1
        BY <1>3, RecipientGrows
    <2> QED BY <2>1 DEF Slots
<1>4. \A j, k \in DOMAIN plan : j # k => j < k \/ k < j
    OBVIOUS
<1> QED BY <1>1, <1>2, <1>3, <1>4

\* What build_stages puts at each place.
LEMMA StageLayout ==
    ASSUME NEW plan, Len(plan) \in Nat, DOMAIN plan = 1 .. Len(plan), NEW minGap, NEW settle
    PROVE  LET list == BuildStages(plan, minGap, settle)
           IN  /\ DOMAIN list = 1 .. RecipientAt(plan, Len(plan))
               /\ \A p \in DOMAIN list : \E k \in DOMAIN plan : p \in Slots(plan, k)
               /\ \A k \in DOMAIN plan : \A p \in Slots(plan, k) :
                     p \in DOMAIN list /\ list[p] = StageAt(plan, k, p, minGap, settle)
<1> DEFINE list == BuildStages(plan, minGap, settle)
           places == 1 .. RecipientAt(plan, Len(plan))
           At(p) == CHOOSE k \in DOMAIN plan : p \in Slots(plan, k)
<1>1. list = [p \in places |-> StageAt(plan, At(p), p, minGap, settle)]
    BY DEF BuildStages, Slots, StageAt
<1>2. ASSUME NEW k \in DOMAIN plan, NEW p \in Slots(plan, k)
      PROVE  p \in places /\ At(p) = k
    <2>1. At(p) \in DOMAIN plan /\ p \in Slots(plan, At(p))
        BY <1>2
    <2> QED BY <1>2, <2>1, SlotsTile
<1> HIDE DEF At, list
<1>3. \A k \in DOMAIN plan : \A p \in Slots(plan, k) :
          p \in DOMAIN list /\ list[p] = StageAt(plan, k, p, minGap, settle)
    BY <1>1, <1>2
<1> QED BY <1>1, <1>3, SlotsTile DEF list


\* A list numbered from 1 to n is n long.
LEMMA LenOfList ==
    ASSUME NEW f, NEW n \in Nat, DOMAIN f = 1 .. n
    PROVE  Len(f) = n
OBVIOUS

\* The plan is a sequence of steps whose donors can be counted, and a paired
\* one has cold steps without donors at the odd places.
LEMMA PlanShape ==
    ASSUME Given
    PROVE  /\ Len(Plan) \in Nat /\ DOMAIN Plan = 1 .. Len(Plan)
           /\ \A k \in DOMAIN Plan : Plan[k].item.donors \in Nat
           /\ \A k \in DOMAIN Plan :
                 run.mode = "paired" /\ k % 2 = 1 => Plan[k].arm = "cold" /\ ~SeedsDonors(Plan[k])
           /\ run.settle \in BOOLEAN /\ run.resets \in BOOLEAN
           /\ run.mode = "paired" => run.resets
           /\ run.resets => Width = 1
<1>1. /\ run \in Runs /\ ~Refused(run)
      /\ Len(run.items) \in Nat /\ DOMAIN run.items = 1 .. Len(run.items)
      /\ \A i \in DOMAIN run.items : run.items[i].donors \in Nat
      /\ run.settle \in BOOLEAN /\ run.resets \in BOOLEAN
    BY GatewayAssumption DEF Given
<1> DEFINE Shape ==
        /\ Len(Plan) \in Nat /\ DOMAIN Plan = 1 .. Len(Plan)
        /\ \A k \in DOMAIN Plan : Plan[k].item.donors \in Nat
        /\ \A k \in DOMAIN Plan :
              run.mode = "paired" /\ k % 2 = 1 => Plan[k].arm = "cold" /\ ~SeedsDonors(Plan[k])
<1>2. ASSUME run.mode = "paired" PROVE Shape
    <2> DEFINE f == [k \in 1 .. 2 * Len(run.items) |->
                        IF k % 2 = 1 THEN Step(run.items[(k + 1) \div 2], "cold", FALSE)
                                     ELSE Step(run.items[k \div 2], "warm", TRUE)]
               m == 2 * Len(run.items)
    <2>1. Plan = f /\ m \in Nat
        BY <1>1, <1>2 DEF Plan, ReplayPlan
    <2>2. DOMAIN f = 1 .. m
        OBVIOUS
    <2>3. Len(f) = m
        BY <2>1, <2>2, LenOfList
    <2>4. ASSUME NEW k \in 1 .. m
          PROVE  f[k].item.donors \in Nat /\ (k % 2 = 1 => f[k].arm = "cold" /\ ~f[k].seed)
        <3>1. k % 2 = 1 => (k + 1) \div 2 \in DOMAIN run.items
            BY <1>1, <2>4
        <3>2. k % 2 # 1 => k \div 2 \in DOMAIN run.items
            BY <1>1, <2>4
        <3> QED BY <1>1, <3>1, <3>2 DEF Step
    <2> HIDE DEF f
    <2> QED BY <1>1, <2>1, <2>2, <2>3, <2>4 DEF SeedsDonors
<1>3. ASSUME run.mode # "paired" PROVE Shape
    <2> DEFINE f == [k \in DOMAIN run.items |-> Step(run.items[k], run.mode, TRUE)]
               m == Len(run.items)
    <2>1. Plan = f
        BY <1>3 DEF Plan, ReplayPlan
    <2>2. DOMAIN f = 1 .. m
        BY <1>1
    <2>3. Len(f) = m
        BY <1>1, <2>2, LenOfList
    <2>4. \A k \in 1 .. m : f[k].item.donors \in Nat
        BY <1>1 DEF Step
    <2> HIDE DEF f
    <2> QED BY <1>1, <1>3, <2>1, <2>2, <2>3, <2>4
<1>4. run.mode = "paired" => run.resets
    BY <1>1 DEF Refused
<1>5. run.resets => Width = 1
    BY <1>1, DispatchAssumption DEF Refused
<1> QED BY <1>1, <1>2, <1>3, <1>4, <1>5

\* A step's recipient is the last of its stages; its donors, if it has any,
\* stand right before it, and the settle is owed on them and on nothing else.
LEMMA StageFacts ==
    ASSUME Given, TypeOK
    PROVE  /\ \A p \in Positions :
                 /\ p \in Nat /\ StepOf(p) \in DOMAIN Plan
                 /\ stages[p].kind \in {"donors", "recipient"}
                 /\ stages[p].kind = "recipient" => p = RecipientStageOf(StepOf(p))
                 /\ stages[p].kind = "donors" =>
                       SeedsDonors(Plan[StepOf(p)]) /\ p = RecipientStageOf(StepOf(p)) - 1
           /\ \A k \in DOMAIN Plan :
                 /\ RecipientStageOf(k) \in Positions
                 /\ StepOf(RecipientStageOf(k)) = k
                 /\ stages[RecipientStageOf(k)].kind = "recipient"
                 /\ SeedsDonors(Plan[k]) =>
                       /\ RecipientStageOf(k) - 1 \in Positions
                       /\ StepOf(RecipientStageOf(k) - 1) = k
                       /\ stages[RecipientStageOf(k) - 1].kind = "donors"
                       /\ \E d \in stages[RecipientStageOf(k)].deps :
                             d.on = RecipientStageOf(k) - 1 /\ d.settle = run.settle
           /\ \A p \in Positions : \A d \in stages[p].deps :
                 d.settle => /\ stages[p].kind = "recipient" /\ SeedsDonors(Plan[StepOf(p)])
                             /\ d.on = p - 1
<1> DEFINE R(k) == RecipientStageOf(k)
           at(k, p) == StageAt(Plan, k, p, run.minGap, run.settle)
<1>1. Len(Plan) \in Nat /\ DOMAIN Plan = 1 .. Len(Plan)
    BY PlanShape
<1>2. /\ DOMAIN stages = 1 .. RecipientAt(Plan, Len(Plan))
      /\ \A p \in Positions : \E k \in DOMAIN Plan : p \in Slots(Plan, k)
      /\ \A k \in DOMAIN Plan : \A p \in Slots(Plan, k) : p \in Positions /\ stages[p] = at(k, p)
    BY <1>1, StageLayout DEF Given, Positions
<1>3. \A k \in DOMAIN Plan : R(k) \in Nat
    BY <1>1, RecipientNext DEF RecipientStageOf
<1>4. ASSUME NEW k \in DOMAIN Plan, NEW p \in Slots(Plan, k)
      PROVE  /\ p \in {R(k) - 1, R(k)} /\ stages[p].step = k
             /\ stages[p].kind = IF p = R(k) THEN "recipient" ELSE "donors"
             /\ stages[p].deps = IF p = R(k) THEN DependsOn(Plan, k, run.minGap, run.settle) ELSE {}
             /\ p # R(k) => SeedsDonors(Plan[k]) /\ p = R(k) - 1
    <2>1. stages[p] = at(k, p)
        BY <1>2
    <2> QED BY <2>1, <1>3 DEF StageAt, RecipientStage, DonorStage, RecipientStageOf, Slots
<1>5. ASSUME NEW k \in DOMAIN Plan
      PROVE  R(k) \in Slots(Plan, k) /\ (SeedsDonors(Plan[k]) => R(k) - 1 \in Slots(Plan, k))
    BY DEF Slots, RecipientStageOf
<1>6. ASSUME NEW k \in DOMAIN Plan, SeedsDonors(Plan[k])
      PROVE  \E d \in DependsOn(Plan, k, run.minGap, run.settle) :
                d.on = R(k) - 1 /\ d.settle = run.settle
    <2> DEFINE own == [on |-> R(k) - 1, gap |-> 0, settle |-> run.settle]
    <2>1. own \in DependsOn(Plan, k, run.minGap, run.settle)
        BY <1>6 DEF DependsOn, RecipientStageOf
    <2>2. own.on = R(k) - 1 /\ own.settle = run.settle
        OBVIOUS
    <2> QED BY <2>1, <2>2
<1>7. ASSUME NEW k \in DOMAIN Plan, NEW d \in DependsOn(Plan, k, run.minGap, run.settle), d.settle
      PROVE  SeedsDonors(Plan[k]) /\ d.on = R(k) - 1
    BY <1>7 DEF DependsOn, RecipientStageOf
<1> HIDE DEF R, at
<1>8. ASSUME NEW p \in Positions
      PROVE  /\ p \in Nat /\ StepOf(p) \in DOMAIN Plan
             /\ stages[p].kind \in {"donors", "recipient"}
             /\ stages[p].kind = "recipient" => p = R(StepOf(p))
             /\ stages[p].kind = "donors" => SeedsDonors(Plan[StepOf(p)]) /\ p = R(StepOf(p)) - 1
             /\ \A d \in stages[p].deps :
                   d.settle => /\ stages[p].kind = "recipient" /\ SeedsDonors(Plan[StepOf(p)])
                               /\ d.on = p - 1
    <2>1. PICK k \in DOMAIN Plan : p \in Slots(Plan, k)
        BY <1>2
    <2>2. p \in Nat
        BY DEF TypeOK, Positions
    <2> QED BY <1>4, <1>7, <2>1, <2>2 DEF StepOf
<1>9. ASSUME NEW k \in DOMAIN Plan
      PROVE  /\ R(k) \in Positions /\ StepOf(R(k)) = k /\ stages[R(k)].kind = "recipient"
             /\ SeedsDonors(Plan[k]) =>
                   /\ R(k) - 1 \in Positions /\ StepOf(R(k) - 1) = k
                   /\ stages[R(k) - 1].kind = "donors"
                   /\ \E d \in stages[R(k)].deps : d.on = R(k) - 1 /\ d.settle = run.settle
    <2>1. R(k) - 1 # R(k)
        BY <1>3
    <2> QED BY <1>2, <1>4, <1>5, <1>6, <2>1 DEF StepOf
<1> QED BY <1>8, <1>9 DEF R


-----------------------------------------------------------------------------
(* The steps of a run: one of the dispatcher, a stage that ends, a settle   *)
(* that elapses, a step of execute, or a donor that is captured.            *)

EndsStage(p) == outcome[p] # "none" /\ Complete(p) /\ UNCHANGED gateway
Settles(p) == (\A x \in indexing : x.step # StepOf(p)) /\ SettleElapses(p) /\ UNCHANGED gateway

\* Every step of the run is one of the dispatcher's or leaves it alone.
LEMMA GatewaySteps == [GatewayNext]_<<vars, gateway>> => [Next]_vars
<1> SUFFICES ASSUME GatewayNext, ~UNCHANGED vars PROVE Next
    OBVIOUS
<1> QED BY Zenon DEF GatewayNext, Next

\* What a step of the dispatcher does to the stages: it ends none, it collects
\* ended ones, and it issues only stages whose settle has been waited out.
LEMMA DispatcherMoves ==
    ASSUME TypeOK, Dispatcher
    PROVE  /\ stages' = stages /\ elapsed' = elapsed
           /\ Ended' \subseteq Ended /\ queue' \subseteq queue
           /\ Done \subseteq Done'
           /\ \A p \in queue \ queue' : ~SettleOwed(p)
           /\ \A p \in pending \ pending' : p \in Ended
<1> USE DEF Ended
<1>1. ASSUME NEW p \in Positions, Submit(p), ~SettleOwed(p)
      PROVE  /\ stages' = stages /\ elapsed' = elapsed /\ Ended' \subseteq Ended /\ Done' = Done
             /\ queue' = queue \ {p} /\ pending' = pending \cup {p}
    BY <1>1 DEF Submit, progress, Done, Positions
<1>2. ASSUME NEW p \in Positions, ScanSubmit(p) \/ RescanSubmit(p) \/ ForceHead(p)
      PROVE  Submit(p) /\ ~SettleOwed(p)
    BY <1>2 DEF ScanSubmit, RescanSubmit, ForceHead, Ready
<1>3. ASSUME NEW p \in Positions, Collect(p)
      PROVE  /\ stages' = stages /\ elapsed' = elapsed /\ queue' = queue
             /\ Done' = Done \cup {p} /\ pending' = pending \ {p} /\ p \in batch
             /\ finished' = finished /\ batch' = batch \ {p}
    BY <1>3, DoneGrows DEF Collect
<1>4. CASE UNCHANGED <<stages, elapsed, queue, pending, progress, finished, batch>>
    BY <1>4 DEF progress, Done, Positions
<1>5. CASE WaitReturns
    BY <1>5 DEF WaitReturns, progress, Done, Positions, TypeOK
<1>6. ASSUME NEW p \in Positions,
             ScanSkip(p) \/ RescanSkip(p) \/ SleepSettle(p) \/ WakeFromSleep(p)
      PROVE  UNCHANGED <<stages, elapsed, queue, pending, progress, finished, batch>>
    BY <1>6 DEF ScanSkip, RescanSkip, SleepSettle, WakeFromSleep, lists, progress
<1>7. ASSUME ScanEnd \/ RescanEnd \/ SetTimeout \/ WaitTimesOut
      PROVE  UNCHANGED <<stages, elapsed, queue, pending, progress, finished, batch>>
    BY <1>7 DEF ScanEnd, RescanEnd, SetTimeout, WaitTimesOut, lists, progress
<1>8. CASE \E p \in Positions : ScanSubmit(p) \/ RescanSubmit(p) \/ ForceHead(p)
    <2>1. PICK p \in Positions : Submit(p) /\ ~SettleOwed(p)
        BY <1>2, <1>8
    <2>2. UNCHANGED <<finished, batch>>
        BY <2>1 DEF Submit
    <2> QED BY <1>1, <2>1, <2>2
<1>9. CASE \E p \in Positions : Collect(p)
    BY <1>3, <1>9
<1> QED BY <1>4, <1>5, <1>6, <1>7, <1>8, <1>9 DEF Dispatcher

\* At one lane a stage that is executing is the only one in flight.
LEMMA AloneInFlight ==
    ASSUME TypeOK, WidthBound, Width = 1, NEW p \in pending
    PROVE  pending = {p}
<1>1. IsFiniteSet(pending) /\ Cardinality(pending) \in Nat /\ Cardinality(pending) <= 1
    BY PendingFinite DEF WidthBound
<1>2. IsFiniteSet(pending \ {p}) /\ Cardinality(pending \ {p}) = Cardinality(pending) - 1
    BY <1>1, FS_RemoveElement
<1>3. Cardinality(pending \ {p}) \in Nat
    BY <1>2, FS_CardinalityType
<1>4. Cardinality(pending \ {p}) = 0
    BY <1>1, <1>2, <1>3
<1>5. pending \ {p} = {}
    BY <1>2, <1>4, FS_EmptySet
<1> QED BY <1>5

\* A run starts with nothing sent and cold engines.
LEMMA InitGateway == GatewayInit => GatewayInv
<1> SUFFICES ASSUME GatewayInit PROVE GatewayInv
    OBVIOUS
<1>1. Init /\ Given
    BY DEF GatewayInit, Given
<1>2. pending = {} /\ queue = Positions /\ finished = {} /\ batch = {} /\ Done = {} /\ elapsed = {}
    BY <1>1 DEF Init, Done
<1>3. DispatchInv
    <2>1. TypeOK
        BY <1>1, InitTyped
    <2>2. Cardinality(pending) = 0
        BY <1>2, FS_EmptySet
    <2>3. pc = "returned" => queue = {}
        BY <1>1, <1>2 DEF Init, Positions
    <2> QED BY <1>2, <2>1, <2>2, <2>3, DispatchAssumption
            DEF DispatchInv, NeverAsleepOnWork, DependenciesCompleted, WidthBound, StreamOrderAtWidth1,
                ReturnsLast
<1>4. /\ resets = [k \in DOMAIN Plan |-> "none"]
      /\ answers = [p \in Positions |-> <<>>]
      /\ outcome = [p \in Positions |-> "none"]
      /\ reply = [p \in Positions |-> NoReply]
      /\ indexing = {} /\ cache = [e \in Engines |-> {}]
    BY DEF GatewayInit
<1>5. GatewayTypeOK
    BY <1>4 DEF GatewayTypeOK
<1>6. OutcomesTell
    BY <1>2, <1>4 DEF OutcomesTell, Ended, NoReply
<1>11. ResetsAsked
    BY <1>4 DEF ResetsAsked
<1>7. DonorsEndFirst
    BY <1>4 DEF DonorsEndFirst
<1>8. SettlesWaited
    BY <1>2 DEF SettlesWaited
<1>9. DonorsKept
    <2> SUFFICES ASSUME NEW p \in Positions, stages[p].kind = "recipient",
                        SeedsDonors(Plan[StepOf(p)])
                 PROVE  answers[p - 1] = <<>>
        BY DEF DonorsKept
    <2>1. p - 1 \in Positions
        BY <1>1, <1>3, StageFacts DEF DispatchInv
    <2> QED BY <1>4, <2>1
<1>10. ResetsHold
    BY <1>4 DEF ResetsHold
<1> QED BY <1>1, <1>3, <1>5, <1>6, <1>7, <1>8, <1>9, <1>10, <1>11 DEF GatewayInv


\* The run and its list of stages never change, and with them nothing that is
\* said of the steps.
LEMMA SameRun ==
    ASSUME run' = run, stages' = stages
    PROVE  /\ Positions' = Positions /\ Plan' = Plan
           /\ \A p : StepOf(p)' = StepOf(p) /\ ItemOf(p)' = ItemOf(p)
           /\ \A k : RecipientStageOf(k)' = RecipientStageOf(k)
           /\ Given' = Given
BY DEF Positions, Plan, StepOf, ItemOf, RecipientStageOf, Given, Refused

\* No action changes the run or its stage list.
LEMMA RunFixed ==
    ASSUME TypeOK, [GatewayNext]_<<vars, gateway>>
    PROVE  run' = run /\ stages' = stages
<1>1. CASE Dispatcher /\ UNCHANGED gateway
    BY <1>1, DispatcherMoves DEF gateway
<1>2. CASE \E p \in Positions : Complete(p) /\ UNCHANGED gateway
    BY <1>2 DEF Complete, gateway
<1>3. CASE \E p \in Positions : SettleElapses(p) /\ UNCHANGED gateway
    BY <1>3 DEF SettleElapses, gateway
<1>4. CASE \E p \in Positions : Execute(p) /\ UNCHANGED vars
    BY <1>4 DEF Execute, Reset, DonorAnswered, DonorRefused, DonorsSent, DonorsRaise,
                RecipientSkipped, RecipientSent, vars
<1>5. CASE \E x \in indexing : Indexed(x) /\ UNCHANGED vars
    BY <1>5 DEF Indexed, vars
<1>6. CASE (Returned /\ UNCHANGED gateway) \/ UNCHANGED <<vars, gateway>>
    BY <1>6 DEF Returned, vars, gateway
<1> QED BY <1>1, <1>2, <1>3, <1>4, <1>5, <1>6 DEF GatewayNext

\* A stage that execute is at is in flight, and has not ended.
LEMMA ExecutingIs ==
    ASSUME TypeOK, NEW p \in Positions, Executing(p)
    PROVE  p \in pending /\ p \notin queue /\ p \notin Ended /\ p \notin Done /\ outcome[p] = "none"
BY DEF TypeOK, Executing, Ended

\* One step of a stage's execution changes what is its own.
LEMMA ExecuteMoves ==
    ASSUME TypeOK, Given, GatewayTypeOK, NEW p \in Positions, Execute(p), stages' = stages
    PROVE  /\ Executing(p) /\ run' = run
           /\ GatewayTypeOK'
           /\ \A q \in Positions :
                 q # p => outcome'[q] = outcome[q] /\ answers'[q] = answers[q] /\ reply'[q] = reply[q]
           /\ \A k \in DOMAIN Plan : resets[k] # "none" => resets'[k] = resets[k]
           /\ Reset(p) \/ (ResetBehind(p) /\ resets' = resets)
<1> USE DEF GatewayTypeOK
<1>0. StepOf(p) \in DOMAIN Plan
    BY StageFacts
<1>1. CASE Reset(p)
    <2>1. PICK v \in {"took", "failed"} : resets' = [resets EXCEPT ![StepOf(p)] = v]
        BY <1>1 DEF Reset
    <2>2. resets[StepOf(p)] = "none"
        BY <1>1 DEF Reset, ResetBehind
    <2>3. UNCHANGED <<run, answers, outcome, reply>> /\ Executing(p) /\ DOMAIN cache' = Engines
        BY <1>1 DEF Reset
    <2>4. indexing' \subseteq indexing
        BY <1>1 DEF Reset
    <2> QED BY <1>0, <1>1, <2>1, <2>2, <2>3, <2>4, SameRun
<1>2. CASE DonorAnswered(p)
    <2>1. /\ answers' = [answers EXCEPT ![p] = Append(@, "answered")] /\ Executing(p) /\ ResetBehind(p)
          /\ UNCHANGED <<run, resets, outcome, reply, cache>>
          /\ \A x \in indexing' : x \in indexing \/ x.at \in Engines
        BY <1>2 DEF DonorAnswered, Sending
    <2>2. Append(answers[p], "answered") \in Seq({"answered", "refused"})
        OBVIOUS
    <2> QED BY <2>1, <2>2, SameRun
<1>3. CASE DonorRefused(p)
    <2>1. /\ answers' = [answers EXCEPT ![p] = Append(@, "refused")] /\ Executing(p) /\ ResetBehind(p)
          /\ UNCHANGED <<run, resets, outcome, reply, indexing, cache>>
        BY <1>3 DEF DonorRefused, Sending
    <2>2. Append(answers[p], "refused") \in Seq({"answered", "refused"})
        OBVIOUS
    <2> QED BY <2>1, <2>2, SameRun
<1>4. CASE DonorsSent(p) \/ DonorsRaise(p) \/ RecipientSkipped(p)
    <2>1. /\ \E v \in {"value", "error", "skipped"} : outcome' = [outcome EXCEPT ![p] = v]
          /\ Executing(p) /\ ResetBehind(p)
          /\ UNCHANGED <<run, resets, answers, reply, indexing, cache>>
        BY <1>4 DEF DonorsSent, DonorsRaise, RecipientSkipped, Sending
    <2> QED BY <2>1, SameRun
<1>5. CASE RecipientSent(p)
    <2>1. /\ Executing(p) /\ ResetBehind(p) /\ UNCHANGED <<run, resets, answers, indexing>>
          /\ \E v \in {"value", "error"} : outcome' = [outcome EXCEPT ![p] = v]
          /\ reply' = reply \/ \E w : reply' = [reply EXCEPT ![p] = w]
          /\ DOMAIN cache' = Engines
        BY <1>5, Zenon DEF RecipientSent, Sending
    <2> QED BY <2>1, SameRun
<1> QED BY <1>1, <1>2, <1>3, <1>4, <1>5 DEF Execute


-----------------------------------------------------------------------------
(* Each part of the invariant, over each kind of step.                      *)

\* A step of the dispatcher, as far as the stages are concerned.
Moves == \/ Dispatcher /\ UNCHANGED gateway
         \/ \E p \in Positions : EndsStage(p)
         \/ \E p \in Positions : Settles(p)
         \/ UNCHANGED <<vars, gateway>>

\* Every step of the run is of one of three kinds.
LEMMA KindsOfStep ==
    ASSUME [GatewayNext]_<<vars, gateway>>
    PROVE  \/ Moves
           \/ \E p \in Positions : Execute(p) /\ UNCHANGED vars
           \/ \E x \in indexing : Indexed(x) /\ UNCHANGED vars
<1>1. CASE Returned /\ UNCHANGED gateway
    BY <1>1 DEF Returned, Moves
<1> QED BY <1>1 DEF GatewayNext, Moves, EndsStage, Settles

\* A step of the dispatcher touches no engine and ends no execution: a stage it
\* lets go has ended, and one it issues owes no settle.
LEMMA MovesWhat ==
    ASSUME TypeOK, Moves
    PROVE  /\ UNCHANGED gateway /\ stages' = stages /\ queue' \subseteq queue
           /\ Done \subseteq Done' /\ elapsed \subseteq elapsed'
           /\ \A p \in Ended' : p \in Ended \/ outcome[p] # "none"
           /\ \A p \in queue \ queue' : ~SettleOwed(p)
           /\ \A p \in pending \ pending' : p \in Ended
           /\ \A s \in elapsed' : s \in elapsed \/ \E p \in Positions : Settles(p)
<1>1. CASE Dispatcher /\ UNCHANGED gateway
    BY <1>1, DispatcherMoves
<1>2. ASSUME NEW p \in Positions, EndsStage(p)
      PROVE  /\ UNCHANGED <<gateway, stages, queue, pending, elapsed>> /\ Done' = Done
             /\ \A q \in Ended' : q \in Ended \/ outcome[q] # "none"
    BY <1>2 DEF EndsStage, Complete, progress, Done, Positions, Ended
<1>3. ASSUME NEW p \in Positions, Settles(p)
      PROVE  /\ UNCHANGED <<gateway, stages, queue, pending>> /\ Done' = Done /\ Ended' = Ended
             /\ elapsed \subseteq elapsed'
    BY <1>3 DEF Settles, SettleElapses, lists, progress, Done, Positions, Ended
<1>4. CASE UNCHANGED <<vars, gateway>>
    BY <1>4 DEF vars, Done, Positions, Ended
<1> QED BY <1>1, <1>2, <1>3, <1>4 DEF Moves

\* A captured donor moves from what is being captured to the engine's cache.
LEMMA CapturedWhat ==
    ASSUME GatewayTypeOK, NEW x \in indexing, Indexed(x)
    PROVE  /\ UNCHANGED <<run, resets, answers, outcome, reply, donorFailed>>
           /\ indexing' = indexing \ {x} /\ x.at \in Engines
           /\ cache'[x.at] = cache[x.at] \cup {x.entry}
           /\ \A e \in Engines : cache[e] \subseteq cache'[e]
           /\ DOMAIN cache' = Engines
BY DEF GatewayTypeOK, Indexed

\* Every action keeps the types.
LEMMA NextGatewayTyped ==
    ASSUME DispatchInv, Given, GatewayTypeOK, [GatewayNext]_<<vars, gateway>>
    PROVE  GatewayTypeOK'
<1>1. TypeOK /\ run' = run /\ stages' = stages
    BY RunFixed DEF DispatchInv
<1>2. CASE Moves
    BY <1>1, <1>2, MovesWhat, SameRun DEF GatewayTypeOK, gateway
<1>3. CASE \E p \in Positions : Execute(p) /\ UNCHANGED vars
    BY <1>1, <1>3, ExecuteMoves
<1>4. CASE \E x \in indexing : Indexed(x) /\ UNCHANGED vars
    BY <1>1, <1>4, CapturedWhat, SameRun DEF GatewayTypeOK
<1> QED BY <1>2, <1>3, <1>4, KindsOfStep

\* A stage ends only once it was issued and its step's reset is behind it.
LEMMA NextOutcomes ==
    ASSUME DispatchInv, Given, GatewayTypeOK, OutcomesTell, [GatewayNext]_<<vars, gateway>>
    PROVE  OutcomesTell'
<1>1. TypeOK /\ run' = run /\ stages' = stages
    BY RunFixed DEF DispatchInv
<1>2. CASE Moves
    <2>1. UNCHANGED gateway /\ queue' \subseteq queue
          /\ \A p \in Ended' : p \in Ended \/ outcome[p] # "none"
        BY <1>1, <1>2, MovesWhat
    <2> QED BY <1>1, <2>1, SameRun DEF OutcomesTell, ResetBehind, gateway
<1>3. CASE \E p \in Positions : Execute(p) /\ UNCHANGED vars
    <2>1. PICK p \in Positions : Execute(p) /\ UNCHANGED vars
        BY <1>3
    <2>2. Ended' = Ended /\ queue' = queue
        BY <2>1 DEF vars, Ended, Done, Positions
    <2>3. p \notin queue /\ outcome[p] = "none" /\ p \notin Ended /\ StepOf(p) \in DOMAIN Plan
        BY <1>1, <2>1, ExecuteMoves, ExecutingIs, StageFacts
    <2>4. \A q \in Positions : ResetBehind(q) => ResetBehind(q)'
        BY <1>1, <2>1, ExecuteMoves, StageFacts, SameRun DEF ResetBehind
    <2>5. ASSUME NEW q \in Positions, q # p
          PROVE  outcome'[q] = outcome[q] /\ answers'[q] = answers[q] /\ reply'[q] = reply[q]
        BY <1>1, <2>1, <2>5, ExecuteMoves
    <2>6. donorFailed \subseteq donorFailed'
        BY <2>1 DEF Execute, Reset, DonorAnswered, DonorRefused, DonorsSent, DonorsRaise,
                    RecipientSkipped, RecipientSent
    <2>7. ASSUME NEW q \in Positions, q # p
          PROVE  /\ q \in Ended' => outcome'[q] # "none"
                 /\ outcome'[q] # "none" \/ answers'[q] # <<>> => q \notin queue' /\ ResetBehind(q)'
                 /\ stages'[q].kind = "donors" =>
                       /\ outcome'[q] # "skipped"
                       /\ outcome'[q] = "value" => Len(answers'[q]) = ItemOf(q)'.donors
                       /\ outcome'[q] = "error" => StepOf(q)' \in donorFailed'
                 /\ outcome'[q] # "value" => reply'[q].found = {}
        BY <1>1, <2>2, <2>4, <2>5, <2>6, <2>7, SameRun DEF OutcomesTell
    <2>8. /\ p \notin Ended' /\ p \notin queue'
          /\ outcome'[p] # "none" \/ answers'[p] # <<>> => ResetBehind(p)'
          /\ stages'[p].kind = "donors" =>
                /\ outcome'[p] # "skipped"
                /\ outcome'[p] = "value" => Len(answers'[p]) = ItemOf(p)'.donors
                /\ outcome'[p] = "error" => StepOf(p)' \in donorFailed'
          /\ outcome'[p] # "value" => reply'[p].found = {}
        <3>1. p \notin Ended' /\ p \notin queue'
            BY <2>2, <2>3
        <3>2. reply[p].found = {}
            BY <2>3 DEF OutcomesTell
        <3>3. CASE Reset(p)
            <4>1. outcome'[p] = "none" /\ answers' = answers /\ reply' = reply
                BY <2>3, <3>3 DEF Reset
            <4> QED BY <2>3, <2>4, <3>1, <3>2, <4>1 DEF OutcomesTell
        <3>4. ASSUME ~Reset(p) PROVE ResetBehind(p)'
            BY <1>1, <2>1, <2>4, <3>4, ExecuteMoves
        <3>5. CASE DonorAnswered(p) \/ DonorRefused(p)
            <4>1. UNCHANGED <<outcome, reply>> /\ ~Reset(p)
                BY <3>5 DEF DonorAnswered, DonorRefused, Sending, Reset
            <4> QED BY <2>3, <3>1, <3>2, <3>4, <4>1
        <3>6. CASE DonorsSent(p)
            <4>1. /\ outcome'[p] = "value" /\ answers' = answers /\ Len(answers[p]) = ItemOf(p).donors
                  /\ ~Reset(p)
                BY <3>6 DEF DonorsSent, Sending, Reset, GatewayTypeOK
            <4> QED BY <1>1, <3>1, <3>4, <4>1, SameRun
        <3>7. CASE DonorsRaise(p)
            <4>1. /\ outcome'[p] = "error" /\ reply' = reply /\ StepOf(p) \in donorFailed' /\ ~Reset(p)
                BY <3>7 DEF DonorsRaise, Sending, Reset, GatewayTypeOK
            <4> QED BY <1>1, <3>1, <3>2, <3>4, <4>1, SameRun
        <3>8. CASE RecipientSkipped(p)
            <4>1. /\ outcome'[p] = "skipped" /\ reply' = reply /\ stages[p].kind = "recipient" /\ ~Reset(p)
                BY <3>8 DEF RecipientSkipped, Sending, Reset, GatewayTypeOK
            <4> QED BY <1>1, <3>1, <3>2, <3>4, <4>1
        <3>9. CASE RecipientSent(p)
            <4>1. /\ stages[p].kind = "recipient" /\ ~Reset(p)
                  /\ outcome'[p] # "value" => reply' = reply
                BY <3>9 DEF RecipientSent, Sending, Reset, GatewayTypeOK
            <4> QED BY <1>1, <3>1, <3>2, <3>4, <4>1
        <3> QED BY <2>1, <3>3, <3>5, <3>6, <3>7, <3>8, <3>9 DEF Execute
    <2> QED BY <1>1, <2>7, <2>8, SameRun DEF OutcomesTell
<1>4. CASE \E x \in indexing : Indexed(x) /\ UNCHANGED vars
    <2>1. UNCHANGED <<run, resets, answers, outcome, reply, donorFailed, stages, queue>> /\ Ended' = Ended
        BY <1>4, CapturedWhat DEF vars, Ended, Done, Positions
    <2> QED BY <1>1, <2>1, SameRun DEF OutcomesTell, ResetBehind
<1> QED BY <1>2, <1>3, <1>4, KindsOfStep

\* The dispatcher returns from an empty queue, and nothing fills it again.
LEMMA NextReturns == TypeOK /\ ReturnsLast /\ [Next]_vars => ReturnsLast'
<1> SUFFICES ASSUME TypeOK, ReturnsLast, [Next]_vars PROVE ReturnsLast'
    OBVIOUS
<1> USE DEF ReturnsLast
<1>1. CASE Dispatcher
    BY <1>1 DEF Dispatcher, ScanSubmit, ScanSkip, RescanSubmit, RescanSkip, SleepSettle,
                WakeFromSleep, ForceHead, Collect, ScanEnd, RescanEnd, SetTimeout, WaitReturns,
                WaitTimesOut, lists
<1>2. ASSUME NEW p \in Positions, Complete(p) \/ SettleElapses(p) PROVE ReturnsLast'
    BY <1>2 DEF Complete, SettleElapses, lists
<1>3. CASE UNCHANGED vars
    BY <1>3 DEF vars
<1> QED BY <1>1, <1>2, <1>3 DEF Next, Returned

\* The dispatcher's own invariant survives every step of the run.
LEMMA NextDispatch ==
    ASSUME DispatchInv, [GatewayNext]_<<vars, gateway>>
    PROVE  DispatchInv'
<1>1. [Next]_vars
    BY GatewaySteps
<1> QED BY <1>1, NextTyped, NextDrained, NextOrdered, NextBounded, NextStreamOrder, NextReturns
        DEF DispatchInv, IInv

\* Only a run that asks for resets makes one.
LEMMA NextAsked ==
    ASSUME DispatchInv, Given, GatewayTypeOK, ResetsAsked, [GatewayNext]_<<vars, gateway>>
    PROVE  ResetsAsked'
<1>1. TypeOK /\ run' = run /\ stages' = stages
    BY RunFixed DEF DispatchInv
<1>2. CASE Moves
    BY <1>1, <1>2, MovesWhat, SameRun DEF ResetsAsked, gateway
<1>3. CASE \E p \in Positions : Execute(p) /\ UNCHANGED vars
    <2>1. PICK p \in Positions : Execute(p)
        BY <1>3
    <2>2. Reset(p) \/ resets' = resets
        BY <1>1, <2>1, ExecuteMoves
    <2>3. Reset(p) => run.resets
        BY DEF Reset, ResetBehind
    <2> QED BY <1>1, <2>2, <2>3, SameRun DEF ResetsAsked
<1>4. CASE \E x \in indexing : Indexed(x) /\ UNCHANGED vars
    BY <1>1, <1>4, CapturedWhat, SameRun DEF ResetsAsked
<1> QED BY <1>2, <1>3, <1>4, KindsOfStep

\* A recipient that has left the queue has its donors behind it, collected.
LEMMA DonorsCollected ==
    ASSUME DispatchInv, Given, OutcomesTell,
           NEW p \in Positions, stages[p].kind = "recipient", SeedsDonors(Plan[StepOf(p)])
    PROVE  /\ p - 1 \in Positions /\ StepOf(p - 1) = StepOf(p) /\ stages[p - 1].kind = "donors"
           /\ p \notin queue => p - 1 \in Done
           /\ p - 1 \in Done => outcome[p - 1] # "none"
<1>1. /\ p = RecipientStageOf(StepOf(p)) /\ StepOf(p) \in DOMAIN Plan
      /\ p - 1 \in Positions /\ StepOf(p - 1) = StepOf(p) /\ stages[p - 1].kind = "donors"
      /\ \E d \in stages[p].deps : d.on = p - 1
    BY StageFacts DEF DispatchInv
<1>2. p \notin queue => p \in pending \cup Done
    BY DEF DispatchInv, TypeOK
<1>3. p \notin queue => p - 1 \in Done
    BY <1>1, <1>2 DEF DispatchInv, DependenciesCompleted
<1>4. p - 1 \in Done => outcome[p - 1] # "none"
    BY <1>1 DEF OutcomesTell, Ended
<1> QED BY <1>1, <1>3, <1>4

\* A recipient is sent behind donors that have ended, and ended well.
LEMMA NextDonorsFirst ==
    ASSUME DispatchInv, Given, GatewayTypeOK, OutcomesTell, DonorsEndFirst,
           [GatewayNext]_<<vars, gateway>>
    PROVE  DonorsEndFirst'
<1>1. TypeOK /\ run' = run /\ stages' = stages
    BY RunFixed DEF DispatchInv
<1>2. CASE Moves
    BY <1>1, <1>2, MovesWhat, SameRun DEF DonorsEndFirst, gateway
<1>3. CASE \E p \in Positions : Execute(p) /\ UNCHANGED vars
    <2>1. PICK p \in Positions : Execute(p)
        BY <1>3
    <2>2. /\ outcome[p] = "none" /\ p \notin queue
          /\ \A q \in Positions : q # p => outcome'[q] = outcome[q] /\ answers'[q] = answers[q]
        BY <1>1, <2>1, ExecuteMoves, ExecutingIs
    <2> SUFFICES ASSUME NEW q \in Positions, stages[q].kind = "recipient",
                        outcome'[q] \in {"value", "error"}, SeedsDonors(Plan[StepOf(q)])
                 PROVE  outcome'[q - 1] = "value" /\ Len(answers'[q - 1]) = ItemOf(q).donors
        BY <1>1, SameRun DEF DonorsEndFirst
    <2>3. /\ q - 1 \in Positions /\ StepOf(q - 1) = StepOf(q) /\ stages[q - 1].kind = "donors"
          /\ q \notin queue => q - 1 \in Done
          /\ q - 1 \in Done => outcome[q - 1] # "none"
        BY DonorsCollected
    <2>4. CASE q # p
        <3>1. outcome[q - 1] = "value" /\ Len(answers[q - 1]) = ItemOf(q).donors
            BY <2>2, <2>4 DEF DonorsEndFirst
        <3> QED BY <2>2, <2>3, <3>1
    <2>5. CASE q = p
        <3>1. RecipientSent(p)
            BY <1>1, <2>1, <2>2, <2>5 DEF Execute, Reset, DonorAnswered, DonorRefused, DonorsSent,
                DonorsRaise, RecipientSkipped, Sending, GatewayTypeOK
        <3>2. StepOf(p) \notin donorFailed
            BY <3>1 DEF RecipientSent
        <3>3. outcome[q - 1] \notin {"none", "skipped", "error"}
            BY <2>2, <2>3, <2>5, <3>2 DEF OutcomesTell
        <3>4. outcome[q - 1] = "value"
            BY <2>3, <3>3 DEF GatewayTypeOK
        <3>5. Len(answers[q - 1]) = ItemOf(q).donors
            BY <2>3, <3>4 DEF OutcomesTell, ItemOf
        <3>6. q - 1 # p
            BY <2>2, <3>4
        <3> QED BY <2>2, <2>3, <3>4, <3>5, <3>6
    <2> QED BY <2>4, <2>5
<1>4. CASE \E x \in indexing : Indexed(x) /\ UNCHANGED vars
    BY <1>1, <1>4, CapturedWhat, SameRun DEF DonorsEndFirst
<1> QED BY <1>2, <1>3, <1>4, KindsOfStep

\* A step of execute adds to what is being captured only as a donor's answer,
\* for that donor's step.
LEMMA ExecuteCaptures ==
    ASSUME NEW p \in Positions, Execute(p)
    PROVE  \A x \in indexing' : x \in indexing \/ (stages[p].kind = "donors" /\ x.step = StepOf(p))
<1>1. CASE DonorAnswered(p)
    <2>1. PICK e \in Engines :
              indexing' = indexing \cup
                  {[at |-> e, step |-> StepOf(p), entry |-> Donor(ItemOf(p), Len(answers[p]) + 1)]}
        BY <1>1 DEF DonorAnswered
    <2>2. stages[p].kind = "donors"
        BY <1>1 DEF DonorAnswered, Sending
    <2> QED BY <2>1, <2>2
<1>2. CASE Reset(p)
    BY <1>2 DEF Reset
<1>3. CASE DonorRefused(p) \/ DonorsSent(p) \/ DonorsRaise(p) \/ RecipientSkipped(p) \/ RecipientSent(p)
    BY <1>3 DEF DonorRefused, DonorsSent, DonorsRaise, RecipientSkipped, RecipientSent
<1> QED BY <1>1, <1>2, <1>3 DEF Execute

\* A settle starts when the donors are collected, and ends when they are captured.
LEMMA NextSettles ==
    ASSUME DispatchInv, Given, GatewayTypeOK, OutcomesTell, SettlesWaited,
           [GatewayNext]_<<vars, gateway>>
    PROVE  SettlesWaited'
<1>1. TypeOK /\ run' = run /\ stages' = stages
    BY RunFixed DEF DispatchInv
<1> SUFFICES ASSUME NEW p \in Positions, stages[p].kind = "recipient", SeedsDonors(Plan[StepOf(p)])
             PROVE  /\ p \notin queue' /\ run.settle => <<p, p - 1>> \in elapsed'
                    /\ <<p, p - 1>> \in elapsed' =>
                          p - 1 \in Done' /\ \A x \in indexing' : x.step # StepOf(p)
    BY <1>1, SameRun DEF SettlesWaited
<1>2. /\ p \notin queue /\ run.settle => <<p, p - 1>> \in elapsed
      /\ <<p, p - 1>> \in elapsed => p - 1 \in Done /\ \A x \in indexing : x.step # StepOf(p)
    BY DEF SettlesWaited
<1>3. CASE Moves
    <2>1. /\ indexing' = indexing /\ Done \subseteq Done' /\ elapsed \subseteq elapsed'
          /\ p \in queue \ queue' => ~SettleOwed(p)
          /\ \A s \in elapsed' : s \in elapsed \/ \E r \in Positions : Settles(r)
        BY <1>1, <1>3, MovesWhat DEF gateway
    <2>2. ASSUME p \in queue \ queue', run.settle PROVE <<p, p - 1>> \in elapsed
        <3>1. PICK d \in stages[p].deps : d.on = p - 1 /\ d.settle = run.settle
            BY <1>1, StageFacts
        <3> QED BY <2>1, <2>2, <3>1 DEF SettleOwed
    <2>3. ASSUME NEW r \in Positions, Settles(r), <<p, p - 1>> \in elapsed', <<p, p - 1>> \notin elapsed
          PROVE  p - 1 \in Done /\ \A x \in indexing : x.step # StepOf(p)
        <3>1. PICK d \in stages[r].deps :
                  d.settle /\ rank[d.on] > 0 /\ elapsed' = elapsed \cup {<<r, d.on>>}
            BY <2>3 DEF Settles, SettleElapses
        <3>2. r = p /\ d.on = p - 1
            BY <2>3, <3>1
        <3>3. p - 1 \in Positions
            BY DonorsCollected
        <3> QED BY <2>3, <3>1, <3>2, <3>3 DEF Settles, Done
    <2> QED BY <1>2, <2>1, <2>2, <2>3
<1>4. CASE \E q \in Positions : Execute(q) /\ UNCHANGED vars
    <2>1. PICK q \in Positions : Execute(q) /\ UNCHANGED vars
        BY <1>4
    <2>2. queue' = queue /\ elapsed' = elapsed /\ Done' = Done
        BY <2>1 DEF vars, progress, Done, Positions
    <2>3. q \notin Done
        BY <1>1, <2>1, ExecuteMoves, ExecutingIs
    <2>4. ASSUME stages[q].kind = "donors", StepOf(q) = StepOf(p) PROVE q = p - 1
        BY <1>1, <2>4, StageFacts
    <2>5. \A x \in indexing' : x \in indexing \/ (stages[q].kind = "donors" /\ x.step = StepOf(q))
        BY <2>1, ExecuteCaptures
    <2> QED BY <1>2, <2>2, <2>3, <2>4, <2>5
<1>5. CASE \E x \in indexing : Indexed(x) /\ UNCHANGED vars
    <2>1. queue' = queue /\ elapsed' = elapsed /\ Done' = Done /\ indexing' \subseteq indexing
        BY <1>5, CapturedWhat DEF vars, Done, Positions
    <2> QED BY <1>2, <2>1
<1> QED BY <1>3, <1>4, <1>5, KindsOfStep

\* The step a reset is made for has no earlier step with an answered donor and
\* a recipient that is still to run: at one lane nothing overtakes.
LEMMA ResetComesBetween ==
    ASSUME DispatchInv, Given, OutcomesTell, NEW r \in Positions, Reset(r),
           NEW p \in Positions, stages[p].kind = "recipient", SeedsDonors(Plan[StepOf(p)]),
           outcome[p] = "none"
    PROVE  answers[p - 1] = <<>>
<1> SUFFICES ASSUME answers[p - 1] # <<>> PROVE FALSE
    OBVIOUS
<1>1. TypeOK /\ WidthBound /\ StreamOrderAtWidth1
    BY DEF DispatchInv
<1>2. run.resets /\ resets[StepOf(r)] = "none" /\ Executing(r)
    BY DEF Reset, ResetBehind
<1>3. Width = 1
    BY <1>2, PlanShape
<1>4. r \in pending /\ r \notin queue /\ pending = {r}
    BY <1>1, <1>2, <1>3, ExecutingIs, AloneInFlight
<1>5. p - 1 \in Positions /\ StepOf(p - 1) = StepOf(p)
    BY DonorsCollected
<1>6. p - 1 \notin queue /\ resets[StepOf(p)] # "none"
    BY <1>2, <1>5 DEF OutcomesTell, ResetBehind
<1>7. r # p /\ r # p - 1
    BY <1>2, <1>5, <1>6
<1>8. p - 1 \in Done
    BY <1>1, <1>4, <1>5, <1>6, <1>7 DEF TypeOK
<1>9. p - 1 < r /\ p \in Nat /\ r \in Nat
    BY <1>1, <1>3, <1>4, <1>8, StageFacts DEF StreamOrderAtWidth1
<1>10. p \notin queue
    <2>1. p \in queue => r < p
        BY <1>1, <1>3, <1>4 DEF StreamOrderAtWidth1
    <2> QED BY <1>7, <1>9, <2>1
<1>11. p \in Done
    BY <1>1, <1>4, <1>7, <1>10 DEF TypeOK
<1> QED BY <1>11 DEF OutcomesTell, Ended

\* Nothing empties an engine between a donor's answer and its recipient's end.
LEMMA NextKept ==
    ASSUME DispatchInv, Given, GatewayTypeOK, OutcomesTell, DonorsKept,
           [GatewayNext]_<<vars, gateway>>
    PROVE  DonorsKept'
<1>1. TypeOK /\ run' = run /\ stages' = stages
    BY RunFixed DEF DispatchInv
<1> SUFFICES ASSUME NEW p \in Positions, stages[p].kind = "recipient",
                    SeedsDonors(Plan[StepOf(p)]), outcome'[p] = "none",
                    NEW n \in DOMAIN answers'[p - 1], answers'[p - 1][n] = "answered"
             PROVE  \/ \E e \in Engines : Donor(ItemOf(p), n) \in cache'[e]
                    \/ \E x \in indexing' : x.step = StepOf(p) /\ x.entry = Donor(ItemOf(p), n)
    BY <1>1, SameRun DEF DonorsKept
<1> DEFINE d == Donor(ItemOf(p), n)
<1>2. p - 1 \in Positions /\ StepOf(p - 1) = StepOf(p)
    BY DonorsCollected
<1>3. ASSUME outcome[p] = "none", n \in DOMAIN answers[p - 1], answers[p - 1][n] = "answered"
      PROVE  \/ \E e \in Engines : d \in cache[e]
             \/ \E x \in indexing : x.step = StepOf(p) /\ x.entry = d
    BY <1>3 DEF DonorsKept
<1> HIDE DEF d
<1>4. CASE Moves
    <2>1. outcome' = outcome /\ answers' = answers /\ indexing' = indexing /\ cache' = cache
        BY <1>1, <1>4, MovesWhat DEF gateway
    <2> QED BY <1>3, <2>1 DEF d
<1>5. CASE \E x \in indexing : Indexed(x) /\ UNCHANGED vars
    <2>1. PICK x \in indexing : Indexed(x)
        BY <1>5
    <2>2. /\ outcome' = outcome /\ answers' = answers /\ indexing' = indexing \ {x}
          /\ x.at \in Engines /\ cache'[x.at] = cache[x.at] \cup {x.entry}
          /\ \A e \in Engines : cache[e] \subseteq cache'[e]
        BY <2>1, CapturedWhat
    <2> QED BY <1>3, <2>2 DEF d
<1>6. CASE \E r \in Positions : Execute(r) /\ UNCHANGED vars
    <2>1. PICK r \in Positions : Execute(r)
        BY <1>6
    <2>2. /\ Executing(r) /\ outcome[r] = "none"
          /\ \A q \in Positions : q # r => outcome'[q] = outcome[q] /\ answers'[q] = answers[q]
        BY <1>1, <2>1, ExecuteMoves DEF Executing
    <2>3. outcome[p] = "none"
        BY <2>2
    <2>4. CASE Reset(r)
        <3>1. answers[p - 1] = <<>> /\ answers' = answers
            BY <2>3, <2>4, ResetComesBetween DEF Reset
        <3> QED BY <3>1
    <2>5. CASE DonorAnswered(r)
        <3>1. PICK e \in Engines :
                  indexing' = indexing \cup
                      {[at |-> e, step |-> StepOf(r), entry |-> Donor(ItemOf(r), Len(answers[r]) + 1)]}
            BY <2>5 DEF DonorAnswered
        <3>2. cache' = cache /\ answers' = [answers EXCEPT ![r] = Append(@, "answered")]
            BY <2>5 DEF DonorAnswered
        <3>3. CASE n \in DOMAIN answers[p - 1] /\ answers[p - 1][n] = "answered"
            BY <1>3, <2>3, <3>1, <3>2, <3>3 DEF d
        <3>4. CASE ~(n \in DOMAIN answers[p - 1] /\ answers[p - 1][n] = "answered")
            <4>1. r = p - 1
                BY <1>2, <2>2, <3>4
            <4>2. answers[r] \in Seq({"answered", "refused"}) /\ answers'[r] = Append(answers[r], "answered")
                BY <1>2, <3>2, <4>1 DEF GatewayTypeOK
            <4>3. n = Len(answers[r]) + 1
                BY <3>4, <4>1, <4>2
            <4>4. StepOf(r) = StepOf(p) /\ ItemOf(r) = ItemOf(p)
                BY <1>2, <4>1 DEF ItemOf
            <4>5. [at |-> e, step |-> StepOf(r), entry |-> Donor(ItemOf(r), Len(answers[r]) + 1)]
                      \in indexing'
                BY <3>1
            <4> QED BY <4>3, <4>4, <4>5 DEF d
        <3> QED BY <3>3, <3>4
    <2>6. CASE DonorRefused(r)
        <3>1. cache' = cache /\ indexing' = indexing
              /\ answers' = [answers EXCEPT ![r] = Append(@, "refused")]
            BY <2>6 DEF DonorRefused
        <3>2. n \in DOMAIN answers[p - 1] /\ answers[p - 1][n] = "answered"
            <4>1. CASE r # p - 1
                BY <1>2, <2>2, <4>1
            <4>2. CASE r = p - 1
                <5>1. /\ answers[r] \in Seq({"answered", "refused"})
                      /\ answers'[r] = Append(answers[r], "refused")
                    BY <1>2, <3>1, <4>2 DEF GatewayTypeOK
                <5>2. n \in 1 .. Len(answers[r]) + 1
                    BY <4>2, <5>1
                <5>3. n # Len(answers[r]) + 1
                    BY <4>2, <5>1
                <5> QED BY <4>2, <5>1, <5>2, <5>3
            <4> QED BY <4>1, <4>2
        <3> QED BY <1>3, <2>3, <3>1, <3>2 DEF d
    <2>7. CASE DonorsSent(r) \/ DonorsRaise(r) \/ RecipientSkipped(r)
        <3>1. cache' = cache /\ indexing' = indexing /\ answers' = answers
            BY <2>7 DEF DonorsSent, DonorsRaise, RecipientSkipped
        <3> QED BY <1>3, <2>3, <3>1 DEF d
    <2>8. CASE RecipientSent(r)
        <3>1. indexing' = indexing /\ answers' = answers
            BY <2>8 DEF RecipientSent
        <3>2. PICK e \in Engines : cache' = [cache EXCEPT ![e] = @ \cup {Prompt(ItemOf(r))}]
            BY <2>8 DEF RecipientSent
        <3>3. \A f \in Engines : cache[f] \subseteq cache'[f]
            BY <3>2 DEF GatewayTypeOK
        <3> QED BY <1>3, <2>3, <3>1, <3>3 DEF d
    <2> QED BY <2>1, <2>4, <2>5, <2>6, <2>7, <2>8 DEF Execute
<1> QED BY <1>4, <1>5, <1>6, KindsOfStep

\* Nothing fills an engine between a reset and the recipient of a step that has
\* no donors.
LEMMA NextHeld ==
    ASSUME DispatchInv, Given, GatewayTypeOK, OutcomesTell, ResetsAsked, ResetsHold,
           [GatewayNext]_<<vars, gateway>>
    PROVE  ResetsHold'
<1>1. TypeOK /\ run' = run /\ stages' = stages
    BY RunFixed DEF DispatchInv
<1> SUFFICES ASSUME NEW k \in DOMAIN Plan, ~SeedsDonors(Plan[k]), resets'[k] = "took"
             PROVE  /\ outcome'[RecipientStageOf(k)] = "none" =>
                          /\ RecipientStageOf(k) \in pending'
                          /\ indexing' = {} /\ \A e \in Engines : cache'[e] = {}
                    /\ reply'[RecipientStageOf(k)].found = {}
    BY <1>1, SameRun DEF ResetsHold
<1> DEFINE q == RecipientStageOf(k)
<1>2. /\ q \in Positions /\ StepOf(q) = k /\ stages[q].kind = "recipient"
      /\ \A r \in Positions : StepOf(r) = k => r = q
    BY <1>1, StageFacts
<1>3. ASSUME resets[k] = "took"
      PROVE  /\ outcome[q] = "none" => q \in pending /\ indexing = {} /\ \A e \in Engines : cache[e] = {}
             /\ reply[q].found = {}
    BY <1>3 DEF ResetsHold
<1> HIDE DEF q
<1>4. CASE Moves
    <2>1. /\ resets' = resets /\ outcome' = outcome /\ reply' = reply
          /\ indexing' = indexing /\ cache' = cache
          /\ \A p \in pending \ pending' : p \in Ended
        BY <1>1, <1>4, MovesWhat DEF gateway
    <2>2. q \in Ended => outcome[q] # "none"
        BY <1>2 DEF OutcomesTell
    <2> QED BY <1>3, <2>1, <2>2 DEF q
<1>5. CASE \E x \in indexing : Indexed(x) /\ UNCHANGED vars
    <2>1. /\ resets' = resets /\ outcome' = outcome /\ reply' = reply /\ pending' = pending
          /\ indexing # {}
        BY <1>5, CapturedWhat DEF vars
    <2> QED BY <1>3, <2>1 DEF q
<1>6. CASE \E r \in Positions : Execute(r) /\ UNCHANGED vars
    <2>1. PICK r \in Positions : Execute(r) /\ UNCHANGED vars
        BY <1>6
    <2>2. /\ Executing(r) /\ outcome[r] = "none" /\ r \in pending /\ pending' = pending
          /\ Reset(r) \/ (ResetBehind(r) /\ resets' = resets)
          /\ \A p \in Positions : p # r => outcome'[p] = outcome[p] /\ reply'[p] = reply[p]
        BY <1>1, <2>1, ExecuteMoves, ExecutingIs DEF Executing, vars
    <2>3. CASE resets[k] = "took" /\ outcome[q] # "none"
        BY <1>2, <1>3, <2>2, <2>3 DEF q
    <2>4. CASE resets[k] = "took" /\ outcome[q] = "none"
        <3>1. q \in pending /\ indexing = {} /\ (\A e \in Engines : cache[e] = {}) /\ reply[q].found = {}
            BY <1>3, <2>4
        <3>2. Width = 1
            BY <2>4, PlanShape DEF ResetsAsked
        <3>3. r = q
            BY <1>1, <2>2, <3>1, <3>2, AloneInFlight DEF DispatchInv
        <3>4. RecipientSkipped(r) \/ RecipientSent(r)
            BY <1>2, <2>1, <2>4, <3>3 DEF Execute, Reset, ResetBehind, DonorAnswered, DonorRefused,
               DonorsSent, DonorsRaise, Sending
        <3>5. outcome'[q] # "none"
            BY <1>2, <3>3, <3>4 DEF RecipientSkipped, RecipientSent, GatewayTypeOK
        <3>6. CASE RecipientSkipped(r)
            BY <3>1, <3>5, <3>6 DEF RecipientSkipped, q
        <3>7. CASE RecipientSent(r)
            <4>1. PICK e \in Engines :
                      \/ \E reported \in BOOLEAN :
                            reply' = [reply EXCEPT ![r] =
                                         Answered(cache[e] \cap Entries(ItemOf(r)), reported)]
                      \/ reply' = [reply EXCEPT ![r] = ErrorReply]
                      \/ reply' = reply
                BY <3>7 DEF RecipientSent
            <4>2. \A reported : Answered(cache[e] \cap Entries(ItemOf(r)), reported).found = {}
                BY <3>1 DEF Answered
            <4>3. ErrorReply.found = {}
                BY DEF ErrorReply, NoReply
            <4>4. reply'[q].found = {}
                BY <1>2, <3>1, <3>3, <4>1, <4>2, <4>3 DEF GatewayTypeOK
            <4> QED BY <3>5, <4>4 DEF q
        <3> QED BY <3>4, <3>6, <3>7
    <2>5. CASE resets[k] # "took"
        <3>1. Reset(r) /\ resets' # resets
            BY <2>2, <2>5
        <3>2. PICK emptied \in SUBSET Engines, ok \in SUBSET Engines :
                  /\ ok \subseteq emptied
                  /\ cache' = [e \in Engines |-> IF e \in emptied THEN {} ELSE cache[e]]
                  /\ indexing' = {x \in indexing : x.at \notin emptied}
                  /\ resets' = [resets EXCEPT ![StepOf(r)] = IF ResetTook(ok) THEN "took" ELSE "failed"]
            BY <3>1 DEF Reset
        <3>3. StepOf(r) = k /\ ResetTook(ok)
            BY <2>5, <3>2 DEF GatewayTypeOK
        <3>4. r = q
            BY <1>2, <3>3
        <3>5. emptied = Engines
            BY <3>2, <3>3 DEF ResetTook
        <3>6. indexing' = {} /\ \A e \in Engines : cache'[e] = {}
            BY <3>2, <3>5 DEF GatewayTypeOK
        <3>7. reply' = reply /\ reply[q].found = {}
            BY <1>2, <2>2, <3>1, <3>4 DEF Reset, OutcomesTell
        <3> QED BY <2>2, <3>4, <3>6, <3>7 DEF q
    <2> QED BY <2>3, <2>4, <2>5
<1> QED BY <1>4, <1>5, <1>6, KindsOfStep

\* The invariant holds of every run of the gateway.
THEOREM GatewayInvariant == GatewaySpec => []GatewayInv
<1>1. GatewayInv /\ [GatewayNext]_<<vars, gateway>> => GatewayInv'
    <2> SUFFICES ASSUME GatewayInv, [GatewayNext]_<<vars, gateway>> PROVE GatewayInv'
        OBVIOUS
    <2>1. /\ DispatchInv /\ Given /\ GatewayTypeOK /\ OutcomesTell /\ ResetsAsked
          /\ DonorsEndFirst /\ SettlesWaited /\ DonorsKept /\ ResetsHold
        BY DEF GatewayInv
    <2>2. DispatchInv' /\ Given'
        BY <2>1, NextDispatch, RunFixed, SameRun DEF DispatchInv
    <2>3. GatewayTypeOK' /\ OutcomesTell' /\ ResetsAsked'
        BY <2>1, NextGatewayTyped, NextOutcomes, NextAsked
    <2>4. DonorsEndFirst' /\ SettlesWaited'
        BY <2>1, NextDonorsFirst, NextSettles
    <2>5. DonorsKept' /\ ResetsHold'
        BY <2>1, NextKept, NextHeld
    <2> QED BY <2>2, <2>3, <2>4, <2>5 DEF GatewayInv
<1> QED BY <1>1, InitGateway, PTL DEF GatewaySpec

\* A recipient is sent only when every donor request of its step has ended,
\* none of them by raising.
THEOREM DonorsComeFirst == GatewaySpec => []DonorsEndFirst
<1>1. GatewayInv => DonorsEndFirst
    BY DEF GatewayInv
<1> QED BY <1>1, GatewayInvariant, PTL

\* The cold twin of a pair that is used found nothing of its item in the
\* engine that served it: its step's reset took, for an untaken one flags the
\* pair, and a cold step has no donors that could have come in between.
THEOREM UsedPairsAreCold == GatewaySpec => []UsableColdWasCold
<1>1. GatewayInv => UsableColdWasCold
    <2> SUFFICES ASSUME GatewayInv, pc = "returned", NEW k \in UsablePairs
                 PROVE  reply[RecipientStageOf(k)].found = {}
        BY DEF UsableColdWasCold
    <2> DEFINE q == RecipientStageOf(k)
    <2>1. /\ TypeOK /\ Given /\ NeverAsleepOnWork /\ ReturnsLast
          /\ GatewayTypeOK /\ OutcomesTell /\ ResetsHold
        BY DEF GatewayInv, DispatchInv
    <2>2. k \in DOMAIN Plan /\ run.mode = "paired" /\ k % 2 = 1 /\ ~FlushContaminated(k)
        BY DEF UsablePairs
    <2>3. Plan[k].arm = "cold" /\ ~SeedsDonors(Plan[k]) /\ run.resets
        BY <2>1, <2>2, PlanShape
    <2>4. q \in Positions /\ StepOf(q) = k
        BY <2>1, <2>2, StageFacts
    <2>5. q \in Done
        BY <2>1, <2>4 DEF TypeOK, NeverAsleepOnWork, ReturnsLast
    <2>6. resets[k] # "none"
        BY <2>1, <2>3, <2>4, <2>5 DEF OutcomesTell, Ended, ResetBehind
    <2>7. resets[k] = "took"
        BY <2>1, <2>2, <2>3, <2>6 DEF FlushContaminated, GatewayTypeOK
    <2> QED BY <2>1, <2>2, <2>3, <2>7 DEF ResetsHold
<1> QED BY <1>1, GatewayInvariant, PTL

\* When a recipient that owes a settle is sent, each of its donors that was
\* answered can be reused on some engine.
THEOREM RecipientsFindTheirDonors == GatewaySpec => DonorsReusable
<1> DEFINE Reuses ==
        \A p \in Positions :
          (outcome[p] = "none" /\ outcome'[p] = "value" /\ stages[p].kind = "recipient"
           /\ SeedsDonors(Plan[StepOf(p)]) /\ run.settle)
          => \A n \in DOMAIN answers[p - 1] :
                answers[p - 1][n] = "answered" =>
                    \E e \in Engines : Donor(ItemOf(p), n) \in cache[e]
<1>1. ASSUME GatewayInv, [GatewayNext]_<<vars, gateway>> PROVE Reuses
    <2> SUFFICES ASSUME NEW p \in Positions, outcome[p] = "none", outcome'[p] = "value",
                        stages[p].kind = "recipient", SeedsDonors(Plan[StepOf(p)]), run.settle,
                        NEW n \in DOMAIN answers[p - 1], answers[p - 1][n] = "answered"
                 PROVE  \E e \in Engines : Donor(ItemOf(p), n) \in cache[e]
        OBVIOUS
    <2>1. /\ TypeOK /\ Given /\ GatewayTypeOK /\ SettlesWaited /\ DonorsKept
          /\ run' = run /\ stages' = stages
        BY <1>1, RunFixed DEF GatewayInv, DispatchInv
    <2>2. p \notin queue
        <3>1. Moves => outcome' = outcome
            BY <2>1, MovesWhat DEF gateway
        <3>2. ASSUME NEW x \in indexing, Indexed(x) PROVE outcome' = outcome
            BY <3>2 DEF Indexed
        <3>3. ASSUME NEW r \in Positions, Execute(r) PROVE r = p /\ p \notin queue
            <4>1. Executing(r) /\ (r # p => outcome'[p] = outcome[p])
                BY <2>1, <3>3, ExecuteMoves
            <4> QED BY <2>1, <4>1, ExecutingIs
        <3> QED BY <1>1, <3>1, <3>2, <3>3, KindsOfStep
    <2>3. <<p, p - 1>> \in elapsed /\ \A x \in indexing : x.step # StepOf(p)
        BY <2>1, <2>2 DEF SettlesWaited
    <2> QED BY <2>1, <2>3 DEF DonorsKept
<1>2. GatewayInv /\ [GatewayNext]_<<vars, gateway>> => [Reuses]_<<vars, gateway>>
    BY <1>1
<1> QED BY <1>2, GatewayInvariant, PTL DEF GatewaySpec, DonorsReusable

\* A gateway run drives the dispatcher as run_stages does, whatever its
\* engines do, and so keeps the promise of OrderedDispatch.
THEOREM GatewayKeepsPromise == GatewaySpec => KeepsPromise
<1>1. GatewayInit => Init
    BY DEF GatewayInit
<1>2. [GatewayNext]_<<vars, gateway>> => [Next]_vars
    BY GatewaySteps
<1>3. GatewaySpec => Spec
    BY <1>1, <1>2, PTL DEF GatewaySpec, Spec
<1> QED BY <1>3, DispatchKeepsPromise
=============================================================================
