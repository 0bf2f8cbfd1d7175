------------------------------ MODULE ArmProofs ------------------------------
(***************************************************************************)
(* Proofs about the arms of a run, for every list of arms, any number of   *)
(* pool threads and engines, and whatever those answer: what the ids that  *)
(* go out with the requests say, and what the one capture of an arm holds. *)
(*                                                                         *)
(* Both rest on what each thread is in the middle of: the id it has set is *)
(* that of the block of requests it is sending, whatever it set before, no *)
(* other thread is at the same stage, and it is idle once the arm is over. *)
(***************************************************************************)
EXTENDS ArmRun, DataLemmas, SequenceTheorems

At(t) == worker[t].at
StageAt(t) == worker[t].stage
PartAt(t) == worker[t].part

-----------------------------------------------------------------------------
(* The inductive invariant, in parts. *)

ArmTypeOK ==
    /\ arm \in DOMAIN Arms
    /\ doing \in {"before", "run", "after", "over"}
    /\ DOMAIN phase = DOMAIN stages
    /\ DOMAIN worker = Threads
    /\ \A t \in Threads : /\ DOMAIN worker[t] = {"stage", "part", "at", "id", "saved"}
                          /\ At(t) \in {"idle", "send", "wait", "write"}
    /\ taken \in BOOLEAN

\* A thread that is not idle is at a stage in flight, alone, and its arm runs.
Working ==
    /\ \A t \in Threads : At(t) # "idle" =>
          /\ doing = "run" /\ StageAt(t) \in DOMAIN stages /\ phase[StageAt(t)] = "inflight"
    /\ \A t, u \in Threads :
          At(t) # "idle" /\ At(u) # "idle" /\ StageAt(t) = StageAt(u) => t = u

\* The id a thread has set is that of the block it is in, and the request it
\* waits for went out under it.
IdsHeld ==
    \A t \in Threads :
        /\ At(t) = "send" /\ ~OpensBlock(StageAt(t), PartAt(t)) =>
              worker[t].id = BlockId(StageAt(t), PartAt(t))
        /\ At(t) \in {"wait", "write"} =>
              /\ worker[t].id = BlockId(StageAt(t), PartAt(t))
              /\ IsFull(StageAt(t), PartAt(t)) =>
                    \E r \in sent : r.arm = arm /\ r.full /\ r.id = worker[t].id
        /\ At(t) = "write" => IsFull(StageAt(t), PartAt(t))

\* The capture's flag is set before its file is written, by one thread.
OneWriter ==
    /\ ~taken => file = NoId
    /\ \A t \in Threads : At(t) = "write" => taken /\ file = NoId
    /\ \A t, u \in Threads : At(t) = "write" /\ At(u) = "write" => t = u

\* What was sent under which id.
SentAs ==
    \A r \in sent :
        /\ r.arm \in 1 .. arm /\ r.full \in BOOLEAN
        /\ r.full => r.id = RecipientId(r.arm, r.step)
        /\ ~r.full => \E n : \/ r.id = DonorId(r.arm, r.step, n)
                             \/ r.id = StageId(RecipientId(r.arm, r.step), n)

ArmInv == ArmTypeOK /\ Working /\ IdsHeld /\ OneWriter /\ SentAs

-----------------------------------------------------------------------------
\* What is said of the requests of a stage depends on the arm and its stages.
LEMMA SameArm ==
    ASSUME arm' = arm, stages' = stages
    PROVE  \A p, part : /\ OpensBlock(p, part)' = OpensBlock(p, part)
                        /\ BlockId(p, part)' = BlockId(p, part)
                        /\ IsFull(p, part)' = IsFull(p, part)
BY DEF OpensBlock, BlockId, IsFull, IsDonors, PartsOf, CutsOf, DonorId, RecipientId, RequestId,
       ConfigRunId

\* Steps that leave the threads and what they write alone.
Quiet == /\ UNCHANGED <<arm, stages, phase, worker, sent, taken, file>>
         /\ doing' \in {"before", "run", "after", "over"}
         /\ doing' = doing \/ \A t \in Threads : At(t) = "idle"

\* Steps of thread t, by what becomes of its stage: it goes on with it ...
GoesOn(t) ==
    /\ UNCHANGED <<arm, doing, stages, phase>>
    /\ At(t) # "idle" /\ At(t)' \in {"send", "wait", "write"} /\ StageAt(t)' = StageAt(t)

\* ... it is done with it ...
Leaves(t) ==
    /\ UNCHANGED <<arm, doing, stages, sent, taken, file>>
    /\ At(t) # "idle" /\ At(t)' = "idle"
    /\ phase' = [phase EXCEPT ![StageAt(t)] = "done"]

\* ... or it takes a stage that nobody had.
Begins(t) ==
    /\ UNCHANGED <<arm, doing, stages, sent, taken, file>>
    /\ doing = "run" /\ At(t) = "idle" /\ At(t)' = "send" /\ PartAt(t)' = 1
    /\ StageAt(t)' \in DOMAIN stages /\ phase[StageAt(t)'] = "queued"
    /\ phase' = [phase EXCEPT ![StageAt(t)'] = "inflight"]

\* What a step of thread t touches of the threads.
OnlyOf(t) ==
    /\ DOMAIN worker' = Threads /\ DOMAIN worker'[t] = {"stage", "part", "at", "id", "saved"}
    /\ \A u \in Threads : u # t => worker'[u] = worker[u]

\* The end of a request: the thread sends the next one under the id it has,
\* or leaves its stage.
LEMMA EndOfRequest ==
    ASSUME ArmTypeOK, NEW t \in Threads, Answered(t) \/ Refused(t) \/ Raises(t)
    PROVE  /\ OnlyOf(t) /\ At(t) = "wait" /\ UNCHANGED <<arm, doing, stages, sent, taken, file>>
           /\ \/ Leaves(t)
              \/ /\ GoesOn(t) /\ At(t)' = "send" /\ PartAt(t)' = PartAt(t) + 1
                 /\ ~IsDonors(StageAt(t)) => worker'[t].id = worker[t].id
<1>1. PICK w, ended, live : Ends(t, w, ended, live)
    BY DEF Answered, Refused, Raises
<1> DEFINE raised == ended = "raised"
<1>2. At(t) = "wait" /\ UNCHANGED <<arm, doing, sent, taken, file>> /\ Continues(t, raised)
    BY <1>1 DEF Ends, At, capture
<1>3. CASE raised \/ PartAt(t) = PartsOf(StageAt(t))
    <2>1. PICK id : worker' = [worker EXCEPT ![t] = [Idle EXCEPT !.id = id]]
        BY <1>2, <1>3 DEF Continues, PartAt, StageAt
    <2>2. Dispatcher!Finish(StageAt(t))
        BY <1>2, <1>3 DEF Continues, PartAt, StageAt
    <2>3. phase' = [phase EXCEPT ![StageAt(t)] = "done"] /\ stages' = stages
        BY <2>2 DEF Dispatcher!Finish
    <2>4. OnlyOf(t) /\ At(t)' = "idle"
        BY <2>1 DEF OnlyOf, At, Idle, ArmTypeOK
    <2> QED BY <1>2, <2>3, <2>4 DEF Leaves
<1>4. CASE ~(raised \/ PartAt(t) = PartsOf(StageAt(t)))
    <2>1. PICK id : /\ worker' = [worker EXCEPT ![t].part = PartAt(t) + 1, ![t].at = "send", ![t].id = id]
                    /\ ~IsDonors(StageAt(t)) => id = worker[t].id
        BY <1>2, <1>4 DEF Continues, ClosesBlock, PartAt, StageAt
    <2>2. stages' = stages /\ phase' = phase
        BY <1>2, <1>4 DEF Continues, PartAt, StageAt, dispatching
    <2>3. /\ OnlyOf(t) /\ At(t)' = "send" /\ PartAt(t)' = PartAt(t) + 1 /\ StageAt(t)' = StageAt(t)
          /\ worker'[t].id = id
        BY <2>1 DEF OnlyOf, At, PartAt, StageAt, ArmTypeOK
    <2> QED BY <1>2, <2>1, <2>2, <2>3 DEF GoesOn
<1> QED BY <1>3, <1>4

\* Every step is quiet, starts the next arm, or is a thread's.
LEMMA ArmSteps ==
    ASSUME ArmTypeOK, Working, [Next]_vars
    PROVE  \/ Quiet \/ NextArm
           \/ \E t \in Threads :
                 \/ \E p \in DOMAIN stages : Takes(t, p)
                 \/ Skips(t) \/ Sends(t) \/ Offers(t) \/ Writes(t)
                 \/ Answered(t) \/ Refused(t) \/ Raises(t)
<1>1. doing # "run" => \A t \in Threads : At(t) = "idle"
    BY DEF Working
<1>2. CASE ScrapeBefore \/ ScrapeAfter
    BY <1>1, <1>2 DEF ScrapeBefore, ScrapeAfter, Quiet, dispatching, capture
<1>3. CASE RunReturns
    <2>1. \A t \in Threads : At(t) = "idle"
        BY <1>3 DEF RunReturns, RunOver, Working, ArmTypeOK
    <2> QED BY <1>3, <2>1 DEF RunReturns, Quiet, dispatching, capture
<1>4. CASE \E w \in wire : LooksUp(w) \/ Allocates(w)
    BY <1>4 DEF LooksUp, Allocates, Quiet, dispatching, capture, ArmTypeOK
<1>5. CASE UNCHANGED vars
    BY <1>5 DEF vars, Quiet, dispatching, capture, ArmTypeOK
<1> QED BY <1>2, <1>3, <1>4, <1>5 DEF Next, Over

\* What each step of a thread is to its stage.
LEMMA ThreadSteps ==
    ASSUME ArmTypeOK, NEW t \in Threads
    PROVE  /\ \A p \in DOMAIN stages : Takes(t, p) => OnlyOf(t) /\ Begins(t)
           /\ Skips(t) => OnlyOf(t) /\ Leaves(t)
           /\ Sends(t) => /\ OnlyOf(t) /\ GoesOn(t) /\ At(t) = "send" /\ At(t)' = "wait"
                          /\ UNCHANGED <<taken, file>> /\ PartAt(t)' = PartAt(t)
           /\ Offers(t) => /\ OnlyOf(t) /\ GoesOn(t) /\ At(t) = "wait" /\ At(t)' = "write"
                           /\ PartAt(t)' = PartAt(t) /\ worker'[t].id = worker[t].id
                           /\ UNCHANGED <<sent, file>> /\ ~taken /\ taken'
                           /\ IsFull(StageAt(t), PartAt(t))
           /\ Writes(t) => /\ OnlyOf(t) /\ GoesOn(t) /\ At(t) = "write" /\ At(t)' = "wait"
                           /\ PartAt(t)' = PartAt(t) /\ worker'[t].id = worker[t].id
                           /\ UNCHANGED sent /\ taken' /\ file' \in {worker[t].id, file}
<1> USE DEF ArmTypeOK, At, StageAt, PartAt, OnlyOf
<1>1. ASSUME NEW p \in DOMAIN stages, Takes(t, p)
      PROVE  OnlyOf(t) /\ Begins(t)
    BY <1>1 DEF Takes, Begins, Dispatcher!Issue, capture
<1>2. ASSUME Skips(t) PROVE OnlyOf(t) /\ Leaves(t)
    BY <1>2 DEF Skips, Leaves, Idle, Dispatcher!Finish, capture
<1>3. ASSUME Sends(t)
      PROVE  /\ OnlyOf(t) /\ GoesOn(t) /\ At(t) = "send" /\ At(t)' = "wait"
             /\ UNCHANGED <<taken, file>> /\ PartAt(t)' = PartAt(t)
    BY <1>3 DEF Sends, GoesOn, dispatching, capture
<1>4. ASSUME Offers(t)
      PROVE  /\ OnlyOf(t) /\ GoesOn(t) /\ At(t) = "wait" /\ At(t)' = "write"
             /\ PartAt(t)' = PartAt(t) /\ worker'[t].id = worker[t].id
             /\ UNCHANGED <<sent, file>> /\ ~taken /\ taken'
             /\ IsFull(StageAt(t), PartAt(t))
    BY <1>4 DEF Offers, GoesOn, dispatching, OffersChunk, SetUnderLock
<1>5. ASSUME Writes(t)
      PROVE  /\ OnlyOf(t) /\ GoesOn(t) /\ At(t) = "write" /\ At(t)' = "wait"
             /\ PartAt(t)' = PartAt(t) /\ worker'[t].id = worker[t].id
             /\ UNCHANGED sent /\ taken' /\ file' \in {worker[t].id, file}
    BY <1>5 DEF Writes, GoesOn, dispatching
<1> QED BY <1>1, <1>2, <1>3, <1>4, <1>5

\* Each step of a thread goes on with its stage, leaves it or takes one.
LEMMA ThreadKinds ==
    ASSUME ArmTypeOK, NEW t \in Threads,
           \/ \E p \in DOMAIN stages : Takes(t, p)
           \/ Skips(t) \/ Sends(t) \/ Offers(t) \/ Writes(t)
           \/ Answered(t) \/ Refused(t) \/ Raises(t)
    PROVE  /\ OnlyOf(t)
           /\ GoesOn(t) \/ Leaves(t) \/ Begins(t)
           /\ taken' \in BOOLEAN
BY ThreadSteps, EndOfRequest DEF Leaves, Begins, ArmTypeOK

-----------------------------------------------------------------------------
(* Each part of the invariant, over each kind of step.                      *)

\* A run starts with idle threads and nothing sent.
LEMMA InitArm == Init => ArmInv
<1> SUFFICES ASSUME Init PROVE ArmInv
    OBVIOUS
<1>1. \A t \in Threads : At(t) = "idle" /\ worker[t] = Idle
    BY DEF Init, At, Idle
<1>2. /\ arm \in DOMAIN Arms /\ doing \in {"before", "run"}
      /\ DOMAIN phase = DOMAIN stages /\ taken = FALSE
    BY ArmsAssumption DEF Init, FirstThing
<1>3. DOMAIN worker = Threads /\ \A t \in Threads : DOMAIN worker[t] = {"stage", "part", "at", "id", "saved"}
    BY <1>1 DEF Init, Idle
<1>4. ArmTypeOK
    BY <1>1, <1>2, <1>3 DEF ArmTypeOK
<1> QED BY <1>1, <1>4 DEF Init, ArmInv, Working, IdsHeld, OneWriter, SentAs

\* Steps that are no thread's keep the invariant.
LEMMA QuietKeeps == ArmInv /\ Quiet => ArmInv'
<1> SUFFICES ASSUME ArmInv, Quiet PROVE ArmInv'
    OBVIOUS
<1>1. \A t : At(t)' = At(t) /\ StageAt(t)' = StageAt(t) /\ PartAt(t)' = PartAt(t)
    BY DEF Quiet, At, StageAt, PartAt
<1>2. ArmTypeOK' /\ Working'
    BY <1>1 DEF ArmInv, ArmTypeOK, Working, Quiet
<1>3. IdsHeld'
    BY <1>1, SameArm DEF ArmInv, IdsHeld, Quiet
<1>4. OneWriter' /\ SentAs'
    BY <1>1 DEF ArmInv, OneWriter, SentAs, Quiet
<1> QED BY <1>2, <1>3, <1>4 DEF ArmInv

\* The next arm finds every thread idle, and the capture taken back.
LEMMA NextArmKeeps == ArmInv /\ NextArm => ArmInv'
<1> SUFFICES ASSUME ArmInv, NextArm PROVE ArmInv'
    OBVIOUS
<1>1. \A t \in Threads : At(t)' = At(t) /\ At(t) = "idle"
    BY DEF NextArm, At, ArmInv, Working
<1>2. arm' = arm + 1 /\ arm' \in DOMAIN Arms /\ 1 .. arm \subseteq 1 .. arm'
    BY ArmsAssumption DEF NextArm, ArmInv, ArmTypeOK
<1>3. ArmTypeOK'
    BY <1>1, <1>2 DEF NextArm, ArmInv, ArmTypeOK, FirstThing
<1>4. Working' /\ IdsHeld' /\ OneWriter'
    BY <1>1 DEF Working, IdsHeld, OneWriter, NextArm
<1>5. SentAs'
    BY <1>2 DEF NextArm, ArmInv, SentAs
<1> QED BY <1>3, <1>4, <1>5 DEF ArmInv

\* A thread's step keeps it alone at its stage.
LEMMA NextWorking ==
    ASSUME ArmTypeOK, Working, NEW t \in Threads, OnlyOf(t), GoesOn(t) \/ Leaves(t) \/ Begins(t),
           taken' \in BOOLEAN
    PROVE  ArmTypeOK' /\ Working'
<1>1. \A u \in Threads : u # t => At(u)' = At(u) /\ StageAt(u)' = StageAt(u)
    BY DEF OnlyOf, At, StageAt
<1>2. ArmTypeOK'
    <2>1. \A u \in Threads : DOMAIN worker'[u] = {"stage", "part", "at", "id", "saved"}
        BY DEF OnlyOf, ArmTypeOK
    <2>2. \A u \in Threads : At(u)' \in {"idle", "send", "wait", "write"}
        BY <1>1 DEF GoesOn, Leaves, Begins, ArmTypeOK
    <2>3. /\ arm' = arm /\ doing' = doing /\ stages' = stages
          /\ DOMAIN phase' = DOMAIN phase /\ DOMAIN worker' = Threads
        BY DEF GoesOn, Leaves, Begins, OnlyOf
    <2> QED BY <2>1, <2>2, <2>3 DEF ArmTypeOK
<1> DEFINE Alone(u) == At(u) # "idle" =>
                         doing = "run" /\ StageAt(u) \in DOMAIN stages /\ phase[StageAt(u)] = "inflight"
           Apart(u, v) == At(u) # "idle" /\ At(v) # "idle" /\ StageAt(u) = StageAt(v) => u = v
<1>3. (\A u \in Threads : Alone(u)) /\ (\A u, v \in Threads : Apart(u, v))
    BY DEF Working
<1>4. ASSUME NEW u \in Threads PROVE Alone(u)'
    <2>1. CASE GoesOn(t)
        BY <1>1, <1>3, <2>1 DEF GoesOn
    <2>2. CASE Leaves(t)
        <3>1. u # t /\ At(u)' # "idle" => StageAt(u) # StageAt(t)
            BY <1>1, <1>3, <2>2 DEF Leaves
        <3> QED BY <1>1, <1>3, <2>2, <3>1 DEF Leaves, ArmTypeOK
    <2>3. CASE Begins(t)
        <3>1. u # t /\ At(u)' # "idle" => StageAt(u) # StageAt(t)'
            BY <1>1, <1>3, <2>3 DEF Begins
        <3> QED BY <1>1, <1>3, <2>3, <3>1 DEF Begins, ArmTypeOK
    <2> QED BY <2>1, <2>2, <2>3
<1>5. ASSUME NEW u \in Threads, NEW v \in Threads PROVE Apart(u, v)'
    <2>1. CASE GoesOn(t)
        BY <1>1, <1>3, <2>1 DEF GoesOn
    <2>2. CASE Leaves(t)
        BY <1>1, <1>3, <2>2 DEF Leaves
    <2>3. CASE Begins(t)
        <3>1. \A x \in Threads : x # t /\ At(x)' # "idle" => StageAt(x)' # StageAt(t)'
            BY <1>1, <1>3, <2>3 DEF Begins
        <3> QED BY <1>1, <1>3, <3>1
    <2> QED BY <2>1, <2>2, <2>3
<1> HIDE DEF Alone, Apart
<1>6. Working'
    BY <1>4, <1>5 DEF Alone, Apart, Working
<1> QED BY <1>2, <1>6

\* A request goes out under the id of its block, or under one of a stage's,
\* made of it.
LEMMA SendsWhat ==
    ASSUME ArmTypeOK, IdsHeld, NEW t \in Threads, Sends(t)
    PROVE  /\ worker'[t].id = BlockId(StageAt(t), PartAt(t))
           /\ \E r : /\ sent' = sent \cup {r}
                     /\ r.arm = arm /\ r.step = stages[StageAt(t)].step
                     /\ r.full = IsFull(StageAt(t), PartAt(t))
                     /\ r.id = IF IsDonors(StageAt(t)) \/ r.full THEN worker'[t].id
                               ELSE StageId(worker'[t].id, PartAt(t))
<1> DEFINE p == StageAt(t)
           part == PartAt(t)
           id == IF OpensBlock(p, part) THEN BlockId(p, part) ELSE worker[t].id
           onwire == IF IsDonors(p) \/ IsFull(p, part) THEN id ELSE StageId(id, part)
           record == [id |-> onwire, arm |-> arm, step |-> stages[p].step, full |-> IsFull(p, part)]
<1>1. /\ At(t) = "send" /\ sent' = sent \cup {record}
      /\ worker' = [worker EXCEPT ![t].at = "wait", ![t].id = id,
                        ![t].saved = IF OpensBlock(p, part) THEN worker[t].id ELSE @]
    BY DEF Sends, At, StageAt, PartAt
<1>2. id = BlockId(p, part)
    BY <1>1 DEF IdsHeld
<1>3. worker'[t].id = id
    BY <1>1 DEF ArmTypeOK
<1>4. /\ record.arm = arm /\ record.step = stages[p].step /\ record.full = IsFull(p, part)
      /\ record.id = onwire
    OBVIOUS
<1> HIDE DEF id, record
<1> QED BY <1>1, <1>2, <1>3, <1>4

\* What a thread that is at a stage has set its id to.
Held(t) ==
    /\ At(t) = "send" /\ ~OpensBlock(StageAt(t), PartAt(t)) =>
          worker[t].id = BlockId(StageAt(t), PartAt(t))
    /\ At(t) \in {"wait", "write"} =>
          /\ worker[t].id = BlockId(StageAt(t), PartAt(t))
          /\ IsFull(StageAt(t), PartAt(t)) =>
                \E r \in sent : r.arm = arm /\ r.full /\ r.id = worker[t].id
    /\ At(t) = "write" => IsFull(StageAt(t), PartAt(t))

\* Another thread's step leaves a thread with its id.
LEMMA OthersHold ==
    ASSUME NEW t \in Threads, OnlyOf(t), arm' = arm, stages' = stages, sent \subseteq sent',
           NEW u \in Threads, u # t, Held(u)
    PROVE  Held(u)'
<1>1. /\ At(u)' = At(u) /\ StageAt(u)' = StageAt(u) /\ PartAt(u)' = PartAt(u)
      /\ worker'[u].id = worker[u].id
    BY DEF OnlyOf, At, StageAt, PartAt
<1> QED BY <1>1, SameArm DEF Held

\* A thread holds the id of the block it is in.
LEMMA NextIds ==
    ASSUME ArmTypeOK, Working, IdsHeld, NEW t \in Threads,
           \/ \E p \in DOMAIN stages : Takes(t, p)
           \/ Skips(t) \/ Sends(t) \/ Offers(t) \/ Writes(t)
           \/ Answered(t) \/ Refused(t) \/ Raises(t)
    PROVE  IdsHeld'
<1>1. OnlyOf(t) /\ arm' = arm /\ stages' = stages
    BY ThreadKinds DEF GoesOn, Leaves, Begins
<1>2. sent \subseteq sent'
    <2>1. CASE Sends(t)
        BY <2>1, SendsWhat
    <2> QED BY <2>1, ThreadSteps, EndOfRequest DEF Leaves, Begins
<1>3. Held(t)
    BY DEF IdsHeld, Held
<1>4. Held(t)'
    <2>1. CASE Leaves(t)
        BY <2>1 DEF Leaves, Held
    <2>2. CASE Begins(t)
        <3>1. OpensBlock(StageAt(t), PartAt(t))'
            BY <2>2 DEF Begins, OpensBlock
        <3> QED BY <2>2, <3>1 DEF Begins, Held
    <2>3. CASE Sends(t)
        <3>1. /\ At(t)' = "wait" /\ StageAt(t)' = StageAt(t) /\ PartAt(t)' = PartAt(t)
            BY <2>3, ThreadSteps DEF GoesOn
        <3>2. worker'[t].id = BlockId(StageAt(t), PartAt(t))
            BY <2>3, SendsWhat
        <3>3. IsFull(StageAt(t), PartAt(t)) =>
                  \E r \in sent' : r.arm = arm /\ r.full /\ r.id = worker'[t].id
            BY <2>3, SendsWhat
        <3> QED BY <1>1, <3>1, <3>2, <3>3, SameArm DEF Held
    <2>4. CASE Offers(t) \/ Writes(t)
        <3>1. /\ At(t) \in {"wait", "write"} /\ At(t)' \in {"wait", "write"}
              /\ StageAt(t)' = StageAt(t) /\ PartAt(t)' = PartAt(t)
              /\ worker'[t].id = worker[t].id /\ sent' = sent
              /\ At(t)' = "write" => IsFull(StageAt(t), PartAt(t))
            BY <2>4, ThreadSteps DEF GoesOn
        <3> QED BY <1>1, <1>3, <3>1, SameArm DEF Held
    <2>5. CASE (Answered(t) \/ Refused(t) \/ Raises(t)) /\ ~Leaves(t)
        <3>1. /\ At(t) = "wait" /\ At(t)' = "send" /\ StageAt(t)' = StageAt(t)
              /\ ~IsDonors(StageAt(t)) => worker'[t].id = worker[t].id
            BY <2>5, EndOfRequest DEF GoesOn
        <3>2. worker[t].id = BlockId(StageAt(t), PartAt(t))
            BY <1>3, <3>1 DEF Held
        <3>3. ASSUME ~OpensBlock(StageAt(t), PartAt(t))'
              PROVE  worker'[t].id = BlockId(StageAt(t), PartAt(t))'
            <4>1. ~IsDonors(StageAt(t))
                BY <1>1, <3>1, <3>3 DEF OpensBlock, IsDonors
            <4>2. BlockId(StageAt(t), PartAt(t))' = BlockId(StageAt(t), PartAt(t))
                BY <1>1, <3>1, <4>1 DEF BlockId, IsDonors, RecipientId, RequestId, ConfigRunId
            <4> QED BY <3>1, <3>2, <4>1, <4>2
        <3> QED BY <3>1, <3>3 DEF Held
    <2> QED BY <2>1, <2>2, <2>3, <2>4, <2>5, ThreadSteps
<1>5. \A u \in Threads : Held(u)'
    BY <1>1, <1>2, <1>4, OthersHold DEF IdsHeld, Held
<1> QED BY <1>5 DEF Held, IdsHeld

\* The file is written by the thread that set the flag, and by no other.
LEMMA NextWriter ==
    ASSUME ArmTypeOK, OneWriter, NEW t \in Threads,
           \/ \E p \in DOMAIN stages : Takes(t, p)
           \/ Skips(t) \/ Sends(t) \/ Offers(t) \/ Writes(t)
           \/ Answered(t) \/ Refused(t) \/ Raises(t)
    PROVE  OneWriter'
<1>1. \A u \in Threads : u # t => At(u)' = At(u)
    BY ThreadKinds DEF OnlyOf, At
<1>2. CASE Offers(t)
    <2>1. ~taken /\ taken' /\ file' = file
        BY <1>2, ThreadSteps
    <2>2. file = NoId /\ \A u \in Threads : At(u) # "write"
        BY <2>1 DEF OneWriter
    <2> QED BY <1>1, <2>1, <2>2 DEF OneWriter
<1>3. CASE Writes(t)
    <2>1. taken' /\ At(t)' # "write" /\ At(t) = "write"
        BY <1>3, ThreadSteps
    <2>2. \A u \in Threads : At(u)' # "write"
        BY <1>1, <2>1 DEF OneWriter
    <2> QED BY <2>1, <2>2 DEF OneWriter
<1>4. CASE ~Offers(t) /\ ~Writes(t)
    <2>1. taken' = taken /\ file' = file /\ At(t)' # "write"
        BY <1>4, ThreadSteps, EndOfRequest DEF Leaves, Begins
    <2> QED BY <1>1, <2>1 DEF OneWriter
<1> QED BY <1>2, <1>3, <1>4

\* Every request goes out under an id of its arm, row and role.
LEMMA NextSent ==
    ASSUME ArmTypeOK, IdsHeld, SentAs, NEW t \in Threads,
           \/ \E p \in DOMAIN stages : Takes(t, p)
           \/ Skips(t) \/ Sends(t) \/ Offers(t) \/ Writes(t)
           \/ Answered(t) \/ Refused(t) \/ Raises(t)
    PROVE  SentAs'
<1>1. arm' = arm
    BY ThreadKinds DEF GoesOn, Leaves, Begins
<1>2. CASE sent' = sent
    BY <1>1, <1>2 DEF SentAs
<1>3. CASE Sends(t)
    <2>1. PICK r : /\ sent' = sent \cup {r}
                   /\ r.arm = arm /\ r.step = stages[StageAt(t)].step
                   /\ r.full = IsFull(StageAt(t), PartAt(t))
                   /\ r.id = IF IsDonors(StageAt(t)) \/ r.full THEN BlockId(StageAt(t), PartAt(t))
                             ELSE StageId(BlockId(StageAt(t), PartAt(t)), PartAt(t))
        BY <1>3, SendsWhat
    <2>2. r.arm \in 1 .. arm /\ r.full \in BOOLEAN
        <3>1. arm \in 1 .. Len(Arms) /\ arm \in 1 .. arm
            BY ArmsAssumption DEF ArmTypeOK
        <3>2. IsFull(StageAt(t), PartAt(t)) \in BOOLEAN
            BY DEF IsFull
        <3> QED BY <2>1, <3>1, <3>2
    <2>3. r.full => r.id = RecipientId(r.arm, r.step)
        BY <2>1 DEF IsFull, BlockId
    <2>4. ~r.full => \/ r.id = DonorId(r.arm, r.step, PartAt(t))
                     \/ r.id = StageId(RecipientId(r.arm, r.step), PartAt(t))
        BY <2>1 DEF IsFull, BlockId
    <2> QED BY <1>1, <2>1, <2>2, <2>3, <2>4 DEF SentAs
<1> QED BY <1>2, <1>3, ThreadSteps, EndOfRequest DEF Leaves, Begins

\* The invariant holds of every list of arms.
THEOREM ArmInvariant == Spec => []ArmInv
<1>1. ArmInv /\ [Next]_vars => ArmInv'
    <2> SUFFICES ASSUME ArmInv, [Next]_vars PROVE ArmInv'
        OBVIOUS
    <2>1. ASSUME NEW t \in Threads,
                 \/ \E p \in DOMAIN stages : Takes(t, p)
                 \/ Skips(t) \/ Sends(t) \/ Offers(t) \/ Writes(t)
                 \/ Answered(t) \/ Refused(t) \/ Raises(t)
          PROVE  ArmInv'
        <3>1. ArmTypeOK' /\ Working'
            BY <2>1, ThreadKinds, NextWorking DEF ArmInv
        <3>2. IdsHeld' /\ OneWriter' /\ SentAs'
            BY <2>1, NextIds, NextWriter, NextSent DEF ArmInv
        <3> QED BY <3>1, <3>2 DEF ArmInv
    <2> QED BY <2>1, ArmSteps, QuietKeeps, NextArmKeeps DEF ArmInv
<1> QED BY <1>1, InitArm, PTL DEF Spec

-----------------------------------------------------------------------------
(* Ids. *)

\* Runs are told apart by the run id they are given (run-load gives none, so
\* at most one arm of a list may be one).
RunsToldApart == \A a, b \in DOMAIN Arms : ConfigRunId(a) = ConfigRunId(b) => a = b

\* An id says which run, row and role it is for.
LEMMA IdsTellRoles ==
    ASSUME NEW a, NEW b, NEW k, NEW j, NEW n
    PROVE  /\ RecipientId(a, k) = RecipientId(b, j) => ConfigRunId(a) = ConfigRunId(b) /\ k = j
           /\ RecipientId(a, k) # DonorId(b, j, n)
           /\ RecipientId(a, k) # StageId(RecipientId(b, j), n)
<1>1. RecipientId(a, k) = RecipientId(b, j) => ConfigRunId(a) = ConfigRunId(b) /\ k = j
    BY DEF RecipientId, RequestId
<1>2. RecipientId(a, k) # DonorId(b, j, n)
    <2>1. <<"recipient">> # <<"donor", n>>
        OBVIOUS
    <2> QED BY <2>1 DEF RecipientId, DonorId, RequestId
<1>3. RecipientId(a, k) # StageId(RecipientId(b, j), n)
    <2> DEFINE S == {ConfigRunId(b), Arms[b].items[j].id, j, <<"recipient">>, "stage", n}
    <2>1. RecipientId(b, j) \in Seq(S) /\ Len(RecipientId(b, j)) = 4
        BY DEF RecipientId, RequestId
    <2>2. <<"stage", n>> \in Seq(S) /\ Len(<<"stage", n>>) = 2
        OBVIOUS
    <2> HIDE DEF S
    <2>3. Len(StageId(RecipientId(b, j), n)) = 4 + 2
        <3>1. \A s, t \in Seq(S) : Len(s \o t) = Len(s) + Len(t)
            BY ConcatProperties
        <3> QED BY <2>1, <2>2, <3>1 DEF StageId
    <2>4. Len(RecipientId(a, k)) = 4
        BY DEF RecipientId, RequestId
    <2> QED BY <2>3, <2>4
<1> QED BY <1>1, <1>2, <1>3

\* The id on a row was sent with that row's full prompt and with nothing else.
THEOREM RowIdsAreTheirOwn ==
    ASSUME RunsToldApart
    PROVE  Spec => []RowIdIsItsOwn
<1>1. ArmInv => RowIdIsItsOwn
    <2> SUFFICES ASSUME ArmInv, NEW a \in 1 .. arm, NEW k, NEW r \in sent
                 PROVE  r.id = RecipientId(a, k) <=> r.arm = a /\ r.step = k /\ r.full
        BY DEF RowIdIsItsOwn
    <2>1. /\ r.arm \in 1 .. arm /\ r.full \in BOOLEAN
          /\ r.full => r.id = RecipientId(r.arm, r.step)
          /\ ~r.full => \E n : \/ r.id = DonorId(r.arm, r.step, n)
                               \/ r.id = StageId(RecipientId(r.arm, r.step), n)
        BY DEF ArmInv, SentAs
    <2>2. a \in DOMAIN Arms /\ r.arm \in DOMAIN Arms
        BY <2>1, ArmsAssumption DEF ArmInv, ArmTypeOK
    <2>3. r.id = RecipientId(a, k) => r.full
        BY <2>1, IdsTellRoles
    <2>4. r.id = RecipientId(a, k) /\ r.full => r.arm = a /\ r.step = k
        BY <2>1, <2>2, IdsTellRoles DEF RunsToldApart
    <2> QED BY <2>1, <2>3, <2>4
<1> QED BY <1>1, ArmInvariant, PTL

\* The captured file is written once in a run, and holds the id of a full
\* prompt of that run.
THEOREM ChunkIsCapturedOnce == Spec => CapturedOnce
<1> DEFINE Captures == arm' = arm => /\ file = NoId
                                     /\ \E r \in sent : r.arm = arm /\ r.full /\ r.id = file'
<1>1. ASSUME ArmInv, [Next]_vars PROVE file' = file \/ Captures
    <2> SUFFICES ASSUME file' # file, arm' = arm PROVE Captures
        OBVIOUS
    <2>1. ~Quiet /\ ~NextArm
        BY <1>1, ArmsAssumption DEF Quiet, NextArm, ArmInv, ArmTypeOK
    <2>2. PICK t \in Threads : Writes(t)
        BY <1>1, <2>1, ArmSteps, ThreadSteps, EndOfRequest DEF ArmInv, Leaves, Begins
    <2>3. At(t) = "write" /\ file' = worker[t].id
        BY <1>1, <2>2, ThreadSteps DEF ArmInv
    <2>4. file = NoId
        BY <1>1, <2>3 DEF ArmInv, OneWriter
    <2>5. \E r \in sent : r.arm = arm /\ r.full /\ r.id = worker[t].id
        BY <1>1, <2>3 DEF ArmInv, IdsHeld
    <2> QED BY <2>3, <2>4, <2>5
<1>2. ArmInv /\ [Next]_vars => [Captures]_file
    BY <1>1
<1> QED BY <1>2, ArmInvariant, PTL DEF Spec, CapturedOnce

-----------------------------------------------------------------------------
(* The counters.                                                            *)

\* No request was given up: none is raised, of this arm or of one before.
Clean == \A w \in wire : w.ended # "raised"

\* The requests an engine has counted under a key.
CountedOn(u, key) == {w \in wire : w.url = u /\ w.counted \in CountedAs[key]}

WireTypeOK ==
    /\ IsFiniteSet(wire)
    /\ \A w \in wire :
          /\ DOMAIN w = {"arm", "stage", "part", "url", "live", "counted", "ended"}
          /\ w.arm \in 1 .. arm /\ w.part \in Nat /\ w.url \in Engines
          /\ w.counted \in {"no", "missed", "accepted", "allocated"}
          /\ w.ended \in {"open", "answered", "refused", "raised"}
    /\ DOMAIN counts = Engines
    /\ \A u \in Engines : /\ DOMAIN counts[u] = IF u \in Connected THEN Keys ELSE {}
                          /\ \A key \in DOMAIN counts[u] : counts[u][key] \in Nat
    /\ \A t \in Threads : PartAt(t) \in Nat

\* What is left of an earlier arm was given up, and an engine only works on for
\* a client that waits or has given up.
Waited ==
    \A w \in wire :
        /\ w.arm # arm => w.ended = "raised"
        /\ w.ended \in {"answered", "refused"} => ~w.live
        /\ w.ended = "open" =>
              \E t \in Threads : /\ At(t) \in {"wait", "write"}
                                 /\ StageAt(t) = w.stage /\ PartAt(t) = w.part

\* A part of a stage is requested once in an arm, each after the one before it.
RequestedOnce ==
    /\ \A w, v \in wire : w.arm = v.arm /\ w.stage = v.stage /\ w.part = v.part => w = v
    /\ \A w \in wire : w.arm = arm =>
          /\ doing # "before" /\ w.stage \in DOMAIN phase /\ phase[w.stage] # "queued"
          /\ \A t \in Threads : At(t) # "idle" /\ StageAt(t) = w.stage =>
                /\ w.part <= PartAt(t)
                /\ At(t) = "send" => w.part # PartAt(t)

\* With no request given up, an engine has counted what it had when it was first
\* scraped and the arm's requests, and no more once it is scraped again.
Windowed ==
    /\ DOMAIN before \subseteq Engines /\ DOMAIN after \subseteq Engines
    /\ doing = "before" => DOMAIN before # Engines
    /\ doing = "after" => DOMAIN after # Engines
    /\ doing \in {"before", "run"} => after = NoUrl
    /\ Clean => \A u \in DOMAIN before : before[u].ok =>
          /\ DOMAIN before[u].counters = DOMAIN counts[u]
          /\ \A key \in DOMAIN counts[u] :
                /\ before[u].counters[key] \in Nat
                /\ counts[u][key] = before[u].counters[key] + Cardinality(CountedOn(u, key))
    /\ Clean => \A u \in DOMAIN after : after[u].ok =>
          /\ DOMAIN after[u].counters = DOMAIN counts[u]
          /\ \A key \in DOMAIN counts[u] : after[u].counters[key] = counts[u][key]

WindowInv == WireTypeOK /\ Waited /\ RequestedOnce /\ Windowed

\* The requests counted are finitely many.
LEMMA CountedFinite ==
    ASSUME WireTypeOK, NEW u, NEW key
    PROVE  IsFiniteSet(CountedOn(u, key)) /\ Cardinality(CountedOn(u, key)) \in Nat
<1>1. CountedOn(u, key) \subseteq wire
    BY DEF CountedOn
<1> QED BY <1>1, FS_Subset, FS_CardinalityType DEF WireTypeOK

\* A request whose record changes stays one request: it is counted under what
\* it was counted under, and what else it is counted under has one more.
LEMMA ChangesOne ==
    ASSUME WireTypeOK, RequestedOnce, NEW w \in wire, NEW v, v # w,
           v.arm = w.arm, v.stage = w.stage, v.part = w.part, v.url = w.url,
           wire' = Becomes(w, v), NEW u, NEW key,
           w.counted \in CountedAs[key] => v.counted \in CountedAs[key]
    PROVE  /\ v \notin wire /\ IsFiniteSet(wire')
           /\ Cardinality(CountedOn(u, key)') =
                 IF w.url = u /\ w.counted \notin CountedAs[key] /\ v.counted \in CountedAs[key]
                 THEN Cardinality(CountedOn(u, key)) + 1 ELSE Cardinality(CountedOn(u, key))
<1> DEFINE C == CountedOn(u, key)
<1>1. v \notin wire
    BY DEF RequestedOnce
<1>2. wire' = (wire \ {w}) \cup {v}
    BY DEF Becomes
<1>3. IsFiniteSet(wire')
    <2>1. IsFiniteSet(wire)
        BY DEF WireTypeOK
    <2>2. IsFiniteSet(wire \ {w})
        BY <2>1, FS_RemoveElement
    <2>3. IsFiniteSet((wire \ {w}) \cup {v})
        BY <2>2, FS_AddElement
    <2> QED BY <1>2, <2>3
<1>4. IsFiniteSet(C) /\ Cardinality(C) \in Nat
    BY CountedFinite
<1>5. v \notin C
    BY <1>1 DEF CountedOn
<1>6. CASE w.url # u \/ v.counted \notin CountedAs[key]
    <2>1. C' = C
        BY <1>2, <1>6 DEF CountedOn
    <2> QED BY <1>1, <1>3, <1>6, <2>1
<1>7. CASE w.url = u /\ w.counted \notin CountedAs[key] /\ v.counted \in CountedAs[key]
    <2>1. C' = C \cup {v}
        BY <1>2, <1>7 DEF CountedOn
    <2>2. Cardinality(C') = Cardinality(C) + 1
        BY <1>4, <1>5, <2>1, FS_AddElement
    <2> QED BY <1>1, <1>3, <1>7, <2>2
<1>8. CASE w.url = u /\ w.counted \in CountedAs[key]
    <2>1. C' = (C \ {w}) \cup {v} /\ w \in C /\ v \notin C \ {w}
        BY <1>2, <1>5, <1>8 DEF CountedOn
    <2>2. IsFiniteSet(C \ {w}) /\ Cardinality(C \ {w}) = Cardinality(C) - 1
        BY <1>4, <2>1, FS_RemoveElement
    <2>3. Cardinality(C') = Cardinality(C \ {w}) + 1
        BY <2>1, <2>2, FS_AddElement
    <2>4. Cardinality(C') = Cardinality(C)
        BY <1>4, <2>2, <2>3
    <2> QED BY <1>1, <1>3, <1>8, <2>4
<1> QED BY <1>6, <1>7, <1>8

\* What a step makes of a request's record.
LEMMA RecordOf ==
    ASSUME WireTypeOK, NEW w \in wire, NEW ended, NEW live, NEW counted
    PROVE  /\ LET v == [w EXCEPT !.ended = ended, !.live = live]
              IN  /\ DOMAIN v = DOMAIN w /\ v.ended = ended /\ v.live = live
                  /\ v.arm = w.arm /\ v.stage = w.stage /\ v.part = w.part /\ v.url = w.url
                  /\ v.counted = w.counted
           /\ LET v == [w EXCEPT !.counted = counted]
              IN  /\ DOMAIN v = DOMAIN w /\ v.ended = w.ended /\ v.live = w.live
                  /\ v.arm = w.arm /\ v.stage = w.stage /\ v.part = w.part /\ v.url = w.url
                  /\ v.counted = counted
BY DEF WireTypeOK

\* The end of a request: the one its thread waits for is no longer open, and
\* unless it was given up no engine works on it.
EndsAs(t, w, v) ==
    /\ w.arm = arm /\ w.stage = StageAt(t) /\ w.part = PartAt(t)
    /\ wire' = Becomes(w, v) /\ v # w
    /\ DOMAIN v = DOMAIN w /\ v.counted = w.counted /\ v.url = w.url
    /\ v.arm = w.arm /\ v.stage = w.stage /\ v.part = w.part
    /\ w.ended = "open" /\ v.ended \in {"answered", "refused", "raised"}
    /\ v.ended # "raised" => v.live = FALSE
    /\ UNCHANGED <<counts, before, after, arm, doing>>

\* However a request ends.
LEMMA EndsWhat ==
    ASSUME WireTypeOK, NEW t \in Threads, Answered(t) \/ Refused(t) \/ Raises(t)
    PROVE  \E w, v : w \in wire /\ EndsAs(t, w, v)
<1>1. PICK w, ended, live :
          /\ w \in Own(t) /\ Ends(t, w, ended, live)
          /\ ended \in {"answered", "refused", "raised"}
          /\ ended # "raised" => live = FALSE
    <2>1. CASE Answered(t)
        BY <2>1 DEF Answered
    <2>2. CASE Refused(t)
        BY <2>2 DEF Refused
    <2>3. CASE Raises(t)
        BY <2>3 DEF Raises
    <2> QED BY <2>1, <2>2, <2>3
<1> DEFINE v == [w EXCEPT !.ended = ended, !.live = live]
<1>2. w \in wire /\ w.arm = arm /\ w.stage = StageAt(t) /\ w.part = PartAt(t)
    BY <1>1 DEF Own, StageAt, PartAt
<1>3. w.ended = "open" /\ wire' = Becomes(w, v) /\ UNCHANGED <<counts, before, after, arm, doing>>
    BY <1>1 DEF Ends, window
<1>4. /\ DOMAIN v = DOMAIN w /\ v.ended = ended /\ v.live = live
      /\ v.arm = w.arm /\ v.stage = w.stage /\ v.part = w.part /\ v.url = w.url
      /\ v.counted = w.counted
    BY <1>2, RecordOf
<1> HIDE DEF v
<1>5. v # w
    BY <1>1, <1>3, <1>4
<1> QED BY <1>1, <1>2, <1>3, <1>4, <1>5 DEF EndsAs

\* An engine counts: one request's record changes, and the counters of its
\* engine by one each under the keys it is now counted under.
CountsAs(w, v) ==
    /\ wire' = Becomes(w, v) /\ v # w /\ w.live
    /\ DOMAIN v = DOMAIN w /\ v.url = w.url
    /\ v.counted \in {"missed", "accepted", "allocated"}
    /\ v.arm = w.arm /\ v.stage = w.stage /\ v.part = w.part
    /\ v.ended = w.ended /\ v.live = w.live
    /\ \A key \in Keys : w.counted \in CountedAs[key] => v.counted \in CountedAs[key]
    /\ counts' = [counts EXCEPT ![w.url] =
          [key \in DOMAIN counts[w.url] |->
              IF w.counted \notin CountedAs[key] /\ v.counted \in CountedAs[key]
              THEN counts[w.url][key] + 1 ELSE counts[w.url][key]]]
    /\ UNCHANGED <<arm, doing, stages, phase, worker, before, after>>

\* Whatever it counts.
LEMMA CountsWhat ==
    ASSUME WireTypeOK, NEW w \in wire, LooksUp(w) \/ Allocates(w)
    PROVE  \E v : CountsAs(w, v)
<1>1. PICK to, keys :
          /\ wire' = Becomes(w, [w EXCEPT !.counted = to])
          /\ counts' = [counts EXCEPT ![w.url] =
                [key \in DOMAIN counts[w.url] |-> IF key \in keys THEN counts[w.url][key] + 1
                                                                  ELSE counts[w.url][key]]]
          /\ \/ w.counted = "no" /\ to = "missed" /\ keys = {"queries"}
             \/ w.counted = "no" /\ to = "accepted" /\ keys = {"queries", "transfer"}
             \/ w.counted = "accepted" /\ to = "allocated" /\ keys = {"hits"}
    <2>1. CASE LooksUp(w)
        BY <2>1 DEF LooksUp, Counts
    <2>2. CASE Allocates(w)
        BY <2>2 DEF Allocates, Counts
    <2> QED BY <2>1, <2>2
<1> DEFINE v == [w EXCEPT !.counted = to]
<1>2. w.live /\ UNCHANGED <<arm, doing, stages, phase, worker, before, after>>
    BY DEF LooksUp, Allocates, dispatching, window
<1>3. /\ DOMAIN v = DOMAIN w /\ v.ended = w.ended /\ v.live = w.live
      /\ v.arm = w.arm /\ v.stage = w.stage /\ v.part = w.part /\ v.url = w.url
      /\ v.counted = to
    BY RecordOf
<1> HIDE DEF v
<1>4. v # w /\ v.counted \in {"missed", "accepted", "allocated"}
    BY <1>1, <1>3
<1>5. \A key \in Keys : /\ w.counted \in CountedAs[key] => v.counted \in CountedAs[key]
                        /\ key \in keys <=> w.counted \notin CountedAs[key] /\ v.counted \in CountedAs[key]
    BY <1>1, <1>3 DEF Keys, CountedAs
<1>6. DOMAIN counts[w.url] \subseteq Keys
    BY DEF WireTypeOK
<1>7. counts' = [counts EXCEPT ![w.url] =
         [key \in DOMAIN counts[w.url] |->
             IF w.counted \notin CountedAs[key] /\ v.counted \in CountedAs[key]
             THEN counts[w.url][key] + 1 ELSE counts[w.url][key]]]
    BY <1>1, <1>5, <1>6
<1>8. wire' = Becomes(w, v)
    BY <1>1 DEF v
<1> QED BY <1>2, <1>3, <1>4, <1>5, <1>7, <1>8 DEF CountsAs

\* Steps that leave the requests and the counters alone.
Still == UNCHANGED <<arm, wire, counts>>

\* A request goes out.
LEMMA SendsRequest ==
    ASSUME ArmTypeOK, WireTypeOK, NEW t \in Threads, Sends(t)
    PROVE  \E v :
              /\ wire' = wire \cup {v}
              /\ DOMAIN v = {"arm", "stage", "part", "url", "live", "counted", "ended"}
              /\ v.arm = arm /\ v.stage = StageAt(t) /\ v.part = PartAt(t) /\ v.url \in Engines
              /\ v.counted = "no" /\ v.ended = "open"
              /\ UNCHANGED <<arm, doing, counts, before, after>>
<1> DEFINE record(u) == [arm |-> arm, stage |-> StageAt(t), part |-> PartAt(t), url |-> u,
                         live |-> TRUE, counted |-> "no", ended |-> "open"]
<1>1. PICK u \in Placement(StageAt(t)) : wire' = wire \cup {record(u)}
    BY DEF Sends, StageAt, PartAt
<1>2. UNCHANGED <<arm, doing, counts, before, after>>
    BY DEF Sends, window
<1>3. u \in Engines
    BY ArmsAssumption DEF Placement, Engines
<1>4. LET v == record(u)
      IN  /\ DOMAIN v = {"arm", "stage", "part", "url", "live", "counted", "ended"}
          /\ v.arm = arm /\ v.stage = StageAt(t) /\ v.part = PartAt(t) /\ v.url = u
          /\ v.counted = "no" /\ v.ended = "open"
    OBVIOUS
<1> HIDE DEF record
<1> QED BY <1>1, <1>2, <1>3, <1>4

\* Where a thread is in its stage after a step: a number.
LEMMA PartsAreNumbers ==
    ASSUME ArmTypeOK, NEW t \in Threads, PartAt(t) \in Nat,
           \/ \E p \in DOMAIN stages : Takes(t, p)
           \/ Skips(t) \/ Sends(t) \/ Offers(t) \/ Writes(t)
           \/ Answered(t) \/ Refused(t) \/ Raises(t)
    PROVE  PartAt(t)' \in Nat
<1>1. CASE \E p \in DOMAIN stages : Takes(t, p)
    BY <1>1, ThreadSteps DEF Begins
<1>2. CASE Skips(t)
    BY <1>2 DEF Skips, Idle, PartAt, ArmTypeOK
<1>3. CASE Sends(t) \/ Offers(t) \/ Writes(t)
    BY <1>3, ThreadSteps
<1>4. ASSUME NEW w, NEW ended, NEW live, Ends(t, w, ended, live)
      PROVE  PartAt(t)' \in Nat
    BY <1>4 DEF Ends, Continues, Idle, PartAt, ArmTypeOK
<1>5. CASE Answered(t) \/ Refused(t) \/ Raises(t)
    BY <1>4, <1>5 DEF Answered, Refused, Raises
<1> QED BY <1>1, <1>2, <1>3, <1>5

\* What each step is to the requests and the counters.
LEMMA WireSteps ==
    ASSUME ArmTypeOK, Working, [Next]_vars
    PROVE  \/ Still \/ NextArm
           \/ \E t \in Threads : Sends(t) \/ Answered(t) \/ Refused(t) \/ Raises(t)
           \/ \E w \in wire : LooksUp(w) \/ Allocates(w)
<1>1. CASE ScrapeBefore \/ ScrapeAfter \/ RunReturns \/ UNCHANGED vars
    BY <1>1 DEF ScrapeBefore, ScrapeAfter, RunReturns, vars, Still
<1>2. ASSUME NEW t \in Threads,
             (\E p \in DOMAIN stages : Takes(t, p)) \/ Skips(t) \/ Offers(t) \/ Writes(t)
      PROVE  Still
    BY <1>2 DEF Takes, Skips, Offers, Writes, Still
<1> QED BY <1>1, <1>2 DEF Next, Over

\* Requests, counters and parts keep their types.
LEMMA NextWireTypes ==
    ASSUME ArmTypeOK, Working, RequestedOnce, WireTypeOK, [Next]_vars
    PROVE  WireTypeOK'
<1> DEFINE Record(w, a) ==
               /\ DOMAIN w = {"arm", "stage", "part", "url", "live", "counted", "ended"}
               /\ w.arm \in 1 .. a /\ w.part \in Nat /\ w.url \in Engines
               /\ w.counted \in {"no", "missed", "accepted", "allocated"}
               /\ w.ended \in {"open", "answered", "refused", "raised"}
           Counters(c) ==
               /\ DOMAIN c = Engines
               /\ \A u \in Engines : /\ DOMAIN c[u] = IF u \in Connected THEN Keys ELSE {}
                                     /\ \A key \in DOMAIN c[u] : c[u][key] \in Nat
<1>1. \A w \in wire : Record(w, arm)
    BY DEF WireTypeOK
<1>2. IsFiniteSet(wire) /\ Counters(counts) /\ \A t \in Threads : PartAt(t) \in Nat
    BY DEF WireTypeOK
<1>3. arm \in 1 .. Len(Arms) /\ arm \in Nat /\ arm \in 1 .. arm
    BY ArmsAssumption DEF ArmTypeOK
<1>4. \A t \in Threads : PartAt(t)' \in Nat
    <2>1. CASE Quiet
        BY <1>2, <2>1 DEF Quiet, PartAt
    <2>2. CASE NextArm
        BY <1>2, <2>2 DEF NextArm, PartAt
    <2>3. ASSUME NEW t \in Threads,
                 \/ \E p \in DOMAIN stages : Takes(t, p)
                 \/ Skips(t) \/ Sends(t) \/ Offers(t) \/ Writes(t)
                 \/ Answered(t) \/ Refused(t) \/ Raises(t)
          PROVE  \A u \in Threads : PartAt(u)' \in Nat
        <3>1. PartAt(t)' \in Nat
            BY <1>2, <2>3, PartsAreNumbers
        <3>2. \A u \in Threads : u # t => PartAt(u)' = PartAt(u)
            BY <2>3, ThreadKinds DEF OnlyOf, PartAt
        <3> QED BY <1>2, <3>1, <3>2
    <2> QED BY <2>1, <2>2, <2>3, ArmSteps
<1>5. IsFiniteSet(wire)' /\ (\A w \in wire' : Record(w, arm')) /\ Counters(counts)'
    <2>1. CASE Still
        BY <1>1, <1>2, <2>1 DEF Still
    <2>2. CASE NextArm
        <3>1. wire' \subseteq wire /\ arm' = arm + 1 /\ counts' = counts
            BY <2>2 DEF NextArm
        <3>2. 1 .. arm \subseteq 1 .. arm'
            BY <1>3, <3>1
        <3>3. \A w \in wire' : Record(w, arm')
            BY <1>1, <3>1, <3>2
        <3> QED BY <1>2, <3>1, <3>3, FS_Subset
    <2>3. ASSUME NEW t \in Threads, Sends(t)
          PROVE  IsFiniteSet(wire)' /\ (\A w \in wire' : Record(w, arm')) /\ Counters(counts)'
        <3>1. PICK v : /\ wire' = wire \cup {v} /\ Record(v, arm)
                       /\ arm' = arm /\ counts' = counts
            <4>1. PartAt(t) \in Nat
                BY <1>2
            <4> QED BY <1>3, <2>3, <4>1, SendsRequest
        <3> HIDE DEF Record
        <3>2. \A w \in wire' : Record(w, arm')
            BY <1>1, <3>1
        <3> QED BY <1>2, <3>1, <3>2, FS_AddElement
    <2>4. ASSUME NEW t \in Threads, Answered(t) \/ Refused(t) \/ Raises(t)
          PROVE  IsFiniteSet(wire)' /\ (\A w \in wire' : Record(w, arm')) /\ Counters(counts)'
        <3>1. PICK w, v : w \in wire /\ EndsAs(t, w, v)
            BY <2>4, EndsWhat
        <3>2. IsFiniteSet(wire')
            BY <3>1, ChangesOne DEF EndsAs
        <3>3. Record(v, arm)
            BY <1>1, <3>1 DEF EndsAs
        <3> HIDE DEF Record
        <3> QED BY <1>1, <1>2, <3>1, <3>2, <3>3 DEF Becomes, EndsAs
    <2>5. ASSUME NEW w \in wire, LooksUp(w) \/ Allocates(w)
          PROVE  IsFiniteSet(wire)' /\ (\A x \in wire' : Record(x, arm')) /\ Counters(counts)'
        <3>1. PICK v : CountsAs(w, v)
            BY <2>5, CountsWhat
        <3>2. IsFiniteSet(wire')
            BY <3>1, ChangesOne DEF Keys, CountsAs
        <3>3. Record(v, arm)
            BY <1>1, <3>1 DEF CountsAs
        <3>4. Counters(counts')
            <4>1. /\ DOMAIN counts' = Engines
                  /\ \A u \in Engines : DOMAIN counts'[u] = DOMAIN counts[u]
                BY <1>1, <1>2, <3>1 DEF CountsAs
            <4>2. ASSUME NEW u \in Engines, NEW key \in DOMAIN counts[u]
                  PROVE  counts'[u][key] \in Nat
                <5>1. counts[u][key] \in Nat
                    BY <1>2
                <5> QED BY <1>1, <1>2, <3>1, <5>1 DEF CountsAs
            <4> QED BY <1>2, <4>1, <4>2
        <3> HIDE DEF Record, Counters
        <3> QED BY <1>1, <3>1, <3>2, <3>3, <3>4 DEF Becomes, CountsAs
    <2> QED BY <2>1, <2>2, <2>3, <2>4, <2>5, WireSteps
<1> QED BY <1>4, <1>5 DEF WireTypeOK

\* A request is open while a thread waits for it, and no engine works on one
\* that was answered.
LEMMA NextWaited ==
    ASSUME ArmTypeOK, Working, WireTypeOK, RequestedOnce, Waited, [Next]_vars
    PROVE  Waited'
<1> DEFINE Awaits(w) == \E t \in Threads : /\ At(t) \in {"wait", "write"}
                                           /\ StageAt(t) = w.stage /\ PartAt(t) = w.part
           Awaited(w) == /\ w.arm # arm => w.ended = "raised"
                         /\ w.ended \in {"answered", "refused"} => ~w.live
                         /\ w.ended = "open" => Awaits(w)
<1>1. \A w \in wire : Awaited(w)
    BY DEF Waited
\* Only the end of its request takes a thread away from it.
<1>2. ASSUME NEW t \in Threads, OnlyOf(t),
             \/ At(t) \notin {"wait", "write"}
             \/ /\ At(t)' \in {"wait", "write"}
                /\ StageAt(t)' = StageAt(t) /\ PartAt(t)' = PartAt(t)
      PROVE  \A w : Awaits(w) => Awaits(w)'
    BY <1>2 DEF OnlyOf, At, StageAt, PartAt
<1>3. ASSUME arm' = arm, wire' = wire, \A w : Awaits(w) => Awaits(w)'
      PROVE  Waited'
    <2> HIDE DEF Awaits
    <2>1. \A w \in wire' : Awaited(w)'
        BY <1>1, <1>3
    <2> QED BY <2>1 DEF Waited, Awaits
<1>4. CASE Quiet
    <2>1. \A w : Awaits(w)' <=> Awaits(w)
        BY <1>4 DEF Quiet, At, StageAt, PartAt
    <2>2. CASE wire' = wire
        BY <1>3, <1>4, <2>1, <2>2 DEF Quiet
    <2>3. ASSUME NEW w \in wire, LooksUp(w) \/ Allocates(w) PROVE Waited'
        <3>1. PICK v : CountsAs(w, v)
            BY <2>3, CountsWhat
        <3>2. /\ arm' = arm /\ wire' = (wire \ {w}) \cup {v}
              /\ v.arm = w.arm /\ v.ended = w.ended /\ v.live = w.live
              /\ v.stage = w.stage /\ v.part = w.part
            BY <3>1 DEF CountsAs, Becomes
        <3>3. Awaits(v) <=> Awaits(w)
            BY <3>2
        <3> HIDE DEF Awaits
        <3>4. Awaited(v)'
            BY <1>1, <2>1, <3>2, <3>3
        <3>5. \A x \in wire : Awaited(x)'
            BY <1>1, <2>1, <3>2
        <3>6. \A x \in wire' : Awaited(x)'
            BY <3>2, <3>4, <3>5
        <3> QED BY <3>6 DEF Waited, Awaits
    <2>4. wire' = wire \/ (\E w \in wire : LooksUp(w) \/ Allocates(w)) \/ NextArm
          \/ \E t \in Threads : Sends(t) \/ Answered(t) \/ Refused(t) \/ Raises(t)
        BY WireSteps DEF Still
    <2>5. ~NextArm
        BY <1>4, ArmsAssumption DEF NextArm, Quiet, ArmTypeOK
    <2>6. ~ \E t \in Threads : Sends(t) \/ Answered(t) \/ Refused(t) \/ Raises(t)
        <3> SUFFICES ASSUME NEW t \in Threads, Sends(t) \/ Answered(t) \/ Refused(t) \/ Raises(t)
                     PROVE  FALSE
            OBVIOUS
        <3>1. At(t)' # At(t)
            BY ThreadSteps, EndOfRequest DEF Leaves
        <3> QED BY <1>4, <3>1 DEF Quiet, At
    <2> QED BY <2>2, <2>3, <2>4, <2>5, <2>6
<1>5. CASE NextArm
    <2>1. \A w \in wire' : w \in wire /\ w.live /\ w.ended = "raised"
        <3>1. \A t \in Threads : At(t) = "idle"
            BY <1>5 DEF NextArm, Working
        <3>2. \A w \in wire : ~Awaits(w)
            BY <3>1
        <3> QED BY <1>1, <1>5, <3>2 DEF NextArm, WireTypeOK
    <2> QED BY <2>1 DEF Waited
<1>6. ASSUME NEW t \in Threads,
             (\E p \in DOMAIN stages : Takes(t, p)) \/ Skips(t) \/ Offers(t) \/ Writes(t)
      PROVE  Waited'
    <2>1. arm' = arm /\ wire' = wire
        BY <1>6 DEF Takes, Skips, Offers, Writes
    <2>2. OnlyOf(t)
        BY <1>6, ThreadKinds
    <2>3. \/ At(t) \notin {"wait", "write"}
          \/ /\ At(t)' \in {"wait", "write"}
             /\ StageAt(t)' = StageAt(t) /\ PartAt(t)' = PartAt(t)
        <3>1. Skips(t) => At(t) = "send"
            BY DEF Skips, At
        <3> QED BY <1>6, <3>1, ThreadSteps DEF GoesOn, Begins
    <2>4. \A w : Awaits(w) => Awaits(w)'
        BY <1>2, <2>2, <2>3
    <2> HIDE DEF Awaits
    <2> QED BY <1>3, <2>1, <2>4
<1>7. ASSUME NEW t \in Threads, Sends(t) PROVE Waited'
    <2>1. /\ OnlyOf(t) /\ At(t) = "send" /\ At(t)' = "wait"
          /\ StageAt(t)' = StageAt(t) /\ PartAt(t)' = PartAt(t)
        BY <1>7, ThreadSteps DEF GoesOn
    <2>2. \A w : Awaits(w) => Awaits(w)'
        BY <1>2, <2>1
    <2>3. PICK v : /\ wire' = wire \cup {v} /\ arm' = arm /\ v.arm = arm /\ v.ended = "open"
                   /\ v.stage = StageAt(t) /\ v.part = PartAt(t)
        BY <1>7, SendsRequest
    <2>4. Awaits(v)'
        BY <2>1, <2>3
    <2> HIDE DEF Awaits
    <2>5. \A w \in wire' : Awaited(w)'
        BY <1>1, <2>2, <2>3, <2>4
    <2> QED BY <2>5 DEF Waited, Awaits
<1>8. ASSUME NEW t \in Threads, Answered(t) \/ Refused(t) \/ Raises(t) PROVE Waited'
    <2>1. PICK w, v : w \in wire /\ EndsAs(t, w, v)
        BY <1>8, EndsWhat
    <2>2. /\ arm' = arm /\ wire' = (wire \ {w}) \cup {v}
          /\ w.arm = arm /\ v.arm = arm /\ w.stage = StageAt(t) /\ w.part = PartAt(t)
          /\ v.ended # "open" /\ v.ended # "raised" => ~v.live
          /\ v.ended \in {"answered", "refused", "raised"}
        BY <2>1 DEF EndsAs, Becomes
    <2>3. OnlyOf(t) /\ At(t) = "wait"
        BY <1>8, EndOfRequest
    <2>4. ASSUME NEW x \in wire, x # w, x.ended = "open" PROVE Awaits(x)'
        <3>1. x.arm = arm
            BY <1>1, <2>4
        <3>2. PICK u \in Threads : /\ At(u) \in {"wait", "write"}
                                   /\ StageAt(u) = x.stage /\ PartAt(u) = x.part
            BY <1>1, <2>4
        <3>3. u # t
            BY <2>1, <2>2, <2>4, <3>1, <3>2 DEF RequestedOnce
        <3> QED BY <2>3, <3>2, <3>3 DEF OnlyOf, At, StageAt, PartAt
    <2> HIDE DEF Awaits
    <2>5. \A x \in wire' : Awaited(x)'
        BY <1>1, <2>1, <2>2, <2>4
    <2> QED BY <2>5 DEF Waited, Awaits
<1> QED BY <1>4, <1>5, <1>6, <1>7, <1>8, ArmSteps

\* A thread at a stage has requested its parts in order, and nobody else has.
LEMMA NextRequestedOnce ==
    ASSUME ArmTypeOK, Working, WireTypeOK, RequestedOnce, [Next]_vars
    PROVE  RequestedOnce'
<1> DEFINE Same(w, v) == w.arm = v.arm /\ w.stage = v.stage /\ w.part = v.part
           Begun(w) == doing # "before" /\ w.stage \in DOMAIN phase /\ phase[w.stage] # "queued"
           Passed(w, t) == At(t) # "idle" /\ StageAt(t) = w.stage =>
                              /\ w.part <= PartAt(t)
                              /\ At(t) = "send" => w.part # PartAt(t)
<1>1. /\ \A w, v \in wire : Same(w, v) => w = v
      /\ \A w \in wire : w.arm = arm => Begun(w) /\ \A t \in Threads : Passed(w, t)
    BY DEF RequestedOnce
<1>2. \A w \in wire : w.part \in Nat
    BY DEF WireTypeOK
<1>3. \A t \in Threads : PartAt(t) \in Nat
    BY DEF WireTypeOK
<1>4. CASE Quiet
    <2>1. \A w, t : Passed(w, t)' <=> Passed(w, t)
        BY <1>4 DEF Quiet, At, StageAt, PartAt
    <2>3. doing' = "before" => doing = "before"
        <3>1. CASE ScrapeBefore \/ ScrapeAfter \/ RunReturns
            BY <3>1 DEF ScrapeBefore, ScrapeAfter, RunReturns
        <3>2. CASE \E w \in wire : LooksUp(w) \/ Allocates(w)
            BY <3>2 DEF LooksUp, Allocates
        <3>3. CASE NextArm
            BY <3>3, <1>4, ArmsAssumption DEF NextArm, Quiet, ArmTypeOK
        <3>4. ASSUME NEW t \in Threads,
                     \/ \E p \in DOMAIN stages : Takes(t, p)
                     \/ Skips(t) \/ Sends(t) \/ Offers(t) \/ Writes(t)
                     \/ Answered(t) \/ Refused(t) \/ Raises(t)
              PROVE  doing' = doing
            BY <3>4, ThreadKinds DEF GoesOn, Leaves, Begins
        <3>5. CASE UNCHANGED vars
            BY <3>5 DEF vars
        <3> QED BY <3>1, <3>2, <3>3, <3>4, <3>5 DEF Next, Over
    <2>4. \A w : Begun(w) => Begun(w)'
        BY <1>4, <2>3 DEF Quiet
    <2> HIDE DEF Begun, Passed
    <2>5. CASE wire' = wire
        <3>1. arm' = arm
            BY <1>4 DEF Quiet
        <3> QED BY <1>1, <2>1, <2>4, <2>5, <3>1 DEF RequestedOnce, Begun, Passed
    <2>6. ASSUME NEW w \in wire, LooksUp(w) \/ Allocates(w) PROVE RequestedOnce'
        <3>1. PICK v : CountsAs(w, v)
            BY <2>6, CountsWhat
        <3>2. /\ arm' = arm /\ wire' = (wire \ {w}) \cup {v}
              /\ v.arm = w.arm /\ v.stage = w.stage /\ v.part = w.part
            BY <3>1 DEF CountsAs, Becomes
        <3>3. \A x, y \in wire' : Same(x, y) => x = y
            BY <1>1, <3>2
        <3>4. Begun(v) = Begun(w) /\ \A t : Passed(v, t) = Passed(w, t)
            BY <3>2 DEF Begun, Passed
        <3>5. \A x \in wire' : x.arm = arm => Begun(x) /\ \A t \in Threads : Passed(x, t)
            BY <1>1, <3>2, <3>4
        <3> QED BY <2>1, <2>4, <3>2, <3>3, <3>5 DEF RequestedOnce, Begun, Passed
    <2>7. ~NextArm
        BY <1>4, ArmsAssumption DEF NextArm, Quiet, ArmTypeOK
    <2>8. ~ \E t \in Threads : Sends(t) \/ Answered(t) \/ Refused(t) \/ Raises(t)
        <3> SUFFICES ASSUME NEW t \in Threads, Sends(t) \/ Answered(t) \/ Refused(t) \/ Raises(t)
                     PROVE  FALSE
            OBVIOUS
        <3>1. At(t)' # At(t)
            BY ThreadSteps, EndOfRequest DEF Leaves
        <3> QED BY <1>4, <3>1 DEF Quiet, At
    <2> QED BY <2>5, <2>6, <2>7, <2>8, WireSteps DEF Still
<1>5. CASE NextArm
    <2>1. wire' \subseteq wire /\ arm' = arm + 1
        BY <1>5 DEF NextArm
    <2>2. \A w \in wire' : w.arm # arm'
        BY <2>1, ArmsAssumption DEF WireTypeOK, ArmTypeOK
    <2> QED BY <1>1, <2>1, <2>2 DEF RequestedOnce
<1>6. ASSUME NEW t \in Threads, OnlyOf(t), GoesOn(t) \/ Leaves(t),
             wire' = wire \/ \E w, v : w \in wire /\ EndsAs(t, w, v),
             At(t)' # "idle" => PartAt(t)' >= PartAt(t),
             At(t)' = "send" => PartAt(t)' > PartAt(t)
      PROVE  RequestedOnce'
    <2>1. arm' = arm /\ doing' = doing /\ DOMAIN phase' = DOMAIN phase
        BY <1>6 DEF GoesOn, Leaves
    <2>2. \A w : Begun(w) => Begun(w)'
        BY <1>6, <2>1 DEF GoesOn, Leaves
    <2>3. ASSUME NEW w, NEW u \in Threads, w.part \in Nat, Passed(w, u) PROVE Passed(w, u)'
        <3>1. CASE u # t
            BY <1>6, <2>3, <3>1 DEF OnlyOf, At, StageAt, PartAt
        <3>2. CASE u = t /\ At(t)' # "idle"
            <4>1. StageAt(t)' = StageAt(t) /\ At(t) # "idle"
                BY <1>6, <3>2 DEF GoesOn, Leaves
            <4>2. PartAt(t)' \in Nat
                <5>1. WireTypeOK'
                    BY NextWireTypes
                <5> QED BY <5>1 DEF WireTypeOK
            <4> QED BY <1>3, <1>6, <2>3, <3>2, <4>1, <4>2
        <3>3. CASE u = t /\ At(t)' = "idle"
            BY <3>3
        <3> QED BY <3>1, <3>2, <3>3
    <2> HIDE DEF Begun, Passed
    <2>4. CASE wire' = wire
        BY <1>1, <1>2, <2>1, <2>2, <2>3, <2>4 DEF RequestedOnce, Begun, Passed
    <2>5. ASSUME NEW w \in wire, NEW v, EndsAs(t, w, v) PROVE RequestedOnce'
        <3>2. /\ wire' = (wire \ {w}) \cup {v}
              /\ v.arm = w.arm /\ v.stage = w.stage /\ v.part = w.part
            BY <2>5 DEF EndsAs, Becomes
        <3>3. \A x, y \in wire' : Same(x, y) => x = y
            BY <1>1, <3>2
        <3>4. Begun(v) = Begun(w) /\ \A u : Passed(v, u) = Passed(w, u)
            BY <3>2 DEF Begun, Passed
        <3>5. \A x \in wire' : /\ x.arm = arm => Begun(x) /\ \A u \in Threads : Passed(x, u)
                               /\ x.part \in Nat
            BY <1>1, <1>2, <3>2, <3>4
        <3> QED BY <2>1, <2>2, <2>3, <3>3, <3>5 DEF RequestedOnce, Begun, Passed
    <2> QED BY <1>6, <2>4, <2>5
<1>7. ASSUME NEW t \in Threads, OnlyOf(t), Begins(t), wire' = wire
      PROVE  RequestedOnce'
    <2>1. /\ arm' = arm /\ doing' = doing
          /\ phase' = [phase EXCEPT ![StageAt(t)'] = "inflight"] /\ phase[StageAt(t)'] = "queued"
        BY <1>7 DEF Begins
    <2>2. ASSUME NEW w \in wire, w.arm = arm, NEW u \in Threads
          PROVE  Begun(w)' /\ Passed(w, u)'
        <3>1. w.stage # StageAt(t)'
            BY <1>1, <2>1, <2>2
        <3> QED BY <1>1, <1>7, <2>1, <2>2, <3>1 DEF OnlyOf, At, StageAt, PartAt
    <2>3. ASSUME NEW w \in wire, w.arm = arm PROVE Begun(w)'
        BY <1>1, <2>1, <2>3
    <2> HIDE DEF Begun, Passed
    <2> QED BY <1>1, <1>7, <2>1, <2>2, <2>3 DEF RequestedOnce, Begun, Passed
<1>8. ASSUME NEW t \in Threads, Sends(t) PROVE RequestedOnce'
    <2>1. /\ OnlyOf(t) /\ At(t) = "send" /\ At(t)' = "wait"
          /\ StageAt(t)' = StageAt(t) /\ PartAt(t)' = PartAt(t)
          /\ UNCHANGED <<arm, doing, stages, phase>>
        BY <1>8, ThreadSteps DEF GoesOn
    <2>2. PICK v : /\ wire' = wire \cup {v} /\ v.arm = arm
                   /\ v.stage = StageAt(t) /\ v.part = PartAt(t)
        BY <1>8, SendsRequest
    <2>3. \A w \in wire : ~Same(w, v)
        BY <1>1, <2>1, <2>2
    <2>4. \A x, y \in wire' : Same(x, y) => x = y
        BY <1>1, <2>2, <2>3
    <2>5. \A u \in Threads : u # t => At(u)' = At(u) /\ StageAt(u)' = StageAt(u) /\ PartAt(u)' = PartAt(u)
        BY <2>1 DEF OnlyOf, At, StageAt, PartAt
    <2>7. ASSUME NEW w \in wire, w.arm = arm, NEW u \in Threads PROVE Passed(w, u)'
        BY <1>1, <2>1, <2>5, <2>7
    <2>8. Begun(v) /\ \A u \in Threads : Passed(v, u)'
        <3>1. /\ StageAt(t) \in DOMAIN stages /\ phase[StageAt(t)] = "inflight" /\ doing = "run"
              /\ \A u \in Threads : At(u) # "idle" /\ StageAt(u) = StageAt(t) => u = t
            BY <2>1 DEF Working
        <3>2. Begun(v)
            BY <2>2, <3>1 DEF ArmTypeOK
        <3>3. \A u \in Threads : Passed(v, u)'
            BY <1>3, <2>1, <2>2, <2>5, <3>1
        <3> QED BY <3>2, <3>3
    <2>9. \A w : Begun(w)' <=> Begun(w)
        BY <2>1
    <2> HIDE DEF Begun, Passed
    <2>10. \A w \in wire' : w.arm = arm' => Begun(w)' /\ \A u \in Threads : Passed(w, u)'
        BY <1>1, <2>1, <2>2, <2>7, <2>8, <2>9
    <2> QED BY <2>4, <2>10 DEF RequestedOnce, Begun, Passed
<1>9. ASSUME NEW t \in Threads, (\E p \in DOMAIN stages : Takes(t, p))
      PROVE  RequestedOnce'
    <2>1. wire' = wire
        BY <1>9 DEF Takes
    <2>2. OnlyOf(t) /\ Begins(t)
        BY <1>9, ThreadSteps
    <2> QED BY <1>7, <2>1, <2>2
<1>10. ASSUME NEW t \in Threads, Skips(t) \/ Offers(t) \/ Writes(t)
       PROVE  RequestedOnce'
    <2>1. wire' = wire
        BY <1>10 DEF Skips, Offers, Writes
    <2>2. OnlyOf(t) /\ (GoesOn(t) \/ Leaves(t))
        BY <1>10, ThreadSteps
    <2>3. /\ At(t)' # "idle" => PartAt(t)' >= PartAt(t)
          /\ At(t)' = "send" => PartAt(t)' > PartAt(t)
        BY <1>3, <1>10, ThreadSteps DEF Leaves
    <2> QED BY <1>6, <2>1, <2>2, <2>3
<1>11. ASSUME NEW t \in Threads, Answered(t) \/ Refused(t) \/ Raises(t)
       PROVE  RequestedOnce'
    <2>1. \E w, v : w \in wire /\ EndsAs(t, w, v)
        BY <1>11, EndsWhat
    <2>2. OnlyOf(t) /\ (GoesOn(t) \/ Leaves(t))
        BY <1>11, EndOfRequest
    <2>3. /\ At(t)' # "idle" => PartAt(t)' >= PartAt(t)
          /\ At(t)' = "send" => PartAt(t)' > PartAt(t)
        BY <1>3, <1>11, EndOfRequest DEF Leaves
    <2> QED BY <1>6, <2>1, <2>2, <2>3
<1> QED BY <1>4, <1>5, <1>8, <1>9, <1>10, <1>11, ArmSteps

\* What an engine had when it was scraped, and what it counted since.
HeldBefore(u) ==
    before[u].ok =>
        /\ DOMAIN before[u].counters = DOMAIN counts[u]
        /\ \A key \in DOMAIN counts[u] :
              /\ before[u].counters[key] \in Nat
              /\ counts[u][key] = before[u].counters[key] + Cardinality(CountedOn(u, key))
HeldAfter(u) ==
    after[u].ok =>
        /\ DOMAIN after[u].counters = DOMAIN counts[u]
        /\ \A key \in DOMAIN counts[u] : after[u].counters[key] = counts[u][key]

\* The invariant's last part, with what it says of one engine named.
LEMMA WindowedIs ==
    Windowed <=>
        /\ DOMAIN before \subseteq Engines /\ DOMAIN after \subseteq Engines
        /\ doing = "before" => DOMAIN before # Engines
        /\ doing = "after" => DOMAIN after # Engines
        /\ doing \in {"before", "run"} => after = NoUrl
        /\ Clean => /\ \A u \in DOMAIN before : HeldBefore(u)
                    /\ \A u \in DOMAIN after : HeldAfter(u)
BY Zenon DEF Windowed, HeldBefore, HeldAfter

\* A scrape adds the engine next in line, with what it exposes or as failed.
LEMMA ScrapedWhat ==
    ASSUME NEW scraped, DOMAIN scraped \subseteq Engines, DOMAIN scraped # Engines,
           NEW next \in Scraped(scraped)
    PROVE  \E u \in Engines :
              /\ DOMAIN next = DOMAIN scraped \cup {u}
              /\ \A v \in DOMAIN scraped : v # u => next[v] = scraped[v]
              /\ next[u] \in {Snapshot(counts[u]), FailedSnapshot}
<1> DEFINE left == {n \in DOMAIN Urls : Urls[n] \notin DOMAIN scraped}
           u == NextUrl(scraped)
<1>1. left # {} /\ left \in SUBSET Nat
    <2>1. PICK x \in Engines : x \notin DOMAIN scraped
        OBVIOUS
    <2>2. PICK n \in DOMAIN Urls : x = Urls[n]
        BY DEF Engines
    <2> QED BY <2>1, <2>2, ArmsAssumption
<1>2. PICK n \in left : \A m \in left : n <= m
    BY <1>1, Least
<1>3. Min(left) \in left
    BY <1>2 DEF Min
<1>4. u \in Engines
    BY <1>3 DEF NextUrl, Engines
<1>5. \E snapshot \in {Snapshot(counts[u]), FailedSnapshot} :
         next = [v \in DOMAIN scraped \cup {u} |-> IF v = u THEN snapshot ELSE scraped[v]]
    BY DEF Scraped
<1> HIDE DEF u
<1> QED BY <1>4, <1>5

\* What a scrape that did not fail says of an engine.
LEMMA SnapshotIs ==
    ASSUME WireTypeOK, NEW u \in Engines, NEW snapshot \in {Snapshot(counts[u]), FailedSnapshot},
           snapshot.ok
    PROVE  /\ DOMAIN snapshot.counters = DOMAIN counts[u]
           /\ \A key \in DOMAIN counts[u] : snapshot.counters[key] = counts[u][key]
<1>1. snapshot = Snapshot(counts[u])
    BY DEF FailedSnapshot
<1>2. DOMAIN counts[u] \cap Keys = DOMAIN counts[u]
    BY DEF WireTypeOK
<1>3. snapshot.counters = [key \in DOMAIN counts[u] |-> counts[u][key]]
    BY <1>1, <1>2 DEF Snapshot
<1> QED BY <1>3

\* A request once given up stays so for the arm.
LEMMA CleanBefore ==
    ASSUME ArmTypeOK, Working, WireTypeOK, RequestedOnce, [Next]_vars, ~NextArm, Clean'
    PROVE  Clean
<1>1. CASE Still
    BY <1>1 DEF Still, Clean
<1>2. ASSUME NEW t \in Threads, Sends(t) PROVE Clean
    BY <1>2, SendsRequest DEF Clean
<1>3. ASSUME NEW t \in Threads, Answered(t) \/ Refused(t) \/ Raises(t) PROVE Clean
    <2>1. PICK w, v : w \in wire /\ EndsAs(t, w, v)
        BY <1>3, EndsWhat
    <2>2. wire' = (wire \ {w}) \cup {v} /\ w.ended = "open"
        BY <2>1 DEF EndsAs, Becomes
    <2> QED BY <2>2 DEF Clean
<1>4. ASSUME NEW w \in wire, LooksUp(w) \/ Allocates(w) PROVE Clean
    <2>1. PICK v : CountsAs(w, v)
        BY <1>4, CountsWhat
    <2>2. wire' = (wire \ {w}) \cup {v} /\ v.ended = w.ended
        BY <2>1 DEF CountsAs, Becomes
    <2> QED BY <2>2 DEF Clean
<1> QED BY <1>1, <1>2, <1>3, <1>4, WireSteps

\* The window stays the arm's.
LEMMA NextWindowed ==
    ASSUME ArmTypeOK, Working, WireTypeOK, Waited, RequestedOnce, Windowed, [Next]_vars
    PROVE  Windowed'
<1>1. /\ DOMAIN before \subseteq Engines /\ DOMAIN after \subseteq Engines
      /\ doing = "before" => DOMAIN before # Engines
      /\ doing = "after" => DOMAIN after # Engines
      /\ doing \in {"before", "run"} => after = NoUrl
      /\ Clean => /\ \A u \in DOMAIN before : HeldBefore(u)
                  /\ \A u \in DOMAIN after : HeldAfter(u)
    BY WindowedIs
<1>2. ASSUME NEW u, UNCHANGED <<wire, counts>>
      PROVE  /\ before'[u] = before[u] => HeldBefore(u)' = HeldBefore(u)
             /\ after'[u] = after[u] => HeldAfter(u)' = HeldAfter(u)
    BY <1>2 DEF HeldBefore, HeldAfter, CountedOn
<1>3. CASE ScrapeBefore
    <2>1. /\ doing = "before" /\ before' \in Scraped(before) /\ UNCHANGED <<wire, counts, after>>
          /\ doing' = IF DOMAIN before' = Engines THEN "run" ELSE "before"
        BY <1>3 DEF ScrapeBefore, AllScraped
    <2>2. PICK u \in Engines :
              /\ DOMAIN before' = DOMAIN before \cup {u}
              /\ \A v \in DOMAIN before : v # u => before'[v] = before[v]
              /\ before'[u] \in {Snapshot(counts[u]), FailedSnapshot}
        BY <1>1, <2>1, ScrapedWhat
    <2>3. ASSUME Clean' PROVE HeldBefore(u)'
        <3>1. wire = {}
            BY <2>1, <2>3 DEF Clean, Waited, RequestedOnce
        <3>2. \A key : Cardinality(CountedOn(u, key)') = 0
            BY <2>1, <3>1, FS_EmptySet DEF CountedOn
        <3>3. before'[u].ok =>
                 /\ DOMAIN before'[u].counters = DOMAIN counts[u]
                 /\ \A key \in DOMAIN counts[u] : before'[u].counters[key] = counts[u][key]
            BY <2>2, SnapshotIs
        <3>4. \A key \in DOMAIN counts[u] : counts[u][key] \in Nat
            BY DEF WireTypeOK
        <3> QED BY <2>1, <3>2, <3>3, <3>4 DEF HeldBefore
    <2>4. Clean' => Clean
        BY <2>1 DEF Clean
    <2>5. Clean' => /\ \A v \in DOMAIN before' : HeldBefore(v)'
                    /\ \A v \in DOMAIN after' : HeldAfter(v)'
        <3>1. UNCHANGED <<wire, counts>> /\ after' = after
            BY <2>1
        <3>2. ASSUME Clean' , NEW v \in DOMAIN before' PROVE HeldBefore(v)'
            BY <1>1, <1>2, <2>2, <2>3, <2>4, <3>1, <3>2
        <3>3. ASSUME Clean', NEW v \in DOMAIN after' PROVE HeldAfter(v)'
            BY <1>1, <1>2, <2>4, <3>1, <3>3
        <3> QED BY <3>2, <3>3
    <2>6. /\ DOMAIN before' \subseteq Engines /\ DOMAIN after' \subseteq Engines
          /\ doing' = "before" => DOMAIN before' # Engines
          /\ doing' # "after" /\ after' = NoUrl
        BY <1>1, <2>1, <2>2
    <2> QED BY <2>5, <2>6, Zenon DEF Windowed, HeldBefore, HeldAfter
\* Once the arm's stages have run, nothing is counted but for requests given up.
<1>4. ASSUME doing \in {"after", "over"}, Clean PROVE \A w \in wire : ~w.live
    <2>1. \A t \in Threads : At(t) = "idle"
        BY <1>4 DEF Working
    <2> QED BY <1>4, <2>1 DEF Clean, Waited, WireTypeOK
<1>5. CASE ScrapeAfter
    <2>1. /\ doing = "after" /\ after' \in Scraped(after) /\ UNCHANGED <<wire, counts, before>>
          /\ doing' = IF DOMAIN after' = Engines THEN "over" ELSE "after"
        BY <1>5 DEF ScrapeAfter, AllScraped
    <2>2. PICK u \in Engines :
              /\ DOMAIN after' = DOMAIN after \cup {u}
              /\ \A v \in DOMAIN after : v # u => after'[v] = after[v]
              /\ after'[u] \in {Snapshot(counts[u]), FailedSnapshot}
        BY <1>1, <2>1, ScrapedWhat
    <2>3. HeldAfter(u)'
        <3>1. after'[u].ok =>
                 /\ DOMAIN after'[u].counters = DOMAIN counts[u]
                 /\ \A key \in DOMAIN counts[u] : after'[u].counters[key] = counts[u][key]
            BY <2>2, SnapshotIs
        <3> QED BY <2>1, <3>1 DEF HeldAfter
    <2>4. Clean' => Clean
        BY <2>1 DEF Clean
    <2>5. Clean' => /\ \A v \in DOMAIN before' : HeldBefore(v)'
                    /\ \A v \in DOMAIN after' : HeldAfter(v)'
        <3>1. UNCHANGED <<wire, counts>> /\ before' = before
            BY <2>1
        <3>2. ASSUME Clean' , NEW v \in DOMAIN before' PROVE HeldBefore(v)'
            BY <1>1, <1>2, <2>4, <3>1, <3>2
        <3>3. ASSUME Clean', NEW v \in DOMAIN after' PROVE HeldAfter(v)'
            BY <1>1, <1>2, <2>2, <2>3, <2>4, <3>1, <3>3
        <3> QED BY <3>2, <3>3
    <2>6. /\ DOMAIN before' \subseteq Engines /\ DOMAIN after' \subseteq Engines
          /\ doing' \notin {"before", "run"}
          /\ doing' = "after" => DOMAIN after' # Engines
        BY <1>1, <2>1, <2>2
    <2> QED BY <2>5, <2>6, Zenon DEF Windowed, HeldBefore, HeldAfter
<1>6. CASE NextArm
    <2>1. before' = NoUrl /\ after' = NoUrl /\ doing' \in {"before", "run"}
        BY <1>6 DEF NextArm, FirstThing
    <2>2. DOMAIN NoUrl = {} /\ Engines # {}
        BY ArmsAssumption DEF NoUrl, Engines
    <2> QED BY <2>1, <2>2 DEF Windowed
\* Every other step leaves the scrapes alone.
<1>7. ASSUME UNCHANGED <<before, after>>, doing' = doing \/ RunReturns,
             Clean' => /\ \A u \in DOMAIN before : HeldBefore(u)'
                       /\ \A u \in DOMAIN after : HeldAfter(u)'
      PROVE  Windowed'
    <2>1. RunReturns => doing = "run" /\ doing' \in {"after", "over"}
        BY DEF RunReturns
    <2>2. DOMAIN NoUrl = {} /\ Engines # {}
        BY ArmsAssumption DEF NoUrl, Engines
    <2>3. /\ DOMAIN before' \subseteq Engines /\ DOMAIN after' \subseteq Engines
          /\ doing' = "before" => DOMAIN before' # Engines
          /\ doing' = "after" => DOMAIN after' # Engines
          /\ doing' \in {"before", "run"} => after' = NoUrl
        BY <1>1, <1>7, <2>1, <2>2
    <2>4. Clean' => /\ \A u \in DOMAIN before' : HeldBefore(u)'
                    /\ \A u \in DOMAIN after' : HeldAfter(u)'
        BY <1>7
    <2> QED BY <2>3, <2>4, Zenon DEF Windowed, HeldBefore, HeldAfter
<1>8. ASSUME UNCHANGED <<before, after, wire, counts>>, doing' = doing \/ RunReturns
      PROVE  Windowed'
    <2>1. Clean' => Clean
        BY <1>8 DEF Clean
    <2>2. ASSUME Clean' PROVE /\ \A u \in DOMAIN before : HeldBefore(u)'
                              /\ \A u \in DOMAIN after : HeldAfter(u)'
        <3>1. ASSUME NEW u \in DOMAIN before PROVE HeldBefore(u)'
            BY <1>1, <1>2, <1>8, <2>1, <2>2, <3>1
        <3>2. ASSUME NEW u \in DOMAIN after PROVE HeldAfter(u)'
            BY <1>1, <1>2, <1>8, <2>1, <2>2, <3>2
        <3> QED BY <3>1, <3>2
    <2> QED BY <1>7, <1>8, <2>2
<1>9. CASE RunReturns
    BY <1>8, <1>9 DEF RunReturns, window
<1>10. CASE UNCHANGED vars
    BY <1>8, <1>10 DEF vars, window
<1>11. ASSUME NEW t \in Threads,
              (\E p \in DOMAIN stages : Takes(t, p)) \/ Skips(t) \/ Offers(t) \/ Writes(t)
       PROVE  Windowed'
    BY <1>8, <1>11 DEF Takes, Skips, Offers, Writes, window
<1>12. ASSUME NEW t \in Threads, Sends(t) PROVE Windowed'
    <2>1. PICK v : /\ wire' = wire \cup {v} /\ v.counted = "no" /\ v.ended = "open"
                   /\ UNCHANGED <<arm, doing, counts, before, after>>
        BY <1>12, SendsRequest
    <2>2. \A u : \A key \in Keys : CountedOn(u, key)' = CountedOn(u, key)
        BY <2>1 DEF CountedOn, CountedAs, Keys
    <2>3. Clean' => Clean
        BY <2>1 DEF Clean
    <2>4. \A u \in DOMAIN before : HeldBefore(u) => HeldBefore(u)'
        <3> TAKE u \in DOMAIN before
        <3>1. DOMAIN counts[u] \subseteq Keys
            BY <1>1 DEF WireTypeOK
        <3> QED BY <2>1, <2>2, <3>1 DEF HeldBefore
    <2>5. \A u \in DOMAIN after : HeldAfter(u) => HeldAfter(u)'
        BY <2>1 DEF HeldAfter
    <2> QED BY <1>1, <1>7, <2>1, <2>3, <2>4, <2>5
<1>13. ASSUME NEW t \in Threads, Answered(t) \/ Refused(t) \/ Raises(t) PROVE Windowed'
    <2>1. PICK w, v : w \in wire /\ EndsAs(t, w, v)
        BY <1>13, EndsWhat
    <2>2. /\ wire' = Becomes(w, v) /\ v # w /\ v.counted = w.counted /\ v.url = w.url
          /\ v.arm = w.arm /\ v.stage = w.stage /\ v.part = w.part
          /\ UNCHANGED <<counts, before, after, arm, doing>>
        BY <2>1 DEF EndsAs
    <2>3. \A u, key : Cardinality(CountedOn(u, key)') = Cardinality(CountedOn(u, key))
        BY <2>1, <2>2, ChangesOne
    <2>4. ~NextArm
        BY <2>2, ArmsAssumption DEF NextArm, ArmTypeOK
    <2>5. Clean' => Clean
        BY <2>4, CleanBefore
    <2>6. \A u \in DOMAIN before : HeldBefore(u) => HeldBefore(u)'
        BY <2>2, <2>3 DEF HeldBefore
    <2>7. \A u \in DOMAIN after : HeldAfter(u) => HeldAfter(u)'
        BY <2>2 DEF HeldAfter
    <2> QED BY <1>1, <1>7, <2>2, <2>5, <2>6, <2>7
<1>14. ASSUME NEW w \in wire, LooksUp(w) \/ Allocates(w) PROVE Windowed'
    <2>1. PICK v : CountsAs(w, v)
        BY <1>14, CountsWhat
    <2>2. /\ wire' = Becomes(w, v) /\ v # w /\ v.url = w.url /\ w.live
          /\ v.arm = w.arm /\ v.stage = w.stage /\ v.part = w.part
          /\ \A key \in Keys : w.counted \in CountedAs[key] => v.counted \in CountedAs[key]
          /\ UNCHANGED <<before, after, arm, doing>>
        BY <2>1 DEF CountsAs
    <2>3. counts' = [counts EXCEPT ![w.url] =
              [key \in DOMAIN counts[w.url] |->
                  IF w.counted \notin CountedAs[key] /\ v.counted \in CountedAs[key]
                  THEN counts[w.url][key] + 1 ELSE counts[w.url][key]]]
        BY <2>1 DEF CountsAs
    <2>4. ~NextArm
        BY <2>2, ArmsAssumption DEF NextArm, ArmTypeOK
    <2>5. Clean' => Clean
        BY <2>4, CleanBefore
    <2>6. ASSUME NEW u \in DOMAIN before, HeldBefore(u) PROVE HeldBefore(u)'
        <3>1. u \in Engines /\ DOMAIN counts = Engines /\ w.url \in Engines /\ DOMAIN counts[u] \subseteq Keys
            BY <1>1 DEF WireTypeOK
        <3>2. DOMAIN counts'[u] = DOMAIN counts[u]
            BY <2>3, <3>1
        <3>3. ASSUME NEW key \in DOMAIN counts[u]
              PROVE  counts'[u][key] - counts[u][key] =
                        Cardinality(CountedOn(u, key)') - Cardinality(CountedOn(u, key))
            <4>1. counts[u][key] \in Nat /\ Cardinality(CountedOn(u, key)) \in Nat
                BY <3>1, CountedFinite DEF WireTypeOK
            <4>2. counts'[u][key] =
                      IF w.url = u /\ w.counted \notin CountedAs[key] /\ v.counted \in CountedAs[key]
                      THEN counts[u][key] + 1 ELSE counts[u][key]
                BY <2>3, <3>1
            <4>3. Cardinality(CountedOn(u, key)') =
                      IF w.url = u /\ w.counted \notin CountedAs[key] /\ v.counted \in CountedAs[key]
                      THEN Cardinality(CountedOn(u, key)) + 1 ELSE Cardinality(CountedOn(u, key))
                BY <2>2, <3>1, ChangesOne
            <4> QED BY <4>1, <4>2, <4>3
        <3>4. \A key \in DOMAIN counts[u] :
                 counts[u][key] \in Nat /\ counts'[u][key] \in Nat
                 /\ Cardinality(CountedOn(u, key)) \in Nat /\ Cardinality(CountedOn(u, key)') \in Nat
            <4>1. WireTypeOK'
                BY NextWireTypes
            <4>2. \A key : Cardinality(CountedOn(u, key)') \in Nat
                <5>1. IsFiniteSet(wire')
                    BY <4>1 DEF WireTypeOK
                <5>2. \A key : CountedOn(u, key)' \subseteq wire'
                    BY DEF CountedOn
                <5> QED BY <5>1, <5>2, FS_Subset, FS_CardinalityType
            <4> QED BY <3>1, <3>2, <4>1, <4>2, CountedFinite DEF WireTypeOK
        <3>5. ASSUME before[u].ok
              PROVE  /\ DOMAIN before[u].counters = DOMAIN counts'[u]
                     /\ \A key \in DOMAIN counts'[u] :
                           /\ before[u].counters[key] \in Nat
                           /\ counts'[u][key] = before[u].counters[key]
                                                    + Cardinality(CountedOn(u, key)')
            <4>1. DOMAIN before[u].counters = DOMAIN counts[u]
                BY <2>6, <3>5 DEF HeldBefore
            <4>2. ASSUME NEW key \in DOMAIN counts[u]
                  PROVE  /\ before[u].counters[key] \in Nat
                         /\ counts'[u][key] = before[u].counters[key]
                                                  + Cardinality(CountedOn(u, key)')
                <5>1. /\ before[u].counters[key] \in Nat
                      /\ counts[u][key] = before[u].counters[key] + Cardinality(CountedOn(u, key))
                    BY <2>6, <3>5 DEF HeldBefore
                <5>2. /\ counts[u][key] \in Nat /\ counts'[u][key] \in Nat
                      /\ Cardinality(CountedOn(u, key)) \in Nat
                      /\ Cardinality(CountedOn(u, key)') \in Nat
                    BY <3>4
                <5> QED BY <3>3, <5>1, <5>2
            <4> QED BY <3>2, <4>1, <4>2
        <3> QED BY <2>2, <3>5 DEF HeldBefore
    <2>7. Clean => DOMAIN after = {}
        <3>1. DOMAIN NoUrl = {}
            BY DEF NoUrl
        <3>2. doing \in {"before", "run", "after", "over"}
            BY DEF ArmTypeOK
        <3> QED BY <1>1, <1>4, <2>2, <3>1, <3>2
    <2> QED BY <1>1, <1>7, <2>2, <2>5, <2>6, <2>7
<1> QED BY <1>3, <1>5, <1>6, <1>9, <1>10, <1>11, <1>12, <1>13, <1>14 DEF Next, Over

\* A run starts with nothing requested and nothing scraped.
LEMMA InitWindow == Init => WindowInv
<1> SUFFICES ASSUME Init PROVE WindowInv
    OBVIOUS
<1>1. wire = {} /\ before = NoUrl /\ after = NoUrl /\ doing \in {"before", "run"}
    BY DEF Init, FirstThing
<1>2. DOMAIN NoUrl = {} /\ Engines # {}
    <2>1. 1 \in DOMAIN Urls
        BY ArmsAssumption
    <2>2. Urls[1] \in Engines
        BY <2>1 DEF Engines
    <2> QED BY <2>2 DEF NoUrl
<1>3. IsFiniteSet(wire)
    BY <1>1, FS_EmptySet
<1>4. counts = [u \in Engines |-> IF u \in Connected
                                  THEN [queries |-> 2, hits |-> 1, transfer |-> 1]
                                  ELSE [key \in {} |-> 0]]
    BY DEF Init
<1>5. /\ DOMAIN counts = Engines
      /\ \A u \in Engines : /\ DOMAIN counts[u] = IF u \in Connected THEN Keys ELSE {}
                            /\ \A key \in DOMAIN counts[u] : counts[u][key] \in Nat
    <2>1. DOMAIN counts = Engines
        BY <1>4
    <2>2. ASSUME NEW u \in Engines
          PROVE  /\ DOMAIN counts[u] = IF u \in Connected THEN Keys ELSE {}
                 /\ \A key \in DOMAIN counts[u] : counts[u][key] \in Nat
        <3>1. CASE u \in Connected
            <4>1. counts[u] = [queries |-> 2, hits |-> 1, transfer |-> 1]
                BY <1>4, <3>1
            <4> QED BY <3>1, <4>1 DEF Keys
        <3>2. CASE u \notin Connected
            <4>1. counts[u] = [key \in {} |-> 0]
                BY <1>4, <3>2
            <4> QED BY <3>2, <4>1
        <3> QED BY <3>1, <3>2
    <2> QED BY <2>1, <2>2
<1>6. \A t \in Threads : PartAt(t) \in Nat
    BY DEF Init, PartAt, Idle
<1>7. WireTypeOK
    BY <1>1, <1>3, <1>5, <1>6 DEF WireTypeOK
<1>8. Waited /\ RequestedOnce
    BY <1>1 DEF Waited, RequestedOnce
<1>9. Windowed
    BY <1>1, <1>2 DEF Windowed
<1> QED BY <1>7, <1>8, <1>9 DEF WindowInv

\* The invariant of the counters holds of every list of arms.
THEOREM WindowInvariant == Spec => []WindowInv
<1>1. ArmInv /\ WindowInv /\ [Next]_vars => WindowInv'
    <2> SUFFICES ASSUME ArmInv, WindowInv, [Next]_vars PROVE WindowInv'
        OBVIOUS
    <2>1. ArmTypeOK /\ Working /\ WireTypeOK /\ Waited /\ RequestedOnce /\ Windowed
        BY DEF ArmInv, WindowInv
    <2> QED BY <2>1, NextWireTypes, NextWaited, NextRequestedOnce, NextWindowed DEF WindowInv
<1> QED BY <1>1, InitWindow, ArmInvariant, PTL DEF Spec

\* The fold of the differences is the sum of what they are.
LEMMA TotalsAdd ==
    ASSUME NEW b, NEW a, NEW key \in Keys, Measured(b, a, key) # {},
           IsFiniteSet(Measured(b, a, key)), NEW w,
           \A u \in Measured(b, a, key) : w[u] = Delta(b, a, u, key) /\ w[u] \in Nat
    PROVE  Totals(b, a)[key] = Total(w, Measured(b, a, key))
<1> DEFINE S == Measured(b, a, key)
           Folds(g) ==
             g = [s \in SUBSET S |->
                    IF s = {} THEN 0
                    ELSE Delta(b, a, CHOOSE x \in s : TRUE, key) + g[s \ {CHOOSE x \in s : TRUE}]]
           f == CHOOSE g : Folds(g)
           h == CHOOSE g : Sums(g, w, S)
<1>1. Totals(b, a)[key] = f[S]
    BY DEF Totals, MapThenSumSet, MapThenFoldSet
<1> HIDE DEF S
<1>2. \A s \in SUBSET S : s # {} => Delta(b, a, First(s), key) = w[First(s)]
    BY DEF First, S
<1>a. ASSUME NEW g, Folds(g) PROVE Sums(g, w, S)
    BY <1>2, <1>a DEF Sums, First
<1>b. ASSUME NEW g, Sums(g, w, S) PROVE Folds(g)
    BY <1>2, <1>b DEF Sums, First
<1> HIDE DEF Folds
<1>3. \A g : Folds(g) <=> Sums(g, w, S)
    BY <1>a, <1>b
<1>4. IsFiniteSet(S) /\ S \in SUBSET (S \cap S) /\ \A u \in S \cup S : w[u] \in Nat
    BY DEF S
<1>5. PICK g : Sums(g, w, S)
    BY <1>4, SumsExist
<1>6. Folds(f) /\ Sums(h, w, S)
    BY <1>3, <1>5
<1>7. Sums(f, w, S)
    BY <1>3, <1>6
<1> HIDE DEF f, h
<1>8. f[S] = h[S]
    BY <1>4, <1>6, <1>7, SumsAgree
<1> QED BY <1>1, <1>8 DEF Total, h, S

\* What an arm's window says is what the arm's requests counted, with nothing
\* given up: on every list of arms, any engines, any of them scraped or not.
THEOREM WindowsAreTheArms == Spec => []WindowIsTheArm
<1> DEFINE M == Paired(before, after) \cap Connected
           Arms_(key) == {w \in wire : /\ w.arm = arm /\ w.url \in M
                                       /\ w.counted \in CountedAs[key]}
<1>1. ASSUME ArmInv, WindowInv, doing = "over", Clean
      PROVE  /\ ~ResetDetected(before, after)
             /\ Totals(before, after) =
                   [key \in {k \in Keys : M # {}} |-> Cardinality(Arms_(key))]
    <2>1. M \subseteq Engines /\ IsFiniteSet(M)
        <3>1. DOMAIN before \subseteq Engines
            BY <1>1 DEF WindowInv, Windowed
        <3>2. M \subseteq Engines
            BY <3>1 DEF Paired
        <3>3. IsFiniteSet(DOMAIN Urls)
            BY ArmsAssumption, FS_Interval
        <3>4. IsFiniteSet(Engines)
            <4> DEFINE f == [n \in DOMAIN Urls |-> Urls[n]]
            <4>1. f \in Surjection(DOMAIN Urls, Engines)
                BY DEF Surjection, Engines
            <4> QED BY <3>3, <4>1, FS_Surjection
        <3> QED BY <3>2, <3>4, FS_Subset
    <2>2. ASSUME NEW u \in Paired(before, after)
          PROVE  /\ DOMAIN before[u].counters = IF u \in Connected THEN Keys ELSE {}
                 /\ DOMAIN after[u].counters = IF u \in Connected THEN Keys ELSE {}
                 /\ u \in Connected => \A key \in Keys :
                       Delta(before, after, u, key) = Cardinality(CountedOn(u, key))
        <3>1. u \in DOMAIN before /\ u \in DOMAIN after /\ before[u].ok /\ after[u].ok
            BY DEF Paired
        <3>2. u \in Engines
            BY <1>1, <3>1 DEF WindowInv, Windowed
        <3>3. HeldBefore(u) /\ HeldAfter(u)
            BY <1>1, <3>1, WindowedIs DEF WindowInv
        <3>4. DOMAIN counts[u] = IF u \in Connected THEN Keys ELSE {}
            BY <1>1, <3>2 DEF WindowInv, WireTypeOK
        <3>5. ASSUME u \in Connected, NEW key \in Keys
              PROVE  Delta(before, after, u, key) = Cardinality(CountedOn(u, key))
            <4>1. /\ after[u].counters[key] = counts[u][key]
                  /\ before[u].counters[key] \in Nat
                  /\ counts[u][key] = before[u].counters[key] + Cardinality(CountedOn(u, key))
                BY <3>1, <3>3, <3>4, <3>5 DEF HeldBefore, HeldAfter
            <4>2. Cardinality(CountedOn(u, key)) \in Nat
                BY <1>1, CountedFinite DEF WindowInv
            <4> QED BY <4>1, <4>2 DEF Delta
        <3> QED BY <3>1, <3>3, <3>4, <3>5 DEF HeldBefore, HeldAfter
    <2>3. ASSUME NEW key \in Keys PROVE Measured(before, after, key) = M
        BY <2>2 DEF Measured
    <2>4. \A key \in Keys : \A u \in M :
              /\ Delta(before, after, u, key) = Cardinality(CountedOn(u, key))
              /\ Cardinality(CountedOn(u, key)) \in Nat
              /\ IsFiniteSet(CountedOn(u, key))
        BY <1>1, <2>2, CountedFinite DEF WindowInv
    <2>5. \A w \in wire : w.arm = arm
        BY <1>1 DEF WindowInv, Waited, Clean
    <2> HIDE DEF M
    <2>6. ~ResetDetected(before, after)
        BY <2>3, <2>4 DEF ResetDetected
    <2>7. ASSUME NEW key \in Keys, M # {}
          PROVE  Totals(before, after)[key] = Cardinality(Arms_(key))
        <3> DEFINE P == [u \in M |-> CountedOn(u, key)]
                   w == [u \in M |-> Cardinality(CountedOn(u, key))]
        <3>1. Totals(before, after)[key] = Total(w, M)
            <4>1. \A u \in M : w[u] = Delta(before, after, u, key) /\ w[u] \in Nat
                BY <2>4
            <4> HIDE DEF w
            <4> QED BY <2>1, <2>3, <2>7, <4>1, TotalsAdd
        <3>2. Total(w, M) = Cardinality(UNION {P[u] : u \in M})
            <4>1. \A u \in M : w[u] = Cardinality(P[u]) /\ IsFiniteSet(P[u])
                BY <2>4
            <4>2. \A u, v \in M : u # v => P[u] \cap P[v] = {}
                BY DEF CountedOn
            <4> HIDE DEF w, P
            <4> QED BY <2>1, <4>1, <4>2, SizesAddUp
        <3>3. UNION {P[u] : u \in M} = Arms_(key)
            BY <2>5 DEF CountedOn
        <3> QED BY <3>1, <3>2, <3>3
    <2>8. Totals(before, after) =
              [key \in {k \in Keys : M # {}} |-> Totals(before, after)[key]]
        <3>1. {k \in Keys : Measured(before, after, k) # {}} = {k \in Keys : M # {}}
            BY <2>3
        <3> QED BY <3>1 DEF Totals
    <2> HIDE DEF Arms_
    <2>9. [key \in {k \in Keys : M # {}} |-> Totals(before, after)[key]] =
              [key \in {k \in Keys : M # {}} |-> Cardinality(Arms_(key))]
        BY <2>7
    <2> QED BY <2>6, <2>8, <2>9
<1>2. ArmInv /\ WindowInv => WindowIsTheArm
    BY <1>1 DEF WindowIsTheArm, Clean
<1> QED BY <1>2, ArmInvariant, WindowInvariant, PTL
=============================================================================
