---------------------------- MODULE SglangProofs -----------------------------
(***************************************************************************)
(* Proofs about the live SGLang runner and the calibration that shares its *)
(* engine, for every manifest, any number of sessions and any kills.       *)
(*                                                                         *)
(* What the engine's cache holds, and whether a flush took, decides        *)
(* nothing here: the invariants are about the rows, so a step of the       *)
(* calibration, which leaves all of the runner but the cache alone,        *)
(* disturbs none of them.                                                  *)
(***************************************************************************)
EXTENDS Calibration, DataLemmas, FiniteSetTheorems, SequenceTheorems

Arms == {"single", "cold", "warm"}
Rows == [item : Ids, arm : Arms, session : Nat,
         hit : BOOLEAN, flagged : BOOLEAN, error : BOOLEAN]

\* The runner without the engine.
runner == <<config, pc, session, resume, pos, arm, results, done, measured, file>>

\* The arms an item needs.
ArmsOf(i) == {i} \X (IF config.paired THEN {"cold", "warm"} ELSE {"single"})
Engaged == pc \in {"flush", "seed", "generate", "record"}

-----------------------------------------------------------------------------
(* The inductive invariant, in parts. *)

TypeOK ==
    /\ config \in [paired : BOOLEAN, flush_per_item : BOOLEAN]
    /\ pc \in {"down", "next", "flush", "seed", "generate", "record", "returned", "failed"}
    /\ session \in Nat /\ resume \in BOOLEAN
    /\ pos \in 1..(Len(Manifest) + 1) /\ arm \in Arms
    /\ results \in Seq(Rows) /\ measured \in Seq(Rows) /\ checkpoint \in Seq(Rows)
    /\ done \subseteq Ids \X Arms
    /\ tail \in {"clean", "unterminated", "corrupt"}

\* What is measured and not yet recorded is of the item at hand: nothing
\* between items, the cold row during the warm arm, and at the recording the
\* pair, or what is left of it.
MeasuredInOrder ==
    /\ Engaged => pos <= Len(Manifest) /\ ~ItemDone
    /\ ~Engaged => measured = <<>>
    /\ Engaged /\ pc # "record" =>
          /\ arm \in IF config.paired THEN {"cold", "warm"} ELSE {"single"}
          /\ Len(measured) = IF arm = "warm" THEN 1 ELSE 0
    /\ pc = "record" => Len(measured) \in IF config.paired THEN {1, 2} ELSE {1}
    /\ \A n \in DOMAIN measured :
          /\ measured[n].item = Item /\ measured[n].session = session
          /\ measured[n].arm = IF ~config.paired THEN "single"
                               ELSE IF pc = "record" /\ n = Len(measured) THEN "warm" ELSE "cold"

\* A cold row that found something cached says so, or has failed.
Honest(rows) ==
    \A n \in DOMAIN rows :
        rows[n].arm = "cold" /\ ~rows[n].flagged /\ ~rows[n].error => ~rows[n].hit
HonestRows == Honest(results) /\ Honest(measured) /\ Honest(checkpoint)

\* Behind the loop every item has its rows in memory, those of the file
\* included; between the two writes of a pair the cold one is there.
Covered ==
    /\ done \subseteq Keys(results)
    /\ Running \/ pc = "returned" =>
          \A k \in 1..(pos - 1) : ArmsOf(Manifest[k]) \subseteq Keys(results)
    /\ pc = "record" /\ config.paired /\ Len(measured) = 1 => <<Item, "cold">> \in Keys(results)
    /\ pc = "returned" => pos = Len(Manifest) + 1

Inv == TypeOK /\ MeasuredInOrder /\ HonestRows /\ Covered

\* The file holds nothing of an item before a resumed session gets to it but
\* what the session knew when it started.
Behind == UNION {ArmsOf(Manifest[k]) : k \in 1..(pos - 1)}
HalfWritten == IF pc = "record" /\ config.paired THEN {<<Item, "cold">>} ELSE {}
FileIsKnown ==
    Running /\ resume => Keys(checkpoint) \subseteq done \cup Behind \cup HalfWritten

\* The pairs of the file: a warm row follows the cold row of its own session,
\* and no later session adds to an item that has its warm row.
FileOfPairs ==
    /\ \A n \in DOMAIN checkpoint : config.paired <=> checkpoint[n].arm # "single"
    /\ \A n \in DOMAIN checkpoint :
          checkpoint[n].arm = "warm" =>
             /\ n > 1
             /\ checkpoint[n - 1].arm = "cold"
             /\ checkpoint[n - 1].item = checkpoint[n].item
             /\ checkpoint[n - 1].session = checkpoint[n].session
    /\ \A m, n \in DOMAIN checkpoint :
          m < n /\ checkpoint[m].arm = "warm" /\ checkpoint[m].item = checkpoint[n].item
             => checkpoint[n].session = checkpoint[m].session

\* What a session that may add to the file relies on.
SessionOfPairs ==
    /\ Running \/ pc = "returned" => results = checkpoint
    /\ Running =>
          /\ \A n \in DOMAIN checkpoint :
                <<checkpoint[n].item, checkpoint[n].arm>> \notin done
                   => checkpoint[n].session = session
          /\ \A i \in Ids : <<i, "warm">> \in done => <<i, "cold">> \in done
    /\ pc = "record" /\ config.paired /\ Len(measured) = 1 =>
          /\ checkpoint # <<>>
          /\ checkpoint[Len(checkpoint)].arm = "cold"
          /\ checkpoint[Len(checkpoint)].item = Item
          /\ checkpoint[Len(checkpoint)].session = session

PairInv == FileOfPairs /\ SessionOfPairs

\* What the calibration has made of the items behind it.
CalRuns == [hit : BOOLEAN, cached : BOOLEAN, error : BOOLEAN]
CalInv ==
    /\ cal \in [pc : {"idle", "flush", "generate", "build", "refused", "written"},
                pos : 1..(Len(Manifest) + 1),
                first : {<<>>} \cup {<<r>> : r \in CalRuns},
                pairs : SUBSET [item : Ids, hit : BOOLEAN],
                contaminated : Nat, errored : Nat]
    /\ cal.pc = "idle" => cal = Resting
    /\ cal.pc \in {"flush", "generate"} => cal.pos <= Len(Manifest)
    /\ cal.pc \in {"build", "written"} => cal.pos = Len(Manifest) + 1
    /\ cal.first # <<>> => cal.first[1].error \/ cal.first[1].cached = cal.first[1].hit
    /\ \A pair \in cal.pairs : ~pair.hit /\ \E k \in 1..(cal.pos - 1) : pair.item = Manifest[k]
    /\ IsFiniteSet(cal.pairs)
    /\ cal.pc \in {"flush", "generate", "build", "written"} =>
          Cardinality(cal.pairs) + cal.contaminated + cal.errored = cal.pos - 1
    /\ cal.pc = "written" => cal.pairs # {}

DistinctItems ==
    \A m, n \in 1..Len(Manifest) : Manifest[m] = Manifest[n] => m = n

-----------------------------------------------------------------------------
(* The rows of a sequence, and their keys. *)

\* What the options and the manifest are.
LEMMA Given ==
    /\ Configs \subseteq [paired : BOOLEAN, flush_per_item : BOOLEAN]
    /\ Len(Manifest) \in Nat /\ Len(Manifest) > 0
    /\ DOMAIN Manifest = 1..Len(Manifest)
    /\ Ids = {Manifest[k] : k \in 1..Len(Manifest)}
BY SglangAssumption DEF Ids, ToSet

\* The key of every row, and no other.
LEMMA KeysOfRows ==
    ASSUME NEW rows \in Seq(Rows)
    PROVE  /\ Keys(rows) = {<<rows[n].item, rows[n].arm>> : n \in 1..Len(rows)}
           /\ Keys(rows) \subseteq Ids \X Arms
<1>1. \A n \in 1..Len(rows) : rows[n] \in Rows
    OBVIOUS
<1>2. Keys(rows) = {<<rows[n].item, rows[n].arm>> : n \in 1..Len(rows)}
    BY DEF Keys, ToSet
<1>3. \A n \in 1..Len(rows) : rows[n].item \in Ids /\ rows[n].arm \in Arms
    BY <1>1 DEF Rows
<1> QED BY <1>2, <1>3

\* A row that is added adds its key.
LEMMA KeysAppend ==
    ASSUME NEW rows \in Seq(Rows), NEW row \in Rows
    PROVE  Keys(Append(rows, row)) = Keys(rows) \cup {<<row.item, row.arm>>}
<1> DEFINE longer == Append(rows, row)
<1>1. /\ longer \in Seq(Rows) /\ Len(longer) = Len(rows) + 1 /\ Len(rows) \in Nat
      /\ \A n \in 1..Len(rows) : longer[n] = rows[n]
      /\ longer[Len(rows) + 1] = row
    OBVIOUS
<1>2. 1..Len(longer) = 1..Len(rows) \cup {Len(rows) + 1}
    BY <1>1
<1> HIDE DEF longer
<1>3. Keys(longer) = {<<longer[n].item, longer[n].arm>> : n \in 1..Len(longer)}
    BY <1>1, KeysOfRows
<1>4. Keys(rows) = {<<rows[n].item, rows[n].arm>> : n \in 1..Len(rows)}
    BY KeysOfRows
<1> QED BY <1>1, <1>2, <1>3, <1>4, Zenon DEF longer

\* The last row of an item and an arm is one of them, and none comes after it.
LEMMA LastRowIs ==
    ASSUME results \in Seq(Rows), NEW i, NEW a, HasRow(i, a)
    PROVE  /\ LastRow(i, a) \in 1..Len(results)
           /\ results[LastRow(i, a)].item = i /\ results[LastRow(i, a)].arm = a
           /\ \A n \in 1..Len(results) :
                 results[n].item = i /\ results[n].arm = a => n <= LastRow(i, a)
<1> DEFINE S == {n \in 1..Len(results) : results[n].item = i /\ results[n].arm = a}
<1>1. /\ S # {} /\ S \in SUBSET Nat /\ Len(results) \in Nat
      /\ \A n \in S : n <= Len(results)
    BY DEF HasRow
<1>2. LastRow(i, a) = Max(S)
    BY <1>1 DEF LastRow, SelectLastInSeq
<1>3. Max(S) \in S /\ \A n \in S : n <= Max(S)
    BY <1>1, Greatest
<1> QED BY <1>2, <1>3

\* An item has a row of an arm when its key is among the keys.
LEMMA HasRowIsKey ==
    ASSUME results \in Seq(Rows), NEW i, NEW a, <<i, a>> \in Keys(results)
    PROVE  HasRow(i, a)
<1>1. PICK n \in 1..Len(results) : <<i, a>> = <<results[n].item, results[n].arm>>
    BY KeysOfRows
<1> QED BY <1>1 DEF HasRow

-----------------------------------------------------------------------------
(* The steps: a replay's, or one that leaves all of it but the cache.       *)

\* A step of the calibration moves the runner by a step of its own, or not.
LEMMA CalSteps == [CalNext]_calVars => [Next]_runner
<1> SUFFICES ASSUME CalNext, ~Next PROVE UNCHANGED runner
    BY DEF calVars, vars, runner, file
<1> QED BY DEF CalNext, CalStart, CalFlush, CalGenerate, CalBuild, CalEnd, vars, runner, file

\* The row of the arm at hand.
LEMMA RowTyped ==
    ASSUME TypeOK, pos <= Len(Manifest), NEW reported \in BOOLEAN, NEW error \in BOOLEAN
    PROVE  /\ Row(Warm, reported, error) \in Rows
           /\ Row(Warm, reported, error).item = Item
           /\ Row(Warm, reported, error).arm = arm
           /\ Row(Warm, reported, error).session = session
<1>1. Item \in Ids
    BY Given DEF TypeOK, Item
<1>2. Warm \in BOOLEAN
    BY DEF Warm
<1> HIDE DEF Warm
<1> QED BY <1>1, <1>2 DEF TypeOK, Rows, Row, FlushContaminated

\* What the recording of a pair holds: its first row, the one that is written,
\* and the rest.
LEMMA AtTheRecord ==
    ASSUME TypeOK, MeasuredInOrder, pc = "record"
    PROVE  /\ Head(measured) \in Rows /\ Tail(measured) \in Seq(Rows)
           /\ Len(Tail(measured)) = Len(measured) - 1
           /\ \A n \in 1..Len(Tail(measured)) : Tail(measured)[n] = measured[n + 1]
           /\ Head(measured) = measured[1] /\ 1 \in DOMAIN measured
           /\ Head(measured).item = Item /\ Head(measured).session = session
           /\ Head(measured).arm = IF ~config.paired THEN "single"
                                   ELSE IF Len(measured) = 1 THEN "warm" ELSE "cold"
           /\ Len(measured) \in {1, 2} /\ pos <= Len(Manifest)
           /\ ~config.paired => Len(measured) = 1
<1>1. measured \in Seq(Rows) /\ Len(measured) \in {1, 2} /\ pos <= Len(Manifest)
    BY DEF TypeOK, MeasuredInOrder, Engaged
<1>2. measured # <<>> /\ 1 \in DOMAIN measured /\ Head(measured) = measured[1]
    BY <1>1
<1>3. /\ Head(measured) \in Rows /\ Tail(measured) \in Seq(Rows)
      /\ Len(Tail(measured)) = Len(measured) - 1
      /\ \A n \in 1..Len(Tail(measured)) : Tail(measured)[n] = measured[n + 1]
    BY <1>1, <1>2, HeadTailProperties
<1>4. /\ measured[1].item = Item /\ measured[1].session = session
      /\ measured[1].arm = IF ~config.paired THEN "single"
                           ELSE IF Len(measured) = 1 THEN "warm" ELSE "cold"
      /\ ~config.paired => Len(measured) = 1
    BY <1>1, <1>2 DEF MeasuredInOrder
<1> QED BY <1>1, <1>2, <1>3, <1>4

-----------------------------------------------------------------------------
(* The runner's types, and the order in which a pair is measured.           *)

\* A session starts with nothing measured and nothing written.
LEMMA InitInv == Init => Inv
<1> SUFFICES ASSUME Init PROVE Inv
    OBVIOUS
<1>1. TypeOK
    <2>1. <<>> \in Seq(Rows) /\ 1 \in 1..(Len(Manifest) + 1)
        BY Given
    <2> QED BY <2>1, Given DEF Init, TypeOK, FirstArm, Arms
<1>2. MeasuredInOrder
    BY DEF Init, MeasuredInOrder, Engaged
<1>3. HonestRows
    BY DEF Init, HonestRows, Honest
<1>4. Covered
    BY DEF Init, Covered, Running
<1> QED BY <1>1, <1>2, <1>3, <1>4 DEF Inv

\* The rows a session starts from are those of the file, or none.
LEMMA LoadedRows ==
    ASSUME TypeOK, NEW r
    PROVE  /\ Loaded(r) \in Seq(Rows)
           /\ Keys(Loaded(r)) \subseteq Ids \X Arms
<1>1. Loaded(r) \in Seq(Rows)
    BY DEF TypeOK, Loaded
<1> QED BY <1>1, KeysOfRows

\* Every action keeps the types.
LEMMA NextTyped == TypeOK /\ MeasuredInOrder /\ [Next]_runner => TypeOK'
<1> SUFFICES ASSUME TypeOK, MeasuredInOrder, [Next]_runner PROVE TypeOK'
    OBVIOUS
<1>1. CASE UNCHANGED runner
    BY <1>1 DEF runner, file, TypeOK
<1>2. ASSUME NEW r \in ResumeChoices, Start(r) PROVE TypeOK'
    <2>1. r \in BOOLEAN
        BY SglangAssumption
    <2> QED BY <1>2, <2>1, LoadedRows, Given DEF Start, TypeOK, FirstArm, Arms, file
<1>3. CASE StartFails
    BY <1>3 DEF StartFails, TypeOK, file
<1>4. CASE Skip
    BY <1>4, Given DEF Skip, TypeOK, file
<1>5. CASE Begin
    BY <1>5 DEF Begin, TypeOK, FirstArm, Arms, file
<1>6. CASE Finish
    BY <1>6 DEF Finish, TypeOK, file
<1>7. CASE Flush
    BY <1>7 DEF Flush, TypeOK, file
<1>8. CASE Seed
    BY <1>8 DEF Seed, TypeOK, file
<1>9. ASSUME NEW row \in Rows, Answer(row) PROVE TypeOK'
    <2>1. Append(measured, row) \in Seq(Rows)
        BY DEF TypeOK
    <2> QED BY <1>9, <2>1 DEF Answer, TypeOK, Arms, file
<1>10. CASE GenerateAnswered \/ GenerateFailed
    <2>1. pos <= Len(Manifest)
        BY <1>10 DEF GenerateAnswered, GenerateFailed, MeasuredInOrder, Engaged
    <2> QED BY <1>9, <1>10, <2>1, RowTyped DEF GenerateAnswered, GenerateFailed
<1>11. CASE Record
    <2>1. Append(results, Head(measured)) \in Seq(Rows) /\ Append(checkpoint, Head(measured)) \in Seq(Rows)
        BY <1>11, AtTheRecord DEF TypeOK, Record
    <2>2. Tail(measured) \in Seq(Rows) /\ pos <= Len(Manifest)
        BY <1>11, AtTheRecord DEF Record
    <2> QED BY <1>11, <2>1, <2>2, Given DEF Record, TypeOK, TailAfterWrite, file
<1>12. CASE Kill
    BY <1>12 DEF Kill, Dies, TypeOK, file
<1>13. CASE KillInWrite
    <2>1. Append(checkpoint, Head(measured)) \in Seq(Rows)
        BY <1>13, AtTheRecord DEF TypeOK, KillInWrite
    <2>2. checkpoint' \in Seq(Rows) /\ tail' \in {"clean", "unterminated", "corrupt"}
        BY <1>13, <2>1 DEF KillInWrite, TypeOK
    <2> QED BY <1>13, <2>2 DEF KillInWrite, Dies, TypeOK
<1>14. CASE Over
    BY <1>1, <1>14 DEF Over, vars, runner
<1> QED BY <1>1, <1>2, <1>3, <1>4, <1>5, <1>6, <1>7, <1>8, <1>10, <1>11, <1>12, <1>13, <1>14
        DEF Next, SessionStep, Restart

\* Rows are appended in the order of the plan, behind those of the file.
LEMMA NextMeasured == TypeOK /\ MeasuredInOrder /\ [Next]_runner => MeasuredInOrder'
<1> SUFFICES ASSUME TypeOK, MeasuredInOrder, [Next]_runner PROVE MeasuredInOrder'
    OBVIOUS
<1>1. CASE UNCHANGED runner
    BY <1>1 DEF runner, file, MeasuredInOrder, Engaged, ItemDone, Item
<1>2. CASE Restart
    <2>1. measured' = <<>> /\ pc' \in {"next", "failed"}
        BY <1>2 DEF Restart, Start, StartFails
    <2> QED BY <2>1 DEF MeasuredInOrder, Engaged
<1>3. CASE Skip \/ Finish
    BY <1>3 DEF Skip, Finish, MeasuredInOrder, Engaged
<1>4. CASE Begin
    <2>1. measured = <<>>
        BY <1>4 DEF Begin, MeasuredInOrder, Engaged
    <2>2. pos <= Len(Manifest) /\ ~ItemDone
        BY <1>4 DEF Begin
    <2>3. UNCHANGED <<config, pos, session, done, measured>>
        BY <1>4 DEF Begin
    <2>4. ~ItemDone'
        BY <2>2, <2>3 DEF ItemDone, Item
    <2>5. arm' = FirstArm /\ pc' \in {"flush", "seed"}
        BY <1>4 DEF Begin
    <2> QED BY <2>1, <2>2, <2>3, <2>4, <2>5 DEF MeasuredInOrder, Engaged, FirstArm
<1>5. CASE Flush \/ Seed
    <2>1. /\ pc \in {"flush", "seed"} /\ pc' \in {"seed", "generate"}
          /\ UNCHANGED <<config, session, pos, arm, done, measured>>
        BY <1>5 DEF Flush, Seed
    <2>2. ItemDone' = ItemDone /\ Item' = Item
        BY <2>1 DEF ItemDone, Item
    <2> QED BY <2>1, <2>2 DEF MeasuredInOrder, Engaged
<1>6. ASSUME NEW row \in Rows, Answer(row), pc = "generate",
             row.item = Item, row.arm = arm, row.session = session
      PROVE  MeasuredInOrder'
    <2>1. measured \in Seq(Rows) /\ Len(measured) = IF arm = "warm" THEN 1 ELSE 0
        BY <1>6 DEF TypeOK, MeasuredInOrder, Engaged
    <2>2. /\ measured' = Append(measured, row)
          /\ Len(measured') = Len(measured) + 1
          /\ \A n \in 1..Len(measured) : measured'[n] = measured[n]
          /\ measured'[Len(measured) + 1] = row
          /\ DOMAIN measured' = 1..(Len(measured) + 1)
        BY <1>6, <2>1 DEF Answer
    <2>3. UNCHANGED <<config, session, pos, done>>
        BY <1>6 DEF Answer
    <2>4. ItemDone' = ItemDone /\ Item' = Item
        BY <2>3 DEF ItemDone, Item
    <2>5. /\ pos <= Len(Manifest) /\ ~ItemDone
          /\ arm \in IF config.paired THEN {"cold", "warm"} ELSE {"single"}
          /\ \A n \in 1..Len(measured) :
                /\ measured[n].item = Item /\ measured[n].session = session
                /\ measured[n].arm = IF ~config.paired THEN "single" ELSE "cold"
        BY <1>6, <2>1 DEF MeasuredInOrder, Engaged
    <2>6. CASE arm = "cold"
        <3>1. pc' = "flush" /\ arm' = "warm"
            BY <1>6, <2>6 DEF Answer
        <3> QED BY <1>6, <2>1, <2>2, <2>3, <2>4, <2>5, <2>6, <3>1 DEF MeasuredInOrder, Engaged
    <2>7. CASE arm # "cold"
        <3>1. pc' = "record"
            BY <1>6, <2>7 DEF Answer
        <3>2. \A n \in DOMAIN measured' :
                 /\ measured'[n].item = Item /\ measured'[n].session = session
                 /\ measured'[n].arm = IF ~config.paired THEN "single"
                                       ELSE IF n = Len(measured') THEN "warm" ELSE "cold"
            BY <1>6, <2>1, <2>2, <2>5, <2>7
        <3>3. Len(measured') \in IF config.paired THEN {1, 2} ELSE {1}
            BY <2>1, <2>2, <2>5, <2>7
        <3> QED BY <2>3, <2>4, <2>5, <3>1, <3>2, <3>3 DEF MeasuredInOrder, Engaged
    <2> QED BY <2>6, <2>7
<1>7. CASE GenerateAnswered \/ GenerateFailed
    <2>1. pc = "generate"
        BY <1>7 DEF GenerateAnswered, GenerateFailed
    <2>2. pos <= Len(Manifest)
        BY <2>1 DEF MeasuredInOrder, Engaged
    <2> QED BY <1>6, <1>7, <2>1, <2>2, RowTyped DEF GenerateAnswered, GenerateFailed
<1>8. CASE Record
    <2>1. measured' = Tail(measured) /\ UNCHANGED <<config, session, done>>
        BY <1>8 DEF Record
    <2>2. CASE Len(measured) = 1
        <3>1. measured' = <<>> /\ pc' = "next"
            BY <1>8, <2>1, <2>2, AtTheRecord DEF Record
        <3> QED BY <3>1 DEF MeasuredInOrder, Engaged
    <2>3. CASE Len(measured) # 1
        <3>1. /\ Len(measured) = 2 /\ config.paired
              /\ pc = "record" /\ pc' = "record" /\ pos' = pos
            BY <1>8, <2>3, AtTheRecord DEF Record
        <3>2. /\ Len(measured') = 1 /\ measured' \in Seq(Rows) /\ measured'[1] = measured[2]
            <4>1. /\ Tail(measured) \in Seq(Rows) /\ Len(Tail(measured)) = Len(measured) - 1
                  /\ \A n \in 1..Len(Tail(measured)) : Tail(measured)[n] = measured[n + 1]
                BY <3>1, AtTheRecord, Zenon
            <4> QED BY <2>1, <3>1, <4>1
        <3>3. /\ measured[2].item = Item /\ measured[2].session = session /\ measured[2].arm = "warm"
            BY <3>1 DEF MeasuredInOrder, TypeOK
        <3>4. ItemDone' = ItemDone /\ Item' = Item
            BY <2>1, <3>1 DEF ItemDone, Item
        <3>5. pos <= Len(Manifest) /\ ~ItemDone
            BY <3>1 DEF MeasuredInOrder, Engaged
        <3> QED BY <2>1, <3>1, <3>2, <3>3, <3>4, <3>5 DEF MeasuredInOrder, Engaged
    <2> QED BY <2>2, <2>3
<1>9. CASE Kill \/ KillInWrite
    BY <1>9 DEF Kill, KillInWrite, Dies, MeasuredInOrder, Engaged
<1>10. CASE Over
    BY <1>1, <1>10 DEF Over, vars, runner
<1> QED BY <1>1, <1>2, <1>3, <1>4, <1>5, <1>7, <1>8, <1>9, <1>10 DEF Next, SessionStep

-----------------------------------------------------------------------------
(* Rows that give a flush away, and rows for every item behind the loop.    *)

\* What it takes of one row.
HonestRow(row) == row.arm = "cold" /\ ~row.flagged /\ ~row.error => ~row.hit

\* An honest row appended leaves the rows honest.
LEMMA HonestAppend ==
    ASSUME NEW rows \in Seq(Rows), NEW row \in Rows, Honest(rows), HonestRow(row)
    PROVE  Honest(Append(rows, row))
<1>1. \A n \in 1..Len(rows) : HonestRow(rows[n])
    BY DEF Honest, HonestRow
<1>2. \A n \in DOMAIN Append(rows, row) : HonestRow(Append(rows, row)[n])
    BY <1>1
<1> QED BY <1>2 DEF Honest, HonestRow

\* A row is only written of what its request found.
LEMMA NextHonest == TypeOK /\ MeasuredInOrder /\ HonestRows /\ [Next]_runner => HonestRows'
<1> SUFFICES ASSUME TypeOK, MeasuredInOrder, HonestRows, [Next]_runner PROVE HonestRows'
    OBVIOUS
<1>1. CASE UNCHANGED <<results, measured, checkpoint>>
    BY <1>1 DEF HonestRows, Honest
<1>2. Honest(<<>>)
    BY DEF Honest
<1>3. CASE Restart
    <2>1. measured' = <<>> /\ results' \in {<<>>, checkpoint} /\ checkpoint' = checkpoint
        BY <1>3 DEF Restart, Start, StartFails, Loaded, file
    <2> QED BY <1>2, <2>1 DEF HonestRows
<1>4. CASE Kill \/ KillInWrite
    <2>1. measured' = <<>> /\ results' = <<>>
        BY <1>4 DEF Kill, KillInWrite, Dies
    <2>2. CASE checkpoint' = checkpoint
        BY <1>2, <2>1, <2>2 DEF HonestRows
    <2>3. CASE checkpoint' # checkpoint
        <3>1. checkpoint' = Append(checkpoint, Head(measured)) /\ pc = "record"
            BY <1>4, <2>3 DEF Kill, KillInWrite, file
        <3>2. Head(measured) \in Rows /\ HonestRow(Head(measured))
            BY <3>1, AtTheRecord DEF HonestRows, Honest, HonestRow
        <3>3. Honest(checkpoint')
            BY <3>1, <3>2, HonestAppend DEF TypeOK, HonestRows
        <3> QED BY <1>2, <2>1, <3>3 DEF HonestRows
    <2> QED BY <2>2, <2>3
<1>5. CASE Record
    <2>1. Head(measured) \in Rows /\ HonestRow(Head(measured))
        BY <1>5, AtTheRecord DEF Record, HonestRows, Honest, HonestRow
    <2>2. Honest(results') /\ Honest(checkpoint')
        BY <1>5, <2>1, HonestAppend DEF Record, TypeOK, HonestRows
    <2>3. Honest(measured')
        <3>1. /\ measured' = Tail(measured) /\ measured' \in Seq(Rows) /\ measured \in Seq(Rows)
              /\ Len(measured') = Len(measured) - 1
              /\ \A n \in 1..Len(measured') : measured'[n] = measured[n + 1]
            BY <1>5, AtTheRecord DEF Record, TypeOK
        <3>2. \A n \in 1..Len(measured') : n + 1 \in 1..Len(measured)
            BY <3>1
        <3> QED BY <3>1, <3>2 DEF Honest, HonestRows
    <2> QED BY <2>2, <2>3 DEF HonestRows
<1>6. CASE GenerateAnswered \/ GenerateFailed
    <2>1. PICK reported \in BOOLEAN, error \in BOOLEAN :
              Answer(Row(Warm, reported, error)) /\ (reported \/ error)
        BY <1>6 DEF GenerateAnswered, GenerateFailed
    <2>2. pos <= Len(Manifest)
        BY <1>6 DEF GenerateAnswered, GenerateFailed, MeasuredInOrder, Engaged
    <2>3. Row(Warm, reported, error) \in Rows
        BY <2>2, RowTyped
    <2>4. HonestRow(Row(Warm, reported, error))
        BY <2>1 DEF HonestRow, Row, FlushContaminated
    <2>5. measured' = Append(measured, Row(Warm, reported, error)) /\ UNCHANGED <<results, checkpoint>>
        BY <2>1 DEF Answer, file
    <2>6. Honest(measured')
        BY <2>3, <2>4, <2>5, HonestAppend DEF TypeOK, HonestRows
    <2> QED BY <2>5, <2>6 DEF HonestRows
<1>7. CASE Skip \/ Begin \/ Finish \/ Flush \/ Seed \/ Over \/ UNCHANGED runner
    BY <1>1, <1>7 DEF Skip, Begin, Finish, Flush, Seed, Over, vars, runner, file
<1> QED BY <1>3, <1>4, <1>5, <1>6, <1>7 DEF Next, SessionStep

\* What the runner has passed over or measured has its rows.
LEMMA NextCovered == TypeOK /\ MeasuredInOrder /\ Covered /\ [Next]_runner => Covered'
<1> SUFFICES ASSUME TypeOK, MeasuredInOrder, Covered, [Next]_runner PROVE Covered'
    OBVIOUS
<1>1. TypeOK'
    BY NextTyped
<1>2. CASE UNCHANGED runner
    BY <1>2 DEF runner, file, Covered, Running, ArmsOf, Keys, Item
<1>3. CASE Restart
    <2>1. CASE \E r \in ResumeChoices : Start(r)
        <3>1. /\ pc' = "next" /\ pos' = 1
              /\ \E r \in ResumeChoices : done' = Keys(Loaded(r)) /\ results' = Loaded(r)
            BY <2>1 DEF Start
        <3>2. done' = Keys(results')
            BY <3>1, Zenon
        <3> QED BY <3>1, <3>2 DEF Covered
    <2>2. CASE StartFails
        BY <2>2 DEF StartFails, Covered, Running
    <2> QED BY <1>3, <2>1, <2>2 DEF Restart
<1>4. CASE Skip
    <2>1. ArmsOf(Item) \subseteq Keys(results)
        <3>1. ArmsOf(Item) \subseteq done
            BY <1>4 DEF Skip, ItemDone, ArmsOf
        <3> QED BY <3>1 DEF Covered
    <2>2. pos' = pos + 1 /\ pc' = "next" /\ UNCHANGED <<config, done, results>>
        BY <1>4 DEF Skip
    <2>3. \A k \in 1..(pos' - 1) : k = pos \/ k \in 1..(pos - 1)
        BY <2>2 DEF TypeOK
    <2>4. \A k \in 1..(pos' - 1) : ArmsOf(Manifest[k]) \subseteq Keys(results)
        BY <1>4, <2>1, <2>3 DEF Skip, Covered, Item, Running
    <2> QED BY <2>2, <2>4 DEF Covered, ArmsOf, Keys
<1>5. CASE Begin \/ Flush \/ Seed
    <2>1. /\ pc \in {"next", "flush", "seed"} /\ pc' \in {"flush", "seed", "generate"}
          /\ UNCHANGED <<config, pos, done, results>>
        BY <1>5 DEF Begin, Flush, Seed
    <2> QED BY <2>1 DEF Covered, Running, ArmsOf, Keys
<1>6. CASE Finish
    <2>1. pc = "next" /\ pc' = "returned" /\ pos > Len(Manifest) /\ UNCHANGED <<config, pos, done, results>>
        BY <1>6 DEF Finish
    <2>2. pos = Len(Manifest) + 1
        BY <2>1, Given DEF TypeOK
    <2> QED BY <2>1, <2>2 DEF Covered, Running, ArmsOf, Keys
<1>7. CASE GenerateAnswered \/ GenerateFailed
    <2>1. PICK row \in Rows : Answer(row)
        <3>1. pos <= Len(Manifest)
            BY <1>7 DEF GenerateAnswered, GenerateFailed, MeasuredInOrder, Engaged
        <3> QED BY <1>7, <3>1, RowTyped DEF GenerateAnswered, GenerateFailed
    <2>2. pc = "generate" /\ pc' \in {"flush", "record"} /\ UNCHANGED <<config, pos, done, results>>
        BY <1>7, <2>1 DEF GenerateAnswered, GenerateFailed, Answer
    <2>3. ASSUME pc' = "record", config.paired PROVE Len(measured') = 2
        <3>1. measured \in Seq(Rows) /\ measured' = Append(measured, row)
            BY <2>1 DEF TypeOK, Answer
        <3>2. Len(measured) = 1
            BY <2>1, <2>2, <2>3 DEF Answer, MeasuredInOrder, Engaged
        <3>3. Len(Append(measured, row)) = Len(measured) + 1
            BY <3>1
        <3> QED BY <3>1, <3>2, <3>3
    <2> QED BY <2>2, <2>3 DEF Covered, Running, ArmsOf, Keys
<1>8. CASE Record
    <2> DEFINE row == Head(measured)
    <2>1. /\ row \in Rows /\ row.item = Item
          /\ row.arm = IF ~config.paired THEN "single" ELSE IF Len(measured) = 1 THEN "warm" ELSE "cold"
          /\ Len(measured) \in {1, 2} /\ pos <= Len(Manifest)
          /\ ~config.paired => Len(measured) = 1
        BY <1>8, AtTheRecord DEF Record
    <2>2. Keys(results') = Keys(results) \cup {<<row.item, row.arm>>}
        BY <1>8, <2>1, KeysAppend DEF Record, TypeOK
    <2>3. UNCHANGED <<config, done>> /\ pc = "record"
        BY <1>8 DEF Record
    <2>4. \A k \in 1..(pos - 1) : ArmsOf(Manifest[k]) \subseteq Keys(results')
        BY <2>2, <2>3 DEF Covered, Running
    <2>5. CASE Len(measured) = 1
        <3>1. pc' = "next" /\ pos' = pos + 1
            BY <1>8, <2>5 DEF Record
        <3>2. ArmsOf(Item) \subseteq Keys(results')
            BY <2>1, <2>2, <2>3, <2>5 DEF Covered, ArmsOf
        <3>3. \A k \in 1..(pos' - 1) : k = pos \/ k \in 1..(pos - 1)
            BY <3>1 DEF TypeOK
        <3>4. \A k \in 1..(pos' - 1) : ArmsOf(Manifest[k]) \subseteq Keys(results')
            BY <2>4, <3>2, <3>3 DEF Item
        <3> QED BY <2>2, <2>3, <3>1, <3>4 DEF Covered, ArmsOf, Keys
    <2>6. CASE Len(measured) # 1
        <3>1. pc' = "record" /\ pos' = pos
            BY <1>8, <2>3, <2>6 DEF Record
        <3>2. row.arm = "cold"
            BY <2>1, <2>6
        <3>3. <<Item, "cold">> \in Keys(results') /\ Item' = Item
            BY <2>1, <2>2, <3>1, <3>2 DEF Item
        <3> QED BY <2>2, <2>3, <2>4, <3>1, <3>3 DEF Covered, Running, ArmsOf, Keys
    <2> QED BY <2>5, <2>6
<1>9. CASE Kill \/ KillInWrite
    BY <1>9 DEF Kill, KillInWrite, Dies, Covered, Running
<1>10. CASE Over
    BY <1>2, <1>10 DEF Over, vars, runner
<1> QED BY <1>2, <1>3, <1>4, <1>5, <1>6, <1>7, <1>8, <1>9, <1>10 DEF Next, SessionStep

\* The inductive invariant of the runner, whatever shares its engine.
THEOREM Invariant == CalSpec => []Inv
<1>1. CalInit => Inv
    BY InitInv DEF CalInit
<1>2. Inv /\ [CalNext]_calVars => Inv'
    BY CalSteps, NextTyped, NextMeasured, NextHonest, NextCovered DEF Inv
<1> QED BY <1>1, <1>2, PTL DEF CalSpec

\* A cold twin that is used was cold: over any number of sessions and kills,
\* whatever the engine held and whichever flushes took, the rows alone give
\* away a cold arm that found something cached.
THEOREM ColdTwinsAreCold == CalSpec => []UsableColdWasCold
<1>1. Inv => UsableColdWasCold
    <2> SUFFICES ASSUME Inv, NEW i \in UsablePairs PROVE ~ColdRow(i).hit
        BY DEF UsableColdWasCold
    <2>1. HasRow(i, "cold") /\ ~ColdRow(i).flagged /\ ~ColdRow(i).error
        BY DEF UsablePairs
    <2>2. LastRow(i, "cold") \in 1..Len(results) /\ results[LastRow(i, "cold")].arm = "cold"
        BY <2>1, LastRowIs DEF Inv, TypeOK
    <2> QED BY <2>1, <2>2 DEF Inv, TypeOK, HonestRows, Honest, ColdRow
<1> QED BY <1>1, Invariant, PTL

\* A session that returns has every row of every item, those it passed over
\* because of the file included, however it was resumed.
THEOREM NothingMissing == CalSpec => []EveryItemReturned
<1>1. Inv => EveryItemReturned
    <2> SUFFICES ASSUME Inv, pc = "returned", NEW i \in Ids
                 PROVE  IF config.paired THEN HasRow(i, "cold") /\ HasRow(i, "warm")
                                         ELSE HasRow(i, "single")
        BY DEF EveryItemReturned
    <2>1. PICK k \in 1..Len(Manifest) : i = Manifest[k]
        BY Given
    <2>2. pos = Len(Manifest) + 1 /\ results \in Seq(Rows)
        BY DEF Inv, Covered, TypeOK
    <2>3. k \in 1..(pos - 1)
        BY <2>2, Given
    <2>4. ArmsOf(i) \subseteq Keys(results)
        BY <2>1, <2>3 DEF Inv, Covered
    <2> QED BY <2>2, <2>4, HasRowIsKey DEF ArmsOf
<1> QED BY <1>1, Invariant, PTL

-----------------------------------------------------------------------------
(* A resumed session sends nothing twice.                                   *)

\* The file holds the rows of the checkpoint read, and those written since.
LEMMA NextKnown == Inv /\ FileIsKnown /\ [Next]_runner => FileIsKnown'
<1> SUFFICES ASSUME Inv, FileIsKnown, [Next]_runner, Running', resume' PROVE FileIsKnown'
    BY DEF FileIsKnown
<1>1. CASE UNCHANGED <<config, pc, pos, resume, done, checkpoint>>
    BY <1>1 DEF FileIsKnown, Running, Behind, HalfWritten, ArmsOf, Keys, Item
<1>2. CASE Restart
    <2>1. PICK r \in ResumeChoices : Start(r)
        BY <1>2 DEF Restart, StartFails, Running
    <2>2. r = TRUE /\ Keys(checkpoint') = Keys(checkpoint) /\ done' = Keys(checkpoint)
        BY <2>1, SglangAssumption DEF Start, Loaded, file
    <2> QED BY <2>2 DEF FileIsKnown
<1>3. CASE Skip \/ Begin \/ Finish \/ Flush \/ Seed
    <2>1. /\ pc # "record" /\ pc' # "record" /\ Running
          /\ UNCHANGED <<config, resume, done, checkpoint>>
          /\ pos' \in {pos, pos + 1}
        BY <1>3 DEF Skip, Begin, Finish, Flush, Seed, Running, file
    <2>2. Keys(checkpoint) \subseteq done \cup Behind
        BY <2>1 DEF FileIsKnown, HalfWritten
    <2>3. 1..(pos - 1) \subseteq 1..(pos' - 1)
        <3>1. pos \in Nat
            BY DEF Inv, TypeOK
        <3>2. CASE pos' = pos
            BY <3>2
        <3>3. CASE pos' = pos + 1
            BY <3>1, <3>3
        <3> QED BY <2>1, <3>2, <3>3
    <2>4. Behind \subseteq Behind'
        BY <2>1, <2>3 DEF Behind, ArmsOf
    <2>5. Keys(checkpoint') = Keys(checkpoint) /\ done' = done
        BY <2>1 DEF Keys
    <2> QED BY <2>2, <2>4, <2>5 DEF FileIsKnown
<1>4. CASE GenerateAnswered \/ GenerateFailed
    <2>1. /\ pc = "generate" /\ UNCHANGED <<config, resume, pos, done, checkpoint>>
        BY <1>4 DEF GenerateAnswered, GenerateFailed, Answer, file
    <2>2. Keys(checkpoint) \subseteq done \cup Behind
        BY <2>1 DEF FileIsKnown, Running, HalfWritten
    <2>3. Keys(checkpoint') = Keys(checkpoint) /\ Behind' = Behind /\ done' = done
        BY <2>1 DEF Keys, Behind, ArmsOf
    <2> QED BY <2>2, <2>3 DEF FileIsKnown
<1>5. CASE Record
    <2> DEFINE row == Head(measured)
    <2>1. /\ row \in Rows /\ row.item = Item
          /\ row.arm = IF ~config.paired THEN "single" ELSE IF Len(measured) = 1 THEN "warm" ELSE "cold"
          /\ Len(measured) \in {1, 2}
          /\ ~config.paired => Len(measured) = 1
        BY <1>5, AtTheRecord DEF Record, Inv
    <2>2. /\ pc = "record" /\ UNCHANGED <<config, resume, done>>
          /\ checkpoint' = Append(checkpoint, row)
        BY <1>5 DEF Record
    <2>3. Keys(checkpoint') = Keys(checkpoint) \cup {<<Item, row.arm>>}
        BY <2>1, <2>2, KeysAppend DEF Inv, TypeOK
    <2>4. /\ Keys(checkpoint) \subseteq done \cup Behind \cup HalfWritten
          /\ HalfWritten = IF config.paired THEN {<<Item, "cold">>} ELSE {}
        BY <2>2 DEF FileIsKnown, Running, HalfWritten
    <2>5. CASE Len(measured) = 1
        <3>1. pos' = pos + 1 /\ pc' = "next"
            BY <1>5, <2>5 DEF Record
        <3>2. 1..(pos - 1) \subseteq 1..(pos' - 1) /\ pos \in 1..(pos' - 1)
            BY <3>1 DEF Inv, TypeOK
        <3>3. Behind \subseteq Behind' /\ ArmsOf(Item) \subseteq Behind'
            BY <2>2, <3>2 DEF Behind, ArmsOf, Item
        <3>4. <<Item, row.arm>> \in ArmsOf(Item)
            BY <2>1, <2>5 DEF ArmsOf
        <3>5. HalfWritten \subseteq ArmsOf(Item)
            BY <2>4 DEF ArmsOf
        <3> QED BY <2>2, <2>3, <2>4, <3>3, <3>4, <3>5 DEF FileIsKnown
    <2>6. CASE Len(measured) # 1
        <3>1. pos' = pos /\ pc' = "record"
            BY <1>5, <2>2, <2>6 DEF Record
        <3>2. row.arm = "cold"
            BY <2>1, <2>6
        <3>3. Behind' = Behind /\ Item' = Item /\ config.paired
            BY <2>1, <2>2, <2>6, <3>1 DEF Behind, ArmsOf, Item
        <3>4. HalfWritten' = {<<Item, "cold">>}
            BY <2>2, <3>1, <3>3 DEF HalfWritten
        <3> QED BY <2>2, <2>3, <2>4, <3>2, <3>3, <3>4 DEF FileIsKnown
    <2> QED BY <2>5, <2>6
<1>6. CASE Kill \/ KillInWrite
    BY <1>6 DEF Kill, KillInWrite, Dies, Running
<1>7. CASE Over
    BY <1>1, <1>7 DEF Over, vars, file
<1> QED BY <1>1, <1>2, <1>3, <1>4, <1>5, <1>6, <1>7 DEF Next, SessionStep, runner, file


\* With the ids of the manifest distinct, a request is sent by a resumed
\* session only for an item of which the file has less than all: what an
\* earlier session recorded whole is not paid for again.
THEOREM NothingIsRepeated ==
    ASSUME DistinctItems
    PROVE  CalSpec => ResumeNeverRepeats
<1> DEFINE Repeats == pc = "generate" /\ resume /\ ArmsOf(Item) \subseteq Keys(checkpoint)
<1>1. Inv /\ FileIsKnown => ~Repeats
    <2> SUFFICES ASSUME Inv, FileIsKnown, pc = "generate", resume,
                        ArmsOf(Item) \subseteq Keys(checkpoint)
                 PROVE  FALSE
        OBVIOUS
    <2>1. Keys(checkpoint) \subseteq done \cup Behind
        BY DEF FileIsKnown, Running, HalfWritten
    <2>2. pos \in 1..Len(Manifest) /\ ~ItemDone
        BY Given DEF Inv, TypeOK, MeasuredInOrder, Engaged
    <2>3. ASSUME NEW k \in 1..(pos - 1) PROVE ArmsOf(Manifest[k]) \cap ArmsOf(Item) = {}
        <3>1. k \in 1..Len(Manifest) /\ k # pos
            BY <2>2, <2>3, Given
        <3>2. Manifest[k] # Item
            BY <2>2, <3>1, DistinctItems DEF DistinctItems, Item
        <3> QED BY <3>2 DEF ArmsOf
    <2>4. Behind \cap ArmsOf(Item) = {}
        BY <2>3 DEF Behind
    <2>5. ArmsOf(Item) \subseteq done
        BY <2>1, <2>4
    <2> QED BY <2>2, <2>5 DEF ItemDone, ArmsOf
<1>2. CalInit => FileIsKnown
    BY DEF CalInit, Init, FileIsKnown, Running
<1>3. Inv /\ FileIsKnown /\ [CalNext]_calVars => FileIsKnown'
    BY CalSteps, NextKnown
<1>4. ~Repeats => [pc = "generate" /\ pc' # pc /\ resume
                   => ~({Item} \X (IF config.paired THEN {"cold", "warm"} ELSE {"single"})
                            \subseteq Keys(checkpoint))]_vars
    BY DEF ArmsOf
<1> HIDE DEF Repeats
<1> QED BY <1>1, <1>2, <1>3, <1>4, Invariant, PTL DEF CalSpec, ResumeNeverRepeats

-----------------------------------------------------------------------------
(* The arms of a pair come from one session.                                *)

\* Nobody starts afresh over a file that already holds rows: a session loads
\* the file, or the file is empty.  Without this the property fails, as the
\* run sglang_stale_file shows.
FreshOverNothing == session' # session => resume' \/ checkpoint = <<>>

\* A row of the item at hand keeps the file one of pairs: behind its cold row
\* when it is the warm one, and in the session of every warm row before it.
LEMMA PairsAppend ==
    ASSUME Inv, PairInv, pc = "record", config' = config,
           checkpoint' = Append(checkpoint, Head(measured))
    PROVE  FileOfPairs'
<1> DEFINE row == Head(measured)
<1>1. /\ row \in Rows /\ row.item = Item /\ row.session = session
      /\ row.arm = IF ~config.paired THEN "single" ELSE IF Len(measured) = 1 THEN "warm" ELSE "cold"
      /\ pos \in 1..Len(Manifest)
    BY AtTheRecord, Given DEF Inv, TypeOK
<1>2. /\ checkpoint \in Seq(Rows) /\ Len(checkpoint) \in Nat
      /\ DOMAIN checkpoint' = 1..(Len(checkpoint) + 1)
      /\ \A n \in 1..Len(checkpoint) : checkpoint'[n] = checkpoint[n]
      /\ checkpoint'[Len(checkpoint) + 1] = row
      /\ DOMAIN checkpoint = 1..Len(checkpoint)
    BY <1>1 DEF Inv, TypeOK
<1> HIDE DEF row
<1>3. ASSUME row.arm = "warm"
      PROVE  /\ Len(checkpoint) > 0
             /\ checkpoint[Len(checkpoint)].arm = "cold"
             /\ checkpoint[Len(checkpoint)].item = row.item
             /\ checkpoint[Len(checkpoint)].session = row.session
    <2>1. config.paired /\ Len(measured) = 1
        BY <1>1, <1>3
    <2> QED BY <1>1, <1>2, <2>1 DEF PairInv, SessionOfPairs
<1>4. ASSUME NEW m \in 1..Len(checkpoint), checkpoint[m].arm = "warm", checkpoint[m].item = row.item
      PROVE  row.session = checkpoint[m].session
    <2>1. Item \in Ids /\ ~ItemDone
        BY <1>1, Given DEF Inv, MeasuredInOrder, Engaged, Item
    <2>2. <<Item, "warm">> \notin done
        <3> SUFFICES ASSUME <<Item, "warm">> \in done PROVE FALSE
            OBVIOUS
        <3>1. <<Item, "cold">> \in done
            BY <2>1 DEF PairInv, SessionOfPairs, Running
        <3>2. config.paired
            BY <1>2, <1>4 DEF PairInv, FileOfPairs
        <3> QED BY <2>1, <3>1, <3>2 DEF ItemDone
    <2>3. <<checkpoint[m].item, checkpoint[m].arm>> \notin done
        BY <1>1, <1>4, <2>2
    <2> QED BY <1>1, <1>2, <2>3 DEF PairInv, SessionOfPairs, Running
<1>5. ASSUME NEW n \in DOMAIN checkpoint', checkpoint'[n].arm = "warm"
      PROVE  /\ n > 1
             /\ checkpoint'[n - 1].arm = "cold"
             /\ checkpoint'[n - 1].item = checkpoint'[n].item
             /\ checkpoint'[n - 1].session = checkpoint'[n].session
    <2>1. CASE n = Len(checkpoint) + 1
        <3>1. n - 1 = Len(checkpoint) /\ row.arm = "warm" /\ checkpoint'[n] = row
            BY <1>2, <1>5, <2>1
        <3>2. Len(checkpoint) > 0 => checkpoint'[n - 1] = checkpoint[Len(checkpoint)]
            BY <1>2, <3>1
        <3>3. /\ Len(checkpoint) > 0
              /\ checkpoint[Len(checkpoint)].arm = "cold"
              /\ checkpoint[Len(checkpoint)].item = row.item
              /\ checkpoint[Len(checkpoint)].session = row.session
            BY <1>3, <3>1
        <3>4. n > 1 /\ checkpoint'[n - 1] = checkpoint[Len(checkpoint)] /\ checkpoint'[n] = row
            BY <1>2, <3>1, <3>2, <3>3
        <3> QED BY <3>3, <3>4, Zenon
    <2>2. CASE n \in 1..Len(checkpoint)
        <3>1. /\ n > 1
              /\ checkpoint[n - 1].arm = "cold"
              /\ checkpoint[n - 1].item = checkpoint[n].item
              /\ checkpoint[n - 1].session = checkpoint[n].session
            BY <1>2, <1>5, <2>2 DEF PairInv, FileOfPairs
        <3> QED BY <1>2, <2>2, <3>1
    <2> QED BY <1>2, <1>5, <2>1, <2>2
<1>6. ASSUME NEW m \in DOMAIN checkpoint', NEW n \in DOMAIN checkpoint', m < n,
             checkpoint'[m].arm = "warm", checkpoint'[m].item = checkpoint'[n].item
      PROVE  checkpoint'[n].session = checkpoint'[m].session
    <2>1. m \in 1..Len(checkpoint) /\ checkpoint'[m] = checkpoint[m]
        BY <1>2, <1>6
    <2>2. CASE n = Len(checkpoint) + 1
        BY <1>2, <1>4, <1>6, <2>1, <2>2
    <2>3. CASE n \in 1..Len(checkpoint)
        BY <1>2, <1>6, <2>1, <2>3 DEF PairInv, FileOfPairs
    <2> QED BY <1>2, <1>6, <2>2, <2>3
<1>7. ASSUME NEW n \in DOMAIN checkpoint'
      PROVE  config'.paired <=> checkpoint'[n].arm # "single"
    <2>1. config.paired <=> row.arm # "single"
        BY <1>1
    <2> QED BY <1>2, <2>1 DEF PairInv, FileOfPairs
<1> QED BY <1>5, <1>6, <1>7 DEF FileOfPairs


\* A row is added to an empty pair or to one of this session, unless a fresh
\* session is started over the file of another.
LEMMA NextPairs == Inv /\ PairInv /\ [Next]_runner /\ FreshOverNothing => PairInv'
<1> SUFFICES ASSUME Inv, PairInv, [Next]_runner, FreshOverNothing PROVE PairInv'
    OBVIOUS
<1>0. TypeOK' /\ MeasuredInOrder'
    BY NextTyped, NextMeasured DEF Inv
<1>1. CASE UNCHANGED runner
    BY <1>1 DEF runner, file, PairInv, FileOfPairs, SessionOfPairs, Running, Item
<1>2. CASE \E r \in ResumeChoices : Start(r)
    <2>1. PICK r \in BOOLEAN : Start(r)
        BY <1>2, SglangAssumption
    <2>2. /\ session' = session + 1 /\ resume' = r /\ pc' = "next" /\ UNCHANGED <<config, checkpoint>>
          /\ results' = Loaded(r) /\ done' = Keys(Loaded(r))
        BY <2>1 DEF Start, file
    <2>3. r \/ checkpoint = <<>>
        BY <2>2 DEF FreshOverNothing, Inv, TypeOK
    <2>4. Loaded(r) = checkpoint
        BY <2>3 DEF Loaded
    <2>5. \A n \in DOMAIN checkpoint : <<checkpoint[n].item, checkpoint[n].arm>> \in done'
        BY <2>2, <2>4, KeysOfRows DEF Inv, TypeOK
    <2>6. ASSUME NEW i \in Ids, <<i, "warm">> \in done' PROVE <<i, "cold">> \in done'
        <3>1. PICK n \in 1..Len(checkpoint) : checkpoint[n].item = i /\ checkpoint[n].arm = "warm"
            BY <2>2, <2>4, <2>6, KeysOfRows DEF Inv, TypeOK
        <3>2. n - 1 \in 1..Len(checkpoint) /\ checkpoint[n - 1].item = i /\ checkpoint[n - 1].arm = "cold"
            <4>1. checkpoint \in Seq(Rows) /\ n \in DOMAIN checkpoint
                BY <3>1 DEF Inv, TypeOK
            <4>2. n > 1 /\ checkpoint[n - 1].item = i /\ checkpoint[n - 1].arm = "cold"
                BY <3>1, <4>1 DEF PairInv, FileOfPairs
            <4> QED BY <4>1, <4>2
        <3> QED BY <2>2, <2>4, <3>2, KeysOfRows DEF Inv, TypeOK
    <2>7. FileOfPairs'
        BY <2>2 DEF PairInv, FileOfPairs
    <2> QED BY <2>2, <2>4, <2>5, <2>6, <2>7 DEF PairInv, SessionOfPairs
<1>3. CASE StartFails
    BY <1>3 DEF StartFails, PairInv, FileOfPairs, SessionOfPairs, Running, file
<1>4. CASE Skip \/ Begin \/ Finish \/ Flush \/ Seed \/ GenerateAnswered \/ GenerateFailed
    <2>1. /\ Running /\ pc # "record" /\ UNCHANGED <<config, session, results, done, checkpoint>>
        BY <1>4 DEF Skip, Begin, Finish, Flush, Seed, GenerateAnswered, GenerateFailed, Answer,
                    Running, file
    <2>2. ASSUME pc' = "record", config.paired PROVE Len(measured') = 2
        <3>1. pc = "generate" /\ arm # "cold" /\ (GenerateAnswered \/ GenerateFailed)
            BY <1>4, <2>1, <2>2
            DEF Skip, Begin, Finish, Flush, Seed, GenerateAnswered, GenerateFailed, Answer
        <3>2. Len(measured) = 1 /\ measured \in Seq(Rows)
            BY <2>2, <3>1 DEF Inv, TypeOK, MeasuredInOrder, Engaged
        <3>3. PICK row \in Rows : measured' = Append(measured, row)
            <4>1. pos <= Len(Manifest)
                BY <3>1 DEF Inv, MeasuredInOrder, Engaged
            <4> QED BY <3>1, <4>1, RowTyped DEF Inv, GenerateAnswered, GenerateFailed, Answer
        <3>4. Len(measured') = Len(measured) + 1
            <4>1. Len(Append(measured, row)) = Len(measured) + 1
                BY <3>2, AppendProperties
            <4> QED BY <3>3, <4>1
        <3> QED BY <3>2, <3>4
    <2>3. FileOfPairs'
        BY <2>1 DEF PairInv, FileOfPairs
    <2> QED BY <2>1, <2>2, <2>3 DEF PairInv, SessionOfPairs
<1>5. CASE Record
    <2> DEFINE row == Head(measured)
    <2>1. /\ row \in Rows /\ row.item = Item /\ row.session = session
          /\ row.arm = IF ~config.paired THEN "single" ELSE IF Len(measured) = 1 THEN "warm" ELSE "cold"
          /\ Len(measured) \in {1, 2}
          /\ ~config.paired => Len(measured) = 1
        BY <1>5, AtTheRecord DEF Record, Inv
    <2>2. /\ pc = "record" /\ UNCHANGED <<config, session, done>>
          /\ checkpoint' = Append(checkpoint, row) /\ results' = Append(results, row)
        BY <1>5 DEF Record
    <2>3. FileOfPairs'
        BY <2>2, PairsAppend
    <2>4. /\ checkpoint \in Seq(Rows) /\ Len(checkpoint) \in Nat
          /\ Len(checkpoint') = Len(checkpoint) + 1
          /\ DOMAIN checkpoint' = 1..(Len(checkpoint) + 1)
          /\ \A n \in 1..Len(checkpoint) : checkpoint'[n] = checkpoint[n]
          /\ checkpoint'[Len(checkpoint) + 1] = row
        BY <2>1, <2>2 DEF Inv, TypeOK
    <2>5. results' = checkpoint'
        BY <2>2 DEF PairInv, SessionOfPairs, Running
    <2>6. ASSUME NEW n \in DOMAIN checkpoint',
                 <<checkpoint'[n].item, checkpoint'[n].arm>> \notin done'
          PROVE  checkpoint'[n].session = session'
        <3>1. CASE n \in 1..Len(checkpoint)
            BY <2>2, <2>4, <2>6, <3>1 DEF PairInv, SessionOfPairs, Running
        <3>2. CASE n = Len(checkpoint) + 1
            BY <2>1, <2>2, <2>4, <3>2
        <3> QED BY <2>4, <3>1, <3>2
    <2>7. \A i \in Ids : <<i, "warm">> \in done' => <<i, "cold">> \in done'
        BY <2>2 DEF PairInv, SessionOfPairs, Running
    <2>8. ASSUME pc' = "record"
          PROVE  /\ checkpoint' # <<>> /\ checkpoint'[Len(checkpoint')].arm = "cold"
                 /\ checkpoint'[Len(checkpoint')].item = Item'
                 /\ checkpoint'[Len(checkpoint')].session = session'
        <3>1. Len(measured) # 1 /\ pos' = pos
            BY <1>5, <2>8 DEF Record
        <3>2. row.arm = "cold" /\ Item' = Item
            BY <2>1, <3>1 DEF Item
        <3> QED BY <2>1, <2>2, <2>4, <3>2
    <2> QED BY <2>3, <2>5, <2>6, <2>7, <2>8 DEF PairInv, SessionOfPairs
<1>6. CASE Kill \/ KillInWrite
    <2>1. pc' = "down" /\ config' = config
        BY <1>6 DEF Kill, KillInWrite, Dies
    <2>2. CASE checkpoint' = checkpoint
        BY <2>1, <2>2 DEF PairInv, FileOfPairs, SessionOfPairs, Running
    <2>3. CASE checkpoint' # checkpoint
        <3>1. checkpoint' = Append(checkpoint, Head(measured)) /\ pc = "record"
            BY <1>6, <2>3 DEF Kill, KillInWrite, file
        <3> QED BY <2>1, <3>1, PairsAppend DEF PairInv, SessionOfPairs, Running
    <2> QED BY <2>2, <2>3
<1>7. CASE Over
    BY <1>1, <1>7 DEF Over, vars, runner
<1> QED BY <1>1, <1>2, <1>3, <1>4, <1>5, <1>6, <1>7 DEF Next, SessionStep, Restart

\* A pair the summary uses was measured in one session, however often the run
\* was killed and resumed, provided nobody starts afresh over a file that
\* already holds rows.
THEOREM OneSessionPerPair ==
    CalSpec /\ [][FreshOverNothing]_vars => []PairsFromOneSession
<1>1. Inv /\ PairInv => PairsFromOneSession
    <2> SUFFICES ASSUME Inv, PairInv, pc = "returned", NEW i \in UsablePairs
                 PROVE  ColdRow(i).session = WarmRow(i).session
        BY DEF PairsFromOneSession
    <2> DEFINE c == LastRow(i, "cold")
               w == LastRow(i, "warm")
    <2>1. results \in Seq(Rows) /\ results = checkpoint
        BY DEF Inv, TypeOK, PairInv, SessionOfPairs
    <2>2. HasRow(i, "cold") /\ HasRow(i, "warm")
        BY DEF UsablePairs
    <2>3. /\ c \in 1..Len(checkpoint) /\ checkpoint[c].item = i /\ checkpoint[c].arm = "cold"
          /\ \A n \in 1..Len(checkpoint) :
                checkpoint[n].item = i /\ checkpoint[n].arm = "cold" => n <= c
        BY <2>1, <2>2, LastRowIs
    <2>4. w \in 1..Len(checkpoint) /\ checkpoint[w].item = i /\ checkpoint[w].arm = "warm"
        BY <2>1, <2>2, LastRowIs
    <2> HIDE DEF c, w
    <2>5. /\ w > 1 /\ checkpoint[w - 1].arm = "cold"
          /\ checkpoint[w - 1].item = i
          /\ checkpoint[w - 1].session = checkpoint[w].session
        BY <2>1, <2>4 DEF PairInv, FileOfPairs
    <2>6. CASE c > w
        BY <2>1, <2>3, <2>4, <2>6 DEF PairInv, FileOfPairs, c, w, ColdRow, WarmRow
    <2>7. CASE ~(c > w)
        <3>1. w - 1 <= c
            BY <2>1, <2>3, <2>4, <2>5
        <3>2. c # w
            BY <2>3, <2>4
        <3>3. c = w - 1
            BY <2>3, <2>4, <2>7, <3>1, <3>2
        <3> QED BY <2>1, <2>5, <3>3 DEF c, w, ColdRow, WarmRow
    <2> QED BY <2>6, <2>7
<1>2. CalInit => PairInv
    BY DEF CalInit, Init, PairInv, FileOfPairs, SessionOfPairs, Running
<1>3. Inv /\ PairInv /\ [CalNext]_calVars /\ [FreshOverNothing]_vars => PairInv'
    <2>1. UNCHANGED vars => FreshOverNothing
        BY DEF vars, FreshOverNothing
    <2> QED BY <2>1, CalSteps, NextPairs
<1> QED BY <1>1, <1>2, <1>3, Invariant, PTL DEF CalSpec

-----------------------------------------------------------------------------
(* The noise floor is of pairs cold in both runs.                           *)

\* What a run says agrees with what the engine did, unless it failed.
LEMMA RunTyped ==
    ASSUME NEW item, NEW reported \in BOOLEAN, NEW error \in BOOLEAN, error \/ reported
    PROVE  /\ RunOf(item, reported, error) \in CalRuns
           /\ \/ RunOf(item, reported, error).error
              \/ RunOf(item, reported, error).cached = RunOf(item, reported, error).hit
<1> DEFINE hit == {<<"prompt", item>>, <<"donor", item>>} \cap cache # {}
<1>1. hit \in BOOLEAN
    OBVIOUS
<1>2. RunOf(item, reported, error) = [hit |-> hit, cached |-> hit /\ reported, error |-> error]
    BY DEF RunOf
<1> HIDE DEF hit
<1> QED BY <1>1, <1>2 DEF CalRuns

\* Two runs of an item count it once: errored, contaminated, or a pair that
\* was cold both times and is of no item before.
LEMMA JudgedOnce ==
    ASSUME DistinctItems, CalInv, cal.pc = "generate",
           NEW first \in CalRuns, first.error \/ first.cached = first.hit,
           NEW second \in CalRuns, second.error \/ second.cached = second.hit
    PROVE  LET judged == Judged(first, second)
           IN  /\ judged \in [pc : {"generate"}, pos : {cal.pos}, first : {cal.first},
                              pairs : SUBSET [item : Ids, hit : BOOLEAN],
                              contaminated : Nat, errored : Nat]
               /\ IsFiniteSet(judged.pairs)
               /\ \A pair \in judged.pairs :
                     ~pair.hit /\ \E k \in 1..cal.pos : pair.item = Manifest[k]
               /\ Cardinality(judged.pairs) + judged.contaminated + judged.errored = cal.pos
<1> DEFINE judged == Judged(first, second)
           pair == [item |-> CalItem, hit |-> first.hit \/ second.hit]
<1>1. /\ cal \in [pc : {"generate"}, pos : {cal.pos}, first : {cal.first},
                  pairs : SUBSET [item : Ids, hit : BOOLEAN], contaminated : Nat, errored : Nat]
      /\ cal.pos \in 1..Len(Manifest)
      /\ IsFiniteSet(cal.pairs)
      /\ Cardinality(cal.pairs) + cal.contaminated + cal.errored = cal.pos - 1
      /\ \A p \in cal.pairs : ~p.hit /\ \E k \in 1..(cal.pos - 1) : p.item = Manifest[k]
    BY Given DEF CalInv
<1>2. Cardinality(cal.pairs) \in Nat
    BY <1>1, FS_CardinalityType
<1>3. \A p \in cal.pairs : ~p.hit /\ \E k \in 1..cal.pos : p.item = Manifest[k]
    <2>1. 1..(cal.pos - 1) \subseteq 1..cal.pos
        BY <1>1
    <2> QED BY <1>1, <2>1
<1>4. CASE first.error \/ second.error
    <2>1. judged = [cal EXCEPT !.errored = @ + 1]
        BY <1>4 DEF Judged
    <2> QED BY <1>1, <1>2, <1>3, <2>1
<1>5. CASE ~(first.error \/ second.error) /\ Contaminated(first, second)
    <2>1. judged = [cal EXCEPT !.contaminated = @ + 1]
        BY <1>5 DEF Judged
    <2> QED BY <1>1, <1>2, <1>3, <2>1
<1>6. CASE ~(first.error \/ second.error) /\ ~Contaminated(first, second)
    <2>1. judged = [cal EXCEPT !.pairs = @ \cup {pair}]
        BY <1>6 DEF Judged
    <2>2. CalItem \in Ids /\ CalItem = Manifest[cal.pos]
        BY <1>1, Given DEF CalItem
    <2>3. pair \in [item : Ids, hit : BOOLEAN] /\ pair.hit = FALSE /\ pair.item = CalItem
        BY <1>6, <2>2 DEF Contaminated, CalRuns
    <2>4. pair \notin cal.pairs
        <3> SUFFICES ASSUME pair \in cal.pairs PROVE FALSE
            OBVIOUS
        <3>1. PICK k \in 1..(cal.pos - 1) : CalItem = Manifest[k]
            BY <1>1, <2>3
        <3>2. k = cal.pos
            <4>1. k \in 1..Len(Manifest) /\ Manifest[k] = Manifest[cal.pos]
                BY <1>1, <2>2, <3>1, Given
            <4> QED BY <1>1, <4>1, DistinctItems, Zenon DEF DistinctItems
        <3> QED BY <1>1, <3>1, <3>2
    <2> HIDE DEF pair
    <2>5. /\ IsFiniteSet(cal.pairs \cup {pair})
          /\ Cardinality(cal.pairs \cup {pair}) = Cardinality(cal.pairs) + 1
        BY <1>1, <2>4, FS_AddElement
    <2>6. cal.pos \in 1..cal.pos
        BY <1>1
    <2>7. /\ judged.pairs = cal.pairs \cup {pair} /\ judged.contaminated = cal.contaminated
          /\ judged.errored = cal.errored
          /\ judged \in [pc : {"generate"}, pos : {cal.pos}, first : {cal.first},
                         pairs : SUBSET [item : Ids, hit : BOOLEAN], contaminated : Nat, errored : Nat]
        BY <1>1, <2>1, <2>3
    <2> HIDE DEF judged
    <2>8. \A p \in judged.pairs : ~p.hit /\ \E k \in 1..cal.pos : p.item = Manifest[k]
        BY <1>3, <2>2, <2>3, <2>6, <2>7
    <2>9. Cardinality(judged.pairs) + judged.contaminated + judged.errored = cal.pos
        BY <1>1, <1>2, <2>5, <2>7
    <2> QED BY <2>5, <2>7, <2>8, <2>9 DEF judged
<1> QED BY <1>4, <1>5, <1>6

\* The calibration files each item under exactly one of its outcomes.
LEMMA NextCal == ASSUME DistinctItems PROVE CalInv /\ [CalNext]_calVars => CalInv'
<1> SUFFICES ASSUME CalInv, [CalNext]_calVars PROVE CalInv'
    OBVIOUS
<1>1. CASE UNCHANGED cal
    BY <1>1 DEF CalInv
<1>2. ASSUME NEW answer \in Answers, NEW skip_verify \in BOOLEAN, CalStart(answer, skip_verify)
      PROVE  CalInv'
    <2> DEFINE next == IF skip_verify \/ EndpointPassed(answer) THEN "flush" ELSE "refused"
    <2>1. cal = Resting /\ cal' = [cal EXCEPT !.pc = next]
        BY <1>2 DEF CalStart, CalInv
    <2>2. next \in {"flush", "refused"}
        OBVIOUS
    <2> HIDE DEF next
    <2>3. cal' = [pc |-> next, pos |-> 1, first |-> <<>>, pairs |-> {},
                  contaminated |-> 0, errored |-> 0]
        BY <2>1 DEF Resting
    <2> QED BY <2>2, <2>3, Given, FS_EmptySet DEF CalInv
<1>3. CASE CalFlush
    <2>1. cal.pc = "flush" /\ cal' = [cal EXCEPT !.pc = "generate"]
        BY <1>3 DEF CalFlush
    <2> QED BY <2>1 DEF CalInv
<1>4. ASSUME NEW reported \in BOOLEAN, NEW error \in BOOLEAN, CalGenerate(reported, error)
      PROVE  CalInv'
    <2> DEFINE this == RunOf(CalItem, reported, error)
    <2>1. this \in CalRuns /\ (this.error \/ this.cached = this.hit)
        BY <1>4, RunTyped DEF CalGenerate
    <2>2. cal.pc = "generate"
        BY <1>4 DEF CalGenerate
    <2>3. CASE cal.first = <<>>
        <3>1. cal' = [cal EXCEPT !.first = <<this>>, !.pc = "flush"]
            BY <1>4, <2>3 DEF CalGenerate
        <3> HIDE DEF this
        <3>2. cal'.first[1] = this /\ cal'.first = <<this>>
            BY <3>1 DEF CalInv
        <3> QED BY <2>1, <2>2, <3>1, <3>2 DEF CalInv
    <2>4. CASE cal.first # <<>>
        <3> DEFINE next == IF cal.pos = Len(Manifest) THEN "build" ELSE "flush"
                   judged == Judged(cal.first[1], this)
        <3>1. cal' = [judged EXCEPT !.first = <<>>, !.pos = @ + 1, !.pc = next]
            BY <1>4, <2>4 DEF CalGenerate
        <3>2. PICK first \in CalRuns : cal.first = <<first>>
            BY <2>4 DEF CalInv
        <3>3. cal.first[1] = first /\ (first.error \/ first.cached = first.hit)
            BY <2>4, <3>2 DEF CalInv
        <3>4. cal.pos \in 1..Len(Manifest)
            BY <2>2, Given DEF CalInv
        <3> HIDE DEF this
        <3>5. /\ judged \in [pc : {"generate"}, pos : {cal.pos}, first : {cal.first},
                             pairs : SUBSET [item : Ids, hit : BOOLEAN],
                             contaminated : Nat, errored : Nat]
              /\ IsFiniteSet(judged.pairs)
              /\ \A pair \in judged.pairs :
                    ~pair.hit /\ \E k \in 1..cal.pos : pair.item = Manifest[k]
              /\ Cardinality(judged.pairs) + judged.contaminated + judged.errored = cal.pos
            BY <2>1, <2>2, <3>2, <3>3, JudgedOnce
        <3> HIDE DEF judged
        <3>6. cal' = [pc |-> next, pos |-> cal.pos + 1, first |-> <<>>, pairs |-> judged.pairs,
                      contaminated |-> judged.contaminated, errored |-> judged.errored]
            BY <3>1, <3>5
        <3>7. /\ next \in {"build", "flush"}
              /\ next = "flush" => cal.pos + 1 <= Len(Manifest)
              /\ next = "build" => cal.pos + 1 = Len(Manifest) + 1
              /\ cal.pos + 1 \in 1..(Len(Manifest) + 1) /\ (cal.pos + 1) - 1 = cal.pos
            BY <3>4, Given
        <3> HIDE DEF next
        <3> QED BY <3>5, <3>6, <3>7 DEF CalInv
    <2> QED BY <2>3, <2>4
<1>5. CASE CalBuild
    <2>1. /\ cal.pc = "build"
          /\ cal' = [cal EXCEPT !.pc = IF cal.pairs = {} THEN "refused" ELSE "written"]
        BY <1>5 DEF CalBuild
    <2> QED BY <2>1 DEF CalInv
<1>6. CASE CalEnd
    <2>1. cal' = Resting
        BY <1>6 DEF CalEnd
    <2> QED BY <2>1, Given, FS_EmptySet DEF CalInv, Resting
<1> QED BY <1>1, <1>2, <1>3, <1>4, <1>5, <1>6 DEF CalNext, calVars

\* With the ids of the manifest distinct, a noise floor is never written over
\* a pair that found anything cached, and its counts are of every item: a
\* pair, contaminated or errored.
THEOREM FloorOfColdPairs ==
    ASSUME DistinctItems
    PROVE  CalSpec => []FloorIsOfColdPairs
<1>1. CalInit => CalInv
    BY Given, FS_EmptySet DEF CalInit, CalInv, Resting
<1>2. CalInv => FloorIsOfColdPairs
    <2> SUFFICES ASSUME CalInv, cal.pc = "written"
                 PROVE  /\ cal.pairs # {}
                        /\ \A pair \in cal.pairs : ~pair.hit
                        /\ Cardinality(cal.pairs) + cal.contaminated + cal.errored = Len(Manifest)
        BY DEF FloorIsOfColdPairs
    <2>1. cal.pos = Len(Manifest) + 1 /\ cal.pos - 1 = Len(Manifest)
        BY Given DEF CalInv
    <2> QED BY <2>1 DEF CalInv
<1> QED BY <1>1, <1>2, NextCal, PTL DEF CalSpec
=============================================================================
