-------------------------- MODULE ConnectorProofs ---------------------------
(***************************************************************************)
(* Proofs about the connector's audit and what is made of it: the ids, the *)
(* rows, the promises and what was kept of them, and the causes of what    *)
(* was not served.                                                         *)
(*                                                                         *)
(* Three invariants, each over those before it.  AuditInv: what a request  *)
(* is, which ids it was given, and that each line was written by its half  *)
(* of its engine.  KeptInv: the scheduler's numbers follow the file, what  *)
(* the file says was kept is at most what was, and in a file that lost     *)
(* nothing its last promise is the last made.  SpanInv: there, a request   *)
(* of which no span was declined was promised one where it last stood.     *)
(***************************************************************************)
EXTENDS ConnectorAudit, DataLemmas, SequenceTheorems, FiniteSetTheorems, TLAPS

-----------------------------------------------------------------------------
(* Which rows the metrics are of. *)

\* The join keeps a row's id, and marks it read.
LEMMA JoinedAsSent ==
    ASSUME NEW row \in JoinRequests(Rows)
    PROVE  row.sent \in Rows /\ row.read = TRUE
<1>1. PICK sent \in Rows : row = Row(sent)
    BY DEF JoinRequests
<1>2. Row(sent).sent = sent /\ Row(sent).read = TRUE
    BY DEF Row, Unjoined, StampRow
<1> QED BY <1>1, <1>2

\* The cold rows of a document are rows of the cold arm's ids.
LEMMA ColdAsSent ==
    ASSUME NEW row \in ColdPart
    PROVE  row.sent \in DOMAIN ColdTwin
<1>1. PICK id \in DOMAIN ColdTwin :
          row = IF ColdTwin[id] = <<>> THEN Unread(id) ELSE [Row(ColdTwin[id]) EXCEPT !.sent = id]
    BY DEF ColdPart
<1>2. Unread(id).sent = id
    BY DEF Unread, Unjoined
<1>3. [Row(ColdTwin[id]) EXCEPT !.sent = id].sent = id
    BY DEF Row, Unjoined, StampRow
<1> QED BY <1>1, <1>2, <1>3

\* auditable_rows splits a document into exactly what it was put together of.
LEMMA Split ==
    ASSUME NEW audited \in SUBSET JoinRequests(Rows), NEW others \in SUBSET Rows
    PROVE  LET unread == {Unread(sent) : sent \in others}
               rows   == audited \cup unread \cup ColdPart
           IN  /\ ColdRows(rows) = ColdPart
               /\ UnreadRows(rows) = unread
               /\ Considered(rows) = audited
<1> DEFINE unread == {Unread(sent) : sent \in others}
           rows   == audited \cup unread \cup ColdPart
<1>1. \A row \in audited : row.read /\ Items[row.sent].arm # "cold"
    BY JoinedAsSent, AuditAssumption
<1>2. \A row \in unread : ~row.read /\ Items[row.sent].arm # "cold"
    <2>1. \A sent \in Rows : Items[sent].arm # "cold"
        BY AuditAssumption
    <2> QED BY <2>1 DEF Unread, Unjoined
<1>3. \A row \in ColdPart : Items[row.sent].arm = "cold"
    BY ColdAsSent, AuditAssumption
<1>4. ColdRows(rows) = ColdPart
    BY <1>1, <1>2, <1>3 DEF ColdRows, ItemOf
<1>5. UnreadRows(rows) = unread
    BY <1>1, <1>2, <1>3, <1>4 DEF UnreadRows
<1>6. Considered(rows) = audited
    BY <1>1, <1>2, <1>3, <1>4, <1>5 DEF Considered
<1> QED BY <1>4, <1>5, <1>6

\* Where no audit was read for any row, no rate is published.
LEMMA NothingRead ==
    ASSUME NEW rows, NEW counts, Considered(rows) = {}
    PROVE  LET metrics == ConnectorAuditMetrics(rows, counts)
           IN  /\ metrics.m1.given_match = NoRate /\ metrics.m1.given_chance = NoRate
               /\ metrics.m2.rate = NoRate /\ metrics.m7 = NoRate
<1>1. AuditWasJoined(Considered(rows)) = FALSE
    BY DEF AuditWasJoined
<1>2. /\ M1Alignment({}, FALSE, counts).given_match = NoRate
      /\ M1Alignment({}, FALSE, counts).given_chance = NoRate
    BY DEF M1Alignment, RateIf
<1>3. M2MaterializedReuse({}, FALSE).rate = NoRate
    BY DEF M2MaterializedReuse, RateIf
<1>4. M7Inputs({}, FALSE) = NoRate
    BY DEF M7Inputs, RateIf
<1> QED BY <1>1, <1>2, <1>3, <1>4 DEF ConnectorAuditMetrics

\* Whatever the engines wrote, whichever rows the audit was read for and
\* whatever cold rows a document holds, M1, M2 and M7's inputs are those of
\* the audited rows alone.
THEOREM OnlyAuditedRows == Spec => []OnlyAuditedRowsCount
<1>1. OnlyAuditedRowsCount
    <2> SUFFICES ASSUME NEW audited \in SUBSET JoinRequests(Rows), NEW counts \in ClassCounts
                 PROVE  LET unread == {Unread(row.sent) : row \in JoinRequests(Rows) \ audited}
                            whole  == ConnectorAuditMetrics(audited \cup unread \cup ColdPart, counts)
                            alone  == ConnectorAuditMetrics(audited, counts)
                        IN  /\ \A part \in {"present", "rows_joined", "rows_considered",
                                            "m1", "m2", "m7"} : whole[part] = alone[part]
                            /\ whole.excluded_cold = Cardinality(ColdPart)
                            /\ whole.excluded_not_joined = Cardinality(unread)
                            /\ audited = {} => /\ whole.m1.given_match = NoRate
                                               /\ whole.m1.given_chance = NoRate
                                               /\ whole.m2.rate = NoRate /\ whole.m7 = NoRate
        BY DEF OnlyAuditedRowsCount
    <2> DEFINE others == {row.sent : row \in JoinRequests(Rows) \ audited}
               unread == {Unread(row.sent) : row \in JoinRequests(Rows) \ audited}
               rows   == audited \cup unread \cup ColdPart
               whole  == ConnectorAuditMetrics(rows, counts)
               alone  == ConnectorAuditMetrics(audited, counts)
    <2>1. others \in SUBSET Rows /\ unread = {Unread(sent) : sent \in others}
        BY JoinedAsSent
    <2>2. ColdRows(rows) = ColdPart /\ UnreadRows(rows) = unread /\ Considered(rows) = audited
        BY <2>1, Split
    <2>3. Considered(audited) = audited
        BY JoinedAsSent, AuditAssumption DEF Considered, ColdRows, UnreadRows, ItemOf
    <2>4. /\ whole.present = alone.present /\ whole.rows_joined = alone.rows_joined
          /\ whole.rows_considered = alone.rows_considered
          /\ whole.m1 = alone.m1 /\ whole.m2 = alone.m2 /\ whole.m7 = alone.m7
          /\ whole.excluded_cold = Cardinality(ColdPart)
          /\ whole.excluded_not_joined = Cardinality(unread)
        BY <2>2, <2>3 DEF ConnectorAuditMetrics
    <2>5. ASSUME audited = {}
          PROVE  /\ whole.m1.given_match = NoRate /\ whole.m1.given_chance = NoRate
                 /\ whole.m2.rate = NoRate /\ whole.m7 = NoRate
        BY <2>2, <2>5, NothingRead
    <2> QED BY <2>4, <2>5
<1> QED BY <1>1, PTL

-----------------------------------------------------------------------------
(* Ids. *)

\* What is left of an id without its random token and its number, if any.
Stripped(f, id) ==
    \E k \in 1 .. Len(id) :
        /\ f = SubSeq(id, 1, k)
        /\ \/ k = Len(id)
           \/ k = Len(id) - 1 /\ id[Len(id)] \in RandomTokens \cup NumberTokens
           \/ k = Len(id) - 2 /\ id[Len(id)] \in RandomTokens /\ id[Len(id) - 1] \in NumberTokens

\* Every form of an id is it, with or without its prefix, stripped.
LEMMA Forms ==
    ASSUME NEW id \in Seq(STRING), id # <<>>, NEW f \in NormalizedIds(id) \cup {id}
    PROVE  Stripped(f, id) \/ Stripped(f, WithoutPrefix(id))
<1> DEFINE whole == {id, WithoutPrefix(id)}
<1>1. \A b \in whole : b \in Seq(STRING) /\ b # <<>> /\ Len(b) \in Nat /\ Len(b) >= 1
    <2>1. CASE Len(id) > 1 /\ id[1] \in Prefixes
        <3>1. WithoutPrefix(id) = Tail(id)
            BY <2>1 DEF WithoutPrefix
        <3>2. Tail(id) \in Seq(STRING) /\ Len(Tail(id)) = Len(id) - 1
            BY HeadTailProperties
        <3> QED BY <2>1, <3>1, <3>2, LenProperties, EmptySeq
    <2>2. CASE ~(Len(id) > 1 /\ id[1] \in Prefixes)
        BY <2>2, LenProperties, EmptySeq DEF WithoutPrefix
    <2> QED BY <2>1, <2>2
<1>2. \A b \in whole : SubSeq(b, 1, Len(b)) = b
    BY <1>1, SubSeqFull
<1>3. ASSUME NEW b \in whole PROVE Stripped(b, b)
    BY <1>1, <1>2 DEF Stripped
<1>4. ASSUME NEW b \in whole, NEW tokens \in {RandomTokens, NumberTokens}
      PROVE  Stripped(WithoutLast(b, tokens), b)
    BY <1>1, <1>3 DEF Stripped, WithoutLast
<1>5. ASSUME NEW b \in whole
      PROVE  Stripped(WithoutLast(WithoutLast(b, RandomTokens), NumberTokens), b)
    <2> DEFINE c == WithoutLast(b, RandomTokens)
    <2>1. CASE c = b
        BY <2>1, <1>4
    <2>2. CASE c # b
        <3>1. Len(b) > 1 /\ b[Len(b)] \in RandomTokens /\ c = SubSeq(b, 1, Len(b) - 1)
            BY <2>2 DEF WithoutLast
        <3>2. Len(c) = Len(b) - 1 /\ \A j \in 1 .. Len(b) - 1 : c[j] = b[j]
            BY <1>1, <3>1, SubSeqProperties
        <3> HIDE DEF c
        <3>3. CASE Len(c) > 1 /\ c[Len(c)] \in NumberTokens
            <4>1. WithoutLast(c, NumberTokens) = SubSeq(c, 1, Len(b) - 2)
                BY <3>2, <3>3 DEF WithoutLast
            <4>2. SubSeq(c, 1, Len(b) - 2) = SubSeq(b, 1, Len(b) - 2)
                <5>1. c \in Seq(STRING)
                    BY <1>1, <3>1, <3>2, SubSeqProperties
                <5> QED BY <1>1, <3>1, <3>2, <3>3, <5>1, SubSeqProperties
            <4>3. c[Len(c)] = b[Len(b) - 1]
                BY <1>1, <3>2, <3>3
            <4>4. /\ Len(b) - 2 \in 1 .. Len(b) /\ b[Len(b) - 1] \in NumberTokens
                  /\ WithoutLast(c, NumberTokens) = SubSeq(b, 1, Len(b) - 2)
                BY <1>1, <3>1, <3>2, <3>3, <4>1, <4>2, <4>3
            <4> QED BY <3>1, <4>4 DEF Stripped, c
        <3>4. CASE ~(Len(c) > 1 /\ c[Len(c)] \in NumberTokens)
            <4>1. WithoutLast(c, NumberTokens) = c
                BY <3>4 DEF WithoutLast
            <4>2. Len(b) - 1 \in 1 .. Len(b)
                BY <1>1, <3>1
            <4> QED BY <3>1, <4>1, <4>2 DEF Stripped, c
        <3> QED BY <3>3, <3>4 DEF c
    <2> QED BY <2>1, <2>2
<1>6. \/ f \in whole
      \/ \E b \in whole : f = WithoutLast(b, RandomTokens) \/ f = WithoutLast(b, NumberTokens)
      \/ \E b \in whole : f = WithoutLast(WithoutLast(b, RandomTokens), NumberTokens)
    BY DEF NormalizedIds
<1> QED BY <1>3, <1>4, <1>5, <1>6

\* An engine's id: what the client sent, or the front end made, between a
\* prefix, the number of the prompt and a random token, each of which may lack.
Builds(id, prefix, client, prompt, random) ==
    /\ client \in Seq(STRING) /\ client # <<>> /\ client[1] \notin Prefixes
    /\ prefix \in {<<p>> : p \in Prefixes} \cup {<<>>}
    /\ prompt \in {<<t>> : t \in NumberTokens} \cup {<<>>}
    /\ random \in {<<t>> : t \in RandomTokens} \cup {<<>>}
    /\ id = prefix \o client \o prompt \o random

\* What stands behind the client's part.
Behind(rest, client, prompt, random) ==
    /\ rest \in Seq(STRING) /\ Len(client) \in Nat \ {0}
    /\ Len(prompt) \in 0 .. 1 /\ Len(random) \in 0 .. 1
    /\ Len(rest) = Len(client) + Len(prompt) + Len(random)
    /\ \A j \in 1 .. Len(client) : rest[j] = client[j]
    /\ Len(prompt) = 1 => rest[Len(client) + 1] \in NumberTokens
    /\ Len(random) = 1 => rest[Len(rest)] \in RandomTokens

\* A sequence of one token.
LEMMA OneToken == ASSUME NEW S, NEW t \in S PROVE <<t>> \in Seq(S) /\ Len(<<t>>) = 1 /\ <<t>>[1] = t
OBVIOUS

\* A sequence of two.
LEMMA TwoTokens ==
    ASSUME NEW a \in STRING, NEW b \in STRING
    PROVE  <<a, b>> \in Seq(STRING) /\ <<a, b>> # <<>> /\ <<a, b>>[1] = a
<1>1. ASSUME NEW S, NEW c \in S, NEW d \in S
      PROVE  <<c, d>> \in Seq(S) /\ <<c, d>> # <<>> /\ <<c, d>>[1] = c
    BY <1>1
<1> QED BY <1>1

\* A part that may lack is a sequence of at most one of its tokens.
LEMMA AtMostOne ==
    ASSUME NEW tokens \in SUBSET STRING, NEW part \in {<<t>> : t \in tokens} \cup {<<>>}
    PROVE  /\ part \in Seq(STRING) /\ Len(part) \in 0 .. 1
           /\ Len(part) = 0 => part = <<>>
           /\ Len(part) = 1 => part[1] \in tokens
<1>1. CASE part = <<>>
    BY <1>1, EmptySeq
<1>2. CASE \E t \in tokens : part = <<t>>
    <2>1. PICK t \in tokens : part = <<t>>
        BY <1>2
    <2>2. t \in STRING
        OBVIOUS
    <2>3. part \in Seq(STRING) /\ Len(part) = 1 /\ part[1] = t
        BY <2>1, <2>2, OneToken
    <2>4. Len(part) \in 0 .. 1 /\ Len(part) # 0
        BY <2>3
    <2> QED BY <2>3, <2>4
<1>3. part = <<>> \/ \E t \in tokens : part = <<t>>
    OBVIOUS
<1> QED BY <1>1, <1>2, <1>3

\* Two sequences in one.
LEMMA BothParts ==
    ASSUME NEW s \in Seq(STRING), NEW t \in Seq(STRING)
    PROVE  /\ s \o t \in Seq(STRING) /\ Len(s \o t) = Len(s) + Len(t)
           /\ Len(s) \in Nat /\ Len(t) \in Nat
           /\ \A i \in 1 .. Len(s) : (s \o t)[i] = s[i]
           /\ \A i \in 1 .. Len(t) : (s \o t)[Len(s) + i] = t[i]
OBVIOUS

\* The prefix is what the engine put first, and nothing else is one.
LEMMA BehindPrefix ==
    ASSUME NEW id, NEW prefix, NEW client, NEW prompt, NEW random,
           Builds(id, prefix, client, prompt, random)
    PROVE  /\ id \in Seq(STRING) /\ id # <<>>
           /\ Behind(WithoutPrefix(id), client, prompt, random)
           /\ WithoutPrefix(id) = id \/ id[1] \in Prefixes
           /\ Len(id) = Len(prefix) + Len(WithoutPrefix(id))
<1> DEFINE rest == client \o prompt \o random
<1>1. Prefixes \cup RandomTokens \cup NumberTokens \subseteq STRING
    BY AuditAssumption
<1>2. /\ prefix \in Seq(STRING) /\ prompt \in Seq(STRING) /\ random \in Seq(STRING)
      /\ Len(prefix) \in 0 .. 1 /\ Len(prompt) \in 0 .. 1 /\ Len(random) \in 0 .. 1
      /\ Len(client) \in Nat \ {0}
      /\ Len(prefix) = 0 => prefix = <<>>
      /\ Len(prefix) = 1 => prefix[1] \in Prefixes
      /\ Len(prompt) = 1 => prompt[1] \in NumberTokens
      /\ Len(random) = 1 => random[1] \in RandomTokens
    <2>1. /\ Prefixes \in SUBSET STRING /\ RandomTokens \in SUBSET STRING
          /\ NumberTokens \in SUBSET STRING
        BY <1>1
    <2>2. client \in Seq(STRING) /\ client # <<>>
        BY DEF Builds
    <2>3. Len(client) \in Nat \ {0}
        BY <2>2, EmptySeq
    <2> QED BY <2>1, <2>3, AtMostOne DEF Builds
<1>3. /\ client \o prompt \in Seq(STRING) /\ Len(client \o prompt) = Len(client) + Len(prompt)
      /\ \A j \in 1 .. Len(client) : (client \o prompt)[j] = client[j]
      /\ Len(prompt) = 1 => (client \o prompt)[Len(client) + 1] = prompt[1]
    BY <1>2, BothParts DEF Builds
<1>4. /\ rest \in Seq(STRING) /\ Len(rest) = Len(client) + Len(prompt) + Len(random)
      /\ \A j \in 1 .. Len(client) : rest[j] = client[j]
      /\ Len(prompt) = 1 => rest[Len(client) + 1] = prompt[1]
      /\ Len(random) = 1 => rest[Len(rest)] = random[1]
    <2> DEFINE begin == client \o prompt
    <2>1. /\ begin \in Seq(STRING) /\ Len(begin) = Len(client) + Len(prompt)
          /\ \A j \in 1 .. Len(client) : begin[j] = client[j]
          /\ Len(prompt) = 1 => begin[Len(client) + 1] = prompt[1]
        BY <1>3
    <2> HIDE DEF begin
    <2>2. /\ begin \o random \in Seq(STRING) /\ Len(begin \o random) = Len(begin) + Len(random)
          /\ \A j \in 1 .. Len(begin) : (begin \o random)[j] = begin[j]
          /\ Len(random) = 1 => (begin \o random)[Len(begin) + 1] = random[1]
        <3>1. /\ begin \o random \in Seq(STRING) /\ Len(begin \o random) = Len(begin) + Len(random)
              /\ \A j \in 1 .. Len(begin) : (begin \o random)[j] = begin[j]
              /\ \A j \in 1 .. Len(random) : (begin \o random)[Len(begin) + j] = random[j]
            BY <1>2, <2>1, BothParts
        <3> QED BY <3>1
    <2>3. \A j \in 1 .. Len(client) : (begin \o random)[j] = client[j]
        BY <1>2, <2>1, <2>2
    <2>4. Len(prompt) = 1 => (begin \o random)[Len(client) + 1] = prompt[1]
        BY <1>2, <2>1, <2>2
    <2>5. Len(random) = 1 => (begin \o random)[Len(begin \o random)] = random[1]
        BY <1>2, <2>1, <2>2
    <2> QED BY <1>2, <2>1, <2>2, <2>3, <2>4, <2>5 DEF begin
<1>5. Behind(rest, client, prompt, random)
    BY <1>2, <1>4 DEF Behind
<1>6. id = prefix \o rest
    <2>1. client \in Seq(STRING) /\ id = ((prefix \o client) \o prompt) \o random
        BY DEF Builds
    <2>2. (prefix \o client) \o prompt = prefix \o (client \o prompt)
        BY <1>2, <2>1, ConcatAssociative
    <2>3. (prefix \o (client \o prompt)) \o random = prefix \o ((client \o prompt) \o random)
        <3>1. client \o prompt \in Seq(STRING) /\ prefix \in Seq(STRING) /\ random \in Seq(STRING)
            BY <1>2, <1>3
        <3> QED BY <3>1, ConcatAssociative
    <2> QED BY <2>1, <2>2, <2>3
<1> HIDE DEF rest
<1>7. CASE Len(prefix) = 0
    <2>1. id = rest
        BY <1>2, <1>4, <1>6, <1>7, ConcatEmptySeq
    <2>2. rest[1] \notin Prefixes /\ Len(rest) > 0 /\ rest # <<>>
        BY <1>2, <1>4, EmptySeq DEF Builds
    <2> QED BY <1>4, <1>5, <1>7, <2>1, <2>2 DEF WithoutPrefix
<1>8. CASE Len(prefix) = 1
    <2>1. /\ id \in Seq(STRING) /\ Len(id) = 1 + Len(rest)
          /\ id[1] = prefix[1] /\ \A j \in 1 .. Len(rest) : id[j + 1] = rest[j]
        <3>1. prefix \in Seq(STRING) /\ rest \in Seq(STRING)
            BY <1>2, <1>4
        <3>2. /\ id \in Seq(STRING) /\ Len(id) = Len(prefix) + Len(rest) /\ Len(rest) \in Nat
              /\ \A j \in 1 .. Len(prefix) : id[j] = prefix[j]
              /\ \A j \in 1 .. Len(rest) : id[Len(prefix) + j] = rest[j]
            BY <1>6, <3>1, BothParts
        <3> QED BY <1>8, <3>2
    <2>2. Len(id) > 1 /\ id[1] \in Prefixes
        BY <1>2, <1>4, <1>8, <2>1
    <2>3. WithoutPrefix(id) = Tail(id)
        BY <2>2 DEF WithoutPrefix
    <2>4. Tail(id) \in Seq(STRING) /\ Len(Tail(id)) = Len(rest)
          /\ \A j \in 1 .. Len(rest) : Tail(id)[j] = id[j + 1]
        BY <1>4, <2>1, <2>2, HeadTailProperties
    <2>5. Tail(id) = rest
        BY <1>4, <2>1, <2>4, SeqEqual
    <2>6. id # <<>>
        BY <2>2, EmptySeq
    <2> QED BY <1>5, <1>8, <2>1, <2>2, <2>3, <2>5, <2>6
<1> QED BY <1>2, <1>7, <1>8

\* A form of an engine's id that begins with no prefix is the part behind it, stripped.
LEMMA FormsBehindPrefix ==
    ASSUME NEW id, NEW prefix, NEW client, NEW prompt, NEW random,
           Builds(id, prefix, client, prompt, random),
           NEW f \in NormalizedIds(id) \cup {id}, f[1] \notin Prefixes
    PROVE  Stripped(f, WithoutPrefix(id))
<1>1. /\ id \in Seq(STRING) /\ id # <<>>
      /\ WithoutPrefix(id) = id \/ id[1] \in Prefixes
    BY BehindPrefix
<1>2. Stripped(f, id) \/ Stripped(f, WithoutPrefix(id))
    BY <1>1, Forms
<1>3. ASSUME Stripped(f, id), id[1] \in Prefixes PROVE FALSE
    <2>1. PICK k \in 1 .. Len(id) : f = SubSeq(id, 1, k)
        BY <1>3 DEF Stripped
    <2>2. f[1] = id[1]
        BY <1>1, <2>1, SubSeqProperties, LenProperties
    <2> QED BY <1>3, <2>2
<1> QED BY <1>1, <1>2, <1>3

\* What the client sent is a form of the engine's id.
LEMMA OwnForm ==
    ASSUME NEW id, NEW prefix, NEW client, NEW prompt, NEW random,
           Builds(id, prefix, client, prompt, random)
    PROVE  client \in NormalizedIds(id) \cup {id}
<1> DEFINE rest == WithoutPrefix(id)
           whole == {id, rest}
           bases == whole \cup {WithoutLast(b, RandomTokens) : b \in whole}
<1>1. Behind(rest, client, prompt, random) /\ client \in Seq(STRING)
    BY BehindPrefix DEF Builds
<1>2. NormalizedIds(id) \cup {id} = bases \cup {WithoutLast(b, NumberTokens) : b \in bases} \cup {id}
    BY DEF NormalizedIds
<1> HIDE DEF rest
<1>3. SubSeq(rest, 1, Len(client)) = client
    <2>1. /\ SubSeq(rest, 1, Len(client)) \in Seq(STRING)
          /\ Len(SubSeq(rest, 1, Len(client))) = Len(client)
          /\ \A j \in 1 .. Len(client) : SubSeq(rest, 1, Len(client))[j] = rest[j]
        BY <1>1, SubSeqProperties DEF Behind
    <2> QED BY <1>1, <2>1, SeqEqual DEF Behind
<1>4. CASE Len(prompt) = 0 /\ Len(random) = 0
    <2>1. Len(client) = Len(rest) /\ rest \in Seq(STRING)
        BY <1>1, <1>4 DEF Behind
    <2>2. rest = client
        BY <1>3, <2>1, SubSeqFull
    <2> QED BY <1>2, <2>2
<1>5. CASE Len(prompt) = 1 /\ Len(random) = 0
    <2>1. WithoutLast(rest, NumberTokens) = client
        BY <1>1, <1>3, <1>5 DEF WithoutLast, Behind
    <2> QED BY <1>2, <2>1
<1>6. CASE Len(prompt) = 0 /\ Len(random) = 1
    <2>1. WithoutLast(rest, RandomTokens) = client
        BY <1>1, <1>3, <1>6 DEF WithoutLast, Behind
    <2> QED BY <1>2, <2>1
<1>7. CASE Len(prompt) = 1 /\ Len(random) = 1
    <2> DEFINE c == WithoutLast(rest, RandomTokens)
    <2>1. c = SubSeq(rest, 1, Len(client) + 1)
        BY <1>1, <1>7 DEF WithoutLast, Behind
    <2>2. c \in Seq(STRING) /\ Len(c) = Len(client) + 1 /\ \A j \in 1 .. Len(c) : c[j] = rest[j]
        BY <1>1, <1>7, <2>1, SubSeqProperties DEF Behind
    <2> HIDE DEF c
    <2>3. WithoutLast(c, NumberTokens) = SubSeq(c, 1, Len(client))
        BY <1>1, <1>7, <2>2 DEF WithoutLast, Behind
    <2>4. /\ SubSeq(c, 1, Len(client)) \in Seq(STRING)
          /\ Len(SubSeq(c, 1, Len(client))) = Len(client)
          /\ \A j \in 1 .. Len(client) : SubSeq(c, 1, Len(client))[j] = c[j]
        BY <1>1, <2>2, SubSeqProperties DEF Behind
    <2>5. SubSeq(c, 1, Len(client)) = client
        BY <1>1, <2>2, <2>4, SeqEqual DEF Behind
    <2>6. c \in bases
        BY DEF c
    <2> QED BY <1>2, <2>3, <2>5, <2>6
<1> QED BY <1>1, <1>4, <1>5, <1>6, <1>7 DEF Behind

\* No id that was sent is a form of the engine's id of another.
LEMMA NoOtherForm ==
    ASSUME NEW id, NEW prefix, NEW sent \in Sent, NEW prompt, NEW random,
           Builds(id, prefix, sent, prompt, random),
           NEW other \in Sent, other \in NormalizedIds(id) \cup {id}
    PROVE  other = sent
<1> DEFINE rest == WithoutPrefix(id)
<1>1. /\ other \in Seq(STRING) /\ other[1] \notin Prefixes /\ sent \in Seq(STRING)
      /\ Extends(other, sent) => other[Len(other)] \notin RandomTokens \cup NumberTokens
      /\ Extends(sent, other) => sent[Len(sent)] \notin RandomTokens \cup NumberTokens
    BY AuditAssumption
<1>2. Stripped(other, rest) /\ Behind(rest, sent, prompt, random)
    BY <1>1, BehindPrefix, FormsBehindPrefix
<1> HIDE DEF rest
<1>3. PICK k \in 1 .. Len(rest) :
        /\ other = SubSeq(rest, 1, k)
        /\ \/ k = Len(rest)
           \/ k = Len(rest) - 1 /\ rest[Len(rest)] \in RandomTokens \cup NumberTokens
           \/ k = Len(rest) - 2 /\ rest[Len(rest)] \in RandomTokens /\ rest[Len(rest) - 1] \in NumberTokens
    BY <1>2 DEF Stripped
<1>4. Len(other) = k /\ \A j \in 1 .. k : other[j] = rest[j]
    BY <1>2, <1>3, SubSeqProperties DEF Behind
<1>5. CASE k = Len(sent)
    BY <1>1, <1>2, <1>4, <1>5, SeqEqual DEF Behind
<1>6. CASE k < Len(sent)
    <2>1. Extends(sent, other)
        <3>1. /\ SubSeq(sent, 1, k) \in Seq(STRING) /\ Len(SubSeq(sent, 1, k)) = k
              /\ \A j \in 1 .. k : SubSeq(sent, 1, k)[j] = sent[j]
            BY <1>1, <1>3, <1>6, SubSeqProperties
        <3>2. SubSeq(sent, 1, k) = other
            BY <1>1, <1>2, <1>4, <1>6, <3>1, SeqEqual DEF Behind
        <3> QED BY <1>4, <1>6, <3>2 DEF Extends
    <2>2. sent[Len(sent)] \notin RandomTokens \cup NumberTokens
        BY <1>1, <2>1
    <2>3. sent[Len(sent)] = rest[Len(sent)]
        BY <1>2 DEF Behind
    <2> QED BY <1>2, <1>3, <1>6, <2>2, <2>3 DEF Behind
<1>7. CASE k > Len(sent)
    <2>1. Extends(other, sent)
        <3>1. /\ SubSeq(other, 1, Len(sent)) \in Seq(STRING)
              /\ Len(SubSeq(other, 1, Len(sent))) = Len(sent)
              /\ \A j \in 1 .. Len(sent) : SubSeq(other, 1, Len(sent))[j] = other[j]
            BY <1>1, <1>2, <1>4, <1>7, SubSeqProperties DEF Behind
        <3>2. SubSeq(other, 1, Len(sent)) = sent
            BY <1>1, <1>2, <1>4, <1>7, <3>1, SeqEqual DEF Behind
        <3> QED BY <1>4, <1>7, <3>2 DEF Extends
    <2>2. rest[k] \notin RandomTokens \cup NumberTokens
        BY <1>1, <1>4, <2>1
    <2>3. /\ Len(sent) \in Nat /\ Len(prompt) \in 0 .. 1 /\ Len(random) \in 0 .. 1
          /\ Len(rest) = Len(sent) + Len(prompt) + Len(random) /\ k \in Nat /\ k <= Len(rest)
        BY <1>2, <1>3 DEF Behind
    <2>4. \/ k = Len(rest) /\ Len(random) = 1
          \/ k = Len(sent) + 1 /\ Len(prompt) = 1
        <3>1. ASSUME NEW l \in Nat, NEW p \in 0 .. 1, NEW r \in 0 .. 1, k \in Nat, k > l, k <= l + p + r
              PROVE  (k = l + p + r /\ r = 1) \/ (k = l + 1 /\ p = 1)
            <4>1. CASE p = 0
                BY <3>1, <4>1
            <4>2. CASE p = 1
                BY <3>1, <4>2
            <4> QED BY <4>1, <4>2
        <3>2. k > Len(sent) /\ k <= Len(sent) + Len(prompt) + Len(random)
            BY <1>7, <2>3
        <3>3. \/ k = Len(sent) + Len(prompt) + Len(random) /\ Len(random) = 1
              \/ k = Len(sent) + 1 /\ Len(prompt) = 1
            BY <2>3, <3>1, <3>2
        <3> QED BY <2>3, <3>3
    <2> QED BY <1>2, <2>2, <2>4 DEF Behind
<1> QED BY <1>2, <1>3, <1>5, <1>6, <1>7 DEF Behind

-----------------------------------------------------------------------------
(* What the engines have made of what was sent, and written of it. *)

Phases == {"queued", "hit", "promised", "declined", "materialized", "gone"}
Request == [sent : Sent, id : Seq(STRING), response : Seq(STRING), generation : Nat,
            phase : Phases, boundary : Boundaries \cup {None}, promise : Nat, current : Nat,
            mass : Nat, scheduled : Nat, worked : Nat]

\* Which numbers of a prompt an engine may put behind an id.
PromptParts == IF front.prompts THEN {<<FirstPrompt>>, <<SecondPrompt>>} ELSE {<<>>}

\* A request has the ids that the front end and its engine made for it.
IdsMade ==
    \A i \in DOMAIN requests :
        /\ requests[i].generation <= generation
        /\ requests[i].phase # "gone" => requests[i].generation = generation
        /\ requests[i].response = ResponseId(requests[i].sent, i)
        /\ \E prompt \in PromptParts : requests[i].id = EngineId(requests[i].sent, prompt, i)

\* Two requests sent under one id are of one engine, unless it drew random tokens.
SentOncePerEngine ==
    \A i, j \in DOMAIN requests :
        requests[i].sent = requests[j].sent =>
            front.random \/ requests[i].generation = requests[j].generation

\* A line is written by a half of the engine of a request, at a step before this one.
Written(line, r) ==
    LET ofWorker == line.event = "materialized"
    IN  /\ line.event \in SpanBoundaryEvents \cup {"hit", "materialized"}
        /\ line.id = r.id
        /\ line.connector = 2 * r.generation + IF ofWorker THEN 1 ELSE 0
        /\ line.event_seq \in Nat
        /\ line.event_seq < IF ofWorker THEN r.worked ELSE r.scheduled
        /\ ofWorker => line.tokens \in Nat
LinesAre ==
    \A n \in DOMAIN file :
        file[n].event = "malformed" \/
          /\ file[n].request_seq \in DOMAIN requests
          /\ Written(file[n], requests[file[n].request_seq])

LineTypes == {Malformed} \cup
    [event : SpanBoundaryEvents \cup {"hit", "materialized"}, id : Seq(STRING),
     connector : Nat, request_seq : Nat, event_seq : Nat, boundary : Boundaries \cup {None},
     tokens : Nat \cup {None}]

AuditTypes ==
    /\ front \in Fronts /\ generation \in Nat /\ cut \in BOOLEAN
    /\ requests \in Seq(Request) /\ Len(requests) <= MaxRequests
    /\ file \in Seq(LineTypes)

AuditInv == AuditTypes /\ IdsMade /\ SentOncePerEngine /\ LinesAre

\* What a request becomes by a step of its own.
Becomes(new, r, phase, boundary, promise, current, mass, scheduled, worked) ==
    /\ new.sent = r.sent /\ new.id = r.id /\ new.response = r.response
    /\ new.generation = r.generation
    /\ new.phase = phase /\ new.boundary = boundary
    /\ new.promise = promise /\ new.current = current /\ new.mass = mass
    /\ new.scheduled = scheduled /\ new.worked = worked

\* The fields of a request.
LEMMA RequestHas ==
    ASSUME NEW r \in Request
    PROVE  /\ r.sent \in Sent /\ r.generation \in Nat
           /\ r.id \in Seq(STRING) /\ r.response \in Seq(STRING)
           /\ r.phase \in Phases /\ r.boundary \in Boundaries \cup {None}
           /\ r.promise \in Nat /\ r.current \in Nat /\ r.mass \in Nat
           /\ r.scheduled \in Nat /\ r.worked \in Nat
           /\ r = [f \in DOMAIN r |-> r[f]]
           /\ DOMAIN r = {"sent", "id", "response", "generation", "phase", "boundary",
                          "promise", "current", "mass", "scheduled", "worked"}
BY DEF Request

\* A record that keeps what a request was sent and made as, and whose other
\* fields are of their types.
Typed(new) ==
    /\ new.phase \in Phases /\ new.boundary \in Boundaries \cup {None}
    /\ new.promise \in Nat /\ new.current \in Nat /\ new.mass \in Nat
    /\ new.scheduled \in Nat /\ new.worked \in Nat

\* It then is a request again.
LEMMA StaysRequest ==
    ASSUME NEW r \in Request, NEW new, new = [f \in DOMAIN new |-> new[f]], DOMAIN new = DOMAIN r,
           new.sent = r.sent, new.id = r.id, new.response = r.response,
           new.generation = r.generation, Typed(new)
    PROVE  new \in Request
<1>1. /\ new.sent \in Sent /\ new.generation \in Nat
      /\ new.id \in Seq(STRING) /\ new.response \in Seq(STRING)
    BY RequestHas
<1>2. DOMAIN new = {"sent", "id", "response", "generation", "phase", "boundary",
                    "promise", "current", "mass", "scheduled", "worked"}
    BY RequestHas
<1> QED BY <1>1, <1>2 DEF Request, Typed

\* The requests and their fields.
LEMMA RequestIs ==
    ASSUME AuditTypes
    PROVE  /\ DOMAIN requests = 1 .. Len(requests) /\ Len(requests) \in Nat
           /\ \A i \in DOMAIN requests : requests[i] \in Request
BY DEF AuditTypes

\* A lookup hit moves the request to a boundary.
LEMMA LookedUpIs ==
    ASSUME AuditTypes, NEW i \in DOMAIN requests, LookedUp(i)
    PROVE  \E new \in Request, b \in Boundaries :
              LET r == requests[i]
              IN  /\ requests' = [requests EXCEPT ![i] = new]
                  /\ Becomes(new, r, "hit", b, r.promise, r.current, r.mass, r.scheduled + 1, r.worked)
                  /\ Write(Line(i, "hit", Scheduler, r.scheduled,
                             IF front.hits_carry_boundary THEN b ELSE None, None))
                  /\ r.phase \in {"queued", "promised", "materialized", "declined"}
<1> DEFINE r == requests[i]
<1>1. PICK b \in Boundaries :
        /\ r.phase \in {"queued", "promised", "materialized", "declined"}
          /\ BySchedulerOf(i, "hit", IF front.hits_carry_boundary THEN b ELSE None, None)
          /\ requests' = [requests EXCEPT ![i].phase = "hit", ![i].boundary = b,
                                          ![i].scheduled = @ + 1]
    BY DEF LookedUp
<1> DEFINE new == [r EXCEPT !.phase = "hit", !.boundary = b, !.scheduled = @ + 1]
<1>2. requests' = [requests EXCEPT ![i] = new]
    BY <1>1, RequestIs
<1>3. r \in Request
    BY RequestIs
<1> HIDE DEF r
<1>4. Becomes(new, r, "hit", b, r.promise, r.current, r.mass, r.scheduled + 1, r.worked)
    BY <1>3, RequestHas DEF Becomes
<1>5. new = [f \in DOMAIN new |-> new[f]] /\ DOMAIN new = DOMAIN r
    BY <1>3, RequestHas
<1> HIDE DEF new
<1>6. new \in Request
    <2>1. Typed(new)
        BY <1>1, <1>3, <1>4, RequestHas DEF Becomes, Typed, Phases
    <2> QED BY <1>3, <1>4, <1>5, <2>1, StaysRequest DEF Becomes
<1> QED BY <1>1, <1>2, <1>4, <1>6 DEF BySchedulerOf, r

\* A promise is longer than the one before it, and nothing of it is kept yet.
LEMMA PromisesIs ==
    ASSUME AuditTypes, NEW i \in DOMAIN requests, Promises(i)
    PROVE  \E new \in Request :
              LET r == requests[i]
              IN  /\ requests' = [requests EXCEPT ![i] = new]
                  /\ Becomes(new, r, "promised", r.boundary, r.promise + 1, 0, r.mass, r.scheduled + 1, r.worked)
                  /\ Write(Line(i, "advertised", Scheduler, r.scheduled, r.boundary, r.promise + 1))
                  /\ r.phase = "hit"
<1> DEFINE r == requests[i]
<1>1. /\ r.phase = "hit"
          /\ BySchedulerOf(i, "advertised", r.boundary, r.promise + 1)
          /\ requests' = [requests EXCEPT ![i].phase = "promised", ![i].promise = r.promise + 1,
                                        ![i].current = 0, ![i].scheduled = @ + 1]
    BY DEF Promises
<1> DEFINE new == [r EXCEPT !.phase = "promised", !.promise = r.promise + 1, !.current = 0,
                      !.scheduled = @ + 1]
<1>2. requests' = [requests EXCEPT ![i] = new]
    BY <1>1, RequestIs
<1>3. r \in Request
    BY RequestIs
<1> HIDE DEF r
<1>4. Becomes(new, r, "promised", r.boundary, r.promise + 1, 0, r.mass, r.scheduled + 1, r.worked)
    BY <1>3, RequestHas DEF Becomes
<1>5. new = [f \in DOMAIN new |-> new[f]] /\ DOMAIN new = DOMAIN r
    BY <1>3, RequestHas
<1> HIDE DEF new
<1>6. new \in Request
    <2>1. Typed(new)
        BY <1>1, <1>3, <1>4, RequestHas DEF Becomes, Typed, Phases
    <2> QED BY <1>3, <1>4, <1>5, <2>1, StaysRequest DEF Becomes
<1> QED BY <1>1, <1>2, <1>4, <1>6 DEF BySchedulerOf, r

\* A span that is declined leaves what was promised before.
LEMMA DeclinesSpanIs ==
    ASSUME AuditTypes, NEW i \in DOMAIN requests, DeclinesSpan(i)
    PROVE  \E new \in Request, event \in Declines :
              LET r == requests[i]
              IN  /\ requests' = [requests EXCEPT ![i] = new]
                  /\ Becomes(new, r, "declined", r.boundary, r.promise, r.current, r.mass, r.scheduled + 1, r.worked)
                  /\ Write(Line(i, event, Scheduler, r.scheduled, r.boundary, None))
                  /\ r.phase = "hit"
<1> DEFINE r == requests[i]
<1>1. PICK event \in Declines :
        /\ r.phase = "hit"
          /\ BySchedulerOf(i, event, r.boundary, None)
          /\ requests' = [requests EXCEPT ![i].phase = "declined", ![i].scheduled = @ + 1]
    BY DEF DeclinesSpan
<1> DEFINE new == [r EXCEPT !.phase = "declined", !.scheduled = @ + 1]
<1>2. requests' = [requests EXCEPT ![i] = new]
    BY <1>1, RequestIs
<1>3. r \in Request
    BY RequestIs
<1> HIDE DEF r
<1>4. Becomes(new, r, "declined", r.boundary, r.promise, r.current, r.mass, r.scheduled + 1, r.worked)
    BY <1>3, RequestHas DEF Becomes
<1>5. new = [f \in DOMAIN new |-> new[f]] /\ DOMAIN new = DOMAIN r
    BY <1>3, RequestHas
<1> HIDE DEF new
<1>6. new \in Request
    <2>1. Typed(new)
        BY <1>1, <1>3, <1>4, RequestHas DEF Becomes, Typed, Phases
    <2> QED BY <1>3, <1>4, <1>5, <2>1, StaysRequest DEF Becomes
<1> QED BY <1>1, <1>2, <1>4, <1>6 DEF BySchedulerOf, r

\* The worker keeps what was promised.
LEMMA MaterializesIs ==
    ASSUME AuditTypes, NEW i \in DOMAIN requests, Materializes(i)
    PROVE  \E new \in Request :
              LET r == requests[i]
              IN  /\ requests' = [requests EXCEPT ![i] = new]
                  /\ Becomes(new, r, "materialized", r.boundary, r.promise, r.promise, r.mass + r.promise,
                             r.scheduled, r.worked + 1)
                  /\ Write(Line(i, "materialized", Worker, r.worked, None, r.promise))
                  /\ r.phase = "promised"
<1> DEFINE r == requests[i]
<1>1. /\ r.phase = "promised"
          /\ ByWorkerOf(i, "materialized", r.promise)
          /\ requests' = [requests EXCEPT ![i].phase = "materialized", ![i].worked = @ + 1,
                                    ![i].current = r.promise,
                                    ![i].mass = @ + r.promise]
    BY DEF Materializes
<1> DEFINE new == [r EXCEPT !.phase = "materialized", !.worked = @ + 1, !.current = r.promise,
                      !.mass = @ + r.promise]
<1>2. requests' = [requests EXCEPT ![i] = new]
    BY <1>1, RequestIs
<1>3. r \in Request
    BY RequestIs
<1> HIDE DEF r
<1>4. Becomes(new, r, "materialized", r.boundary, r.promise, r.promise, r.mass + r.promise,
                             r.scheduled, r.worked + 1)
    BY <1>3, RequestHas DEF Becomes
<1>5. new = [f \in DOMAIN new |-> new[f]] /\ DOMAIN new = DOMAIN r
    BY <1>3, RequestHas
<1> HIDE DEF new
<1>6. new \in Request
    <2>1. Typed(new)
        BY <1>1, <1>3, <1>4, RequestHas DEF Becomes, Typed, Phases
    <2> QED BY <1>3, <1>4, <1>5, <2>1, StaysRequest DEF Becomes
<1> QED BY <1>1, <1>2, <1>4, <1>6 DEF ByWorkerOf, r

\* The next line: what is behind it in the file stays.
LEMMA FileGrows ==
    ASSUME AuditTypes, NEW line \in LineTypes, file' = file \/ file' = Append(file, line)
    PROVE  /\ file' \in Seq(LineTypes) /\ DOMAIN file = 1 .. Len(file) /\ Len(file) \in Nat
           /\ \A n \in DOMAIN file : file'[n] = file[n] /\ n \in DOMAIN file'
           /\ file' = file \/ /\ DOMAIN file' = DOMAIN file \cup {Len(file) + 1}
                              /\ file'[Len(file) + 1] = line
<1>1. file \in Seq(LineTypes) /\ DOMAIN file = 1 .. Len(file) /\ Len(file) \in Nat
    BY DEF AuditTypes
<1>2. ASSUME file' = Append(file, line)
      PROVE  /\ file' \in Seq(LineTypes) /\ Len(file') = Len(file) + 1
             /\ \A n \in 1 .. Len(file) : file'[n] = file[n]
             /\ file'[Len(file) + 1] = line
    BY <1>1, <1>2, AppendProperties
<1>3. CASE file' = Append(file, line)
    <2>1. DOMAIN file' = 1 .. Len(file) + 1
        BY <1>2, <1>3, LenProperties
    <2>2. 1 .. Len(file) + 1 = (1 .. Len(file)) \cup {Len(file) + 1}
        BY <1>1
    <2>3. \A n \in DOMAIN file : file'[n] = file[n] /\ n \in DOMAIN file'
        BY <1>1, <1>2, <1>3, <2>1, <2>2
    <2> QED BY <1>1, <1>2, <1>3, <2>1, <2>2, <2>3
<1> QED BY <1>1, <1>3

\* The front end makes the same ids at every time.
LEMMA SameIds ==
    ASSUME front' = front
    PROVE  /\ PromptParts' = PromptParts
           /\ \A sent, prompt, n : /\ ResponseId(sent, n)' = ResponseId(sent, n)
                                   /\ EngineId(sent, prompt, n)' = EngineId(sent, prompt, n)
BY DEF PromptParts, ResponseId, EngineId, ClientPart

\* A request's step keeps the invariant, if the line it writes is its own.
LEMMA StepKeeps ==
    ASSUME AuditInv, NEW i \in DOMAIN requests, NEW new \in Request,
           requests' = [requests EXCEPT ![i] = new],
           new.sent = requests[i].sent, new.id = requests[i].id,
           new.response = requests[i].response, new.generation = requests[i].generation,
           new.scheduled >= requests[i].scheduled, new.worked >= requests[i].worked,
           requests[i].phase # "gone",
           NEW line \in LineTypes, Write(line), line.request_seq = i, Written(line, new)
    PROVE  AuditInv'
<1> USE DEF AuditInv
<1>1. /\ file' = file \/ file' = Append(file, line)
      /\ cut' = FALSE /\ front' = front /\ generation' = generation
    BY DEF Write
<1>2. /\ requests \in Seq(Request) /\ requests' \in Seq(Request)
      /\ DOMAIN requests' = DOMAIN requests /\ Len(requests') = Len(requests)
      /\ requests'[i] = new /\ \A j \in DOMAIN requests \ {i} : requests'[j] = requests[j]
    BY DEF AuditTypes
<1>3. \A j \in DOMAIN requests :
          /\ requests'[j].sent = requests[j].sent /\ requests'[j].id = requests[j].id
          /\ requests'[j].response = requests[j].response
          /\ requests'[j].generation = requests[j].generation
          /\ requests'[j].scheduled >= requests[j].scheduled
          /\ requests'[j].worked >= requests[j].worked
          /\ requests[j].phase = "gone" => requests'[j].phase = "gone"
          /\ requests[j].scheduled \in Nat /\ requests[j].worked \in Nat
          /\ requests'[j].scheduled \in Nat /\ requests'[j].worked \in Nat
    <2> SUFFICES ASSUME NEW j \in DOMAIN requests
                 PROVE  /\ requests'[j].sent = requests[j].sent /\ requests'[j].id = requests[j].id
                        /\ requests'[j].response = requests[j].response
                        /\ requests'[j].generation = requests[j].generation
                        /\ requests'[j].scheduled >= requests[j].scheduled
                        /\ requests'[j].worked >= requests[j].worked
                        /\ requests[j].phase = "gone" => requests'[j].phase = "gone"
                        /\ requests[j].scheduled \in Nat /\ requests[j].worked \in Nat
                        /\ requests'[j].scheduled \in Nat /\ requests'[j].worked \in Nat
        OBVIOUS
    <2>1. /\ requests[j].scheduled \in Nat /\ requests[j].worked \in Nat
          /\ new.scheduled \in Nat /\ new.worked \in Nat
        BY RequestIs, RequestHas
    <2>2. CASE j = i
        BY <1>2, <2>1, <2>2
    <2>3. CASE j # i
        BY <1>2, <2>1, <2>3
    <2> QED BY <2>2, <2>3
<1>4. AuditTypes'
    BY <1>1, <1>2, FileGrows DEF AuditTypes
<1>5. IdsMade'
    BY <1>1, <1>2, <1>3, SameIds DEF IdsMade
<1>6. SentOncePerEngine'
    BY <1>1, <1>2, <1>3 DEF SentOncePerEngine
<1>7. LinesAre'
    <2> SUFFICES ASSUME NEW n \in DOMAIN file'
                 PROVE  file'[n].event = "malformed" \/
                            /\ file'[n].request_seq \in DOMAIN requests'
                            /\ Written(file'[n], requests'[file'[n].request_seq])
        BY DEF LinesAre
    <2>1. CASE n \in DOMAIN file
        <3>1. file'[n] = file[n]
            BY <1>1, <2>1, FileGrows
        <3>2. file[n].event = "malformed" \/
                /\ file[n].request_seq \in DOMAIN requests
                /\ Written(file[n], requests[file[n].request_seq])
            BY <2>1 DEF LinesAre
        <3>3. ASSUME NEW j \in DOMAIN requests, Written(file[n], requests[j])
              PROVE  Written(file[n], requests'[j])
            BY <1>3, <3>3 DEF Written
        <3> QED BY <1>2, <3>1, <3>2, <3>3
    <2>2. CASE n \notin DOMAIN file
        <3>1. file'[n] = line
            BY <1>1, <2>2, FileGrows
        <3> QED BY <1>2, <3>1
    <2> QED BY <2>1, <2>2
<1> QED BY <1>4, <1>5, <1>6, <1>7

\* A half of an engine writes under the request's id, with its own next number.
LEMMA ActionKeeps ==
    ASSUME AuditInv, NEW i \in DOMAIN requests,
           LookedUp(i) \/ Promises(i) \/ DeclinesSpan(i) \/ Materializes(i)
    PROVE  AuditInv'
<1>1. AuditTypes
    BY DEF AuditInv
<1> DEFINE r == requests[i]
<1>2. /\ r \in Request /\ r.generation \in Nat /\ r.scheduled \in Nat /\ r.worked \in Nat
      /\ r.promise \in Nat /\ r.boundary \in Boundaries \cup {None}
      /\ r.phase # "gone" => r.generation = generation
    BY <1>1, RequestIs, RequestHas DEF AuditInv, IdsMade
<1>3. Scheduler \in Nat /\ Worker \in Nat /\ Scheduler = 2 * generation /\ Worker = 2 * generation + 1
    BY <1>1 DEF AuditTypes, Scheduler, Worker
<1> HIDE DEF r
<1>4. ASSUME NEW new \in Request, NEW event \in SpanBoundaryEvents \cup {"hit", "materialized"},
             NEW connector \in Nat, NEW seq \in Nat,
             NEW boundary \in Boundaries \cup {None}, NEW tokens \in Nat \cup {None},
             requests' = [requests EXCEPT ![i] = new], r.phase # "gone",
             new.sent = r.sent, new.id = r.id, new.response = r.response, new.generation = r.generation,
             new.scheduled >= r.scheduled, new.worked >= r.worked,
             connector = 2 * generation + IF event = "materialized" THEN 1 ELSE 0,
             seq < IF event = "materialized" THEN new.worked ELSE new.scheduled,
             event = "materialized" => tokens \in Nat,
             Write(Line(i, event, connector, seq, boundary, tokens))
      PROVE  AuditInv'
    <2> DEFINE line == Line(i, event, connector, seq, boundary, tokens)
    <2>1. /\ line \in LineTypes /\ line.request_seq = i /\ line.id = requests[i].id
          /\ line.event = event /\ line.connector = connector /\ line.event_seq = seq
          /\ line.tokens = tokens
        <3>1. requests[i].id \in Seq(STRING) /\ i \in Nat
            BY <1>1, RequestIs, RequestHas
        <3> QED BY <3>1 DEF Line, LineTypes
    <2> HIDE DEF line
    <2>2. Written(line, new)
        BY <1>2, <1>4, <2>1 DEF Written, r
    <2>3. Write(line)
        BY <1>4 DEF line
    <2>4. /\ requests[i].phase # "gone" /\ new.sent = requests[i].sent /\ new.id = requests[i].id
          /\ new.response = requests[i].response /\ new.generation = requests[i].generation
          /\ new.scheduled >= requests[i].scheduled /\ new.worked >= requests[i].worked
        BY <1>4 DEF r
    <2> QED BY <1>4, <2>1, <2>2, <2>3, <2>4, StepKeeps
<1>5. CASE LookedUp(i)
    <2>1. PICK new \in Request, b \in Boundaries :
              /\ requests' = [requests EXCEPT ![i] = new]
              /\ Becomes(new, r, "hit", b, r.promise, r.current, r.mass, r.scheduled + 1, r.worked)
              /\ Write(Line(i, "hit", Scheduler, r.scheduled,
                            IF front.hits_carry_boundary THEN b ELSE None, None))
              /\ r.phase # "gone"
        BY <1>1, <1>5, LookedUpIs DEF r
    <2>2. (IF front.hits_carry_boundary THEN b ELSE None) \in Boundaries \cup {None}
        OBVIOUS
    <2>3. /\ Scheduler = 2 * generation + 0 /\ r.scheduled < r.scheduled + 1
          /\ r.scheduled + 1 >= r.scheduled /\ r.worked >= r.worked
        BY <1>2, <1>3
    <2> QED BY <1>2, <1>3, <1>4, <2>1, <2>2, <2>3 DEF Becomes
<1>6. CASE Promises(i)
    <2>1. PICK new \in Request :
              /\ requests' = [requests EXCEPT ![i] = new]
              /\ Becomes(new, r, "promised", r.boundary, r.promise + 1, 0, r.mass, r.scheduled + 1, r.worked)
              /\ Write(Line(i, "advertised", Scheduler, r.scheduled, r.boundary, r.promise + 1))
              /\ r.phase # "gone"
        BY <1>1, <1>6, PromisesIs DEF r
    <2>2. "advertised" \in SpanBoundaryEvents /\ r.promise + 1 \in Nat
        BY <1>2 DEF SpanBoundaryEvents
    <2>3. /\ Scheduler = 2 * generation + 0 /\ r.scheduled < r.scheduled + 1
          /\ r.scheduled + 1 >= r.scheduled /\ r.worked >= r.worked
        BY <1>2, <1>3
    <2> QED BY <1>2, <1>3, <1>4, <2>1, <2>2, <2>3 DEF Becomes
<1>7. CASE DeclinesSpan(i)
    <2>1. PICK new \in Request, event \in Declines :
              /\ requests' = [requests EXCEPT ![i] = new]
              /\ Becomes(new, r, "declined", r.boundary, r.promise, r.current, r.mass,
                         r.scheduled + 1, r.worked)
              /\ Write(Line(i, event, Scheduler, r.scheduled, r.boundary, None))
              /\ r.phase # "gone"
        BY <1>1, <1>7, DeclinesSpanIs DEF r
    <2>2. event \in SpanBoundaryEvents /\ event # "materialized"
        BY AuditAssumption DEF SpanBoundaryEvents, SpanDeclineEvents
    <2>3. /\ Scheduler = 2 * generation + 0 /\ r.scheduled < r.scheduled + 1
          /\ r.scheduled + 1 >= r.scheduled /\ r.worked >= r.worked
        BY <1>2, <1>3
    <2> QED BY <1>2, <1>3, <1>4, <2>1, <2>2, <2>3 DEF Becomes
<1>8. CASE Materializes(i)
    <2>1. PICK new \in Request :
              /\ requests' = [requests EXCEPT ![i] = new]
              /\ Becomes(new, r, "materialized", r.boundary, r.promise, r.promise, r.mass + r.promise,
                         r.scheduled, r.worked + 1)
              /\ Write(Line(i, "materialized", Worker, r.worked, None, r.promise))
              /\ r.phase # "gone"
        BY <1>1, <1>8, MaterializesIs DEF r
    <2>2. /\ Worker = 2 * generation + 1 /\ r.worked < r.worked + 1
          /\ r.worked + 1 >= r.worked /\ r.scheduled >= r.scheduled
        BY <1>2, <1>3
    <2> QED BY <1>2, <1>3, <1>4, <2>1, <2>2 DEF Becomes
<1> QED BY <1>5, <1>6, <1>7, <1>8

\* The parts of an engine's id are those of Builds.
LEMMA EngineBuilds ==
    ASSUME front \in Fronts, NEW sent \in Sent, NEW n \in 1 .. MaxRequests, NEW prompt \in PromptParts
    PROVE  /\ Builds(EngineId(sent, prompt, n), front.prefix, ClientPart(sent, n), prompt,
                     IF front.random THEN <<Suffixes[n]>> ELSE <<>>)
           /\ Builds(ResponseId(sent, n), front.prefix, ClientPart(sent, n), <<>>, <<>>)
<1>1. front.prefix \in {<<p>> : p \in Prefixes} \cup {<<>>}
    BY AuditAssumption DEF Front
<1>2. Suffixes[n] \in RandomTokens
    <2>1. n \in 1 .. Len(Suffixes) /\ Suffixes \in Seq(RandomTokens)
        BY AuditAssumption, LenProperties
    <2> QED BY <2>1
<1>3. prompt \in {<<t>> : t \in NumberTokens} \cup {<<>>}
    BY AuditAssumption DEF PromptParts
<1>4. /\ ClientPart(sent, n) \in Seq(STRING) /\ ClientPart(sent, n) # <<>>
      /\ ClientPart(sent, n)[1] \notin Prefixes
    <2>1. CASE front.strips
        <3>1. ClientPart(sent, n) = <<"minted", Suffixes[n]>>
            BY <2>1 DEF ClientPart
        <3>2. "minted" \notin Prefixes /\ Suffixes[n] \in STRING
            BY <1>2, AuditAssumption
        <3>3. "minted" \in STRING
            BY AuditAssumption
        <3> QED BY <3>1, <3>2, <3>3, TwoTokens
    <2>2. CASE ~front.strips
        BY <2>2, AuditAssumption DEF ClientPart
    <2> QED BY <2>1, <2>2
<1>5. (IF front.random THEN <<Suffixes[n]>> ELSE <<>>) \in {<<t>> : t \in RandomTokens} \cup {<<>>}
    BY <1>2
<1>6. Builds(EngineId(sent, prompt, n), front.prefix, ClientPart(sent, n), prompt,
             IF front.random THEN <<Suffixes[n]>> ELSE <<>>)
    BY <1>1, <1>3, <1>4, <1>5 DEF Builds, EngineId, ResponseId
<1>7. Builds(ResponseId(sent, n), front.prefix, ClientPart(sent, n), <<>>, <<>>)
    <2>1. front.prefix \in Seq(STRING)
        BY <1>1, AuditAssumption, AtMostOne
    <2>2. front.prefix \o ClientPart(sent, n) \in Seq(STRING)
        BY <1>4, <2>1, BothParts
    <2>3. ResponseId(sent, n) = front.prefix \o ClientPart(sent, n) \o <<>> \o <<>>
        BY <2>2, ConcatEmptySeq DEF ResponseId
    <2> QED BY <1>1, <1>4, <2>3 DEF Builds
<1> QED BY <1>6, <1>7

\* An arrival keeps the invariant.
LEMMA ArrivalKeeps ==
    ASSUME AuditInv, NEW sent \in Sent, Arrives(sent)
    PROVE  AuditInv'
<1>1. AuditTypes
    BY DEF AuditInv
<1> DEFINE n == Len(requests) + 1
           arrived(prompt) ==
               [sent |-> sent, id |-> EngineId(sent, prompt, n), response |-> ResponseId(sent, n),
                generation |-> generation, phase |-> "queued", boundary |-> None,
                promise |-> 0, current |-> 0, mass |-> 0, scheduled |-> 0, worked |-> 0]
<1>2. PICK prompt \in Prompts(sent) : requests' = Append(requests, arrived(prompt))
    BY DEF Arrives
<1>3. /\ file' = file /\ front' = front /\ generation' = generation /\ cut' = cut
      /\ Len(requests) < MaxRequests /\ MaySend(sent)
    BY DEF Arrives
<1>4. prompt \in PromptParts
    BY DEF Prompts, PromptParts
<1>5. n \in 1 .. MaxRequests /\ front \in Fronts
    BY <1>1, <1>3, RequestIs, AuditAssumption DEF AuditTypes
<1> DEFINE new == arrived(prompt)
<1>6. new \in Request
    <2>1. EngineId(sent, prompt, n) \in Seq(STRING) /\ ResponseId(sent, n) \in Seq(STRING)
        BY <1>4, <1>5, EngineBuilds, BehindPrefix
    <2> QED BY <1>1, <2>1 DEF Request, Phases, AuditTypes
<1>7. /\ new.sent = sent /\ new.id = EngineId(sent, prompt, n) /\ new.response = ResponseId(sent, n)
      /\ new.generation = generation
    OBVIOUS
<1> HIDE DEF new
<1>8. /\ requests' \in Seq(Request) /\ Len(requests') = n /\ DOMAIN requests' = 1 .. n
      /\ DOMAIN requests = 1 .. Len(requests) /\ Len(requests) \in Nat
      /\ requests'[n] = new /\ \A i \in DOMAIN requests : requests'[i] = requests[i]
    BY <1>1, <1>2, <1>6, RequestIs, AppendProperties, LenProperties DEF AuditTypes, new
<1> HIDE DEF n
<1>9. \A i \in DOMAIN requests' : i \in DOMAIN requests \/ i = n
    BY <1>8 DEF n
<1>10. AuditTypes'
    BY <1>1, <1>3, <1>5, <1>8 DEF AuditTypes
<1>11. IdsMade'
    <2> SUFFICES ASSUME NEW i \in DOMAIN requests'
                 PROVE  /\ requests'[i].generation <= generation
                        /\ requests'[i].phase # "gone" => requests'[i].generation = generation
                        /\ requests'[i].response = ResponseId(requests'[i].sent, i)
                        /\ \E p \in PromptParts : requests'[i].id = EngineId(requests'[i].sent, p, i)
        BY <1>3, SameIds DEF IdsMade
    <2>1. CASE i = n
        <3>1. generation \in Nat
            BY <1>1 DEF AuditTypes
        <3> QED BY <1>4, <1>7, <1>8, <2>1, <3>1
    <2>2. CASE i \in DOMAIN requests
        BY <1>8, <2>2 DEF AuditInv, IdsMade
    <2> QED BY <1>9, <2>1, <2>2
<1>12. SentOncePerEngine'
    <2>1. \A i \in DOMAIN requests :
              requests[i].sent = sent => front.random \/ requests[i].generation = generation
        BY <1>3 DEF MaySend
    <2> QED BY <1>3, <1>7, <1>8, <1>9, <2>1 DEF SentOncePerEngine, AuditInv
<1>13. LinesAre'
    BY <1>3, <1>8, <1>9 DEF LinesAre, AuditInv, n
<1> QED BY <1>10, <1>11, <1>12, <1>13 DEF AuditInv

\* So does a restart: what it leaves of a line is no line.
LEMMA RestartKeeps ==
    ASSUME AuditInv, Restarts
    PROVE  AuditInv'
<1>1. AuditTypes
    BY DEF AuditInv
<1>2. /\ front' = front /\ generation' = generation + 1 /\ generation \in Nat
      /\ cut' \in BOOLEAN
      /\ file' = file \/ file' = Append(file, Malformed)
    BY <1>1 DEF Restarts, AuditTypes
<1>3. /\ DOMAIN requests' = DOMAIN requests /\ DOMAIN requests = 1 .. Len(requests)
      /\ requests' \in Seq(Request) /\ Len(requests') = Len(requests)
      /\ \A i \in DOMAIN requests :
            /\ requests'[i].sent = requests[i].sent /\ requests'[i].id = requests[i].id
            /\ requests'[i].response = requests[i].response
            /\ requests'[i].generation = requests[i].generation /\ requests'[i].phase = "gone"
            /\ requests'[i].scheduled = requests[i].scheduled
            /\ requests'[i].worked = requests[i].worked
    <2>1. requests' = [i \in DOMAIN requests |-> [requests[i] EXCEPT !.phase = "gone"]]
        BY DEF Restarts
    <2>2. ASSUME NEW i \in DOMAIN requests
          PROVE  LET new == [requests[i] EXCEPT !.phase = "gone"]
                 IN  /\ new \in Request /\ new.phase = "gone"
                     /\ new.sent = requests[i].sent /\ new.id = requests[i].id
                     /\ new.response = requests[i].response
                     /\ new.generation = requests[i].generation
                     /\ new.scheduled = requests[i].scheduled /\ new.worked = requests[i].worked
        <3>1. requests[i] \in Request
            BY <1>1, RequestIs
        <3> QED BY <3>1 DEF Request, Phases
    <2>3. DOMAIN requests = 1 .. Len(requests) /\ Len(requests) \in Nat
        BY <1>1, RequestIs
    <2>4. /\ DOMAIN requests' = DOMAIN requests
          /\ \A i \in DOMAIN requests : requests'[i] = [requests[i] EXCEPT !.phase = "gone"]
        BY <2>1
    <2>5. requests' \in [1 .. Len(requests) -> Request]
        BY <2>1, <2>2, <2>3
    <2>6. requests' \in Seq(Request) /\ Len(requests') = Len(requests)
        BY <2>3, <2>5
    <2> QED BY <2>2, <2>3, <2>4, <2>6
<1>4. Malformed \in LineTypes /\ Malformed.event = "malformed"
    BY DEF Malformed, LineTypes
<1>5. AuditTypes'
    <2>1. file' \in Seq(LineTypes)
        BY <1>1, <1>2, <1>4, FileGrows
    <2>2. front \in Fronts /\ Len(requests) <= MaxRequests /\ generation + 1 \in Nat
        BY <1>1, <1>2 DEF AuditTypes
    <2>3. front' \in Fronts /\ Len(requests') <= MaxRequests /\ generation' \in Nat
        BY <1>2, <1>3, <2>2
    <2>4. cut' \in BOOLEAN
        BY <1>2, Zenon
    <2>5. requests' \in Seq(Request)
        BY <1>3
    <2> QED BY <2>1, <2>3, <2>4, <2>5, Zenon DEF AuditTypes
<1>6. IdsMade'
    <2>1. \A i \in DOMAIN requests : requests[i].generation \in Nat
        BY <1>1, RequestIs, RequestHas
    <2> QED BY <1>2, <1>3, <2>1, SameIds DEF IdsMade, AuditInv
<1>7. SentOncePerEngine'
    BY <1>2, <1>3 DEF SentOncePerEngine, AuditInv
<1>8. LinesAre'
    <2> SUFFICES ASSUME NEW n \in DOMAIN file'
                 PROVE  file'[n].event = "malformed" \/
                            /\ file'[n].request_seq \in DOMAIN requests'
                            /\ Written(file'[n], requests'[file'[n].request_seq])
        BY DEF LinesAre
    <2>1. CASE n \in DOMAIN file
        <3>1. file'[n] = file[n]
            BY <1>1, <1>2, <1>4, <2>1, FileGrows
        <3>2. file[n].event = "malformed" \/
                /\ file[n].request_seq \in DOMAIN requests
                /\ Written(file[n], requests[file[n].request_seq])
            BY <2>1 DEF LinesAre, AuditInv
        <3>3. ASSUME NEW j \in DOMAIN requests, Written(file[n], requests[j])
              PROVE  Written(file[n], requests'[j])
            BY <1>3, <3>3 DEF Written
        <3> QED BY <1>3, <3>1, <3>2, <3>3
    <2>2. CASE n \notin DOMAIN file
        <3>1. file'[n] = Malformed
            BY <1>1, <1>2, <1>4, <2>2, FileGrows
        <3> QED BY <1>4, <3>1
    <2> QED BY <2>1, <2>2
<1> QED BY <1>5, <1>6, <1>7, <1>8 DEF AuditInv

\* The invariant holds at first.
LEMMA InitAudit == Init => AuditInv
<1> SUFFICES ASSUME Init PROVE AuditInv
    OBVIOUS
<1>1. /\ front \in Fronts /\ generation = 0 /\ cut = FALSE
      /\ requests = <<>> /\ file = <<>>
    BY DEF Init
<1>2. DOMAIN requests = {} /\ DOMAIN file = {} /\ Len(requests) = 0
      /\ requests \in Seq(Request) /\ file \in Seq(LineTypes)
    BY <1>1, EmptySeq
<1>3. MaxRequests \in Nat
    BY AuditAssumption
<1>4. AuditTypes
    <2>1. front \in Fronts /\ Len(requests) <= MaxRequests /\ generation \in Nat
        BY <1>1, <1>2, <1>3
    <2>2. cut \in BOOLEAN /\ requests \in Seq(Request) /\ file \in Seq(LineTypes)
        BY <1>1, <1>2
    <2> QED BY <2>1, <2>2, Zenon DEF AuditTypes
<1> QED BY <1>2, <1>4 DEF AuditInv, IdsMade, SentOncePerEngine, LinesAre

\* Every step keeps it.
LEMMA NextAudit == AuditInv /\ [Next]_vars => AuditInv'
<1> SUFFICES ASSUME AuditInv, [Next]_vars PROVE AuditInv'
    OBVIOUS
<1>1. CASE UNCHANGED vars
    <2>1. /\ file' = file /\ front' = front /\ requests' = requests /\ generation' = generation
          /\ cut' = cut
        BY <1>1 DEF vars
    <2>2. AuditTypes' /\ SentOncePerEngine' /\ LinesAre'
        BY <2>1 DEF AuditInv, AuditTypes, SentOncePerEngine, LinesAre
    <2>3. IdsMade'
        BY <2>1, SameIds DEF AuditInv, IdsMade
    <2> QED BY <2>2, <2>3 DEF AuditInv
<1>2. CASE Next
    BY <1>1, <1>2, ArrivalKeeps, ActionKeeps, RestartKeeps DEF Next, Over
<1> QED BY <1>1, <1>2

-----------------------------------------------------------------------------
(* What a row is joined to. *)

\* An id that a front end made itself has none that was sent among its forms.
LEMMA NoFormOfMinted ==
    ASSUME NEW id, NEW prefix, NEW client, NEW prompt, NEW random,
           Builds(id, prefix, client, prompt, random), client[1] = "minted",
           NEW other \in Sent
    PROVE  other \notin NormalizedIds(id) \cup {id}
<1> SUFFICES ASSUME other \in NormalizedIds(id) \cup {id} PROVE FALSE
    OBVIOUS
<1> DEFINE rest == WithoutPrefix(id)
<1>1. other[1] \notin Prefixes /\ other[1] # "minted"
    BY AuditAssumption
<1>2. Stripped(other, rest) /\ Behind(rest, client, prompt, random)
    BY <1>1, BehindPrefix, FormsBehindPrefix
<1> HIDE DEF rest
<1>3. PICK k \in 1 .. Len(rest) : other = SubSeq(rest, 1, k)
    BY <1>2 DEF Stripped
<1>4. other[1] = rest[1] /\ rest[1] = client[1]
    BY <1>2, <1>3, SubSeqProperties DEF Behind
<1> QED BY <1>1, <1>4

\* A request's ids, and their parts.
LEMMA RequestBuilds ==
    ASSUME AuditInv, NEW i \in DOMAIN requests
    PROVE  /\ requests[i].sent \in Sent /\ i \in 1 .. MaxRequests
           /\ \E prompt \in PromptParts :
                 /\ requests[i].id = EngineId(requests[i].sent, prompt, i)
                 /\ Builds(requests[i].id, front.prefix, ClientPart(requests[i].sent, i), prompt,
                           IF front.random THEN <<Suffixes[i]>> ELSE <<>>)
           /\ Builds(requests[i].response, front.prefix, ClientPart(requests[i].sent, i), <<>>, <<>>)
<1>1. AuditTypes /\ front \in Fronts
    BY DEF AuditInv, AuditTypes
<1>2. requests[i].sent \in Sent /\ i \in 1 .. MaxRequests
    BY <1>1, RequestIs, RequestHas, AuditAssumption DEF AuditTypes
<1>3. PICK prompt \in PromptParts : requests[i].id = EngineId(requests[i].sent, prompt, i)
    BY DEF AuditInv, IdsMade
<1>4. requests[i].response = ResponseId(requests[i].sent, i)
    BY DEF AuditInv, IdsMade
<1> QED BY <1>1, <1>2, <1>3, <1>4, EngineBuilds

\* The ids that were sent have one form each in an engine's id: their own.
LEMMA FormOfRequest ==
    ASSUME AuditInv, NEW i \in DOMAIN requests, NEW sent \in Sent
    PROVE  /\ ~front.strips =>
                (sent \in NormalizedIds(requests[i].id) \cup {requests[i].id} <=> sent = requests[i].sent)
           /\ front.strips => /\ sent \notin NormalizedIds(requests[i].id) \cup {requests[i].id}
                              /\ ~EchoesSent(requests[i].response, sent)
<1>1. PICK prompt \in PromptParts :
          Builds(requests[i].id, front.prefix, ClientPart(requests[i].sent, i), prompt,
                 IF front.random THEN <<Suffixes[i]>> ELSE <<>>)
    BY RequestBuilds
<1>2. requests[i].sent \in Sent
    BY RequestBuilds
<1>3. ASSUME ~front.strips
      PROVE  sent \in NormalizedIds(requests[i].id) \cup {requests[i].id} <=> sent = requests[i].sent
    <2>1. ClientPart(requests[i].sent, i) = requests[i].sent
        BY <1>3 DEF ClientPart
    <2> QED BY <1>1, <1>2, <2>1, OwnForm, NoOtherForm
<1>4. ASSUME front.strips
      PROVE  /\ sent \notin NormalizedIds(requests[i].id) \cup {requests[i].id}
             /\ ~EchoesSent(requests[i].response, sent)
    <2>1. ClientPart(requests[i].sent, i)[1] = "minted"
        BY <1>4 DEF ClientPart
    <2>2. Builds(requests[i].response, front.prefix, ClientPart(requests[i].sent, i), <<>>, <<>>)
        BY RequestBuilds
    <2>3. sent \notin NormalizedIds(requests[i].response) \cup {requests[i].response}
        BY <2>1, <2>2, NoFormOfMinted
    <2> QED BY <1>1, <2>1, <2>3, NoFormOfMinted DEF EchoesSent
<1> QED BY <1>3, <1>4

\* Every id the file has is a request's.
LEMMA RecordsAre ==
    ASSUME AuditInv, NEW id \in Records
    PROVE  \E i \in DOMAIN requests : id = requests[i].id
<1>1. PICK n \in EventLines : id = file[n].id
    BY DEF Records
<1> QED BY <1>1 DEF EventLines, AuditInv, LinesAre, Written

\* Where an engine's id is the one that was sent, it adds nothing to any.
LEMMA SentAsRecorded ==
    ASSUME AuditInv, ~front.strips, NEW sent \in Sent, sent \in Records
    PROVE  \A i \in DOMAIN requests : requests[i].sent = sent => requests[i].id = sent
<1>1. PICK j \in DOMAIN requests : sent = requests[j].id
    BY RecordsAre
<1>2. requests[j].sent = sent
    BY <1>1, FormOfRequest
<1> DEFINE random(i) == IF front.random THEN <<Suffixes[i]>> ELSE <<>>
<1>3. \A i \in DOMAIN requests : ClientPart(requests[i].sent, i) = requests[i].sent
    BY DEF ClientPart
<1>4. PICK p \in PromptParts : Builds(sent, front.prefix, sent, p, random(j))
    BY <1>1, <1>2, <1>3, RequestBuilds
<1>5. Len(front.prefix) = 0 /\ Len(p) = 0 /\ Len(random(j)) = 0
    <2>1. /\ Behind(WithoutPrefix(sent), sent, p, random(j))
          /\ Len(sent) = Len(front.prefix) + Len(WithoutPrefix(sent))
        BY <1>4, BehindPrefix
    <2>2. Len(front.prefix) \in 0 .. 1
        BY <1>4, AtMostOne, AuditAssumption DEF Builds
    <2> HIDE DEF random
    <2>3. DEFINE rest == WithoutPrefix(sent)
    <2>4. /\ Len(rest) = Len(sent) + Len(p) + Len(random(j))
          /\ Len(sent) = Len(front.prefix) + Len(rest)
        BY <2>1 DEF Behind
    <2>5. Len(p) \in 0 .. 1
        BY <1>4, AtMostOne, AuditAssumption DEF Builds
    <2>6. Len(random(j)) \in 0 .. 1
        BY AtMostOne DEF random
    <2>7. Len(sent) \in Nat
        BY AuditAssumption, LenProperties
    <2>8. ASSUME NEW s \in Nat, NEW l, NEW a \in Nat, NEW b \in Nat, NEW c \in Nat,
                 l = s + b + c, s = a + l
          PROVE  a = 0 /\ b = 0 /\ c = 0
        BY <2>8
    <2>9. Len(p) \in Nat /\ Len(random(j)) \in Nat /\ Len(front.prefix) \in Nat
        BY <2>2, <2>5, <2>6
    <2> HIDE DEF rest
    <2> QED BY <2>4, <2>7, <2>8, <2>9
<1>6. front.prefix = <<>>
    BY <1>4, <1>5, AtMostOne, AuditAssumption DEF Builds
<1>7. ~front.random
    <2>1. \A t : Len(<<t>>) = 1
        OBVIOUS
    <2> QED BY <1>5, <2>1
<1>8. ~front.prompts
    <2>1. \A t : Len(<<t>>) = 1
        OBVIOUS
    <2> QED BY <1>5, <2>1 DEF PromptParts
<1>9. ASSUME NEW i \in DOMAIN requests, requests[i].sent = sent
      PROVE  requests[i].id = sent
    <2>1. PICK q \in PromptParts : requests[i].id = EngineId(sent, q, i)
        BY <1>9, RequestBuilds
    <2>2. q = <<>>
        BY <1>8 DEF PromptParts
    <2>3. EngineId(sent, <<>>, i) = <<>> \o sent \o <<>> \o <<>>
        BY <1>6, <1>7 DEF EngineId, ResponseId, ClientPart
    <2>4. sent \in Seq(STRING)
        BY AuditAssumption
    <2>5. <<>> \o sent \o <<>> \o <<>> = sent
        BY <2>4, ConcatEmptySeq
    <2> QED BY <2>1, <2>2, <2>3, <2>5
<1> QED BY <1>9

\* What the join makes of a row's id.
LEMMA ResolvesOwn == AuditInv => RowsGetTheirOwn
<1> SUFFICES ASSUME AuditInv, NEW sent \in Rows
             PROVE  LET own == IF front.strips THEN {} ELSE AuditedIds(sent)
                    IN  Resolve(sent) = IF Cardinality(own) = 1 THEN own ELSE {}
    BY DEF RowsGetTheirOwn
<1> DEFINE own == AuditedIds(sent)
<1>1. sent \in Sent
    BY DEF Sent
<1>2. CASE front.strips
    <2>1. sent \notin Records /\ Candidates(sent) = {}
        BY <1>1, <1>2, RecordsAre, FormOfRequest DEF Candidates
    <2>2. Cardinality({}) = 0
        BY FS_EmptySet
    <2> QED BY <1>2, <2>1, <2>2 DEF Resolve
<1>3. CASE ~front.strips /\ sent \in Records
    <2>1. own = {sent}
        <3>1. \A id \in own : id = sent
            BY <1>1, <1>3, SentAsRecorded DEF AuditedIds
        <3>2. PICK j \in DOMAIN requests : sent = requests[j].id
            BY <1>3, RecordsAre
        <3>3. requests[j].sent = sent
            BY <1>1, <1>3, <3>2, FormOfRequest
        <3> QED BY <1>3, <3>1, <3>2, <3>3 DEF AuditedIds
    <2>2. Cardinality(own) = 1
        BY <2>1, FS_Singleton
    <2> QED BY <1>3, <2>1, <2>2 DEF Resolve
<1>4. CASE ~front.strips /\ sent \notin Records
    <2>1. Candidates(sent) \subseteq own
        BY <1>1, <1>4, RecordsAre, FormOfRequest DEF Candidates, AuditedIds
    <2>2. own \subseteq Candidates(sent)
        BY <1>1, <1>4, FormOfRequest DEF Candidates, AuditedIds
    <2>3. Candidates(sent) = own
        BY <2>1, <2>2
    <2> QED BY <1>4, <2>3 DEF Resolve
<1> QED BY <1>2, <1>3, <1>4

\* A row is joined with the request that was sent under its id, or with none.
THEOREM RowsFindTheirOwn == Spec => []RowsGetTheirOwn
BY InitAudit, NextAudit, ResolvesOwn, PTL DEF Spec

\* A row that finds nothing of what the engines wrote of it shares its id, or was
\* sent through a front end that shows another.
THEOREM LostRowsAreExplained == Spec => []UnjoinedIsExplained
<1>1. ASSUME AuditInv PROVE UnjoinedIsExplained
    <2> SUFFICES ASSUME NEW i \in DOMAIN requests, requests[i].sent \in Rows,
                        requests[i].id \in Records, Resolve(requests[i].sent) = {}
                 PROVE  \/ Cardinality(AuditedIds(requests[i].sent)) > 1
                        \/ ~EchoesSent(requests[i].response, requests[i].sent)
        BY DEF UnjoinedIsExplained
    <2> DEFINE sent == requests[i].sent
               own  == AuditedIds(sent)
    <2>1. sent \in Sent
        BY DEF Sent
    <2>2. CASE front.strips
        BY <1>1, <2>1, <2>2, FormOfRequest
    <2>3. CASE ~front.strips
        <3>1. requests[i].id \in own
            BY DEF AuditedIds
        <3>2. Cardinality(own) # 1
            BY <1>1, <2>3, <3>1, ResolvesOwn DEF RowsGetTheirOwn
        <3>3. IsFiniteSet(own) /\ Cardinality(own) \in Nat /\ Cardinality(own) # 0
            <4> DEFINE S == DOMAIN requests
                       ids == [j \in S |-> requests[j].id]
            <4>1. IsFiniteSet(S)
                BY <1>1, RequestIs, FS_Interval DEF AuditInv
            <4> HIDE DEF S
            <4>2. ids = [j \in S |-> ids[j]]
                OBVIOUS
            <4>3. own \subseteq {ids[j] : j \in S}
                BY DEF AuditedIds, S
            <4> HIDE DEF ids
            <4>4. IsFiniteSet({ids[j] : j \in S})
                BY <4>1, <4>2, ImageSize
            <4>5. IsFiniteSet(own)
                BY <4>3, <4>4, FS_Subset
            <4> HIDE DEF own
            <4> QED BY <3>1, <4>5, FS_CardinalityType, FS_EmptySet
        <3> HIDE DEF own
        <3>4. Cardinality(own) > 1
            BY <3>2, <3>3
        <3> QED BY <3>4 DEF own
    <2> QED BY <2>2, <2>3
<1> QED BY <1>1, InitAudit, NextAudit, PTL DEF Spec

-----------------------------------------------------------------------------
(* What the engines promised and kept, and what the file has of it. *)

\* The lines of one kind about a request, and what each line says was kept.
LinesFor(kind, i) == {n \in EventLines : file[n].event = kind /\ file[n].request_seq = i}
Weights == [n \in DOMAIN file |-> IF file[n].event = "materialized" THEN file[n].tokens ELSE 0]

\* A request's half of the scheduler numbers its lines in the order of the file.
Ordered ==
    \A m, n \in EventLines :
        (/\ m < n /\ file[m].request_seq = file[n].request_seq
         /\ file[m].event # "materialized" /\ file[n].event # "materialized")
            => file[m].event_seq < file[n].event_seq

\* The last promise in the file is the last one made, and what stands behind it
\* is what was kept of it.
AsPromised(i) ==
    LET adverts == LinesFor("advertised", i)
        kept    == LinesFor("materialized", i)
    IN  /\ requests[i].promise = 0 <=> adverts = {}
        /\ requests[i].mass = 0 <=> kept = {}
        /\ adverts = {} => kept = {}
        /\ \A a \in adverts : (\A b \in adverts : b <= a) =>
              /\ file[a].tokens = requests[i].promise
              /\ Total(Weights, {n \in kept : n >= a}) = requests[i].current

KeptInv ==
    /\ \A i \in DOMAIN requests :
          /\ requests[i].phase = "promised" => requests[i].promise > 0 /\ requests[i].current = 0
          /\ Total(Weights, LinesFor("materialized", i)) <= requests[i].mass
    /\ Ordered
    /\ cut => ~Whole
    /\ Whole => \A i \in DOMAIN requests : AsPromised(i)

\* What a step of a request makes of it, and what it writes.
Carried(b) == IF front.hits_carry_boundary THEN b ELSE None
TakesStep(i, new, line) ==
    LET r == requests[i]
    IN  /\ requests' = [requests EXCEPT ![i] = new] /\ Write(line)
        /\ line.request_seq = i /\ line.event # "malformed"
        /\ \/ /\ line.event = "hit" /\ line.event_seq = r.scheduled
              /\ new.phase = "hit" /\ line.boundary = Carried(new.boundary)
              /\ new.promise = r.promise /\ new.current = r.current /\ new.mass = r.mass
           \/ /\ line.event \in SpanDeclineEvents /\ line.event_seq = r.scheduled
              /\ new.phase = "declined"
              /\ new.promise = r.promise /\ new.current = r.current /\ new.mass = r.mass
           \/ /\ line.event = "advertised" /\ line.event_seq = r.scheduled
              /\ line.tokens = r.promise + 1 /\ line.boundary = r.boundary
              /\ r.phase = "hit" /\ new.phase = "promised" /\ new.boundary = r.boundary
              /\ new.promise = r.promise + 1 /\ new.current = 0 /\ new.mass = r.mass
           \/ /\ line.event = "materialized" /\ line.tokens = r.promise
              /\ r.phase = "promised" /\ new.phase = "materialized" /\ new.boundary = r.boundary
              /\ new.promise = r.promise /\ new.current = r.promise
              /\ new.mass = r.mass + r.promise

\* Every step of a request is one of these.
LEMMA StepsAre ==
    ASSUME AuditInv, NEW i \in DOMAIN requests,
           LookedUp(i) \/ Promises(i) \/ DeclinesSpan(i) \/ Materializes(i)
    PROVE  \E new \in Request, line \in LineTypes : TakesStep(i, new, line)
<1> DEFINE r == requests[i]
<1>1. AuditTypes
    BY DEF AuditInv
<1>2. r \in Request /\ r.promise \in Nat /\ r.scheduled \in Nat /\ r.worked \in Nat
    BY <1>1, RequestIs, RequestHas
<1>3. /\ requests[i].id \in Seq(STRING) /\ i \in Nat
      /\ {"hit", "advertised", "materialized"} \subseteq SpanBoundaryEvents \cup {"hit", "materialized"}
    BY <1>1, RequestIs, RequestHas DEF SpanBoundaryEvents
<1>4. /\ Scheduler \in Nat /\ Worker \in Nat
    BY <1>1 DEF AuditTypes, Scheduler, Worker
<1>5. r.boundary \in Boundaries \cup {None}
    BY <1>2, RequestHas
<1> HIDE DEF r
<1>6. CASE LookedUp(i)
    <2>1. PICK new \in Request, b \in Boundaries :
              /\ requests' = [requests EXCEPT ![i] = new]
              /\ Becomes(new, r, "hit", b, r.promise, r.current, r.mass, r.scheduled + 1, r.worked)
              /\ Write(Line(i, "hit", Scheduler, r.scheduled,
                            IF front.hits_carry_boundary THEN b ELSE None, None))
        BY <1>1, <1>6, LookedUpIs DEF r
    <2> DEFINE line == Line(i, "hit", Scheduler, r.scheduled,
                            IF front.hits_carry_boundary THEN b ELSE None, None)
    <2>2. (IF front.hits_carry_boundary THEN b ELSE None) \in Boundaries \cup {None}
        OBVIOUS
    <2>3. /\ line \in LineTypes /\ line.request_seq = i /\ line.event = "hit"
          /\ line.event_seq = r.scheduled
          /\ line.boundary = IF front.hits_carry_boundary THEN b ELSE None
        BY <1>2, <1>3, <1>4, <2>2 DEF Line, LineTypes
    <2> HIDE DEF line
    <2>4. TakesStep(i, new, line)
        BY <2>1, <2>3 DEF TakesStep, Becomes, Carried, r, line
    <2> QED BY <2>3, <2>4
<1>7. CASE Promises(i)
    <2>1. PICK new \in Request :
              /\ requests' = [requests EXCEPT ![i] = new]
              /\ Becomes(new, r, "promised", r.boundary, r.promise + 1, 0, r.mass, r.scheduled + 1, r.worked)
              /\ Write(Line(i, "advertised", Scheduler, r.scheduled, r.boundary, r.promise + 1))
              /\ r.phase = "hit"
        BY <1>1, <1>7, PromisesIs DEF r
    <2> DEFINE line == Line(i, "advertised", Scheduler, r.scheduled, r.boundary, r.promise + 1)
    <2>2. "advertised" \in SpanBoundaryEvents /\ r.promise + 1 \in Nat
        BY <1>2 DEF SpanBoundaryEvents
    <2>3. /\ line \in LineTypes /\ line.request_seq = i /\ line.event = "advertised"
          /\ line.event_seq = r.scheduled /\ line.tokens = r.promise + 1
          /\ line.boundary = r.boundary
        BY <1>2, <1>3, <1>4, <1>5, <2>2 DEF Line, LineTypes
    <2> HIDE DEF line
    <2>4. TakesStep(i, new, line)
        BY <2>1, <2>3 DEF TakesStep, Becomes, r, line
    <2> QED BY <2>3, <2>4
<1>8. CASE DeclinesSpan(i)
    <2>1. PICK new \in Request, event \in Declines :
              /\ requests' = [requests EXCEPT ![i] = new]
              /\ Becomes(new, r, "declined", r.boundary, r.promise, r.current, r.mass,
                         r.scheduled + 1, r.worked)
              /\ Write(Line(i, event, Scheduler, r.scheduled, r.boundary, None))
        BY <1>1, <1>8, DeclinesSpanIs DEF r
    <2> DEFINE line == Line(i, event, Scheduler, r.scheduled, r.boundary, None)
    <2>2. event \in SpanBoundaryEvents /\ event \in SpanDeclineEvents /\ event # "malformed"
        BY AuditAssumption DEF SpanBoundaryEvents, SpanDeclineEvents
    <2>3. /\ line \in LineTypes /\ line.request_seq = i /\ line.event = event
          /\ line.event_seq = r.scheduled
        BY <1>2, <1>3, <1>4, <1>5, <2>2 DEF Line, LineTypes
    <2> HIDE DEF line
    <2>4. TakesStep(i, new, line)
        BY <2>1, <2>2, <2>3 DEF TakesStep, Becomes, r, line
    <2> QED BY <2>3, <2>4
<1>9. CASE Materializes(i)
    <2>1. PICK new \in Request :
              /\ requests' = [requests EXCEPT ![i] = new]
              /\ Becomes(new, r, "materialized", r.boundary, r.promise, r.promise, r.mass + r.promise,
                         r.scheduled, r.worked + 1)
              /\ Write(Line(i, "materialized", Worker, r.worked, None, r.promise))
              /\ r.phase = "promised"
        BY <1>1, <1>9, MaterializesIs DEF r
    <2> DEFINE line == Line(i, "materialized", Worker, r.worked, None, r.promise)
    <2>3. /\ line \in LineTypes /\ line.request_seq = i /\ line.event = "materialized"
          /\ line.tokens = r.promise
        BY <1>2, <1>3, <1>4 DEF Line, LineTypes
    <2> HIDE DEF line
    <2>4. TakesStep(i, new, line)
        BY <2>1, <2>3 DEF TakesStep, Becomes, r, line
    <2> QED BY <2>3, <2>4
<1> QED BY <1>6, <1>7, <1>8, <1>9

\* The lines of a kind about a request are lines of the file, and finitely many;
\* what a line says was kept is a number.
LEMMA LinesForAre ==
    ASSUME AuditInv
    PROVE  /\ \A kind, i : /\ LinesFor(kind, i) \in SUBSET DOMAIN file
                           /\ IsFiniteSet(LinesFor(kind, i))
           /\ DOMAIN file = 1 .. Len(file) /\ Len(file) \in Nat /\ IsFiniteSet(DOMAIN file)
           /\ \A n \in DOMAIN file : Weights[n] \in Nat
<1>1. DOMAIN file = 1 .. Len(file) /\ Len(file) \in Nat
    BY DEF AuditInv, AuditTypes
<1>2. IsFiniteSet(DOMAIN file)
    BY <1>1, FS_Interval
<1>3. \A kind, i : LinesFor(kind, i) \in SUBSET DOMAIN file
    BY DEF LinesFor, EventLines
<1>4. ASSUME NEW n \in DOMAIN file PROVE Weights[n] \in Nat
    <2>1. CASE file[n].event = "materialized"
        BY <2>1 DEF Weights, AuditInv, LinesAre, Written
    <2>2. CASE file[n].event # "materialized"
        BY <2>2 DEF Weights
    <2> QED BY <2>1, <2>2
<1> QED BY <1>1, <1>2, <1>3, <1>4, FS_Subset

\* A line more in the file is one more of its kind and request.
LEMMA LinesGrow ==
    ASSUME AuditInv, NEW line \in LineTypes, file' = file \/ file' = Append(file, line)
    PROVE  /\ \A n \in DOMAIN file : /\ Weights'[n] = Weights[n] /\ file'[n] = file[n]
                                     /\ n \in EventLines' <=> n \in EventLines
           /\ \A kind, i : kind # "malformed" =>
                 LinesFor(kind, i)' =
                     LinesFor(kind, i) \cup
                       {n \in {Len(file) + 1} : /\ file' # file /\ line.event = kind
                                                /\ line.request_seq = i}
           /\ file' # file => /\ DOMAIN file' = DOMAIN file \cup {Len(file) + 1}
                              /\ file'[Len(file) + 1] = line
                              /\ Weights'[Len(file) + 1] =
                                    IF line.event = "materialized" THEN line.tokens ELSE 0
           /\ Whole' => Whole
<1>1. /\ DOMAIN file = 1 .. Len(file) /\ Len(file) \in Nat
      /\ \A n \in DOMAIN file : file'[n] = file[n] /\ n \in DOMAIN file'
      /\ file' = file \/ /\ DOMAIN file' = DOMAIN file \cup {Len(file) + 1}
                         /\ file'[Len(file) + 1] = line
    BY FileGrows DEF AuditInv
<1>2. \A n \in DOMAIN file : n \in EventLines' <=> n \in EventLines
    BY <1>1 DEF EventLines
<1>3. \A n \in DOMAIN file : Weights'[n] = Weights[n]
    BY <1>1 DEF Weights
<1>4. ASSUME NEW kind, NEW i, kind # "malformed"
      PROVE  LinesFor(kind, i)' =
                 LinesFor(kind, i) \cup {n \in {Len(file) + 1} : /\ file' # file /\ line.event = kind
                                                                /\ line.request_seq = i}
    <2>1. CASE file' = file
        <3>1. LinesFor(kind, i)' = LinesFor(kind, i)
            BY <2>1 DEF LinesFor, EventLines
        <3> QED BY <2>1, <3>1
    <2>2. CASE file' # file
        <3>1. DOMAIN file' = DOMAIN file \cup {Len(file) + 1} /\ file'[Len(file) + 1] = line
            BY <1>1, <2>2
        <3>2. \A n \in DOMAIN file : n \in LinesFor(kind, i)' <=> n \in LinesFor(kind, i)
            BY <1>1, <1>2 DEF LinesFor
        <3>3. Len(file) + 1 \in LinesFor(kind, i)' <=> line.event = kind /\ line.request_seq = i
            BY <1>4, <3>1 DEF LinesFor, EventLines
        <3>4. LinesFor(kind, i)' \subseteq DOMAIN file' /\ LinesFor(kind, i) \subseteq DOMAIN file
            BY DEF LinesFor, EventLines
        <3> QED BY <2>2, <3>1, <3>2, <3>3, <3>4
    <2> QED BY <2>1, <2>2
<1>5. Whole' => Whole
    BY <1>1 DEF Whole
<1>6. file' # file => Weights'[Len(file) + 1] = IF line.event = "materialized" THEN line.tokens ELSE 0
    BY <1>1 DEF Weights
<1> QED BY <1>1, <1>2, <1>3, <1>4, <1>5, <1>6

\* What a step leaves of what was promised and kept for a request it is not
\* about, or writes no promise and nothing kept of.
LEMMA PromiseStays ==
    ASSUME AuditInv, NEW line \in LineTypes, file' = file \/ file' = Append(file, line),
           NEW j \in DOMAIN requests, AsPromised(j),
           LinesFor("advertised", j)' = LinesFor("advertised", j),
           LinesFor("materialized", j)' = LinesFor("materialized", j),
           requests'[j].promise = requests[j].promise, requests'[j].mass = requests[j].mass,
           requests'[j].current = requests[j].current
    PROVE  AsPromised(j)'
<1> DEFINE adverts == LinesFor("advertised", j)
           kept    == LinesFor("materialized", j)
           behind(a) == {n \in kept : n >= a}
<1>1. adverts \subseteq DOMAIN file /\ kept \subseteq DOMAIN file /\ IsFiniteSet(kept)
    BY LinesForAre
<1>2. /\ \A n \in DOMAIN file : Weights'[n] = Weights[n] /\ file'[n] = file[n] /\ Weights[n] \in Nat
    BY LinesGrow, LinesForAre
<1>3. \A a : Total(Weights', behind(a)) = Total(Weights, behind(a))
    <2> SUFFICES ASSUME NEW a PROVE Total(Weights', behind(a)) = Total(Weights, behind(a))
        OBVIOUS
    <2>1. behind(a) \subseteq DOMAIN file /\ IsFiniteSet(behind(a))
        BY <1>1, FS_Subset
    <2> HIDE DEF behind
    <2> QED BY <1>2, <2>1, TotalSame
<1>4. /\ requests[j].promise = 0 <=> adverts = {}
      /\ requests[j].mass = 0 <=> kept = {}
      /\ adverts = {} => kept = {}
      /\ \A a \in adverts : (\A b \in adverts : b <= a) =>
            /\ file[a].tokens = requests[j].promise
            /\ Total(Weights, behind(a)) = requests[j].current
    BY DEF AsPromised
<1>5. adverts' = adverts /\ kept' = kept
    OBVIOUS
<1>6. \A a \in adverts : (\A b \in adverts : b <= a) =>
            /\ file'[a].tokens = requests'[j].promise
            /\ Total(Weights', behind(a)) = requests'[j].current
    BY <1>1, <1>2, <1>3, <1>4
<1>7. \A a : {n \in kept' : n >= a} = behind(a)
    BY <1>5
<1> HIDE DEF adverts, kept, behind
<1>8. /\ requests'[j].promise = 0 <=> adverts' = {}
      /\ requests'[j].mass = 0 <=> kept' = {}
      /\ adverts' = {} => kept' = {}
      /\ \A a \in adverts' : (\A b \in adverts' : b <= a) =>
            /\ file'[a].tokens = requests'[j].promise
            /\ Total(Weights', {n \in kept' : n >= a}) = requests'[j].current
    BY <1>4, <1>5, <1>6, <1>7
<1> QED BY <1>8 DEF AsPromised, adverts, kept

\* A step of a request, in a file that has lost nothing, keeps its promise.
LEMMA PromiseKept ==
    ASSUME AuditInv, NEW i \in DOMAIN requests, NEW new \in Request, NEW line \in LineTypes,
           TakesStep(i, new, line), file' = Append(file, line), file' # file, AsPromised(i),
           requests[i].phase = "promised" => requests[i].promise > 0 /\ requests[i].current = 0
    PROVE  AsPromised(i)'
<1> DEFINE r == requests[i]
           adverts == LinesFor("advertised", i)
           kept    == LinesFor("materialized", i)
           x       == Len(file) + 1
<1>1. adverts \subseteq DOMAIN file /\ kept \subseteq DOMAIN file /\ IsFiniteSet(kept)
    BY LinesForAre
<1>a. DOMAIN file = 1 .. Len(file) /\ Len(file) \in Nat
    BY LinesForAre
<1>b. \A n \in DOMAIN file : Weights'[n] = Weights[n] /\ file'[n] = file[n] /\ Weights[n] \in Nat
    BY LinesForAre, LinesGrow
<1>2. requests' = [requests EXCEPT ![i] = new] /\ requests'[i] = new /\ line.request_seq = i
    BY DEF TakesStep, AuditInv, AuditTypes
<1>3. /\ adverts' = adverts \cup {n \in {x} : line.event = "advertised"}
      /\ kept' = kept \cup {n \in {x} : line.event = "materialized"}
      /\ file'[x] = line
      /\ Weights'[x] = IF line.event = "materialized" THEN line.tokens ELSE 0
    BY <1>2, LinesGrow
<1>4. x \notin adverts /\ x \notin kept /\ x \in Nat /\ \A n \in DOMAIN file : n \in Nat /\ n < x
    <2>1. \A n \in DOMAIN file : n \in Nat /\ n < x
        <3>1. ASSUME NEW l \in Nat, NEW n \in 1 .. l PROVE n \in Nat /\ n < l + 1
            OBVIOUS
        <3> QED BY <1>a, <3>1
    <2>2. x \in Nat
        <3>1. ASSUME NEW l \in Nat PROVE l + 1 \in Nat
            OBVIOUS
        <3> QED BY <1>a, <3>1
    <2> HIDE DEF x
    <2>3. x \notin DOMAIN file
        BY <2>1, <2>2
    <2> QED BY <1>1, <2>1, <2>2, <2>3
<1>5. /\ r.promise \in Nat /\ r.current \in Nat /\ r.mass \in Nat
    BY RequestIs, RequestHas DEF AuditInv
<1>6. /\ r.promise = 0 <=> adverts = {}
      /\ r.mass = 0 <=> kept = {}
      /\ adverts = {} => kept = {}
      /\ \A a \in adverts : (\A b \in adverts : b <= a) =>
            /\ file[a].tokens = r.promise
            /\ Total(Weights, {n \in kept : n >= a}) = r.current
    BY DEF AsPromised
<1>7. SUFFICES /\ new.promise = 0 <=> adverts' = {}
               /\ new.mass = 0 <=> kept' = {}
               /\ adverts' = {} => kept' = {}
               /\ \A a \in adverts' : (\A b \in adverts' : b <= a) =>
                     /\ file'[a].tokens = new.promise
                     /\ Total(Weights', {n \in kept' : n >= a}) = new.current
    BY <1>2 DEF AsPromised
<1>8. CASE line.event \in {"hit"} \cup SpanDeclineEvents
    <2>1. /\ adverts' = adverts /\ kept' = kept
          /\ new.promise = r.promise /\ new.current = r.current /\ new.mass = r.mass
        BY <1>3, <1>8 DEF TakesStep, SpanDeclineEvents
    <2>2. AsPromised(i)'
        BY <1>2, <2>1, PromiseStays
    <2> QED BY <1>2, <2>2 DEF AsPromised
<1>9. CASE line.event = "advertised"
    <2>1. /\ new.promise = r.promise + 1 /\ new.current = 0 /\ new.mass = r.mass
          /\ line.tokens = r.promise + 1
        BY <1>9 DEF TakesStep, SpanDeclineEvents
    <2>2. adverts' = adverts \cup {x} /\ kept' = kept
        BY <1>3, <1>9
    <2>3. ASSUME NEW a \in adverts', \A b \in adverts' : b <= a
          PROVE  /\ file'[a].tokens = new.promise
                 /\ Total(Weights', {n \in kept' : n >= a}) = new.current
        <3>1. a = x
            BY <1>1, <1>4, <2>2, <2>3
        <3>2. {n \in kept' : n >= a} = {}
            BY <1>1, <1>4, <2>2, <3>1
        <3> QED BY <1>3, <2>1, <3>1, <3>2, TotalOfNone
    <2>4. r.promise + 1 # 0
        BY <1>5
    <2>5. new.promise = 0 <=> adverts' = {}
        BY <2>1, <2>2, <2>4
    <2>6. new.mass = 0 <=> kept' = {}
        BY <1>6, <2>1, <2>2
    <2>7. adverts' # {}
        BY <2>2
    <2> QED BY <2>3, <2>5, <2>6, <2>7
<1>10. CASE line.event = "materialized"
    <2>1. /\ new.promise = r.promise /\ new.current = r.promise /\ new.mass = r.mass + r.promise
          /\ line.tokens = r.promise /\ r.promise > 0 /\ r.current = 0
        BY <1>10 DEF TakesStep, SpanDeclineEvents
    <2>2. adverts' = adverts /\ kept' = kept \cup {x} /\ Weights'[x] = r.promise
        BY <1>3, <1>10, <2>1
    <2>3. ASSUME NEW a \in adverts', \A b \in adverts' : b <= a
          PROVE  /\ file'[a].tokens = new.promise
                 /\ Total(Weights', {n \in kept' : n >= a}) = new.current
        <3> DEFINE behind == {n \in kept : n >= a}
        <3>1. a \in adverts /\ a \in DOMAIN file /\ a < x
            BY <1>1, <1>4, <2>2, <2>3
        <3>2. file[a].tokens = r.promise /\ Total(Weights, behind) = 0
            BY <1>6, <2>1, <2>2, <2>3, <3>1
        <3>3. {n \in kept' : n >= a} = behind \cup {x}
            BY <1>4, <2>2, <3>1
        <3>4. behind \subseteq DOMAIN file /\ IsFiniteSet(behind) /\ x \notin behind
            BY <1>1, <1>4, FS_Subset
        <3> HIDE DEF behind
        <3>5. Total(Weights', behind) = 0
            BY <1>b, <3>2, <3>4, TotalSame
        <3>6. Total(Weights', behind \cup {x}) = Weights'[x] + Total(Weights', behind)
            <4>1. \A y \in behind \cup {x} : Weights'[y] \in Nat
                BY <1>b, <1>5, <2>2, <3>4
            <4> QED BY <3>4, <4>1, TotalOfOneMore
        <3>7. r.promise + 0 = r.promise
            BY <1>5
        <3>8. file'[a] = file[a]
            BY <1>b, <3>1
        <3>9. Total(Weights', {n \in kept' : n >= a}) = r.promise
            BY <2>2, <3>3, <3>5, <3>6, <3>7
        <3> QED BY <2>1, <3>2, <3>8, <3>9
    <2>4. r.promise # 0 /\ r.mass + r.promise # 0
        BY <1>5, <2>1
    <2>5. new.promise = 0 <=> adverts' = {}
        BY <1>6, <2>1, <2>2, <2>4
    <2>6. new.mass = 0 <=> kept' = {}
        BY <2>1, <2>2, <2>4
    <2>7. adverts' # {}
        BY <1>6, <2>2, <2>4
    <2> QED BY <2>3, <2>5, <2>6, <2>7
<1> QED BY <1>8, <1>9, <1>10 DEF TakesStep

\* What was kept of a request is never less than its lines say.
LEMMA MassKept ==
    ASSUME AuditInv, NEW line \in LineTypes, file' = file \/ file' = Append(file, line),
           NEW j \in DOMAIN requests, NEW mass \in Nat,
           Total(Weights, LinesFor("materialized", j)) <= requests[j].mass,
           mass >= requests[j].mass,
           (line.event = "materialized" /\ line.request_seq = j) =>
               line.tokens \in Nat /\ mass = requests[j].mass + line.tokens
    PROVE  Total(Weights', LinesFor("materialized", j)') <= mass
<1> DEFINE kept == LinesFor("materialized", j)
           more == {n \in {Len(file) + 1} : /\ file' # file /\ line.event = "materialized"
                                            /\ line.request_seq = j}
<1>1. kept \subseteq DOMAIN file /\ IsFiniteSet(kept)
    BY LinesForAre
<1>2. \A n \in DOMAIN file : Weights'[n] = Weights[n] /\ Weights[n] \in Nat
    BY LinesForAre, LinesGrow
<1>3. kept' = kept \cup more
    BY LinesGrow
<1>4. requests[j].mass \in Nat
    BY RequestIs, RequestHas DEF AuditInv
<1>5. Total(Weights', kept) = Total(Weights, kept) /\ Total(Weights, kept) \in Nat
    BY <1>1, <1>2, TotalSame
<1>6. CASE more = {}
    <2>1. kept' = kept
        BY <1>3, <1>6
    <2> QED BY <1>4, <1>5, <2>1
<1>7. CASE more # {}
    <2> DEFINE x == Len(file) + 1
    <2>1. more = {x} /\ file' # file /\ line.event = "materialized" /\ line.request_seq = j
        BY <1>7
    <2>2. Weights'[x] = line.tokens /\ line.tokens \in Nat /\ mass = requests[j].mass + line.tokens
        BY <2>1, LinesGrow
    <2>3. x \notin kept
        <3>1. DOMAIN file = 1 .. Len(file) /\ Len(file) \in Nat
            BY LinesForAre
        <3>2. ASSUME NEW l \in Nat PROVE l + 1 \notin 1 .. l
            OBVIOUS
        <3> QED BY <1>1, <3>1, <3>2
    <2> HIDE DEF x, more
    <2>4. Total(Weights', kept \cup {x}) = Weights'[x] + Total(Weights', kept)
        <3>1. \A y \in kept \cup {x} : Weights'[y] \in Nat
            BY <1>1, <1>2, <2>2
        <3> QED BY <1>1, <2>3, <3>1, TotalOfOneMore
    <2>5. Total(Weights', kept') = line.tokens + Total(Weights, kept)
        BY <1>3, <1>5, <2>1, <2>2, <2>4
    <2>6. ASSUME NEW l \in Nat, NEW m \in Nat, NEW t \in Nat, t <= m PROVE l + t <= m + l
        BY <2>6
    <2> QED BY <1>4, <1>5, <2>2, <2>5, <2>6
<1> QED BY <1>6, <1>7

\* A line of the scheduler's comes behind what it has written of the request.
LEMMA OrderKept ==
    ASSUME AuditInv, Ordered, NEW line \in LineTypes, file' = file \/ file' = Append(file, line),
           line.event # "malformed",
           line.event # "materialized" =>
              /\ line.request_seq \in DOMAIN requests
              /\ line.event_seq = requests[line.request_seq].scheduled
    PROVE  Ordered'
<1>1. /\ \A n \in DOMAIN file : file'[n] = file[n] /\ (n \in EventLines' <=> n \in EventLines)
      /\ file' # file => /\ DOMAIN file' = DOMAIN file \cup {Len(file) + 1}
                         /\ file'[Len(file) + 1] = line
    BY LinesGrow
<1>2. DOMAIN file = 1 .. Len(file) /\ Len(file) \in Nat
    BY LinesForAre
<1> DEFINE x == Len(file) + 1
<1>3. SUFFICES ASSUME NEW m \in EventLines', NEW n \in EventLines', m < n,
                      file'[m].request_seq = file'[n].request_seq,
                      file'[m].event # "materialized", file'[n].event # "materialized"
               PROVE  file'[m].event_seq < file'[n].event_seq
    BY DEF Ordered
<1>4. CASE m \in DOMAIN file /\ n \in DOMAIN file
    BY <1>1, <1>3, <1>4 DEF Ordered
<1>5. ASSUME ~(m \in DOMAIN file /\ n \in DOMAIN file)
      PROVE  m \in DOMAIN file /\ n = x /\ file'[n] = line
    <2>1. m \in DOMAIN file' /\ n \in DOMAIN file'
        BY DEF EventLines
    <2>2. file' # file
        BY <1>5, <2>1
    <2>3. \A k \in DOMAIN file' : k \in DOMAIN file \/ k = x
        BY <1>1, <2>2
    <2>4. \A k \in DOMAIN file : ~(x < k)
        <3>1. ASSUME NEW l \in Nat, NEW k \in 1 .. l PROVE ~(l + 1 < k)
            OBVIOUS
        <3> QED BY <1>2, <3>1
    <2>5. ~(x < x)
        <3>1. ASSUME NEW l \in Nat PROVE ~(l + 1 < l + 1)
            OBVIOUS
        <3> QED BY <1>2, <3>1
    <2> HIDE DEF x
    <2>6. m # x
        BY <1>3, <2>1, <2>3, <2>4, <2>5
    <2>7. n = x
        BY <1>5, <2>1, <2>3, <2>6
    <2> QED BY <1>1, <2>1, <2>2, <2>3, <2>6, <2>7 DEF x
<1>6. CASE ~(m \in DOMAIN file /\ n \in DOMAIN file)
    <2>1. m \in DOMAIN file /\ file'[n] = line /\ file'[m] = file[m] /\ file[m].event # "malformed"
        BY <1>1, <1>3, <1>5, <1>6 DEF EventLines
    <2>2. Written(file[m], requests[file[m].request_seq])
        BY <2>1 DEF AuditInv, LinesAre
    <2>3. file[m].request_seq = line.request_seq /\ line.event_seq = requests[line.request_seq].scheduled
        BY <1>3, <2>1
    <2> QED BY <1>3, <2>1, <2>2, <2>3 DEF Written
<1> QED BY <1>4, <1>6

\* A step of a request keeps what is promised of all.
LEMMA StepKeepsPromises ==
    ASSUME AuditInv, KeptInv, NEW i \in DOMAIN requests, NEW new \in Request,
           NEW line \in LineTypes, TakesStep(i, new, line)
    PROVE  KeptInv'
<1>1. /\ file' = IF cut THEN file ELSE Append(file, line)
      /\ cut' = FALSE
    BY DEF TakesStep, Write
<1>2. file' = file \/ file' = Append(file, line)
    BY <1>1
<1>3. /\ DOMAIN requests' = DOMAIN requests /\ requests'[i] = new
      /\ \A j \in DOMAIN requests \ {i} : requests'[j] = requests[j]
      /\ line.request_seq = i
    BY DEF TakesStep, AuditInv, AuditTypes
<1>4. /\ \A j \in DOMAIN requests : requests[j].mass \in Nat
      /\ requests[i].promise \in Nat /\ requests[i].current \in Nat
      /\ new.mass \in Nat
    BY RequestIs, RequestHas DEF AuditInv
<1>5. /\ new.mass >= requests[i].mass
      /\ line.event = "materialized" =>
            line.tokens \in Nat /\ new.mass = requests[i].mass + line.tokens
      /\ new.phase = "promised" => new.promise > 0 /\ new.current = 0
      /\ line.event # "materialized" => line.event_seq = requests[i].scheduled
    BY <1>4 DEF TakesStep, SpanDeclineEvents
<1>6. ASSUME NEW j \in DOMAIN requests'
      PROVE  /\ requests'[j].phase = "promised" => requests'[j].promise > 0 /\ requests'[j].current = 0
             /\ Total(Weights', LinesFor("materialized", j)') <= requests'[j].mass
    <2>1. CASE j = i
        <3>1. Total(Weights, LinesFor("materialized", i)) <= requests[i].mass
            BY DEF KeptInv
        <3>2. Total(Weights', LinesFor("materialized", i)') <= new.mass
            BY <1>2, <1>4, <1>5, <3>1, MassKept
        <3> QED BY <1>3, <1>5, <2>1, <3>2
    <2>2. CASE j # i
        <3>1. j \in DOMAIN requests /\ requests'[j] = requests[j]
            BY <1>3, <2>2
        <3>2. /\ Total(Weights, LinesFor("materialized", j)) <= requests[j].mass
              /\ requests[j].phase = "promised" => requests[j].promise > 0 /\ requests[j].current = 0
            BY <3>1 DEF KeptInv
        <3>3. requests[j].mass >= requests[j].mass
            BY <1>4, <3>1
        <3>4. line.request_seq # j
            BY <1>3, <2>2
        <3>5. Total(Weights', LinesFor("materialized", j)') <= requests[j].mass
            BY <1>2, <1>4, <3>1, <3>2, <3>3, <3>4, MassKept
        <3> QED BY <3>1, <3>2, <3>5
    <2> QED BY <2>1, <2>2
<1>7. Ordered'
    BY <1>2, <1>3, <1>5, OrderKept DEF TakesStep, KeptInv
<1>8. ASSUME Whole', NEW j \in DOMAIN requests'
      PROVE  AsPromised(j)'
    <2>1. Whole
        BY <1>2, <1>8, LinesGrow
    <2>2. ~cut /\ \A k \in DOMAIN requests : AsPromised(k)
        BY <2>1 DEF KeptInv
    <2>3. file' = Append(file, line) /\ file' # file
        <3>1. file' = Append(file, line)
            BY <1>1, <2>2
        <3>2. file \in Seq(LineTypes) /\ Len(file) \in Nat
            BY LinesForAre DEF AuditInv, AuditTypes
        <3>3. Len(Append(file, line)) = Len(file) + 1
            BY <3>2, AppendProperties
        <3>4. ASSUME NEW l \in Nat PROVE l + 1 # l
            OBVIOUS
        <3> QED BY <3>1, <3>2, <3>3, <3>4
    <2>4. CASE j = i
        <3>1. requests[i].phase = "promised" => requests[i].promise > 0 /\ requests[i].current = 0
            BY DEF KeptInv
        <3>2. AsPromised(i)'
            BY <2>2, <2>3, <3>1, PromiseKept
        <3> QED BY <2>4, <3>2
    <2>5. CASE j # i
        <3>1. j \in DOMAIN requests /\ requests'[j] = requests[j]
            BY <1>3, <2>5
        <3>2. \A kind : kind # "malformed" => LinesFor(kind, j)' = LinesFor(kind, j)
            <4> SUFFICES ASSUME NEW kind, kind # "malformed"
                         PROVE  LinesFor(kind, j)' = LinesFor(kind, j)
                OBVIOUS
            <4>1. LinesFor(kind, j)' = LinesFor(kind, j) \cup
                      {n \in {Len(file) + 1} : /\ file' # file /\ line.event = kind
                                               /\ line.request_seq = j}
                BY <1>2, LinesGrow
            <4> QED BY <1>3, <2>5, <4>1
        <3>3. /\ LinesFor("advertised", j)' = LinesFor("advertised", j)
              /\ LinesFor("materialized", j)' = LinesFor("materialized", j)
            BY <3>2
        <3> QED BY <1>2, <2>2, <3>1, <3>3, PromiseStays
    <2> QED BY <2>4, <2>5
<1> QED BY <1>1, <1>6, <1>7, <1>8 DEF KeptInv

\* An arrival adds one request, of which nothing is known.
LEMMA ArrivedIs ==
    ASSUME AuditInv, NEW sent \in Sent, Arrives(sent)
    PROVE  LET n == Len(requests) + 1
           IN  /\ DOMAIN requests' = DOMAIN requests \cup {n} /\ n \notin DOMAIN requests
               /\ \A i \in DOMAIN requests : requests'[i] = requests[i]
               /\ requests'[n].phase = "queued" /\ requests'[n].promise = 0
               /\ requests'[n].mass = 0
<1> DEFINE n == Len(requests) + 1
<1>1. PICK prompt \in Prompts(sent) : requests' = Append(requests,
          [sent |-> sent, id |-> EngineId(sent, prompt, n), response |-> ResponseId(sent, n),
           generation |-> generation, phase |-> "queued", boundary |-> None,
           promise |-> 0, current |-> 0, mass |-> 0, scheduled |-> 0, worked |-> 0])
    BY DEF Arrives
<1> DEFINE new ==
          [sent |-> sent, id |-> EngineId(sent, prompt, n), response |-> ResponseId(sent, n),
           generation |-> generation, phase |-> "queued", boundary |-> None,
           promise |-> 0, current |-> 0, mass |-> 0, scheduled |-> 0, worked |-> 0]
<1>2. new.phase = "queued" /\ new.promise = 0 /\ new.mass = 0
    OBVIOUS
<1> HIDE DEF new
<1>3. requests \in Seq(Request) /\ requests' = Append(requests, new)
    BY <1>1 DEF AuditInv, AuditTypes, new
<1>4. /\ DOMAIN requests = 1 .. Len(requests) /\ Len(requests) \in Nat
      /\ DOMAIN requests' = 1 .. n
      /\ requests'[n] = new /\ \A i \in DOMAIN requests : requests'[i] = requests[i]
    BY <1>3
<1>5. ASSUME NEW l \in Nat
      PROVE  1 .. l + 1 = (1 .. l) \cup {l + 1} /\ l + 1 \notin 1 .. l
    OBVIOUS
<1> QED BY <1>2, <1>4, <1>5

\* So does an arrival: nothing was written yet of what arrives.
LEMMA ArrivalKeepsPromises ==
    ASSUME AuditInv, KeptInv, NEW sent \in Sent, Arrives(sent)
    PROVE  KeptInv'
<1> DEFINE n == Len(requests) + 1
<1>1. file' = file /\ cut' = cut
    BY DEF Arrives
<1>2. /\ DOMAIN requests' = DOMAIN requests \cup {n} /\ n \notin DOMAIN requests
      /\ \A i \in DOMAIN requests : requests'[i] = requests[i]
      /\ requests'[n].phase = "queued" /\ requests'[n].promise = 0
      /\ requests'[n].mass = 0
    BY ArrivedIs
<1>3. \A kind : kind # "malformed" => LinesFor(kind, n) = {}
    BY <1>2 DEF LinesFor, EventLines, AuditInv, LinesAre
<1>4. /\ \A kind, i : LinesFor(kind, i)' = LinesFor(kind, i)
      /\ Weights' = Weights /\ EventLines' = EventLines /\ Whole' = Whole
    BY <1>1 DEF LinesFor, EventLines, Weights, Whole
<1>5. \A i \in DOMAIN requests' : i \in DOMAIN requests \/ i = n
    BY <1>2
<1> HIDE DEF n
<1>6. Ordered'
    BY <1>1, <1>4 DEF Ordered, KeptInv
<1>7. Total(Weights, LinesFor("materialized", n)) = 0 /\ Total(Weights, LinesFor("materialized", n)) <= 0
    BY <1>3, TotalOfNone
<1>8. ASSUME NEW i \in DOMAIN requests'
      PROVE  /\ requests'[i].phase = "promised" => requests'[i].promise > 0 /\ requests'[i].current = 0
             /\ Total(Weights', LinesFor("materialized", i)') <= requests'[i].mass
    <2>1. CASE i = n
        BY <1>2, <1>4, <1>7, <2>1
    <2>2. CASE i \in DOMAIN requests
        BY <1>2, <1>4, <2>2 DEF KeptInv
    <2> QED BY <1>5, <2>1, <2>2
<1>9. ASSUME Whole, NEW i \in DOMAIN requests'
      PROVE  AsPromised(i)'
    <2>1. CASE i = n
        <3>1. LinesFor("advertised", i)' = {} /\ LinesFor("materialized", i)' = {}
            BY <1>3, <1>4, <2>1
        <3> QED BY <1>2, <2>1, <3>1 DEF AsPromised
    <2>2. CASE i \in DOMAIN requests
        <3>1. AsPromised(i) /\ requests'[i] = requests[i]
            BY <1>2, <1>9, <2>2 DEF KeptInv
        <3> QED BY <1>1, <1>4, <3>1 DEF AsPromised
    <2> QED BY <1>5, <2>1, <2>2
<1> QED BY <1>1, <1>4, <1>6, <1>8, <1>9 DEF KeptInv

\* A restart leaves of the requests what was done for them.
LEMMA RestartedIs ==
    ASSUME AuditInv, Restarts
    PROVE  /\ DOMAIN requests' = DOMAIN requests
           /\ \A i \in DOMAIN requests :
                 /\ requests'[i].phase = "gone" /\ requests'[i].promise = requests[i].promise
                 /\ requests'[i].current = requests[i].current /\ requests'[i].mass = requests[i].mass
<1>1. requests' = [i \in DOMAIN requests |-> [requests[i] EXCEPT !.phase = "gone"]]
    BY DEF Restarts
<1>2. \A i \in DOMAIN requests : requests'[i] = [requests[i] EXCEPT !.phase = "gone"]
    BY <1>1
<1>3. \A i \in DOMAIN requests : requests[i] \in Request
    BY RequestIs DEF AuditInv
<1>4. ASSUME NEW i \in DOMAIN requests
      PROVE  LET new == [requests[i] EXCEPT !.phase = "gone"]
             IN  /\ new.phase = "gone" /\ new.promise = requests[i].promise
                 /\ new.current = requests[i].current /\ new.mass = requests[i].mass
    BY <1>3 DEF Request
<1>5. DOMAIN requests' = DOMAIN requests
    BY <1>1
<1> QED BY <1>2, <1>3, <1>4, <1>5

\* And a restart: what is lost of a line leaves the file not whole.
LEMMA RestartKeepsPromises ==
    ASSUME AuditInv, KeptInv, Restarts
    PROVE  KeptInv'
<1>1. \/ file' = file /\ cut' = cut
      \/ file' = (IF cut THEN file ELSE Append(file, Malformed)) /\ cut' = TRUE
    BY DEF Restarts
<1>2. Malformed \in LineTypes /\ Malformed.event = "malformed"
    BY DEF Malformed, LineTypes
<1>3. file' = file \/ file' = Append(file, Malformed)
    BY <1>1
<1>4. /\ DOMAIN requests' = DOMAIN requests
      /\ \A i \in DOMAIN requests :
            /\ requests'[i].phase = "gone" /\ requests'[i].promise = requests[i].promise
            /\ requests'[i].current = requests[i].current /\ requests'[i].mass = requests[i].mass
    BY RestartedIs
<1>5. \A i \in DOMAIN requests : requests[i].mass \in Nat /\ requests[i].mass >= requests[i].mass
    BY RequestIs, RequestHas DEF AuditInv
<1>6. \A kind, i : kind # "malformed" => LinesFor(kind, i)' = LinesFor(kind, i)
    <2> SUFFICES ASSUME NEW kind, NEW i, kind # "malformed"
                 PROVE  LinesFor(kind, i)' = LinesFor(kind, i)
        OBVIOUS
    <2>1. LinesFor(kind, i)' = LinesFor(kind, i) \cup
              {n \in {Len(file) + 1} : /\ file' # file /\ Malformed.event = kind
                                       /\ Malformed.request_seq = i}
        BY <1>2, <1>3, LinesGrow
    <2> QED BY <1>2, <2>1
<1>7. Ordered'
    <2>1. /\ \A n \in DOMAIN file : file'[n] = file[n] /\ (n \in EventLines' <=> n \in EventLines)
          /\ file' # file => /\ DOMAIN file' = DOMAIN file \cup {Len(file) + 1}
                             /\ file'[Len(file) + 1] = Malformed
        BY <1>2, <1>3, LinesGrow
    <2>2. \A n \in EventLines' : n \in EventLines /\ n \in DOMAIN file
        BY <1>2, <2>1 DEF EventLines
    <2> QED BY <2>1, <2>2 DEF Ordered, KeptInv
<1>8. ASSUME NEW i \in DOMAIN requests
      PROVE  Total(Weights', LinesFor("materialized", i)') <= requests'[i].mass
    <2>1. Total(Weights, LinesFor("materialized", i)) <= requests[i].mass
        BY DEF KeptInv
    <2>2. Malformed.event # "materialized"
        BY <1>2
    <2>3. Total(Weights', LinesFor("materialized", i)') <= requests[i].mass
        BY <1>2, <1>3, <1>5, <2>1, <2>2, MassKept
    <2> QED BY <1>4, <2>3
<1>9. cut' => ~Whole'
    <2>1. CASE file' = file /\ cut' = cut
        BY <2>1 DEF KeptInv, Whole
    <2>2. CASE cut
        BY <1>2, <1>3, <2>2, LinesGrow DEF KeptInv
    <2>3. CASE file' = Append(file, Malformed)
        <3>1. file \in Seq(LineTypes) /\ Len(file) \in Nat
            BY LinesForAre DEF AuditInv, AuditTypes
        <3>2. file'[Len(file) + 1] = Malformed /\ Len(file) + 1 \in DOMAIN file'
            BY <1>2, <2>3, <3>1, AppendProperties
        <3> QED BY <1>2, <3>2 DEF Whole
    <2> QED BY <1>1, <2>1, <2>2, <2>3
<1>10. ASSUME Whole', NEW i \in DOMAIN requests
       PROVE  AsPromised(i)'
    <2>1. AsPromised(i)
        BY <1>2, <1>3, <1>10, LinesGrow DEF KeptInv
    <2>2. /\ LinesFor("advertised", i)' = LinesFor("advertised", i)
          /\ LinesFor("materialized", i)' = LinesFor("materialized", i)
        BY <1>6
    <2> QED BY <1>2, <1>3, <1>4, <2>1, <2>2, PromiseStays
<1> QED BY <1>4, <1>7, <1>8, <1>9, <1>10 DEF KeptInv

\* The invariant of the promises holds at first, and is kept.
LEMMA InitKept == Init => KeptInv
<1> SUFFICES ASSUME Init PROVE KeptInv
    OBVIOUS
<1>1. requests = <<>> /\ file = <<>> /\ cut = FALSE
    BY DEF Init
<1>2. DOMAIN requests = {} /\ EventLines = {}
    BY <1>1 DEF EventLines
<1> QED BY <1>1, <1>2 DEF KeptInv, Ordered

\* Every step keeps it.
LEMMA NextKept == AuditInv /\ KeptInv /\ [Next]_vars => KeptInv'
<1> SUFFICES ASSUME AuditInv, KeptInv, [Next]_vars PROVE KeptInv'
    OBVIOUS
<1>1. CASE UNCHANGED vars
    BY <1>1 DEF vars, KeptInv, Ordered, AsPromised, LinesFor, EventLines, Weights, Whole
<1>2. CASE Next
    <2>1. ASSUME NEW i \in DOMAIN requests,
                 LookedUp(i) \/ Promises(i) \/ DeclinesSpan(i) \/ Materializes(i)
          PROVE  KeptInv'
        BY <2>1, StepsAre, StepKeepsPromises
    <2> QED BY <1>1, <1>2, <2>1, ArrivalKeepsPromises, RestartKeepsPromises DEF Next, Over
<1> QED BY <1>1, <1>2

-----------------------------------------------------------------------------
(* What a row is stamped with, against what was promised and kept. *)

\* The last token of a sequence that one was put behind.
LEMMA TokenBehind ==
    ASSUME NEW S, NEW s \in Seq(S), NEW t \in S
    PROVE  (s \o <<t>>)[Len(s \o <<t>>)] = t
OBVIOUS

\* Requests with one id were sent to one engine.
LEMMA EqualIds ==
    ASSUME AuditInv, ~front.strips, NEW i \in DOMAIN requests, NEW j \in DOMAIN requests,
           requests[i].id = requests[j].id
    PROVE  requests[i].generation = requests[j].generation
<1>1. requests[i].sent = requests[j].sent
    <2>1. requests[i].sent \in Sent
        BY RequestBuilds
    <2> QED BY <2>1, FormOfRequest
<1>2. CASE front.random
    <2>1. ASSUME NEW k \in DOMAIN requests
          PROVE  /\ k \in DOMAIN Suffixes
                 /\ requests[k].id[Len(requests[k].id)] = Suffixes[k]
        <3>1. PICK prompt \in PromptParts : requests[k].id = EngineId(requests[k].sent, prompt, k)
            BY RequestBuilds
        <3>2. k \in DOMAIN Suffixes /\ Suffixes[k] \in RandomTokens
            <4>1. k \in 1 .. MaxRequests
                BY RequestBuilds
            <4>2. /\ Suffixes \in Seq(RandomTokens) /\ Len(Suffixes) >= MaxRequests
                  /\ MaxRequests \in Nat /\ Len(Suffixes) \in Nat
                BY AuditAssumption, LenProperties
            <4>3. k \in 1 .. Len(Suffixes)
                BY <4>1, <4>2
            <4> QED BY <4>2, <4>3
        <3>3. Suffixes[k] \in STRING
            BY <3>2, AuditAssumption
        <3>4. requests[k].response \in Seq(STRING)
            BY RequestIs, RequestHas DEF AuditInv
        <3>5. requests[k].response = ResponseId(requests[k].sent, k)
            BY DEF AuditInv, IdsMade
        <3>6. prompt \in Seq(STRING)
            <4>1. prompt \in {<<t>> : t \in NumberTokens} \cup {<<>>} /\ NumberTokens \in SUBSET STRING
                BY AuditAssumption DEF PromptParts
            <4> QED BY <4>1, AtMostOne
        <3>7. requests[k].response \o prompt \in Seq(STRING)
            BY <3>4, <3>6, BothParts
        <3>8. requests[k].id = (requests[k].response \o prompt) \o <<Suffixes[k]>>
            BY <1>2, <3>1, <3>5 DEF EngineId
        <3> QED BY <3>2, <3>3, <3>7, <3>8, TokenBehind
    <2>2. Suffixes[i] = Suffixes[j]
        BY <2>1
    <2> QED BY <2>1, <2>2, AuditAssumption
<1>3. CASE ~front.random
    BY <1>1, <1>3 DEF AuditInv, SentOncePerEngine
<1> QED BY <1>2, <1>3

\* A joined row's record is an id the file has, of a front end that passes ids on.
LEMMA JoinedIs ==
    ASSUME AuditInv, NEW row \in JoinedRows(Rows)
    PROVE  /\ row.record \in Records /\ ~front.strips
           /\ row = StampRow(row.sent, row.record)
<1>1. PICK sent \in Rows : row = Row(sent) /\ row.joined
    BY DEF JoinedRows, JoinRequests
<1> DEFINE found == Resolve(sent)
           id == CHOOSE x \in found : TRUE
<1>2. found # {}
    <2>1. Unjoined(sent).joined = FALSE
        BY DEF Unjoined
    <2> QED BY <1>1, <2>1 DEF Row
<1>3. id \in found /\ row = StampRow(sent, id)
    BY <1>1, <1>2 DEF Row
<1>4. found \subseteq Records
    BY DEF Resolve, Candidates
<1>5. ~front.strips
    <2>1. Cardinality({}) = 0
        BY FS_EmptySet
    <2> QED BY <1>2, <2>1, ResolvesOwn DEF RowsGetTheirOwn
<1> HIDE DEF found, id
<1>6. row.sent = sent /\ row.record = id
    BY <1>3 DEF StampRow
<1> QED BY <1>3, <1>4, <1>5, <1>6

\* The fold of tokens over lines of materializations is their sum.
LEMMA TokensAdd ==
    ASSUME AuditInv, NEW S, IsFiniteSet(S), S \subseteq DOMAIN file,
           \A n \in S : file[n].event = "materialized"
    PROVE  TokensOf(S) = Total(Weights, S) /\ Total(Weights, S) \in Nat
<1> DEFINE Folds(g) ==
             g = [s \in SUBSET S |->
                    IF s = {} THEN 0
                    ELSE file[CHOOSE x \in s : TRUE].tokens + g[s \ {CHOOSE x \in s : TRUE}]]
           f == CHOOSE g : Folds(g)
           h == CHOOSE g : Sums(g, Weights, S)
<1>1. TokensOf(S) = f[S]
    BY DEF TokensOf, MapThenSumSet, MapThenFoldSet
<1>2. \A s \in SUBSET S : s # {} => file[First(s)].tokens = Weights[First(s)]
    <2>1. \A n \in S : Weights[n] = file[n].tokens
        BY DEF Weights
    <2> QED BY <2>1 DEF First
<1>3. ASSUME NEW g, Folds(g) PROVE Sums(g, Weights, S)
    BY <1>2, <1>3 DEF Sums, First
<1>4. ASSUME NEW g, Sums(g, Weights, S) PROVE Folds(g)
    BY <1>2, <1>4 DEF Sums, First
<1> HIDE DEF Folds
<1>5. IsFiniteSet(S) /\ S \in SUBSET (S \cap S) /\ \A n \in S \cup S : Weights[n] \in Nat
    BY LinesForAre
<1>6. PICK g : Sums(g, Weights, S)
    BY <1>5, SumsExist
<1>7. Folds(f) /\ Sums(h, Weights, S)
    BY <1>4, <1>6
<1>8. Sums(f, Weights, S)
    BY <1>3, <1>7
<1> HIDE DEF f, h
<1>9. f[S] = h[S]
    BY <1>5, <1>7, <1>8, SumsAgree
<1>10. Total(Weights, S) \in Nat
    BY <1>5, TotalSame
<1> QED BY <1>1, <1>9, <1>10 DEF Total, h

\* The lines of an id are lines about its requests.
LEMMA RecordedAre ==
    ASSUME AuditInv, NEW id, NEW n \in Recorded(id)
    PROVE  LET i == file[n].request_seq
           IN  /\ n \in DOMAIN file /\ i \in DOMAIN requests /\ requests[i].id = id
               /\ i \in RequestsOf(id) /\ file[n].event # "malformed"
               /\ file[n].event_seq \in Nat /\ file[n].connector \in Nat
               /\ file[n].connector = 2 * requests[i].generation
                                          + IF file[n].event = "materialized" THEN 1 ELSE 0
<1>1. n \in DOMAIN file /\ file[n].event # "malformed" /\ file[n].id = id
    BY DEF Recorded, EventLines
<1> DEFINE i == file[n].request_seq
<1>2. i \in DOMAIN requests /\ Written(file[n], requests[i])
    BY <1>1 DEF AuditInv, LinesAre
<1>3. i \in RequestsOf(id)
    BY DEF RequestsOf
<1>4. requests[i].generation \in Nat
    BY <1>2, RequestIs, RequestHas DEF AuditInv
<1> HIDE DEF i
<1>5. file[n].connector = 2 * requests[i].generation
                              + IF file[n].event = "materialized" THEN 1 ELSE 0
    BY <1>2 DEF Written
<1>6. file[n].connector \in Nat
    BY <1>4, <1>5
<1> QED BY <1>1, <1>2, <1>3, <1>5, <1>6 DEF Written, i

\* No joined row that is not reported as reused says more was kept than a worker kept.
THEOREM NothingIsInvented == Spec => []NothingInvented
<1>1. ASSUME AuditInv, KeptInv PROVE NothingInvented
    <2> SUFFICES ASSUME NEW row \in JoinedRows(Rows), ~row.reused
                 PROVE  \E i \in RequestsOf(row.record) :
                            row.confirmed + row.superseded <= requests[i].mass
        BY DEF NothingInvented
    <2> DEFINE id   == row.record
               all  == Materializations(id)
               a    == AdvertiseLine(id)
               kept == {n \in all : Kept(n, a)}
               lost == {n \in all : ~Kept(n, a)}
    <2>1. id \in Records /\ ~front.strips /\ row = StampRow(row.sent, id)
        BY <1>1, JoinedIs
    <2>2. /\ row.confirmed = IF all = {} THEN None ELSE TokensOf(kept)
          /\ row.superseded = TokensOf(lost)
          /\ ~RequestIdReused(id)
        BY <2>1 DEF StampRow, KeptTokens, SupersededTokens
    <2>3. all \subseteq Recorded(id) /\ all \subseteq DOMAIN file /\ \A n \in all : file[n].event = "materialized"
        BY DEF Materializations, EventsOf, Recorded, EventLines
    <2>4. IsFiniteSet(kept) /\ IsFiniteSet(lost) /\ IsFiniteSet(all)
        BY <1>1, <2>3, LinesForAre, FS_Subset
    <2>5. /\ TokensOf(kept) = Total(Weights, kept) /\ TokensOf(lost) = Total(Weights, lost)
          /\ Total(Weights, all) \in Nat
        BY <1>1, <2>3, <2>4, TokensAdd
    <2>6. CASE all = {}
        <3>1. PICK n \in EventLines : file[n].id = id
            BY <2>1 DEF Records
        <3>2. n \in Recorded(id)
            BY <3>1 DEF Recorded
        <3>3. file[n].request_seq \in RequestsOf(id) /\ file[n].request_seq \in DOMAIN requests
            BY <1>1, <3>2, RecordedAre
        <3>4. requests[file[n].request_seq].mass \in Nat
            BY <1>1, <3>3, RequestIs, RequestHas DEF AuditInv
        <3>5. lost = {} /\ row.superseded = 0 /\ row.confirmed = -1
            BY <2>2, <2>5, <2>6, TotalOfNone DEF None
        <3> QED BY <3>3, <3>4, <3>5
    <2>7. CASE all # {}
        <3>1. PICK m \in all : TRUE
            BY <2>7
        <3> DEFINE i == file[m].request_seq
        <3>2. i \in DOMAIN requests /\ i \in RequestsOf(id) /\ requests[i].id = id
            BY <1>1, <2>3, RecordedAre
        <3>3. \A n \in all : file[n].request_seq = i
            <4> SUFFICES ASSUME NEW n \in all PROVE file[n].request_seq = i
                OBVIOUS
            <4> DEFINE j == file[n].request_seq
            <4>1. j \in DOMAIN requests /\ requests[j].id = id
                BY <1>1, <2>3, RecordedAre
            <4>2. requests[i].generation = requests[j].generation
                BY <1>1, <2>1, <3>2, <4>1, EqualIds
            <4>3. file[n].connector = file[m].connector
                BY <1>1, <2>3, <4>2, RecordedAre
            <4> QED BY <2>2, <2>3, <4>3 DEF RequestIdReused
        <3> HIDE DEF i
        <3>4. all \subseteq LinesFor("materialized", i)
            BY <2>3, <3>3 DEF LinesFor, Recorded
        <3>5. kept \cup lost = all /\ kept \cap lost = {} /\ kept \subseteq all /\ lost \subseteq all
            OBVIOUS
        <3>6. \A n \in DOMAIN file : Weights[n] \in Nat
            BY <1>1, LinesForAre
        <3> HIDE DEF kept, lost, all
        <3>7. /\ Total(Weights, kept) \in Nat /\ Total(Weights, lost) \in Nat
              /\ Total(Weights, all) = Total(Weights, kept) + Total(Weights, lost)
            <4>1. \A n \in kept \cup lost : Weights[n] \in Nat
                BY <2>3, <3>5, <3>6
            <4>2. Total(Weights, kept \cup lost) = Total(Weights, kept) + Total(Weights, lost)
                  /\ Total(Weights, kept) \in Nat /\ Total(Weights, lost) \in Nat
                BY <2>4, <3>5, <4>1, TotalOfBoth
            <4> QED BY <3>5, <4>2
        <3>8. Total(Weights, all) <= Total(Weights, LinesFor("materialized", i))
              /\ Total(Weights, LinesFor("materialized", i)) \in Nat
            <4> DEFINE rest == LinesFor("materialized", i) \ all
            <4>1. LinesFor("materialized", i) \subseteq DOMAIN file /\ IsFiniteSet(LinesFor("materialized", i))
                BY <1>1, LinesForAre
            <4>2. IsFiniteSet(rest) /\ all \cap rest = {} /\ all \cup rest = LinesFor("materialized", i)
                BY <3>4, <4>1, FS_Subset
            <4> HIDE DEF rest
            <4>3. \A n \in all \cup rest : Weights[n] \in Nat
                BY <3>6, <4>1, <4>2
            <4>4. /\ Total(Weights, all) \in Nat /\ Total(Weights, rest) \in Nat
                  /\ Total(Weights, all \cup rest) = Total(Weights, all) + Total(Weights, rest)
                BY <2>4, <4>2, <4>3, TotalOfBoth
            <4>5. ASSUME NEW b \in Nat, NEW c \in Nat PROVE b <= b + c /\ b + c \in Nat
                OBVIOUS
            <4> QED BY <4>2, <4>4, <4>5
        <3>9. Total(Weights, LinesFor("materialized", i)) <= requests[i].mass
            BY <1>1, <3>2 DEF KeptInv
        <3>10. row.confirmed = Total(Weights, kept) /\ row.superseded = Total(Weights, lost)
            BY <2>2, <2>5, <2>7
        <3>11. requests[i].mass \in Nat
            BY <1>1, <3>2, RequestIs, RequestHas DEF AuditInv
        <3>12. row.confirmed + row.superseded <= requests[i].mass
            BY <3>7, <3>8, <3>9, <3>10, <3>11
        <3> QED BY <3>2, <3>12
    <2> QED BY <2>6, <2>7
<1> QED BY <1>1, InitAudit, NextAudit, InitKept, NextKept, PTL DEF Spec

\* Of two lines of one connector, one of a later request comes behind, and of one
\* request one with a later number.
LEMMA PrecedesIs ==
    ASSUME NEW m \in Nat, NEW n \in Nat, file[m].connector = file[n].connector,
           file[m].connector \in Nat, file[m].request_seq \in Nat, file[n].request_seq \in Nat,
           file[m].event_seq \in Nat, file[n].event_seq \in Nat,
           \/ file[m].request_seq < file[n].request_seq
           \/ /\ file[m].request_seq = file[n].request_seq
              /\ file[m].event_seq < file[n].event_seq
    PROVE  Precedes(m, n) /\ ~Precedes(n, m)
<1>1. ASSUME NEW k \in Nat
      PROVE  /\ Order(k)[1] = file[k].connector /\ Order(k)[2] = file[k].request_seq
             /\ Order(k)[3] = file[k].event_seq /\ Order(k)[4] = k
    BY DEF Order
<1>2. \A c, d \in Nat : c < d => c # d /\ ~(d < c) /\ ~(c < c)
    OBVIOUS
<1>3. \A c \in Nat : ~(c < c)
    OBVIOUS
<1>5. 1 .. 4 = {1, 2, 3, 4} /\ 1 .. 1 - 1 = {} /\ 1 .. 2 - 1 = {1} /\ 1 .. 3 - 1 = {1, 2}
      /\ 1 .. 4 - 1 = {1, 2, 3}
    OBVIOUS
<1>6. Precedes(m, n)
    <2>1. CASE file[m].request_seq < file[n].request_seq
        <3>1. Order(m)[2] < Order(n)[2]
            BY <1>1, <2>1
        <3>2. \A j \in 1 .. 2 - 1 : Order(m)[j] = Order(n)[j]
            BY <1>1, <1>5
        <3> QED BY <1>5, <3>1, <3>2 DEF Precedes
    <2>2. CASE /\ file[m].request_seq = file[n].request_seq
               /\ file[m].event_seq < file[n].event_seq
        <3>1. Order(m)[3] < Order(n)[3]
            BY <1>1, <2>2
        <3>2. \A j \in 1 .. 3 - 1 : Order(m)[j] = Order(n)[j]
            BY <1>1, <1>5, <2>2
        <3> QED BY <1>5, <3>1, <3>2 DEF Precedes
    <2> QED BY <2>1, <2>2
<1>7. ASSUME Precedes(n, m) PROVE FALSE
    <2>1. PICK i \in 1 .. 4 : /\ Order(n)[i] < Order(m)[i]
                              /\ \A j \in 1 .. i - 1 : Order(n)[j] = Order(m)[j]
        BY <1>7 DEF Precedes
    <2>2. i # 1
        BY <1>1, <1>3, <2>1
    <2>3. CASE file[m].request_seq < file[n].request_seq
        <3>1. i # 2
            BY <1>1, <1>2, <2>1, <2>3
        <3>2. 2 \in 1 .. i - 1
            BY <2>2, <3>1
        <3> QED BY <1>1, <1>2, <2>1, <2>3, <3>2
    <2>4. CASE /\ file[m].request_seq = file[n].request_seq
               /\ file[m].event_seq < file[n].event_seq
        <3>1. i # 2
            BY <1>1, <1>3, <2>1, <2>4
        <3>2. i # 3
            BY <1>1, <1>2, <2>1, <2>4
        <3>3. 3 \in 1 .. i - 1
            BY <2>2, <3>1, <3>2
        <3> QED BY <1>1, <1>2, <2>1, <2>4, <3>3
    <2> QED BY <2>3, <2>4
<1> QED BY <1>6, <1>7

\* The lines about a request are lines of its id.
LEMMA EventsFor ==
    ASSUME AuditInv, NEW i \in DOMAIN requests, NEW kind
    PROVE  LinesFor(kind, i) \subseteq EventsOf(requests[i].id, {kind})
<1> SUFFICES ASSUME NEW n \in LinesFor(kind, i) PROVE n \in EventsOf(requests[i].id, {kind})
    OBVIOUS
<1>1. n \in EventLines /\ file[n].event = kind /\ file[n].request_seq = i
    BY DEF LinesFor
<1>2. file[n].id = requests[i].id
    BY <1>1 DEF EventLines, AuditInv, LinesAre, Written
<1> QED BY <1>1, <1>2 DEF EventsOf

\* Of the lines of some kinds the scheduler wrote of an id, the last is the one that
\* is last in the file of those about the request that arrived last.
LEMMA LastAmong ==
    ASSUME AuditInv, Ordered, ~front.strips, NEW id, NEW kinds,
           "malformed" \notin kinds, "materialized" \notin kinds, EventsOf(id, kinds) # {}
    PROVE  LET lines == EventsOf(id, kinds)
               last  == LastOf(lines)
               i     == file[last].request_seq
           IN  /\ last \in lines /\ i \in RequestsOf(id)
               /\ i \in DOMAIN requests /\ requests[i].id = id
               /\ \A n \in lines : file[n].request_seq <= i
               /\ \A n \in lines : file[n].request_seq = i => n <= last
<1> DEFINE lines == EventsOf(id, kinds)
           seqs  == {file[n].request_seq : n \in lines}
<1>1. \A n \in lines : /\ n \in Recorded(id) /\ n \in EventLines /\ n \in Nat
                       /\ file[n].event # "materialized" /\ n \in DOMAIN file
                       /\ file[n].request_seq \in DOMAIN requests
                       /\ requests[file[n].request_seq].id = id
    <2>1. ASSUME NEW n \in lines
          PROVE  /\ n \in Recorded(id) /\ n \in EventLines /\ file[n].event # "materialized"
                 /\ n \in DOMAIN file
        BY DEF EventsOf, Recorded, EventLines
    <2>2. ASSUME NEW n \in lines
          PROVE  /\ file[n].request_seq \in DOMAIN requests
                 /\ requests[file[n].request_seq].id = id
        BY <2>1, RecordedAre
    <2>3. \A n \in DOMAIN file : n \in Nat
        BY LinesForAre
    <2> QED BY <2>1, <2>2, <2>3
<1>2. DOMAIN requests = 1 .. Len(requests) /\ Len(requests) \in Nat
    BY RequestIs DEF AuditInv
<1>3. PICK i \in seqs : \A j \in seqs : j <= i
    <2>1. seqs \in SUBSET Nat /\ seqs # {} /\ Len(requests) \in Nat
          /\ \A j \in seqs : j <= Len(requests)
        <3>1. \A n \in lines : file[n].request_seq \in 1 .. Len(requests)
            BY <1>1, <1>2
        <3>2. lines # {}
            OBVIOUS
        <3> HIDE DEF lines
        <3>3. seqs \subseteq 1 .. Len(requests) /\ seqs # {}
            BY <3>1, <3>2
        <3> HIDE DEF seqs
        <3> QED BY <1>2, <3>3
    <2> HIDE DEF seqs
    <2>2. Max(seqs) \in seqs /\ \A j \in seqs : j <= Max(seqs)
        BY <2>1, Greatest
    <2> QED BY <2>2
<1>4. i \in DOMAIN requests /\ requests[i].id = id /\ i \in Nat
    <2>1. PICK n \in lines : i = file[n].request_seq
        BY <1>3
    <2>2. i \in DOMAIN requests /\ requests[i].id = id
        BY <1>1, <2>1
    <2> HIDE DEF lines
    <2> QED BY <1>2, <2>2
<1> DEFINE own == {n \in lines : file[n].request_seq = i}
<1>6. PICK last \in own : \A n \in own : n <= last
    <2>1. own \in SUBSET Nat /\ Len(file) \in Nat /\ \A n \in own : n <= Len(file)
        <3>1. \A n \in own : n \in DOMAIN file
            BY <1>1
        <3>2. DOMAIN file = 1 .. Len(file) /\ Len(file) \in Nat
            BY LinesForAre
        <3> HIDE DEF own
        <3> QED BY <3>1, <3>2
    <2>2. own # {}
        BY <1>3
    <2> HIDE DEF own
    <2>3. Max(own) \in own /\ \A n \in own : n <= Max(own)
        BY <2>1, <2>2, Greatest
    <2> QED BY <2>3
<1>7. last \in lines /\ file[last].request_seq = i
    OBVIOUS
<1> HIDE DEF lines, seqs, own
<1>8. ASSUME NEW m \in lines, m # last
      PROVE  Precedes(m, last) /\ ~Precedes(last, m)
    <2> DEFINE j == file[m].request_seq
    <2>1. j \in DOMAIN requests /\ requests[j].id = id /\ j \in Nat
        BY <1>1, <1>2
    <2>2. requests[i].generation = requests[j].generation
        BY <1>4, <2>1, EqualIds
    <2>3. file[m].connector = file[last].connector /\ file[m].connector \in Nat
        BY <1>1, <1>7, <2>2, RecordedAre
    <2>4. file[m].event_seq \in Nat /\ file[last].event_seq \in Nat
        BY <1>1, <1>7, RecordedAre
    <2>5. j <= i
        BY <1>3 DEF seqs
    <2>6. CASE j # i
        <3>1. j < i
            BY <1>4, <2>1, <2>5, <2>6
        <3> QED BY <1>1, <1>4, <1>7, <2>1, <2>3, <2>4, <3>1, PrecedesIs
    <2>7. CASE j = i
        <3>1. m \in own
            BY <2>7 DEF own
        <3>2. m < last
            BY <1>1, <1>6, <1>7, <1>8, <3>1
        <3>3. file[m].event_seq < file[last].event_seq
            BY <1>1, <1>7, <2>7, <3>2 DEF Ordered
        <3> QED BY <1>1, <1>4, <1>7, <2>1, <2>3, <2>4, <2>7, <3>3, PrecedesIs
    <2> QED BY <2>6, <2>7
<1>9. ASSUME NEW n \in lines, \A m \in lines \ {n} : Precedes(m, n)
      PROVE  n = last
    <2> SUFFICES ASSUME n # last PROVE FALSE
        OBVIOUS
    <2> QED BY <1>7, <1>8, <1>9
<1>10. LastOf(lines) = last
    BY <1>7, <1>8, <1>9 DEF LastOf
<1>11. i \in RequestsOf(id)
    BY <1>1, <1>7 DEF RequestsOf
<1>12. /\ \A n \in lines : file[n].request_seq <= i
       /\ \A n \in lines : file[n].request_seq = i => n <= last
    BY <1>3, <1>6 DEF seqs, own
<1> QED BY <1>4, <1>7, <1>10, <1>11, <1>12 DEF lines

\* Of one kind it is the last about its request.
LEMMA LastIs ==
    ASSUME AuditInv, Ordered, ~front.strips, NEW id, NEW kind,
           kind # "malformed", kind # "materialized", EventsOf(id, {kind}) # {}
    PROVE  LET lines == EventsOf(id, {kind})
               last  == LastOf(lines)
               i     == file[last].request_seq
           IN  /\ last \in lines /\ i \in RequestsOf(id)
               /\ i \in DOMAIN requests /\ requests[i].id = id
               /\ last \in LinesFor(kind, i) /\ \A n \in LinesFor(kind, i) : n <= last
               /\ \A n \in lines : file[n].request_seq <= i
<1> DEFINE lines == EventsOf(id, {kind})
           last  == LastOf(lines)
           i     == file[last].request_seq
<1>1. /\ last \in lines /\ i \in RequestsOf(id)
      /\ i \in DOMAIN requests /\ requests[i].id = id
      /\ \A n \in lines : file[n].request_seq <= i
      /\ \A n \in lines : file[n].request_seq = i => n <= last
    <2>1. "malformed" \notin {kind} /\ "materialized" \notin {kind}
        OBVIOUS
    <2> QED BY <2>1, LastAmong
<1> HIDE DEF lines, last, i
<1>2. last \in LinesFor(kind, i)
    BY <1>1 DEF EventsOf, LinesFor, lines, i
<1>3. \A n \in LinesFor(kind, i) : n \in lines /\ file[n].request_seq = i
    BY <1>1, EventsFor DEF LinesFor, lines
<1>4. (\A n \in LinesFor(kind, i) : n <= last) /\ (\A n \in lines : file[n].request_seq <= i)
    BY <1>1, <1>3
<1> QED BY <1>1, <1>2, <1>4 DEF lines, last, i

\* In a file that lost nothing, an id that is not reused is of one request.
LEMMA OneRequest ==
    ASSUME AuditInv, KeptInv, Whole, ~front.strips, NEW id \in Records, ~RequestIdReused(id)
    PROVE  \E i \in RequestsOf(id) :
              /\ i \in DOMAIN requests
              /\ Adverts(id) = LinesFor("advertised", i)
              /\ Materializations(id) = LinesFor("materialized", i)
<1>1. ASSUME NEW n \in Recorded(id)
      PROVE  \E m \in Recorded(id) : /\ file[m].event # "materialized"
                                     /\ file[m].request_seq = file[n].request_seq
    <2>1. CASE file[n].event # "materialized"
        BY <2>1
    <2>2. CASE file[n].event = "materialized"
        <3> DEFINE i == file[n].request_seq
        <3>1. i \in DOMAIN requests /\ requests[i].id = id /\ n \in DOMAIN file /\ n \in EventLines
            BY RecordedAre DEF Recorded
        <3>2. n \in LinesFor("materialized", i)
            BY <2>2, <3>1 DEF LinesFor
        <3>3. AsPromised(i)
            BY <3>1 DEF KeptInv
        <3>4. PICK m \in LinesFor("advertised", i) : TRUE
            BY <3>2, <3>3 DEF AsPromised
        <3>5. m \in EventLines /\ file[m].event = "advertised" /\ file[m].request_seq = i
            BY DEF LinesFor
        <3>6. file[m].id = id
            BY <3>1, <3>5 DEF EventLines, AuditInv, LinesAre, Written
        <3> QED BY <3>5, <3>6 DEF Recorded
    <2> QED BY <2>1, <2>2
<1>2. ASSUME NEW m \in Recorded(id), NEW n \in Recorded(id),
             file[m].event # "materialized", file[n].event # "materialized"
      PROVE  file[m].request_seq = file[n].request_seq
    <2> DEFINE i == file[m].request_seq
               j == file[n].request_seq
    <2>1. /\ i \in DOMAIN requests /\ requests[i].id = id
          /\ j \in DOMAIN requests /\ requests[j].id = id
        BY RecordedAre
    <2>2. requests[i].generation = requests[j].generation
        BY <2>1, EqualIds
    <2>3. file[m].connector = file[n].connector
        BY <1>2, <2>2, RecordedAre
    <2> QED BY <2>3 DEF RequestIdReused
<1>3. PICK n \in Recorded(id) : TRUE
    BY DEF Records, Recorded
<1> DEFINE i == file[n].request_seq
<1>4. i \in RequestsOf(id) /\ i \in DOMAIN requests /\ requests[i].id = id
    BY RecordedAre
<1>5. \A m \in Recorded(id) : file[m].request_seq = i
    BY <1>1, <1>2
<1> HIDE DEF i
<1>6. ASSUME NEW kind \in {"advertised", "materialized"}
      PROVE  EventsOf(id, {kind}) = LinesFor(kind, i)
    <2>1. EventsOf(id, {kind}) \subseteq LinesFor(kind, i)
        BY <1>5 DEF EventsOf, LinesFor, Recorded
    <2>2. ASSUME NEW m \in LinesFor(kind, i) PROVE m \in EventsOf(id, {kind})
        <3>1. m \in EventLines /\ file[m].event = kind /\ file[m].request_seq = i
            BY DEF LinesFor
        <3>2. file[m].id = id
            BY <1>4, <3>1 DEF EventLines, AuditInv, LinesAre, Written
        <3> QED BY <3>1, <3>2 DEF EventsOf
    <2> QED BY <2>1, <2>2
<1> QED BY <1>4, <1>6 DEF Adverts, Materializations

\* A joined row has the promise last made, and what was kept of that one.
THEOREM LastPromiseCounts == Spec => []KeptIsOfThePromise
<1>1. ASSUME AuditInv, KeptInv PROVE KeptIsOfThePromise
    <2> SUFFICES ASSUME Whole, NEW row \in JoinedRows(Rows), ~row.reused
                 PROVE  \E i \in RequestsOf(row.record) :
                           /\ row.advertised =
                                  IF requests[i].promise = 0 THEN None ELSE requests[i].promise
                           /\ row.confirmed =
                                  IF requests[i].mass = 0 THEN None ELSE requests[i].current
        BY DEF KeptIsOfThePromise
    <2> DEFINE id == row.record
               a  == AdvertiseLine(id)
    <2>1. id \in Records /\ ~front.strips /\ row = StampRow(row.sent, id)
        BY <1>1, JoinedIs
    <2>2. /\ row.advertised = IF Adverts(id) = {} THEN None ELSE file[a].tokens
          /\ row.confirmed = IF Materializations(id) = {} THEN None ELSE KeptTokens(id)
          /\ ~RequestIdReused(id)
        BY <2>1 DEF StampRow
    <2>3. PICK i \in RequestsOf(id) :
              /\ i \in DOMAIN requests
              /\ Adverts(id) = LinesFor("advertised", i)
              /\ Materializations(id) = LinesFor("materialized", i)
        BY <1>1, <2>1, <2>2, OneRequest
    <2> DEFINE adverts == LinesFor("advertised", i)
               kept    == LinesFor("materialized", i)
    <2>4. /\ requests[i].promise = 0 <=> adverts = {}
          /\ requests[i].mass = 0 <=> kept = {}
          /\ adverts = {} => kept = {}
          /\ \A b \in adverts : (\A c \in adverts : c <= b) =>
                /\ file[b].tokens = requests[i].promise
                /\ Total(Weights, {n \in kept : n >= b}) = requests[i].current
        BY <1>1, <2>3 DEF KeptInv, AsPromised
    <2>5. CASE adverts = {}
        BY <2>2, <2>3, <2>4, <2>5
    <2>6. CASE adverts # {}
        <3>1. a \in adverts /\ \A c \in adverts : c <= a
            <4> DEFINE j == file[a].request_seq
            <4>1. a = LastOf(EventsOf(id, {"advertised"})) /\ EventsOf(id, {"advertised"}) # {}
                BY <2>3, <2>6 DEF AdvertiseLine, Adverts
            <4>2. /\ a \in EventsOf(id, {"advertised"}) /\ a \in LinesFor("advertised", j)
                  /\ \A c \in LinesFor("advertised", j) : c <= a
                <5>1. AuditInv /\ Ordered /\ ~front.strips
                    BY <1>1, <2>1 DEF KeptInv
                <5> HIDE DEF a, id
                <5> QED BY <4>1, <5>1, LastIs
            <4>3. j = i
                BY <2>3, <4>2 DEF Adverts, LinesFor
            <4> QED BY <4>2, <4>3
        <3>2. /\ file[a].tokens = requests[i].promise
              /\ Total(Weights, {n \in kept : n >= a}) = requests[i].current
            BY <2>4, <3>1
        <3>3. KeptTokens(id) = Total(Weights, {n \in kept : n >= a})
            <4> DEFINE S == {n \in kept : n >= a}
            <4>1. KeptTokens(id) = TokensOf(S)
                BY <2>3 DEF KeptTokens, Kept
            <4>2. S \subseteq kept /\ kept \subseteq DOMAIN file /\ IsFiniteSet(kept)
                BY <1>1, LinesForAre
            <4>3. IsFiniteSet(S) /\ \A n \in S : file[n].event = "materialized"
                BY <4>2, FS_Subset DEF LinesFor
            <4> HIDE DEF S
            <4> QED BY <1>1, <4>1, <4>2, <4>3, TokensAdd DEF S
        <3> QED BY <2>2, <2>3, <2>4, <2>6, <3>2, <3>3
    <2> QED BY <2>3, <2>5, <2>6
<1> QED BY <1>1, InitAudit, NextAudit, InitKept, NextKept, PTL DEF Spec

-----------------------------------------------------------------------------
(* What becomes of a lookup hit. *)

\* The last of some lines carries a boundary.
LastCarries(f, lines, boundary) ==
    \A n \in lines : (\A m \in lines : m <= n) => f[n].boundary = boundary

\* A request of which no span was declined was promised one at the boundary it
\* was last looked up at, or is just being looked up.
SpanOf(i) ==
    LET hits    == LinesFor("hit", i)
        adverts == LinesFor("advertised", i)
        r       == requests[i]
    IN  (r.phase # "gone" /\ \A event \in SpanDeclineEvents : LinesFor(event, i) = {}) =>
            /\ r.phase # "declined"
            /\ r.phase = "queued" => hits = {} /\ adverts = {}
            /\ r.phase # "queued" => hits # {} /\ LastCarries(file, hits, Carried(r.boundary))
            /\ r.phase \in {"promised", "materialized"} =>
                   adverts # {} /\ LastCarries(file, adverts, r.boundary)

SpanInv ==
    /\ \A n \in EventLines : file[n].event = "advertised" => file[n].tokens \in Nat \ {0}
    /\ Whole => \A i \in DOMAIN requests : SpanOf(i)

\* Lines of which none is added carry what they did.
LEMMA CarriesStay ==
    ASSUME AuditInv, NEW line \in LineTypes, file' = file \/ file' = Append(file, line),
           NEW kind, NEW j, NEW boundary, LinesFor(kind, j)' = LinesFor(kind, j),
           LastCarries(file, LinesFor(kind, j), boundary)
    PROVE  LastCarries(file', LinesFor(kind, j)', boundary)
<1>1. LinesFor(kind, j) \subseteq DOMAIN file
    BY LinesForAre
<1>2. \A n \in DOMAIN file : file'[n] = file[n]
    BY LinesGrow
<1> QED BY <1>1, <1>2 DEF LastCarries

\* A line more is the last, and they carry what it does.
LEMMA CarriesNew ==
    ASSUME AuditInv, NEW line \in LineTypes, file' = Append(file, line), file' # file,
           NEW kind, NEW j, kind # "malformed", line.event = kind, line.request_seq = j
    PROVE  LastCarries(file', LinesFor(kind, j)', line.boundary) /\ LinesFor(kind, j)' # {}
<1> DEFINE x == Len(file) + 1
           lines == LinesFor(kind, j)
<1>1. lines' = lines \cup {x} /\ file'[x] = line
    BY LinesGrow
<1>2. lines \subseteq DOMAIN file /\ DOMAIN file = 1 .. Len(file) /\ Len(file) \in Nat
    BY LinesForAre
<1>3. \A n \in lines : ~(x <= n)
    <2>1. ASSUME NEW l \in Nat, NEW n \in 1 .. l PROVE ~(l + 1 <= n)
        OBVIOUS
    <2> QED BY <1>2, <2>1
<1>4. ASSUME NEW n \in lines', \A m \in lines' : m <= n
      PROVE  file'[n].boundary = line.boundary
    BY <1>1, <1>3, <1>4
<1> QED BY <1>1, <1>4 DEF LastCarries

\* A step of a request keeps its span, in a file that has lost nothing.
LEMMA SpanKept ==
    ASSUME AuditInv, NEW i \in DOMAIN requests, NEW new \in Request, NEW line \in LineTypes,
           TakesStep(i, new, line), file' = Append(file, line), file' # file, SpanOf(i)
    PROVE  SpanOf(i)'
<1> DEFINE r == requests[i]
<1>1. requests'[i] = new /\ line.request_seq = i /\ front' = front
    BY DEF TakesStep, AuditInv, AuditTypes, Write
<1>2. \A kind : kind # "malformed" =>
          LinesFor(kind, i)' =
              LinesFor(kind, i) \cup {n \in {Len(file) + 1} : line.event = kind}
    BY <1>1, LinesGrow
<1>3. \A event \in SpanDeclineEvents : event # "malformed"
    BY DEF SpanDeclineEvents
<1>4. \A b : Carried(b)' = Carried(b)
    BY <1>1 DEF Carried
<1> SUFFICES ASSUME new.phase # "gone", \A event \in SpanDeclineEvents : LinesFor(event, i)' = {}
             PROVE  /\ new.phase # "declined"
                    /\ new.phase = "queued" => LinesFor("hit", i)' = {} /\ LinesFor("advertised", i)' = {}
                    /\ new.phase # "queued" =>
                          LinesFor("hit", i)' # {} /\ LastCarries(file', LinesFor("hit", i)', Carried(new.boundary))
                    /\ new.phase \in {"promised", "materialized"} =>
                          LinesFor("advertised", i)' # {} /\ LastCarries(file', LinesFor("advertised", i)', new.boundary)
    BY <1>1, <1>4 DEF SpanOf
<1>5. \A event \in SpanDeclineEvents : LinesFor(event, i) = {}
    BY <1>2, <1>3
<1>10. ASSUME NEW kind \in {"hit", "advertised"}, line.event # kind
       PROVE  LinesFor(kind, i)' = LinesFor(kind, i)
    <2>1. LinesFor(kind, i)' = LinesFor(kind, i) \cup {n \in {Len(file) + 1} : line.event = kind}
        BY <1>2
    <2> QED BY <1>10, <2>1
<1>6. CASE line.event = "hit"
    <2>1. new.phase = "hit" /\ line.boundary = Carried(new.boundary)
        BY <1>6 DEF TakesStep, SpanDeclineEvents
    <2>2. LastCarries(file', LinesFor("hit", i)', line.boundary) /\ LinesFor("hit", i)' # {}
        BY <1>1, <1>6, CarriesNew
    <2> QED BY <2>1, <2>2
<1>7. CASE line.event \in SpanDeclineEvents
    BY <1>2, <1>3, <1>7
<1>8. CASE line.event = "advertised"
    <2>1. /\ r.phase = "hit" /\ new.phase = "promised" /\ new.boundary = r.boundary
          /\ line.boundary = r.boundary
        BY <1>8 DEF TakesStep, SpanDeclineEvents
    <2>2. LastCarries(file', LinesFor("advertised", i)', line.boundary) /\ LinesFor("advertised", i)' # {}
        BY <1>1, <1>8, CarriesNew
    <2>3. LinesFor("hit", i) # {} /\ LastCarries(file, LinesFor("hit", i), Carried(r.boundary))
        BY <1>5, <2>1 DEF SpanOf
    <2>4. LinesFor("hit", i)' = LinesFor("hit", i)
        BY <1>8, <1>10
    <2>5. LastCarries(file', LinesFor("hit", i)', Carried(r.boundary))
        BY <1>4, <2>3, <2>4, CarriesStay
    <2> QED BY <2>1, <2>2, <2>3, <2>4, <2>5
<1>9. CASE line.event = "materialized"
    <2>1. r.phase = "promised" /\ new.phase = "materialized" /\ new.boundary = r.boundary
        BY <1>9 DEF TakesStep, SpanDeclineEvents
    <2>2. /\ LinesFor("hit", i) # {} /\ LastCarries(file, LinesFor("hit", i), Carried(r.boundary))
          /\ LinesFor("advertised", i) # {} /\ LastCarries(file, LinesFor("advertised", i), r.boundary)
        BY <1>5, <2>1 DEF SpanOf
    <2>3. /\ LinesFor("hit", i)' = LinesFor("hit", i)
          /\ LinesFor("advertised", i)' = LinesFor("advertised", i)
        BY <1>9, <1>10
    <2>4. LastCarries(file', LinesFor("hit", i)', Carried(r.boundary))
        BY <1>4, <2>2, <2>3, CarriesStay
    <2>5. LastCarries(file', LinesFor("advertised", i)', r.boundary)
        BY <2>2, <2>3, CarriesStay
    <2> QED BY <2>1, <2>2, <2>3, <2>4, <2>5
<1> QED BY <1>6, <1>7, <1>8, <1>9 DEF TakesStep

\* What a step leaves of the span of a request it writes nothing of.
LEMMA SpanStays ==
    ASSUME AuditInv, NEW line \in LineTypes, file' = file \/ file' = Append(file, line),
           NEW j \in DOMAIN requests, SpanOf(j), front' = front, requests'[j] = requests[j],
           \A kind : kind # "malformed" => LinesFor(kind, j)' = LinesFor(kind, j)
    PROVE  SpanOf(j)'
<1>1. \A event \in SpanDeclineEvents : event # "malformed"
    BY DEF SpanDeclineEvents
<1>2. \A b : Carried(b)' = Carried(b)
    BY DEF Carried
<1> DEFINE r == requests[j]
<1> SUFFICES ASSUME r.phase # "gone", \A event \in SpanDeclineEvents : LinesFor(event, j)' = {}
             PROVE  /\ r.phase # "declined"
                    /\ r.phase = "queued" => LinesFor("hit", j)' = {} /\ LinesFor("advertised", j)' = {}
                    /\ r.phase # "queued" =>
                          LinesFor("hit", j)' # {} /\ LastCarries(file', LinesFor("hit", j)', Carried(r.boundary))
                    /\ r.phase \in {"promised", "materialized"} =>
                          LinesFor("advertised", j)' # {} /\ LastCarries(file', LinesFor("advertised", j)', r.boundary)
    BY <1>2 DEF SpanOf
<1>3. /\ LinesFor("hit", j)' = LinesFor("hit", j)
      /\ LinesFor("advertised", j)' = LinesFor("advertised", j)
      /\ \A event \in SpanDeclineEvents : LinesFor(event, j) = {}
    BY <1>1
<1>4. /\ r.phase # "declined"
      /\ r.phase = "queued" => LinesFor("hit", j) = {} /\ LinesFor("advertised", j) = {}
      /\ r.phase # "queued" =>
            LinesFor("hit", j) # {} /\ LastCarries(file, LinesFor("hit", j), Carried(r.boundary))
      /\ r.phase \in {"promised", "materialized"} =>
            LinesFor("advertised", j) # {} /\ LastCarries(file, LinesFor("advertised", j), r.boundary)
    BY <1>3 DEF SpanOf
<1>5. r.phase # "queued" => LastCarries(file', LinesFor("hit", j)', Carried(r.boundary))
    BY <1>2, <1>3, <1>4, CarriesStay
<1>6. r.phase \in {"promised", "materialized"} => LastCarries(file', LinesFor("advertised", j)', r.boundary)
    BY <1>3, <1>4, CarriesStay
<1> QED BY <1>3, <1>4, <1>5, <1>6

\* What the file has of promises stays of a number of tokens.
LEMMA AdvertsStay ==
    ASSUME AuditInv, NEW line \in LineTypes, file' = file \/ file' = Append(file, line),
           \A n \in EventLines : file[n].event = "advertised" => file[n].tokens \in Nat \ {0},
           line.event = "advertised" => line.tokens \in Nat \ {0}
    PROVE  \A n \in EventLines' : file'[n].event = "advertised" => file'[n].tokens \in Nat \ {0}
<1>1. /\ \A n \in DOMAIN file : file'[n] = file[n] /\ (n \in EventLines' <=> n \in EventLines)
      /\ file' # file => /\ DOMAIN file' = DOMAIN file \cup {Len(file) + 1}
                         /\ file'[Len(file) + 1] = line
    BY LinesGrow
<1>2. EventLines' \subseteq DOMAIN file'
    BY DEF EventLines
<1>3. SUFFICES ASSUME NEW n \in EventLines', file'[n].event = "advertised"
               PROVE  file'[n].tokens \in Nat \ {0}
    OBVIOUS
<1>4. CASE n \in DOMAIN file
    BY <1>1, <1>3, <1>4
<1>5. CASE n \notin DOMAIN file
    BY <1>1, <1>2, <1>3, <1>5
<1> QED BY <1>4, <1>5

\* A step of a request keeps what is said of all lookup hits.
LEMMA StepKeepsSpans ==
    ASSUME AuditInv, KeptInv, SpanInv, NEW i \in DOMAIN requests, NEW new \in Request,
           NEW line \in LineTypes, TakesStep(i, new, line)
    PROVE  SpanInv'
<1>1. file' = (IF cut THEN file ELSE Append(file, line)) /\ front' = front
    BY DEF TakesStep, Write
<1>2. file' = file \/ file' = Append(file, line)
    BY <1>1
<1>3. /\ DOMAIN requests' = DOMAIN requests
      /\ \A j \in DOMAIN requests \ {i} : requests'[j] = requests[j]
      /\ line.request_seq = i
    BY DEF TakesStep, AuditInv, AuditTypes
<1>4. \A n \in EventLines' : file'[n].event = "advertised" => file'[n].tokens \in Nat \ {0}
    <2>1. requests[i].promise \in Nat
        BY RequestIs, RequestHas DEF AuditInv
    <2>2. requests[i].promise + 1 \in Nat \ {0}
        BY <2>1
    <2>3. line.event = "advertised" => line.tokens = requests[i].promise + 1
        BY DEF TakesStep, SpanDeclineEvents
    <2> QED BY <1>2, <2>2, <2>3, AdvertsStay DEF SpanInv
<1>5. ASSUME Whole', NEW j \in DOMAIN requests'
      PROVE  SpanOf(j)'
    <2>1. Whole
        BY <1>2, <1>5, LinesGrow
    <2>2. ~cut /\ \A k \in DOMAIN requests : SpanOf(k)
        BY <2>1 DEF KeptInv, SpanInv
    <2>3. file' = Append(file, line) /\ file' # file
        <3>1. file' = Append(file, line)
            BY <1>1, <2>2
        <3>2. file \in Seq(LineTypes) /\ Len(file) \in Nat
            BY LinesForAre DEF AuditInv, AuditTypes
        <3>3. Len(Append(file, line)) = Len(file) + 1
            BY <3>2, AppendProperties
        <3>4. ASSUME NEW l \in Nat PROVE l + 1 # l
            OBVIOUS
        <3> QED BY <3>1, <3>2, <3>3, <3>4
    <2>4. CASE j = i
        <3>1. SpanOf(i)'
            BY <2>2, <2>3, SpanKept
        <3> QED BY <2>4, <3>1
    <2>5. CASE j # i
        <3>1. j \in DOMAIN requests /\ requests'[j] = requests[j]
            BY <1>3, <2>5
        <3>2. ASSUME NEW kind, kind # "malformed"
              PROVE  LinesFor(kind, j)' = LinesFor(kind, j)
            <4>1. LinesFor(kind, j)' = LinesFor(kind, j) \cup
                      {n \in {Len(file) + 1} : /\ file' # file /\ line.event = kind
                                               /\ line.request_seq = j}
                BY <1>2, <3>2, LinesGrow
            <4> QED BY <1>3, <2>5, <4>1
        <3> QED BY <1>1, <1>2, <2>2, <3>1, <3>2, SpanStays
    <2> QED BY <2>4, <2>5
<1> QED BY <1>4, <1>5 DEF SpanInv

\* So does an arrival.
LEMMA ArrivalKeepsSpans ==
    ASSUME AuditInv, SpanInv, NEW sent \in Sent, Arrives(sent)
    PROVE  SpanInv'
<1> DEFINE n == Len(requests) + 1
<1>1. file' = file /\ front' = front
    BY DEF Arrives
<1>2. /\ DOMAIN requests' = DOMAIN requests \cup {n} /\ n \notin DOMAIN requests
      /\ \A i \in DOMAIN requests : requests'[i] = requests[i]
      /\ requests'[n].phase = "queued"
    BY ArrivedIs
<1>3. \A kind : kind # "malformed" => LinesFor(kind, n) = {}
    BY <1>2 DEF LinesFor, EventLines, AuditInv, LinesAre
<1>4. /\ \A kind, i : LinesFor(kind, i)' = LinesFor(kind, i)
      /\ EventLines' = EventLines /\ Whole' = Whole
    BY <1>1 DEF LinesFor, EventLines, Whole
<1>5. \A i \in DOMAIN requests' : i \in DOMAIN requests \/ i = n
    BY <1>2
<1> HIDE DEF n
<1>6. ASSUME Whole, NEW i \in DOMAIN requests'
      PROVE  SpanOf(i)'
    <2>1. CASE i = n
        <3>1. LinesFor("hit", i)' = {} /\ LinesFor("advertised", i)' = {}
            BY <1>3, <1>4, <2>1
        <3>2. requests'[i].phase = "queued"
            BY <1>2, <2>1
        <3> QED BY <3>1, <3>2 DEF SpanOf
    <2>2. CASE i \in DOMAIN requests
        <3>1. SpanOf(i) /\ requests'[i] = requests[i]
            BY <1>2, <1>6, <2>2 DEF SpanInv
        <3> QED BY <1>1, <1>4, <3>1 DEF SpanOf, Carried
    <2> QED BY <1>5, <2>1, <2>2
<1> QED BY <1>1, <1>4, <1>6 DEF SpanInv

\* And a restart: the requests it ends are gone.
LEMMA RestartKeepsSpans ==
    ASSUME AuditInv, SpanInv, Restarts
    PROVE  SpanInv'
<1>1. file' = file \/ file' = Append(file, Malformed)
    BY DEF Restarts
<1>2. Malformed \in LineTypes /\ Malformed.event = "malformed"
    BY DEF Malformed, LineTypes
<1>3. \A n \in EventLines' : file'[n].event = "advertised" => file'[n].tokens \in Nat \ {0}
    BY <1>1, <1>2, AdvertsStay DEF SpanInv
<1>4. /\ DOMAIN requests' = DOMAIN requests
      /\ \A i \in DOMAIN requests : requests'[i].phase = "gone"
    BY RestartedIs
<1> QED BY <1>3, <1>4 DEF SpanInv, SpanOf

\* What is said of lookup hits holds at first, and is kept.
LEMMA InitSpans == Init => SpanInv
<1> SUFFICES ASSUME Init PROVE SpanInv
    OBVIOUS
<1>1. requests = <<>> /\ file = <<>>
    BY DEF Init
<1>2. DOMAIN requests = {} /\ EventLines = {}
    BY <1>1 DEF EventLines
<1> QED BY <1>2 DEF SpanInv

\* Every step keeps it.
LEMMA NextSpans == AuditInv /\ KeptInv /\ SpanInv /\ [Next]_vars => SpanInv'
<1> SUFFICES ASSUME AuditInv, KeptInv, SpanInv, [Next]_vars PROVE SpanInv'
    OBVIOUS
<1>1. CASE UNCHANGED vars
    <2>1. file' = file /\ front' = front /\ requests' = requests
        BY <1>1 DEF vars
    <2>2. /\ \A kind, i : LinesFor(kind, i)' = LinesFor(kind, i)
          /\ EventLines' = EventLines /\ Whole' = Whole
        BY <2>1 DEF LinesFor, EventLines, Whole
    <2>3. \A i \in DOMAIN requests : SpanOf(i) => SpanOf(i)'
        BY <2>1, <2>2 DEF SpanOf, Carried
    <2> QED BY <2>1, <2>2, <2>3 DEF SpanInv
<1>2. CASE Next
    <2>1. ASSUME NEW i \in DOMAIN requests,
                 LookedUp(i) \/ Promises(i) \/ DeclinesSpan(i) \/ Materializes(i)
          PROVE  SpanInv'
        BY <2>1, StepsAre, StepKeepsSpans
    <2> QED BY <1>1, <1>2, <2>1, ArrivalKeepsSpans, RestartKeepsSpans DEF Next, Over
<1> QED BY <1>1, <1>2

-----------------------------------------------------------------------------
(* Every lookup hit that was not served has its cause, in every stratum. *)

\* The decline a row is stamped with is one, where its request has any.
LEMMA DeclineIs ==
    ASSUME AuditInv, KeptInv, ~front.strips, NEW id, SpanDeclines(id) # {}
    PROVE  file[LastOf(SpanDeclines(id))].event \in SpanDeclineEvents
<1>1. /\ "malformed" \notin SpanDeclineEvents /\ "materialized" \notin SpanDeclineEvents
      /\ EventsOf(id, SpanDeclineEvents) # {} /\ Ordered
    BY DEF SpanDeclineEvents, SpanDeclines, KeptInv
<1>2. LastOf(EventsOf(id, SpanDeclineEvents)) \in EventsOf(id, SpanDeclineEvents)
    BY <1>1, LastAmong
<1> QED BY <1>2 DEF SpanDeclines, EventsOf

\* A request whose attempts are over and of which no span was declined, and that
\* the file has looked up or promised, was promised a span where it was last
\* looked up.
LEMMA SettledSpan ==
    ASSUME AuditInv, SpanInv, Whole, NEW i \in DOMAIN requests,
           requests[i].phase \notin {"hit", "gone"},
           \A event \in SpanDeclineEvents : LinesFor(event, i) = {},
           LinesFor("hit", i) # {} \/ LinesFor("advertised", i) # {}
    PROVE  /\ LinesFor("hit", i) # {} /\ LinesFor("advertised", i) # {}
           /\ LastCarries(file, LinesFor("hit", i), Carried(requests[i].boundary))
           /\ LastCarries(file, LinesFor("advertised", i), requests[i].boundary)
<1>1. requests[i].phase \in Phases
    BY RequestIs, RequestHas DEF AuditInv
<1>2. SpanOf(i)
    BY DEF SpanInv
<1>3. requests[i].phase \in {"promised", "materialized"}
    BY <1>1, <1>2 DEF SpanOf, Phases
<1> QED BY <1>2, <1>3 DEF SpanOf

\* A lookup hit of an id whose requests are over and of which no span was declined
\* was promised where it stood.
LEMMA HitIsServed ==
    ASSUME AuditInv, KeptInv, SpanInv, Whole, ~front.strips, NEW id \in Records,
           \A i \in RequestsOf(id) : requests[i].phase \notin {"hit", "gone"},
           LookupHits(id) # {}, SpanDeclines(id) = {}, HitBoundary(id) > 0
    PROVE  /\ Adverts(id) # {} /\ file[AdvertiseLine(id)].tokens > 0
           /\ ObservedBoundary(id) > 0
<1> DEFINE h == LastOf(EventsOf(id, {"hit"}))
           i == file[h].request_seq
           a == LastOf(EventsOf(id, {"advertised"}))
           k == file[a].request_seq
<1>0. Ordered
    BY DEF KeptInv
<1>1. ASSUME NEW j \in DOMAIN requests, requests[j].id = id
      PROVE  \A event \in SpanDeclineEvents : LinesFor(event, j) = {}
    <2> SUFFICES ASSUME NEW event \in SpanDeclineEvents, NEW n \in LinesFor(event, j) PROVE FALSE
        OBVIOUS
    <2>1. n \in EventsOf(id, {event})
        BY <1>1, EventsFor
    <2>2. n \in SpanDeclines(id)
        BY <2>1 DEF EventsOf, SpanDeclines
    <2> QED BY <2>2
<1>2. EventsOf(id, {"hit"}) # {}
    BY DEF LookupHits
<1>3. /\ i \in RequestsOf(id) /\ i \in DOMAIN requests /\ requests[i].id = id
      /\ h \in LinesFor("hit", i) /\ \A n \in LinesFor("hit", i) : n <= h
      /\ \A n \in EventsOf(id, {"hit"}) : file[n].request_seq <= i
    BY <1>0, <1>2, LastIs
<1>4. /\ LinesFor("advertised", i) # {}
      /\ LastCarries(file, LinesFor("hit", i), Carried(requests[i].boundary))
      /\ LastCarries(file, LinesFor("advertised", i), requests[i].boundary)
    <2> HIDE DEF i, h
    <2>1. requests[i].phase \notin {"hit", "gone"} /\ LinesFor("hit", i) # {}
        BY <1>3
    <2>2. \A event \in SpanDeclineEvents : LinesFor(event, i) = {}
        BY <1>1, <1>3
    <2> QED BY <1>3, <2>1, <2>2, SettledSpan
<1>5. EventsOf(id, {"advertised"}) # {}
    BY <1>3, <1>4, EventsFor
<1>6. /\ k \in RequestsOf(id) /\ k \in DOMAIN requests /\ requests[k].id = id
      /\ a \in LinesFor("advertised", k) /\ \A n \in LinesFor("advertised", k) : n <= a
      /\ \A n \in EventsOf(id, {"advertised"}) : file[n].request_seq <= k
    BY <1>0, <1>5, LastIs
<1> HIDE DEF h, i, a, k
<1>7. k = i
    <2>1. i <= k
        <3>1. PICK n \in LinesFor("advertised", i) : TRUE
            BY <1>4
        <3>2. n \in EventsOf(id, {"advertised"}) /\ file[n].request_seq = i
            BY <1>3, EventsFor DEF LinesFor
        <3> QED BY <1>6, <3>2
    <2>2. k <= i
        <3>1. requests[k].phase \notin {"hit", "gone"} /\ LinesFor("advertised", k) # {}
            BY <1>6
        <3>2. \A event \in SpanDeclineEvents : LinesFor(event, k) = {}
            BY <1>1, <1>6
        <3>3. PICK n \in LinesFor("hit", k) : TRUE
            BY <1>6, <3>1, <3>2, SettledSpan
        <3>4. n \in EventsOf(id, {"hit"}) /\ file[n].request_seq = k
            BY <1>6, EventsFor DEF LinesFor
        <3> QED BY <1>3, <3>4
    <2>3. i \in Nat /\ k \in Nat
        <3>1. DOMAIN requests \subseteq Nat
            BY RequestIs DEF AuditInv
        <3> QED BY <1>3, <1>6, <3>1
    <2> QED BY <2>1, <2>2, <2>3
<1>8. file[h].boundary = Carried(requests[i].boundary)
    BY <1>3, <1>4 DEF LastCarries
<1>9. file[a].boundary = requests[i].boundary
    BY <1>4, <1>6, <1>7 DEF LastCarries
<1>10. /\ Adverts(id) # {} /\ AdvertiseLine(id) = a /\ ObservedBoundary(id) = requests[i].boundary
    BY <1>5, <1>9 DEF Adverts, AdvertiseLine, ObservedBoundary, a
<1>11. HitBoundary(id) = requests[i].boundary
    <2>1. HitBoundary(id) = IF file[h].boundary = None THEN ObservedBoundary(id) ELSE file[h].boundary
        BY <1>2 DEF HitBoundary, LookupHits, h
    <2> QED BY <1>8, <1>10, <2>1 DEF Carried
<1>12. file[a].tokens > 0
    <2>1. file[a].tokens \in Nat \ {0}
        BY <1>6 DEF LinesFor, SpanInv
    <2> QED BY <2>1
<1> QED BY <1>10, <1>11, <1>12

\* So a row that was looked up and not served has a decline.
LEMMA HitHasItsEnd ==
    ASSUME AuditInv, KeptInv, SpanInv, Whole, NEW row \in JoinRequests(Rows),
           row.joined => Settled(row), row.hit, row.hit_boundary > 0,
           ~(row.advertised > 0 /\ row.boundary > 0)
    PROVE  row.decline \in SpanDeclineEvents
<1>1. row \in JoinedRows(Rows)
    <2>1. PICK sent \in Rows : row = Row(sent)
        BY DEF JoinRequests
    <2>2. Unjoined(sent).hit = FALSE
        BY DEF Unjoined
    <2>3. \A id : StampRow(sent, id).joined = TRUE
        BY DEF StampRow
    <2>4. row.joined
        BY <2>1, <2>2, <2>3 DEF Row
    <2> QED BY <2>4 DEF JoinedRows
<1> DEFINE id == row.record
<1>2. id \in Records /\ ~front.strips /\ row = StampRow(row.sent, id)
    BY <1>1, JoinedIs
<1> DEFINE stamped == StampRow(row.sent, id)
<1>3. /\ stamped.hit = (LookupHits(id) # {}) /\ stamped.hit_boundary = HitBoundary(id)
      /\ stamped.boundary = ObservedBoundary(id)
      /\ stamped.advertised = IF Adverts(id) = {} THEN None ELSE file[AdvertiseLine(id)].tokens
      /\ stamped.decline = IF SpanDeclines(id) = {} THEN NoDecline
                           ELSE file[LastOf(SpanDeclines(id))].event
    BY DEF StampRow
<1>4. \A i \in RequestsOf(id) : requests[i].phase \notin {"hit", "gone"}
    BY <1>1 DEF Settled, JoinedRows
<1> HIDE DEF id, stamped
<1>5. CASE SpanDeclines(id) = {}
    BY <1>2, <1>3, <1>4, <1>5, HitIsServed DEF stamped
<1>6. CASE SpanDeclines(id) # {}
    BY <1>2, <1>3, <1>6, DeclineIs DEF stamped
<1> QED BY <1>5, <1>6

\* What counts come to together is their sum.
LEMMA SumOfIs == ASSUME NEW counts PROVE SumOf(counts) = Total(counts, DOMAIN counts)
BY DEF SumOf, MapThenSumSet, MapThenFoldSet, Total, Sums, First

\* The causes of some rows come to the rows that have one.
LEMMA CausesAre ==
    ASSUME NEW R, IsFiniteSet(R)
    PROVE  SumOf(DeclineBreakdown(R)) = Cardinality({row \in R : row.decline \in SpanDeclineEvents})
<1> DEFINE P == [event \in SpanDeclineEvents |-> {row \in R : row.decline = event}]
           w == DeclineBreakdown(R)
<1>1. IsFiniteSet(SpanDeclineEvents)
    <2>1. IsFiniteSet({"unaligned"}) /\ IsFiniteSet({"below_min"}) /\ IsFiniteSet({"missed"})
        BY FS_Singleton
    <2>2. IsFiniteSet({"unaligned"} \cup {"below_min"})
        BY <2>1, FS_Union
    <2>3. IsFiniteSet(({"unaligned"} \cup {"below_min"}) \cup {"missed"})
        BY <2>1, <2>2, FS_Union
    <2>4. ({"unaligned"} \cup {"below_min"}) \cup {"missed"} = SpanDeclineEvents
        BY DEF SpanDeclineEvents
    <2> QED BY <2>3, <2>4
<1>2. \A event \in SpanDeclineEvents : IsFiniteSet(P[event])
    BY FS_Subset
<1>3. \A e, d \in SpanDeclineEvents : e # d => P[e] \cap P[d] = {}
    OBVIOUS
<1>4. \A event \in SpanDeclineEvents : w[event] = Cardinality(P[event])
    BY DEF DeclineBreakdown
<1>5. UNION {P[event] : event \in SpanDeclineEvents} = {row \in R : row.decline \in SpanDeclineEvents}
    OBVIOUS
<1>6. DOMAIN w = SpanDeclineEvents
    BY DEF DeclineBreakdown
<1>7. SumOf(w) = Total(w, SpanDeclineEvents)
    BY <1>6, SumOfIs
<1> HIDE DEF P, w
<1>8. Total(w, SpanDeclineEvents) = Cardinality(UNION {P[event] : event \in SpanDeclineEvents})
    BY <1>1, <1>2, <1>3, <1>4, SizesAddUp
<1> QED BY <1>5, <1>7, <1>8 DEF w

\* What the strata have of some rows comes to all of them.
LEMMA StrataAddUp ==
    ASSUME NEW R, IsFiniteSet(R), NEW w, DOMAIN w = WrapperStrata,
           \A stratum \in WrapperStrata : w[stratum] = Cardinality(InStratum(R, stratum))
    PROVE  SumOf(w) = Cardinality(R)
<1> DEFINE P == [stratum \in WrapperStrata |-> InStratum(R, stratum)]
<1>1. IsFiniteSet(WrapperStrata)
    <2>1. IsFiniteSet({"shared_wrapper"}) /\ IsFiniteSet({"ad_hoc"}) /\ IsFiniteSet({"unstratified"})
        BY FS_Singleton
    <2>2. IsFiniteSet({"shared_wrapper"} \cup {"ad_hoc"})
        BY <2>1, FS_Union
    <2>3. IsFiniteSet(({"shared_wrapper"} \cup {"ad_hoc"}) \cup {"unstratified"})
        BY <2>1, <2>2, FS_Union
    <2>4. ({"shared_wrapper"} \cup {"ad_hoc"}) \cup {"unstratified"} = WrapperStrata
        BY DEF WrapperStrata
    <2> QED BY <2>3, <2>4
<1>2. \A stratum \in WrapperStrata : IsFiniteSet(P[stratum])
    BY FS_Subset DEF InStratum
<1>3. \A s, t \in WrapperStrata : s # t => P[s] \cap P[t] = {}
    BY DEF InStratum
<1>4. \A stratum \in WrapperStrata : w[stratum] = Cardinality(P[stratum])
    OBVIOUS
<1>5. \A row : WrapperStratumOf(row) \in WrapperStrata
    BY DEF WrapperStratumOf, WrapperStrata
<1>6. UNION {P[stratum] : stratum \in WrapperStrata} = R
    BY <1>5 DEF InStratum
<1>7. SumOf(w) = Total(w, WrapperStrata)
    BY SumOfIs
<1> HIDE DEF P
<1>8. Total(w, WrapperStrata) = Cardinality(UNION {P[stratum] : stratum \in WrapperStrata})
    BY <1>1, <1>2, <1>3, <1>4, SizesAddUp
<1> QED BY <1>6, <1>7, <1>8

\* In a file that lost nothing, every lookup hit that was not served has its cause, in
\* every stratum, and what the strata say adds up to what the whole does.
THEOREM EveryMissHasItsCause == Spec => []MissesExplained
<1>1. ASSUME AuditInv, KeptInv, SpanInv PROVE MissesExplained
    <2> DEFINE rows == {row \in JoinRequests(Rows) : row.joined => Settled(row)}
               m1   == ConnectorAuditMetrics(rows, NoCounts).m1
               held == [stratum \in WrapperStrata |-> InStratum(rows, stratum)]
               declined == {row \in rows : row.decline \in SpanDeclineEvents}
    <2> SUFFICES ASSUME Whole, rows # {}
                 PROVE  /\ \A stratum \in WrapperStrata :
                              Cardinality(LookupHitsAtBoundary(InStratum(rows, stratum))
                                            \ AdvertisedAtBoundary(InStratum(rows, stratum)))
                                  <= SumOf(m1.strata[stratum].declines)
                        /\ \A field \in {"aligned", "hits", "opportunities"} :
                              SumOf(OverStrata(m1.strata, field)) = m1[field]
                        /\ SumOf([stratum \in WrapperStrata |-> SumOf(m1.strata[stratum].declines)])
                              = SumOf(m1.declines)
        BY DEF MissesExplained
    <2>1. IsFiniteSet(rows)
        <3> DEFINE f == [sent \in Rows |-> Row(sent)]
        <3>1. f = [sent \in Rows |-> f[sent]] /\ IsFiniteSet(Rows)
            BY AuditAssumption
        <3>2. JoinRequests(Rows) = {f[sent] : sent \in Rows}
            BY DEF JoinRequests
        <3> HIDE DEF f
        <3>3. IsFiniteSet(JoinRequests(Rows))
            BY <3>1, <3>2, ImageSize
        <3> QED BY <3>3, FS_Subset
    <2>2. Considered(rows) = rows /\ AuditWasJoined(rows)
        <3>1. \A row \in rows : row.read /\ ItemOf(row).arm # "cold"
            BY JoinedAsSent, AuditAssumption DEF ItemOf
        <3> HIDE DEF rows
        <3> QED BY <3>1 DEF Considered, ColdRows, UnreadRows, AuditWasJoined
    <2>3. m1 = M1Alignment(rows, TRUE, NoCounts)
        <3>1. AuditWasJoined(rows) = TRUE
            BY <2>2 DEF AuditWasJoined
        <3> HIDE DEF rows
        <3> QED BY <2>2, <3>1 DEF ConnectorAuditMetrics
    <2>4. \A stratum \in WrapperStrata : held[stratum] \subseteq rows /\ IsFiniteSet(held[stratum])
        <3> HIDE DEF rows
        <3> QED BY <2>1, FS_Subset DEF InStratum
    <2>5. ASSUME NEW row \in rows, row.hit, row.hit_boundary > 0,
                 ~(row.advertised > 0 /\ row.boundary > 0)
          PROVE  row.decline \in SpanDeclineEvents
        BY <1>1, <2>5, HitHasItsEnd
    <2> HIDE DEF rows, m1
    <2>6. /\ m1.aligned = Cardinality(AdvertisedAtBoundary(rows))
          /\ m1.hits = Cardinality(LookupHitsAtBoundary(rows))
          /\ m1.opportunities = Cardinality(OpportunityRows(rows))
          /\ m1.declines = DeclineBreakdown(rows)
          /\ m1.strata = [stratum \in WrapperStrata |-> StratumBlock(InStratum(rows, stratum))]
        BY <2>3 DEF M1Alignment, CountIf
    <2>7. ASSUME NEW stratum \in WrapperStrata
          PROVE  /\ m1.strata[stratum].aligned = Cardinality(AdvertisedAtBoundary(held[stratum]))
                 /\ m1.strata[stratum].hits = Cardinality(LookupHitsAtBoundary(held[stratum]))
                 /\ m1.strata[stratum].opportunities = Cardinality(OpportunityRows(held[stratum]))
                 /\ m1.strata[stratum].declines = DeclineBreakdown(held[stratum])
        BY <2>6 DEF StratumBlock
    <2>8. ASSUME NEW stratum \in WrapperStrata
          PROVE  Cardinality(LookupHitsAtBoundary(held[stratum]) \ AdvertisedAtBoundary(held[stratum]))
                     <= SumOf(m1.strata[stratum].declines)
        <3> DEFINE h == held[stratum]
                   lost == LookupHitsAtBoundary(h) \ AdvertisedAtBoundary(h)
                   caused == {row \in h : row.decline \in SpanDeclineEvents}
        <3>1. h \subseteq rows /\ IsFiniteSet(h)
            BY <2>4
        <3> HIDE DEF h
        <3>2. lost \subseteq caused
            BY <2>5, <3>1 DEF LookupHitsAtBoundary, AdvertisedAtBoundary
        <3>3. IsFiniteSet(caused)
            BY <3>1, FS_Subset
        <3>4. SumOf(DeclineBreakdown(h)) = Cardinality(caused)
            BY <3>1, CausesAre
        <3> HIDE DEF lost, caused
        <3>5. Cardinality(lost) <= Cardinality(caused)
            BY <3>2, <3>3, FS_Subset
        <3>6. m1.strata[stratum].declines = DeclineBreakdown(h)
            BY <2>7 DEF h
        <3> QED BY <3>4, <3>5, <3>6 DEF lost, h
    <2>9. SumOf(OverStrata(m1.strata, "aligned")) = m1.aligned
        <3> DEFINE R == AdvertisedAtBoundary(rows)
                   w == OverStrata(m1.strata, "aligned")
        <3>1. IsFiniteSet(R)
            BY <2>1, FS_Subset DEF AdvertisedAtBoundary
        <3>2. ASSUME NEW stratum \in WrapperStrata
              PROVE  AdvertisedAtBoundary(InStratum(rows, stratum)) = InStratum(R, stratum)
            BY DEF AdvertisedAtBoundary, InStratum
        <3>3. DOMAIN w = WrapperStrata /\ \A stratum \in WrapperStrata :
                  w[stratum] = m1.strata[stratum].aligned
            BY <2>6 DEF OverStrata
        <3> HIDE DEF R, w
        <3>4. SumOf(w) = Cardinality(R)
            BY <2>7, <3>1, <3>2, <3>3, StrataAddUp
        <3> QED BY <2>6, <3>4 DEF R, w
    <2>10. SumOf(OverStrata(m1.strata, "hits")) = m1.hits
        <3> DEFINE R == LookupHitsAtBoundary(rows)
                   w == OverStrata(m1.strata, "hits")
        <3>1. IsFiniteSet(R)
            BY <2>1, FS_Subset DEF LookupHitsAtBoundary
        <3>2. ASSUME NEW stratum \in WrapperStrata
              PROVE  LookupHitsAtBoundary(InStratum(rows, stratum)) = InStratum(R, stratum)
            BY DEF LookupHitsAtBoundary, InStratum
        <3>3. DOMAIN w = WrapperStrata /\ \A stratum \in WrapperStrata :
                  w[stratum] = m1.strata[stratum].hits
            BY <2>6 DEF OverStrata
        <3> HIDE DEF R, w
        <3>4. SumOf(w) = Cardinality(R)
            BY <2>7, <3>1, <3>2, <3>3, StrataAddUp
        <3> QED BY <2>6, <3>4 DEF R, w
    <2>11. SumOf(OverStrata(m1.strata, "opportunities")) = m1.opportunities
        <3> DEFINE R == OpportunityRows(rows)
                   w == OverStrata(m1.strata, "opportunities")
        <3>1. IsFiniteSet(R)
            BY <2>1, FS_Subset DEF OpportunityRows
        <3>2. ASSUME NEW stratum \in WrapperStrata
              PROVE  OpportunityRows(InStratum(rows, stratum)) = InStratum(R, stratum)
            BY DEF OpportunityRows, InStratum
        <3>3. DOMAIN w = WrapperStrata /\ \A stratum \in WrapperStrata :
                  w[stratum] = m1.strata[stratum].opportunities
            BY <2>6 DEF OverStrata
        <3> HIDE DEF R, w
        <3>4. SumOf(w) = Cardinality(R)
            BY <2>7, <3>1, <3>2, <3>3, StrataAddUp
        <3> QED BY <2>6, <3>4 DEF R, w
    <2>12. SumOf([stratum \in WrapperStrata |-> SumOf(m1.strata[stratum].declines)]) = SumOf(m1.declines)
        <3> DEFINE w == [stratum \in WrapperStrata |-> SumOf(m1.strata[stratum].declines)]
        <3>1. IsFiniteSet(declined)
            BY <2>1, FS_Subset
        <3>2. ASSUME NEW stratum \in WrapperStrata
              PROVE  w[stratum] = Cardinality(InStratum(declined, stratum))
            <4>1. {row \in held[stratum] : row.decline \in SpanDeclineEvents} = InStratum(declined, stratum)
                BY DEF InStratum
            <4>2. SumOf(DeclineBreakdown(held[stratum]))
                      = Cardinality({row \in held[stratum] : row.decline \in SpanDeclineEvents})
                BY <2>4, CausesAre
            <4> QED BY <2>7, <4>1, <4>2
        <3>3. DOMAIN w = WrapperStrata
            OBVIOUS
        <3> HIDE DEF w, declined
        <3>4. SumOf(w) = Cardinality(declined)
            BY <3>1, <3>2, <3>3, StrataAddUp
        <3>5. SumOf(DeclineBreakdown(rows)) = Cardinality(declined)
            BY <2>1, CausesAre DEF declined
        <3> QED BY <2>6, <3>4, <3>5 DEF w
    <2> QED BY <2>8, <2>9, <2>10, <2>11, <2>12
<1> QED BY <1>1, InitAudit, NextAudit, InitKept, NextKept, InitSpans, NextSpans, PTL DEF Spec
=============================================================================
