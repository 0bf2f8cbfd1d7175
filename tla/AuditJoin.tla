----------------------------- MODULE AuditJoin ------------------------------
(***************************************************************************)
(* Reading the connector's audit file: src/sembench/connector_audit.py     *)
(* (what a line says, the fold of one request's lines, the resolution of   *)
(* a row's id and the join).                                               *)
(*                                                                         *)
(* An id is a sequence of the tokens it has between its dashes.  A line    *)
(* keeps the fields the join reads: the connector that wrote it, its two   *)
(* sequence numbers, and a boundary or a token count.  None of the code is *)
(* None here, below every number, as its `or 0` and `> 0` take it.         *)
(***************************************************************************)
EXTENDS Integers, Sequences, FiniteSets, FiniteSetsExt

CONSTANTS
    Prefixes,     \* ENGINE_ID_PREFIXES: what the engine's front end puts first
    RandomTokens, \* tokens of eight hex digits
    NumberTokens  \* tokens of digits only

VARIABLE file     \* the audit file, line by line

None == -1
NoDecline == "none"

-----------------------------------------------------------------------------
(* Ids. *)

\* An id with its last token stripped, if it is one of the given kind and
\* not all of the id.
WithoutLast(id, tokens) ==
    IF Len(id) > 1 /\ id[Len(id)] \in tokens THEN SubSeq(id, 1, Len(id) - 1) ELSE id

WithoutPrefix(id) == IF Len(id) > 1 /\ id[1] \in Prefixes THEN Tail(id) ELSE id

\* The client ids an engine's id may come from: without the prefix, without
\* the engine's random suffix, without the number of the prompt, and each
\* form in between.
NormalizedIds(id) ==
    LET whole == {id, WithoutPrefix(id)}
        bases == whole \cup {WithoutLast(b, RandomTokens) : b \in whole}
    IN  (bases \cup {WithoutLast(b, NumberTokens) : b \in bases}) \ {id}

-----------------------------------------------------------------------------
(* The events of one request, and their order. *)

SpanDeclineEvents == {"unaligned", "below_min", "missed"}
SpanBoundaryEvents == SpanDeclineEvents \cup {"clamped", "advertised"}

\* parse_events: a line that is not whole is counted and passed over.
EventLines == {n \in DOMAIN file : file[n].event # "malformed"}
EventsOf(id, kinds) == {n \in EventLines : file[n].id = id /\ file[n].event \in kinds}
Recorded(id) == {n \in EventLines : file[n].id = id}

\* _Event.order: by connector, then by the connector's own chronology.
Order(n) == <<file[n].connector, file[n].request_seq, file[n].event_seq, n>>
Precedes(m, n) ==
    \E i \in 1 .. 4 : /\ Order(m)[i] < Order(n)[i]
                      /\ \A j \in 1 .. i - 1 : Order(m)[j] = Order(n)[j]
LastOf(lines) == CHOOSE n \in lines : \A m \in lines \ {n} : Precedes(m, n)

-----------------------------------------------------------------------------
(* _fold: what the lines of one engine request come to. *)

Adverts(id) == EventsOf(id, {"advertised"})
AdvertiseLine(id) == IF Adverts(id) = {} THEN None ELSE LastOf(Adverts(id))

Materializations(id) == EventsOf(id, {"materialized"})

\* A materialization is of the last promise when it stands behind it in the
\* file.  (KeptBySequence, the mutated form, goes by the sequence numbers.)
KeptBySequence(n, advertise) ==
    advertise = None \/ file[n].event_seq >= file[advertise].event_seq
Kept(n, advertise) == n >= advertise

TokensOf(lines) == MapThenSumSet(LAMBDA n : file[n].tokens, lines)
\* (KeptAll, the mutated form, counts what was superseded twice.)
KeptAll(id) == TokensOf(Materializations(id))
KeptTokens(id) ==
    LET advertise == AdvertiseLine(id)
    IN  TokensOf({n \in Materializations(id) : Kept(n, advertise)})
SupersededTokens(id) ==
    LET advertise == AdvertiseLine(id)
    IN  TokensOf({n \in Materializations(id) : ~Kept(n, advertise)})

\* The last boundary a span event carried, whatever the span's outcome.
SpanBoundary(id) ==
    LET spans == {n \in EventsOf(id, SpanBoundaryEvents) : file[n].boundary # None}
    IN  IF spans = {} THEN None ELSE file[LastOf(spans)].boundary

ObservedBoundary(id) ==
    IF Adverts(id) # {} THEN file[AdvertiseLine(id)].boundary ELSE SpanBoundary(id)

\* A hit that does not carry the boundary it ran at has the observed one.
LookupHits(id) == EventsOf(id, {"hit"})
HitBoundary(id) ==
    IF LookupHits(id) = {} THEN None
    ELSE LET last == file[LastOf(LookupHits(id))].boundary
         IN  IF last = None THEN ObservedBoundary(id) ELSE last

\* MissedOnly is the mutated form: the other two declines are not folded.
MissedOnly(id) == EventsOf(id, {"missed"})
SpanDeclines(id) == EventsOf(id, SpanDeclineEvents)
Misses(id) == EventsOf(id, {"missed"})

\* Two arrival numbers of one connector under one id (NeverReused is the
\* mutated form).
NeverReused(id) == FALSE
RequestIdReused(id) ==
    \E m, n \in Recorded(id) : /\ file[m].connector = file[n].connector
                               /\ file[m].request_seq # file[n].request_seq

-----------------------------------------------------------------------------
(* AuditIndex.resolve, and the row stamped with the request it resolves to. *)

Records == {file[n].id : n \in EventLines}
Candidates(sent) == {id \in Records : sent \in NormalizedIds(id)}

\* The requests a row may be stamped with: none or one.  (PicksOne, the
\* mutated form, does not refuse a shared id.)
PicksOne(sent) ==
    IF sent \in Records THEN {sent}
    ELSE IF Candidates(sent) = {} THEN {} ELSE {CHOOSE id \in Candidates(sent) : TRUE}
Resolve(sent) ==
    IF sent \in Records THEN {sent}
    ELSE IF Cardinality(Candidates(sent)) = 1 THEN Candidates(sent) ELSE {}

Unjoined(sent) ==
    [sent |-> sent, record |-> <<>>, read |-> TRUE, joined |-> FALSE, reused |-> FALSE,
     advertised |-> None, boundary |-> None, confirmed |-> None, superseded |-> None,
     hit |-> FALSE, hit_boundary |-> None, decline |-> NoDecline, missed_at |-> None]

\* A row of a document no audit was given to.
Unread(sent) == [Unjoined(sent) EXCEPT !.read = FALSE]

\* stamp_row: no materialization at all leaves the count None, not 0.
StampRow(sent, id) ==
    [sent |-> sent, record |-> id, read |-> TRUE, joined |-> TRUE,
     reused |-> RequestIdReused(id),
     advertised |-> IF Adverts(id) = {} THEN None ELSE file[AdvertiseLine(id)].tokens,
     boundary |-> ObservedBoundary(id),
     confirmed |-> IF Materializations(id) = {} THEN None ELSE KeptTokens(id),
     superseded |-> SupersededTokens(id),
     hit |-> LookupHits(id) # {},
     hit_boundary |-> HitBoundary(id),
     decline |-> IF SpanDeclines(id) = {} THEN NoDecline ELSE file[LastOf(SpanDeclines(id))].event,
     missed_at |-> IF Misses(id) = {} THEN None ELSE file[LastOf(Misses(id))].boundary]

\* join_requests: every row comes back, stamped with its record or with none.
Row(sent) ==
    LET found == Resolve(sent)
    IN  IF found = {} THEN Unjoined(sent) ELSE StampRow(sent, CHOOSE id \in found : TRUE)
JoinRequests(ids) == {Row(sent) : sent \in ids}
JoinedRows(ids) == {row \in JoinRequests(ids) : row.joined}

\* engine_id_echoes_sent, with both ids there.  (AnyEcho, the mutated form,
\* is content with any id of the front end.)
AnyEcho(response, sent) == response = sent \/ response[1] \in Prefixes
EchoesSent(response, sent) == response = sent \/ sent \in NormalizedIds(response)
=============================================================================
