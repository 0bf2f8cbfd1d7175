--------------------------- MODULE ConnectorAudit ---------------------------
(***************************************************************************)
(* The connector whose audit file AuditJoin reads.  It is external to the  *)
(* repository, and modelled by what connector_audit.py and its tests say   *)
(* of it: the scheduler and the worker of an engine append to one file,    *)
(* each with sequence numbers of its own; a request is looked up on every  *)
(* attempt to schedule it, each time at the boundary it then stands at;    *)
(* an engine killed while it writes leaves part of a line, and the next    *)
(* engine's first line joins it.                                           *)
(*                                                                         *)
(* A row is joined by reading the file, at any moment: the invariants ask  *)
(* in every state what the join would say now.                             *)
(***************************************************************************)
EXTENDS ArmMetrics

CONSTANTS
    Rows,           \* the ids the rows were sent under
    ColdTwin,       \* from ids of a cold arm's rows to the rows they are twins of,
                    \* or to <<>> where no audit was read for them
    ClassCounts,    \* what a document may say of the manifest's classes
    OtherIds,       \* ids sent for what is no row: the stages of a row
    Fronts,         \* what a front end may make of an id
    FirstPrompt, SecondPrompt,   \* the numbers of prompts
    Suffixes,       \* the random tokens the engines draw, in order
    Boundaries,     \* where a request may stand when it is looked up
    Declines,       \* the ways a span may be declined
    MaxRequests,    \* bound: requests the engines see
    MaxLines        \* bound: lines in the file, by the number of requests and of their ids

\* prefix, number of the prompt and random suffix are put on the id sent, or
\* on one of the front end's own when it strips the header.
Front == [prefix : {<<p>> : p \in Prefixes} \cup {<<>>}, prompts : BOOLEAN,
          random : BOOLEAN, strips : BOOLEAN, hits_carry_boundary : BOOLEAN]

\* deterministic_request_id and its stages: an id begins with "sembench", two
\* rows differ in the digest they end in, and what a stage puts behind the id
\* of its row ("stage0") is neither a number nor eight hex digits.
Sent == Rows \cup OtherIds
Extends(other, id) == Len(other) > Len(id) /\ SubSeq(other, 1, Len(id)) = id

ASSUME AuditAssumption ==
    /\ Fronts \subseteq Front
    /\ FirstPrompt \in NumberTokens /\ SecondPrompt \in NumberTokens
    /\ Suffixes \in Seq(RandomTokens) /\ Len(Suffixes) >= MaxRequests
    /\ \A m, n \in DOMAIN Suffixes : Suffixes[m] = Suffixes[n] => m = n
    /\ Prefixes \cup RandomTokens \cup NumberTokens \subseteq STRING
    /\ Sent \subseteq Seq(STRING) /\ <<>> \notin Sent
    /\ {"minted"} \cup {id[1] : id \in Sent} \subseteq STRING \ Prefixes
    /\ \A id \in Sent : id[1] # "minted"
    /\ \A id, other \in Sent : Extends(other, id) =>
           other[Len(other)] \notin RandomTokens \cup NumberTokens
    /\ IsFiniteSet(Rows) /\ DOMAIN ColdTwin \cap Rows = {} /\ DOMAIN Items = Rows \cup DOMAIN ColdTwin
    /\ \A id \in DOMAIN ColdTwin : ColdTwin[id] \in Rows \cup {<<>>} /\ Items[id].arm = "cold"
    /\ \A id \in Rows : Items[id].arm # "cold"
    /\ Boundaries \subseteq Nat
    /\ Declines \subseteq SpanDeclineEvents
    /\ MaxRequests \in Nat /\ MaxLines \in [1 .. MaxRequests -> Seq(Nat)]
    /\ \A n \in 1 .. MaxRequests : Len(MaxLines[n]) = n

VARIABLES
    front,        \* the front end in use
    requests,     \* the requests admitted, in order of arrival
    generation,   \* the engine now running, counted from 0
    cut           \* whether the last line lacks its end

vars == <<file, front, requests, generation, cut>>

Init == /\ file = <<>>
        /\ front \in Fronts
        /\ requests = <<>> /\ generation = 0 /\ cut = FALSE

-----------------------------------------------------------------------------
(* Requests arrive. *)

ClientPart(sent, n) == IF front.strips THEN <<"minted", Suffixes[n]>> ELSE sent
ResponseId(sent, n) == front.prefix \o ClientPart(sent, n)
EngineId(sent, prompt, n) ==
    ResponseId(sent, n) \o prompt \o (IF front.random THEN <<Suffixes[n]>> ELSE <<>>)

\* An id is sent again only to an engine that has not restarted since, unless
\* the engine makes it another one.
MaySend(sent) ==
    \A i \in DOMAIN requests :
        requests[i].sent = sent => front.random \/ requests[i].generation = generation

\* A prompt is numbered in its HTTP request: a second one of the same id is the
\* second prompt of that request, or the first of another.
Prompts(sent) ==
    IF ~front.prompts THEN {<<>>}
    ELSE {<<FirstPrompt>>} \cup
         {<<SecondPrompt>> : i \in {i \in DOMAIN requests : requests[i].sent = sent}}

Arrives(sent) ==
    /\ Len(requests) < MaxRequests /\ MaySend(sent)
    /\ LET n == Len(requests) + 1
       IN  \E prompt \in Prompts(sent) :
              requests' = Append(requests,
                  [sent |-> sent, id |-> EngineId(sent, prompt, n), response |-> ResponseId(sent, n),
                   generation |-> generation, phase |-> "queued", boundary |-> None,
                   promise |-> 0, current |-> 0, mass |-> 0, scheduled |-> 0, worked |-> 0])
    /\ UNCHANGED <<file, front, generation, cut>>

-----------------------------------------------------------------------------
(* The scheduler and the worker write. *)

Scheduler == 2 * generation
Worker == 2 * generation + 1

Line(i, event, connector, seq, boundary, tokens) ==
    [event |-> event, id |-> requests[i].id, connector |-> connector, request_seq |-> i,
     event_seq |-> seq, boundary |-> boundary, tokens |-> tokens]
Malformed == [event |-> "malformed"]

\* A line behind one that lacks its end is part of that one, and lost.
SentIds == {requests[i].sent : i \in DOMAIN requests}
Room == requests # <<>> /\ Len(file) < MaxLines[Len(requests)][Cardinality(SentIds)]
Write(line) == /\ Room
               /\ file' = IF cut THEN file ELSE Append(file, line)
               /\ cut' = FALSE
               /\ UNCHANGED <<front, generation>>

BySchedulerOf(i, event, boundary, tokens) ==
    Write(Line(i, event, Scheduler, requests[i].scheduled, boundary, tokens))
ByWorkerOf(i, event, tokens) ==
    Write(Line(i, event, Worker, requests[i].worked, None, tokens))

\* An attempt to schedule the request finds a donor.
LookedUp(i) ==
    /\ requests[i].phase \in {"queued", "promised", "materialized", "declined"}
    /\ \E b \in Boundaries :
          /\ requests[i].phase = "materialized" => b # requests[i].boundary
          /\ BySchedulerOf(i, "hit", IF front.hits_carry_boundary THEN b ELSE None, None)
          /\ requests' = [requests EXCEPT ![i].phase = "hit", ![i].boundary = b,
                                          ![i].scheduled = @ + 1]

\* Then a span of it is promised, each time a longer one ...
Promises(i) ==
    LET tokens == requests[i].promise + 1
    IN  /\ requests[i].phase = "hit"
        /\ BySchedulerOf(i, "advertised", requests[i].boundary, tokens)
        /\ requests' = [requests EXCEPT ![i].phase = "promised", ![i].promise = tokens,
                                        ![i].current = 0, ![i].scheduled = @ + 1]

\* ... or it is declined.
DeclinesSpan(i) ==
    /\ requests[i].phase = "hit"
    /\ \E event \in Declines :
          BySchedulerOf(i, event, requests[i].boundary, None)
    /\ requests' = [requests EXCEPT ![i].phase = "declined", ![i].scheduled = @ + 1]

\* The worker keeps the promise, or never does.
Materializes(i) ==
    /\ requests[i].phase = "promised"
    /\ ByWorkerOf(i, "materialized", requests[i].promise)
    /\ requests' = [requests EXCEPT ![i].phase = "materialized", ![i].worked = @ + 1,
                                    ![i].current = requests[i].promise,
                                    ![i].mass = @ + requests[i].promise]

\* The engine is killed, perhaps in the middle of a line, and started again.
Restarts ==
    /\ generation = 0 /\ Room
    /\ \/ UNCHANGED <<file, cut>>
       \/ file' = (IF cut THEN file ELSE Append(file, Malformed)) /\ cut' = TRUE
    /\ generation' = generation + 1
    /\ requests' = [i \in DOMAIN requests |-> [requests[i] EXCEPT !.phase = "gone"]]
    /\ UNCHANGED front

\* Nothing more is sent or written.
Over == UNCHANGED vars

Next == \/ \E sent \in Sent : Arrives(sent)
        \/ \E i \in DOMAIN requests :
              \/ LookedUp(i) \/ Promises(i) \/ DeclinesSpan(i)
              \/ Materializes(i)
        \/ Restarts
        \/ Over

Spec == Init /\ [][Next]_vars

-----------------------------------------------------------------------------
(* What the join says, against what the engines did. *)

Whole == \A n \in DOMAIN file : file[n].event # "malformed"

\* The engine's ids a row's requests had, of which the file has something.
AuditedIds(sent) == {requests[i].id : i \in {i \in DOMAIN requests : requests[i].sent = sent}}
                        \cap Records

\* The requests with that id of which the file has a line.
RequestsOf(id) == {file[n].request_seq : n \in Recorded(id)}

\* A row is stamped with the request that was sent under its id, and with
\* none when the file has several or the front end sent another: never with
\* that of another row or of a stage ("picking either would invent a
\* measurement", connector_audit.py:735).
RowsGetTheirOwn ==
    \A sent \in Rows :
        LET own == IF front.strips THEN {} ELSE AuditedIds(sent)
        IN  Resolve(sent) = IF Cardinality(own) = 1 THEN own ELSE {}

\* A row that is stamped, and not reported as reused, never says more
\* materialized than one request's worker wrote, whatever the file has lost
\* (rows_reused_request_id: "its numbers belong to neither").
NothingInvented ==
    \A row \in JoinedRows(Rows) :
        row.reused \/ \E i \in RequestsOf(row.record) :
            row.confirmed + row.superseded <= requests[i].mass

\* The confirmed tokens are those of the promise the engine last made, and
\* of no other, although its two halves number their events apart (_fold:
\* "the last advertise, and the materializations that followed it").
KeptIsOfThePromise ==
    Whole => \A row \in JoinedRows(Rows) :
        row.reused \/ \E i \in RequestsOf(row.record) :
            /\ row.advertised = IF requests[i].promise = 0 THEN None ELSE requests[i].promise
            /\ row.confirmed = IF requests[i].mass = 0 THEN None ELSE requests[i].current

\* The attempts of a row's request are over.
Settled(row) == \A i \in RequestsOf(row.record) : requests[i].phase \notin {"hit", "gone"}

\* What counts come to together, and what each stratum has of them.
SumOf(counts) == MapThenSumSet(LAMBDA x : counts[x], DOMAIN counts)
OverStrata(strata, field) == [stratum \in DOMAIN strata |-> strata[stratum][field]]

\* The split by wrapper explains the headline: in every stratum each lookup
\* hit that was not served has its cause in a breakdown, and the strata's
\* counts add up to the blended ones (_m1_breakdowns: "together they account
\* for every lookup hit that was not served"; _m1_by_wrapper_stratum).
MissesExplained ==
    Whole =>
        LET rows == {row \in JoinRequests(Rows) : row.joined => Settled(row)}
            m1   == ConnectorAuditMetrics(rows, NoCounts).m1
        IN  rows # {} =>
              /\ \A stratum \in WrapperStrata :
                    LET held == InStratum(rows, stratum)
                    IN  Cardinality(LookupHitsAtBoundary(held) \ AdvertisedAtBoundary(held))
                            <= SumOf(m1.strata[stratum].declines)
              /\ \A field \in {"aligned", "hits", "opportunities"} :
                    SumOf(OverStrata(m1.strata, field)) = m1[field]
              /\ SumOf([stratum \in WrapperStrata |-> SumOf(m1.strata[stratum].declines)])
                    = SumOf(m1.declines)

\* A document's cold rows: the audit was not read for them, or the join happened
\* to stamp them with what it has of their twins.
ColdPart ==
    {IF ColdTwin[id] = <<>> THEN Unread(id) ELSE [Row(ColdTwin[id]) EXCEPT !.sent = id] :
        id \in DOMAIN ColdTwin}

\* M1, M2 and M7's inputs are of the rows that ran against the connector and
\* were looked up in its audit: a cold arm merged in and rows no audit was read
\* for change nothing but the two counts of what was left out, and with none
\* read every rate is null, not zero (auditable_rows, connector_audit_metrics).
OnlyAuditedRowsCount ==
    LET all  == JoinRequests(Rows)
        cold == ColdPart
    IN  \A audited \in SUBSET all, counts \in ClassCounts :
            LET unread == {Unread(row.sent) : row \in all \ audited}
                whole  == ConnectorAuditMetrics(audited \cup unread \cup cold, counts)
                alone  == ConnectorAuditMetrics(audited, counts)
            IN  /\ \A part \in {"present", "rows_joined", "rows_considered", "m1", "m2", "m7"} :
                       whole[part] = alone[part]
                /\ whole.excluded_cold = Cardinality(cold)
                /\ whole.excluded_not_joined = Cardinality(unread)
                /\ audited = {} => /\ whole.m1.given_match = NoRate
                                   /\ whole.m1.given_chance = NoRate
                                   /\ whole.m2.rate = NoRate /\ whole.m7 = NoRate

\* A row that joined nothing although the engines wrote of its request either
\* shares its id or is told by the echoed id (request_id_echo_report).
UnjoinedIsExplained ==
    \A i \in DOMAIN requests :
        (requests[i].sent \in Rows /\ requests[i].id \in Records
            /\ Resolve(requests[i].sent) = {}) =>
            \/ Cardinality(AuditedIds(requests[i].sent)) > 1
            \/ ~EchoesSent(requests[i].response, requests[i].sent)
=============================================================================
