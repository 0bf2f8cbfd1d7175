---------------------------- MODULE ResultDocs ------------------------------
(***************************************************************************)
(* The result documents of a campaign: arms that run and write one each    *)
(* (src/sembench/cli.py, results.py), sembench merge-results joining two   *)
(* of them, with the answers of a third (src/sembench/merge.py), and       *)
(* sembench assert-result-gates reading any of them.                       *)
(*                                                                         *)
(* A command reads whole files and writes one whole file.  What an         *)
(* operator does, in which order and to which files, is up to the          *)
(* operator; what the engines answer is external.                          *)
(***************************************************************************)
EXTENDS Gates

CONSTANTS
    Files,      \* where documents are written
    Manifests,  \* manifest -> its items, in order
    Campaigns   \* what an operator may do: [runs, merges, gates]

NoFile == "none"
NoAudit == <<>>

\* A campaign uses these files, and runs over these manifests.  The control
\* flag is a component of a row's fingerprint (pair_fingerprint), so items of
\* one fingerprint are both controls or neither.
Item == UNION {Range(Manifests[s]) : s \in DOMAIN Manifests}
ASSUME CampaignsAssumption ==
    /\ \A x, y \in Item : x.fingerprint = y.fingerprint => x.control = y.control
    /\ \A c \in Campaigns :
        /\ DOMAIN c.runs \subseteq Files
        /\ \A f \in DOMAIN c.runs : \A run \in c.runs[f] :
            /\ Manifests[run.manifest] \in Seq(Item) /\ run.manifest \in DOMAIN Manifests
            /\ run.max_items \in 1 .. Len(Manifests[run.manifest])
            /\ run.arm \in {"single", "cold", "warm"}
            /\ \A n \in 1 .. run.max_items : run.outcomes[n].ttft \in Nat
        /\ \A m \in c.merges :
            /\ {m.cold, m.warm, m.output} \subseteq Files
            /\ m.reference \in Files \cup {NoFile}
            /\ Range(m.audit) \subseteq {"absent", "silent", "advertised"}
        /\ \A f \in Files : \A args \in c.gates[f] :
            args.requested \subseteq MetricGates \cup PairedGates

VARIABLES
    campaign,   \* this operator's member of Campaigns
    docs,       \* the document in each file
    verdict     \* of the last command, if it gave one

vars == <<campaign, docs, verdict>>

NoVerdict == [given |-> FALSE]
NoDoc == [written |-> FALSE]
Written(f) == docs[f].written

\* (write_result) The metrics of a document are of its own rows.
WriteResult(run, config, rows, referenceRows, referenceArm) ==
    [written |-> TRUE, run |-> run, config |-> config, rows |-> rows,
     aggregate |-> AggregateMetrics(rows),
     paired |-> PairedSummary(rows, config.counted, config.pair,
                    ColdReferenceFor(config.pair, referenceRows, referenceArm,
                                     run.baseline_arm_declared))]

-----------------------------------------------------------------------------
(* An arm. *)

\* A row of an item, as this run's request for it ended.  "ran" is the arm
\* the run really was: no document has it, only the properties read it.
RowFrom(run, item, outcome) ==
    [item |-> item.item, fingerprint |-> item.fingerprint, class |-> item.class,
     control |-> item.control, parent |-> item.parent, position |-> item.position,
     arm |-> run.arm, output |-> outcome.output, error |-> outcome.error,
     flushed |-> outcome.flushed, ttft |-> outcome.ttft, quality |-> outcome.quality,
     confirmed |-> outcome.confirmed, placed |-> outcome.placed,
     audit |-> "unread", advertised |-> None, ran |-> run.ran]

\* read_jsonl(max_items): the items asked for.
Asked(run) == SubSeq(Manifests[run.manifest], 1, run.max_items)

ProbesIn(items) == Cardinality({n \in DOMAIN items : items[n].class = ProbeClass})

\* collect_run_metadata: of a run of one arm, --baseline-id is a declaration.
RunRecord(run) ==
    [arm |-> run.arm, id |-> run.id, sha |-> run.manifest, backend_id |-> run.backend_id,
     baseline_id |-> run.baseline_id, baseline_arm_declared |-> run.baseline_id]

RunDocument(run) ==
    LET items == Asked(run)
    IN  WriteResult(
            RunRecord(run),
            [mode |-> "run", counted |-> ProbesIn(items), pair |-> NoPair, cold |-> NoFile,
             warm |-> NoFile, reference |-> NoFile, unpaired |-> FALSE, audit |-> NoAudit],
            [n \in DOMAIN items |-> RowFrom(run, items[n], run.outcomes[n])],
            NoRows, "")

\* A cold or a warm arm refuses a manifest that repeats an id (replay_plan).
ArmRefused(run) ==
    run.arm # "single" /\ \E m, n \in DOMAIN Asked(run) :
                              m # n /\ Asked(run)[m].item = Asked(run)[n].item

RunArm(f, run) ==
    /\ ~Written(f) /\ ~ArmRefused(run)
    /\ docs' = [docs EXCEPT ![f] = RunDocument(run)]
    /\ verdict' = NoVerdict
    /\ UNCHANGED campaign

-----------------------------------------------------------------------------
(* merge-results. *)

\* The rows with what the audit holds about each: nothing about a cold row.
Spoken(row, audit) ==
    row.arm = "warm" /\ row.item \in DOMAIN audit /\ audit[row.item] # "absent"
JoinAudit(rows, audit) ==
    IF audit = NoAudit THEN rows
    ELSE [n \in DOMAIN rows |->
            [rows[n] EXCEPT
                !.audit = IF Spoken(rows[n], audit) THEN "joined" ELSE "unspoken",
                !.advertised = IF Spoken(rows[n], audit) /\ audit[rows[n].item] = "advertised"
                               THEN 1 ELSE None]]

\* merged_run_metadata: the warm arm's backend, the cold arm as the baseline,
\* by its label or else by its run id; the declaration has no such fallback.
\* (DeclaredOrId, the mutated form, has it.)
DeclaredOrId(coldRun) ==
    IF DeclaredId(coldRun, "cold") = Nothing THEN coldRun.id ELSE DeclaredId(coldRun, "cold")
BaselineDeclared(coldRun) == DeclaredId(coldRun, "cold")
MergedRun(coldRun, warmRun) ==
    [arm |-> "paired", id |-> coldRun.id \o warmRun.id,
     sha |-> IF warmRun.sha = "" THEN coldRun.sha ELSE warmRun.sha,
     backend_id |-> warmRun.backend_id,
     baseline_id |-> IF BaselineDeclared(coldRun) = Nothing THEN coldRun.id
                     ELSE BaselineDeclared(coldRun),
     baseline_arm_declared |-> BaselineDeclared(coldRun)]

\* result_manifest_class_counts, of the warm arm or else of the cold one.
CountsOf(cold, warm) ==
    IF warm.config.counted = NoCounts THEN cold.config.counted ELSE warm.config.counted

\* The rows of the reference, and the arm its document declares: not the arm
\* the operator asserts.
HasReference(m) == m.reference # NoFile
ReferenceRowsOf(m) == IF HasReference(m) THEN docs[m.reference].rows ELSE NoRows
ReferenceArm(m) == IF HasReference(m) THEN BackendArm(docs[m.reference].run) ELSE ""

MergeDocument(m) ==
    LET cold == docs[m.cold]
        warm == docs[m.warm]
    IN  WriteResult(
            MergedRun(cold.run, warm.run),
            [mode |-> "merge-results",
             counted |-> CountsOf(cold, warm),
             pair |-> m.pair, cold |-> m.cold, warm |-> m.warm, reference |-> m.reference,
             unpaired |-> m.unpaired, audit |-> m.audit],
            JoinAudit(JoinArms(cold.rows, warm.rows), m.audit),
            ReferenceRowsOf(m), ReferenceArm(m))

Inputs(m) == {m.cold, m.warm} \cup (IF HasReference(m) THEN {m.reference} ELSE {})
AllWritten(m) == \A f \in Inputs(m) : Written(f)

\* What the operator's flags and the documents contradict each other in.
Conflict(m) ==
    \/ LabelConflict(docs[m.cold].run, docs[m.warm].run)
    \/ PairConflict(m.pair, docs[m.cold].run, docs[m.warm].run)
    \/ /\ HasReference(m)
       /\ \/ ReferenceArmConflict(docs[m.reference].run, m.asserted)
          \/ ReferenceConflict(docs[m.reference].rows, Items(docs[m.warm].rows))

Pairable(m) ==
    \/ m.unpaired
    \/ PairingOk(docs[m.cold].rows, docs[m.warm].rows, docs[m.cold].run.sha, docs[m.warm].run.sha)

MergeResults(m) ==
    /\ AllWritten(m) /\ ~Written(m.output)
    /\ ~Conflict(m) /\ Pairable(m)
    /\ docs' = [docs EXCEPT ![m.output] = MergeDocument(m)]
    /\ verdict' = NoVerdict
    /\ UNCHANGED campaign

\* A file that cannot be read, a contradiction, or arms that do not pair.
MergeRefused(m) ==
    /\ AllWritten(m) => Conflict(m) \/ ~Pairable(m)
    /\ verdict' = NoVerdict
    /\ UNCHANGED <<campaign, docs>>

-----------------------------------------------------------------------------
(* assert-result-gates. *)

AssertGates(f, args) ==
    /\ Written(f)
    /\ verdict' = [given |-> TRUE, result |-> f, args |-> args, passed |-> Passes(docs[f], args)]
    /\ UNCHANGED <<campaign, docs>>

-----------------------------------------------------------------------------
Init ==
    /\ campaign \in Campaigns
    /\ docs = [f \in Files |-> NoDoc]
    /\ verdict = NoVerdict

Next ==
    \/ \E f \in DOMAIN campaign.runs : \E run \in campaign.runs[f] : RunArm(f, run)
    \/ \E m \in campaign.merges : MergeResults(m) \/ MergeRefused(m)
    \/ \E f \in Files : \E args \in campaign.gates[f] : AssertGates(f, args)

Spec == Init /\ [][Next]_vars
=============================================================================
