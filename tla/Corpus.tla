------------------------------- MODULE Corpus -------------------------------
(***************************************************************************)
(* The commands that make a workload manifest and pin one:                 *)
(* src/sembench/manifest_cli.py, with dedupe.py (the loop over the source  *)
(* records), frozen.py (the checksums file) and offline.py (a run over the *)
(* manifest).                                                              *)
(*                                                                         *)
(* One command runs at a time.  What its process holds is gone when it     *)
(* ends or is killed; the manifest and the checksums stay, as far as they  *)
(* were written.  What the source loader returns may change between two    *)
(* commands (an unpinned dataset, a changed generator or transform).  A    *)
(* manifest's sha256 names its content and stands for it.                  *)
(***************************************************************************)
EXTENDS Transforms, CollisionAudit

CONSTANTS
    Upstreams,    \* what the loader may return: sequences of records
    Specs,        \* frozen specs
    NoCap,        \* max_items_per_dataset is None
    Window,       \* the dedupe's window
    FreezeSize,   \* --block-size of the freeze
    BlockSizes,   \* --block-size of an audit or an offline run
    CutRows,      \* after how many rows a killed write may stop
    SemOutcomes,  \* what SemBlend may return
    Unavailable   \* SemBlend cannot be imported, or raises

\* What the loader may return, and what a record and a spec are made of.
Records == UNION {TokensOf(load) : load \in Upstreams}

ASSUME CorpusAssumption ==
    /\ \A load \in Upstreams : IsSequence(load)
    /\ \A record \in Records : IsSequence(record.context) /\ IsSequence(record.input)
    /\ \A s \in Specs : IsSequence(s.transforms)
    /\ CutRows \subseteq Nat

VARIABLES
    upstream,   \* what the loader returns now
    spec,       \* the spec the commands are about
    cmd,        \* the command that runs, and its block size
    pc,         \* where it is
    todo,       \* records the dedupe has not come to
    kept,       \* records it has kept
    seen,       \* from a window to the record that had it first
    dropped,    \* its report
    items,      \* the workload built
    manifest,   \* manifests/<spec>.jsonl
    checksums,  \* manifests/CHECKSUMS.<spec>.json
    exit,       \* how the command ended
    rows        \* what an offline run found

process == <<cmd, pc, todo, kept, seen, dropped, items, exit, rows>>
files == <<manifest, checksums>>
vars == <<upstream, spec, process, files>>

NoFile == [there |-> FALSE, whole |-> FALSE, items |-> <<>>]
AFile(content) == [there |-> TRUE, whole |-> TRUE, items |-> content]
Readable(file) == file.there /\ file.whole

NothingSeen == [w \in {} |-> NoSource]
Idle == [name |-> "none", size |-> FreezeSize]

-----------------------------------------------------------------------------
(* The dedupe. *)

\* _window_hashes of everything of a record that reaches a prompt.
\* (AlignedHashes, the mutated form, looks at aligned blocks only.)
Material(record) == Encode(record.context \o record.input)

AlignedHashes(record) ==
    {w \in TokensOf(IterFullBlocks(Material(record), Window)) : ~IsDegenerateBlock(w)}

WindowHashes(record) ==
    {w \in Windows(Material(record), Window) : ~IsDegenerateBlock(w)}

\* trim_per_dataset, and the loader's own cap on each dataset.
TrimPerDataset(records, cap) ==
    LET Before(i) == {j \in 1..(i - 1) : records[j].dataset = records[i].dataset}
    IN  IF cap = NoCap THEN records
        ELSE Picked(records, {i \in DOMAIN records : Cardinality(Before(i)) < cap})

\* Twice as many rows as asked for, as some will be dropped.
FetchCap == IF spec.cap = NoCap THEN NoCap ELSE 2 * spec.cap

-----------------------------------------------------------------------------
(* Building. *)

Init ==
    /\ upstream \in Upstreams
    /\ spec \in Specs
    /\ cmd = Idle /\ pc = "idle"
    /\ todo = <<>> /\ kept = <<>> /\ seen = NothingSeen /\ dropped = <<>>
    /\ items = <<>> /\ rows = <<>>
    /\ manifest = NoFile /\ checksums = NoFile
    /\ exit = "none"

End(status) == pc' = "exit" /\ exit' = status

\* A build with flags a frozen spec pins, a check against checksums that are not
\* there or cannot be read, and whatever cannot load its source records end
\* before they begin.
Refuse(name) ==
    /\ pc = "idle"
    /\ cmd' = [Idle EXCEPT !.name = name]
    /\ End("failed")
    /\ UNCHANGED <<upstream, spec, todo, kept, seen, dropped, items, rows, files>>

\* The source records: of real data the dedupe goes through them, of the
\* others all are kept.
Start(name) ==
    /\ pc = "idle"
    /\ name = "verify" => Readable(checksums)
    /\ cmd' = [name |-> name, size |-> FreezeSize]
    /\ pc' = "dedupe"
    /\ IF spec.real
       THEN todo' = TrimPerDataset(upstream, FetchCap) /\ kept' = <<>>
       ELSE todo' = <<>> /\ kept' = upstream
    /\ UNCHANGED <<upstream, spec, seen, dropped, items, exit, rows, files>>

\* A record none of whose windows has been seen is kept, and its windows are
\* seen from now on.  (KeepUnseen, the mutated form, forgets the latter.)
KeepUnseen(record) ==
    /\ WindowHashes(record) \cap DOMAIN seen = {}
    /\ kept' = Append(kept, record)
    /\ UNCHANGED <<seen, dropped>>

KeepRecord(record) ==
    LET hashes == WindowHashes(record)
    IN  /\ hashes \cap DOMAIN seen = {}
        /\ kept' = Append(kept, record)
        /\ seen' = [w \in DOMAIN seen \cup hashes |->
                       IF w \in DOMAIN seen THEN seen[w] ELSE record.id]
        /\ UNCHANGED dropped

DropRecord(record) ==
    /\ \E w \in WindowHashes(record) \cap DOMAIN seen :
           dropped' = Append(dropped, [source_id |-> record.id, overlaps |-> seen[w]])
    /\ UNCHANGED <<kept, seen>>

DedupeRecord ==
    /\ pc = "dedupe" /\ todo # <<>>
    /\ KeepRecord(Head(todo)) \/ DropRecord(Head(todo))
    /\ todo' = Tail(todo)
    /\ UNCHANGED <<upstream, spec, cmd, pc, items, exit, rows, files>>

Sourced == IF spec.real THEN TrimPerDataset(kept, spec.cap) ELSE kept

Build ==
    /\ pc = "dedupe" /\ todo = <<>>
    /\ \/ /\ WorkloadBuilds(Sourced, spec)
          /\ items' = BuildWorkload(Sourced, spec)
          /\ pc' = IF cmd.name = "verify" THEN "compare" ELSE "write"
          /\ UNCHANGED exit
       \/ /\ ~WorkloadBuilds(Sourced, spec)
          /\ End("failed")
          /\ UNCHANGED items
    /\ UNCHANGED <<upstream, spec, cmd, todo, kept, seen, dropped, rows, files>>

Write ==
    /\ pc = "write"
    /\ manifest' = AFile(items)
    /\ \/ cmd.name = "build" /\ End("ok")
       \/ cmd.name = "freeze" /\ pc' = "audit" /\ UNCHANGED exit
    /\ UNCHANGED <<upstream, spec, cmd, todo, kept, seen, dropped, items, rows, checksums>>

-----------------------------------------------------------------------------
(* Freezing, and checking what was frozen. *)

\* The audit reads the manifest back.  A corpus that fails it is not frozen,
\* and stays where it was written.
FreezeAudit ==
    /\ pc = "audit"
    /\ IF AuditPasses(manifest.items, cmd.size)
       THEN pc' = "record" /\ UNCHANGED exit ELSE End("failed")
    /\ UNCHANGED <<upstream, spec, cmd, todo, kept, seen, dropped, items, rows, files>>

\* write_checksums: the sha256 of the file, and the number of items built.
Record ==
    /\ pc = "record"
    /\ checksums' = AFile(manifest.items)
    /\ End("ok")
    /\ UNCHANGED <<upstream, spec, cmd, todo, kept, seen, dropped, items, rows, manifest>>

\* verify-frozen: the rebuilt corpus against the checksums, never the
\* manifest.  (ComparedCount, the mutated form, compares the numbers only.)
ComparedCount == Len(items) = Len(checksums.items)
Compared == items = checksums.items

Compare ==
    /\ pc = "compare"
    /\ End(IF Compared THEN "ok" ELSE "failed")
    /\ UNCHANGED <<upstream, spec, cmd, todo, kept, seen, dropped, items, rows, files>>

AuditManifest(size) ==
    /\ pc = "idle"
    /\ cmd' = [name |-> "audit", size |-> size]
    /\ End(IF Readable(manifest) /\ AuditPasses(manifest.items, size) THEN "ok" ELSE "failed")
    /\ UNCHANGED <<upstream, spec, todo, kept, seen, dropped, items, rows, files>>

-----------------------------------------------------------------------------
(* The offline run: every item on its own, its donors' blocks indexed and  *)
(* the recipient's looked up, and what SemBlend finds beside it.           *)

DonorId(item, k) == <<item.id, k>>

ExactIndex(item, size) ==
    LET After[k \in 0..Len(item.donors)] ==
            IF k = 0 THEN EmptyIndex
            ELSE IndexAdd(After[k - 1], DonorId(item, k), Encode(item.donors[k].text), size)
    IN  After[Len(item.donors)]

RunOneItem(item, size, outcome) ==
    LET ids     == Encode(item.recipient)
        actions == IF outcome = Unavailable THEN <<>> ELSE outcome
    IN  [total     |-> FullBlockCount(Len(ids), size),
         exact     |-> HitBlocks(ExactIndex(item, size), ids, size),
         found     |-> outcome \notin {Unavailable, <<>>},
         candidate |-> Cardinality(ReuseBlocks(actions, Len(ids), size)),
         eligible  |-> Cardinality(EligibleBlocks(actions, Len(ids), size))]

RunOffline(size, outcome) ==
    /\ pc = "idle"
    /\ cmd' = [name |-> "offline", size |-> size]
    /\ IF Readable(manifest)
       THEN /\ rows' = [i \in DOMAIN manifest.items |->
                           RunOneItem(manifest.items[i], size, outcome)]
            /\ End("ok")
       ELSE UNCHANGED rows /\ End("failed")
    /\ UNCHANGED <<upstream, spec, todo, kept, seen, dropped, items, files>>

-----------------------------------------------------------------------------
(* What the commands do not decide. *)

Gone ==
    /\ cmd' = Idle /\ pc' = "idle" /\ exit' = "none"
    /\ todo' = <<>> /\ kept' = <<>> /\ seen' = NothingSeen /\ dropped' = <<>>
    /\ items' = <<>> /\ rows' = <<>>

Exit == pc = "exit" /\ Gone /\ UNCHANGED <<upstream, spec, files>>

\* A command is killed.  A file it is writing ends where it had come to,
\* between two lines or inside one.
Kill ==
    /\ pc \notin {"idle", "exit"}
    /\ Gone
    /\ \/ UNCHANGED files
       \/ /\ pc = "write"
          /\ \E rowsOut \in CutRows, whole \in BOOLEAN :
                 /\ rowsOut < Len(items)
                 /\ manifest' = [there |-> TRUE, whole |-> whole,
                                 items |-> SubSeq(items, 1, rowsOut)]
          /\ UNCHANGED checksums
       \/ /\ pc = "record"
          /\ checksums' = [there |-> TRUE, whole |-> FALSE, items |-> <<>>]
          /\ UNCHANGED manifest
    /\ UNCHANGED <<upstream, spec>>

UpstreamMoves ==
    /\ pc = "idle"
    /\ upstream' \in Upstreams \ {upstream}
    /\ UNCHANGED <<spec, process, files>>

Next ==
    \/ \E name \in {"build", "freeze", "verify"} : Refuse(name) \/ Start(name)
    \/ DedupeRecord \/ Build \/ Write \/ FreezeAudit \/ Record \/ Compare
    \/ \E size \in BlockSizes : AuditManifest(size)
    \/ \E size \in BlockSizes, outcome \in SemOutcomes : RunOffline(size, outcome)
    \/ Exit \/ Kill \/ UpstreamMoves

Spec == Init /\ [][Next]_vars
=============================================================================
