# SemBench in TLA+

SemBench measures what a semantic KV cache saves. It replays a manifest of
requests against serving engines, cold and warm, joins what the engines say of
themselves onto the rows, and publishes ratios. It is a measuring instrument: its
bugs do not crash, they produce a number that looks like a measurement and is not
one. So the properties here are about validity: a request that was sent before its
donor had finished, a "cold" twin that was warm, a pair whose twins come from two
sessions, a gap that was cut short without being reported.

The source is `src/sembench/`; line numbers in comments and in `PROJECT.json` refer
to it. `PROJECT.json` maps every definition to the lines it models.

## Inventory

| Part (source) | State it keeps | Operations | Talks to | What is hard |
|---|---|---|---|---|
| Dispatcher (`dispatch.py`) | queue, pending futures, completion ranks, forced positions | scan, rescan, submit, sleep, force, wait, collect | `execute` callbacks on pool threads; the clock | order, gaps and settles under concurrency; no deadlock |
| Replay stages and plan (`replay_stages.py`, `pairing.py`) | none (pure) | `replay_plan`, `build_stages` | feed the dispatcher | positions and dependencies across a doubled stream |
| Gateway runner (`gateway_live.py`) | `cache_resets`, `donor_failures`, outcomes | reset, donors, recipient, rows | dispatcher, engines | resets that fail, errors that are not exceptions, reads across threads |
| SGLang runner (`sglang_live.py`) | results, completed keys, the checkpoint file | load, flush, seed, generate, record | engine, file system | kill and resume, torn writes, swallowed flush errors |
| Pair selection and paired metrics (`pairs.py`, `paired_metrics.py`) | none | `_clean_pairs`, `paired_summary` | rows of one or two arms | which twins may be compared |
| Merge (`merge.py`, `arm_matrix.py`, rest of `pairing.py`) | documents in files | `join_arms`, checks, refusals, the merged document | two result documents and a reference | duplicates, fingerprints, two manifests, labels that are free text, documents of documents |
| Connector audit (`connector_audit.py`, `cli_audit.py`) | none | parse, fold, resolve, join | an event file two engine roles append to | event order, superseded promises, ambiguous ids |
| Engine counters (`prometheus.py`) | two snapshots | scrape, delta | every engine's `/metrics` | a restart between the scrapes, a scrape that fails |
| Propagation (`propagation.py`) | none | reference join, rate, certified arm | probe rows, cold-reference arm | denominators, missing references |
| Gates (`gates_cli.py`) | none | thresholds over a result | result documents | a gate that passes because its metric is missing |
| Calibration, verification (`calibration.py`, `verify.py`) | the pairs so far | preflight, two cold runs of each prompt, the artifact | the engine the SGLang runner uses | flushes that fail between the two runs, a cache others filled |
| Chunk capture, request ids (`metrics_chunk.py`, `request_ids.py`) | one-shot flag, per-thread id | `offer`, `sending_request_id` | pool threads | write outside the lock, ids on reused threads |
| Per-arm metrics (`per_arm_metrics.py`, `reuse_signals.py`, `traffic_classes.py`) | none | which rows count, M1, M2, M7's inputs | rows the audit was joined on | denominators: cold rows, rows no audit was read for |
| Corpus commands (`manifest_cli.py`, `dedupe.py`, `frozen.py`) | manifest and checksums files, windows seen | build, freeze, verify, audit | source loaders | kills between two writes, sources that move, failed freezes |
| Transforms (`transforms.py`, `paraphrase.py`) | none | items of a record, planted facts, controls | build | numbers that occur elsewhere, borrowed donors |
| Collision audit, exact cache, offline runner (`collision_audit.py`, `exact_cache.py`, `offline.py`) | block index | owners of a block, hits, block counts | manifest | block alignment, what counts as boilerplate |
| Statistics, schemas, loaders, parsers, command line | none | arithmetic, text, JSON, sampling | | numbers and text, no state |

The first two parts decide *when* a request is sent, the runners *what* is sent and
what a row says of it, and everything below only reads rows. That is the order of
the plan. `PROJECT.json` lists the hazards, each at the line where it bites with the
properties that would catch it going wrong, or the reason why none does yet.

## Modules

    ReplayStages          manifest -> plan -> stages              (pure)
        |
    Dispatch  <-- implements --  OrderedDispatch                  (abstract)
        |  \
        |   DispatchProps    properties, refinement mapping
        |        |   \
        |        |    DispatchProofs    theorems
        |    MCDispatch        \
        |                       GatewayProofs
    GatewayReplay  EXTENDS Dispatch, ReplayStages  -- MCGateway (which also INSTANCEs it WITH Width <- 2), GatewayProofs
    SglangReplay  <-- Calibration                  -- MCSglang, SglangProofs
    EngineWindow, OrderedDispatch, ReplayStages  <-- ArmRun  -- MCArmRun, ArmProofs
    AuditJoin  <-- ArmMetrics  <-- ConnectorAudit  -- MCConnectorAudit, ConnectorProofs

    ArmMatrix <-- Propagation \
                               PairedMetrics <-- Gates <-- ResultDocs <-- ResultProps
                     Pairing  /                                              |    \
                                                                             |     ResultProofs
                                                                        MCResultDocs

           Paraphrase <-- Transforms \
          /                           Corpus <-- CorpusProps -- MCCorpus, CorpusProofs
    Blocks <----- CollisionAudit     /

    DataLemmas    for DispatchProofs, GatewayProofs, SglangProofs, ArmProofs, ConnectorProofs and ResultProofs

**ReplayStages** is `replay_plan` and `build_stages`: items become steps (one per
item, or a cold and a warm step in a paired run), steps become a donor stage and a
recipient stage, and dependencies point at positions of earlier stages. An item is a
record `[id, donors, refs, gap]`.

**Dispatch** is `run_stages`. `pc` is where the dispatcher thread is in its loop;
one action per thing it does there: `ScanSubmit`, `ScanSkip`, `ScanEnd` (the `while`
over the window), `RescanSubmit`, `RescanSkip`, `RescanEnd` (the second look when
nothing is in flight), `SleepSettle`, `WakeFromSleep`, `ForceHead`, `SetTimeout`
(`_next_settle`), `WaitReturns`, `WaitTimesOut`, `Collect` (one future of `done`, in
any order). Pool threads are `Complete`, the clock is `SettleElapses`; both may come
between any two steps of the dispatcher. `rank` and `completed` are `Progress`.
Latencies are gone: of the clock only "has the settle owed by p on q elapsed" is
kept, because that is the only question the code asks it, and it asks it afresh each
time.

**OrderedDispatch** is what a caller of `run_stages` may rely on, and knows nothing of
windows, settles or waits: a stage is queued, in flight or done, is issued only when
what it depends on is done and a lane is free. `DispatchProps!KeepsPromise` is the
refinement, with `phase` defined from `queue` and `pending`.

**GatewayReplay** puts `execute()` inside the stages in flight: `Reset` (once per step,
some engines emptied, some of those answering), `DonorAnswered`, `DonorRefused`,
`DonorsRaise`, `DonorsSent`, `RecipientSkipped`, `RecipientSent`. `Complete(p)` waits
for `outcome[p]`. Engines are external: `cache` is what each can reuse, `indexing`
what it has been sent and not yet captured. The rows are operators over the final
state: `RowError`, `FlushContaminated`, `UsablePairs`.

**SglangReplay** is `replay_items` as a session over a checkpoint file that outlives
it. `Kill` may come anywhere, `KillInWrite` in the middle of a line; `file` is what
is on disk and whether its last line is whole. `Start(resume)` loads it. The rows a
session returns go through `LastRow` and `UsablePairs`, the selection
`paired_summary` makes.

**Calibration** is `calibrate-noise-floor` on the engine the sessions of SglangReplay use, between
two of them: `CalStart` (the preflight of `verify.py`), `CalFlush`, `CalGenerate` (each item's
prompt twice), `CalBuild` and `CalEnd`. The engine keeps what a replay left in it and the other way
round; a flush may fail without anybody being told, a request may break off.

**EngineWindow** is `prometheus.py` from the samples on: a snapshot, and the operators
`counter_deltas` computes of two of them. A counter that is absent is no member of a domain,
so the code's `None` can never be read as a zero.

**ArmRun** runs arms one after the other as `cmd_run_live_gateway` does: `ScrapeBefore`, the
stages, `RunReturns`, `ScrapeAfter`, `NextArm`; for `run-load` the stages alone. Of the dispatcher
it takes what `OrderedDispatch` promises (`Dispatcher!Issue`, `Dispatcher!Finish`), which
`DispatchKeepsPromise` proves of `run_stages`. Its subject is what a pool thread does with
a stage: `Takes`, `Skips` (the recipient of donors that raised), `Sends` (the id set, the
request on the wire; donors one after the other, a staged recipient cut by cut under
one id), `Offers` and `Writes` (the chunk capture, its lock between them), then `Answered`,
`Refused` (an HTTP error, which is an answer) or `Raises` (a timeout, which ends the stage).
`worker[t].id` is the context variable of the thread, `saved` the token that restores
it. Engines are external: `LooksUp` and `Allocates` move the three counters, of engines
that have a connector, for every request that is still live, abandoned or not.

**AuditJoin** is `connector_audit.py` as a function of the audit file: `Order` and `LastOf`
(`_Event.order` and the sort), the fold (`AdvertiseLine`, `KeptTokens`, `ObservedBoundary`,
`HitBoundary`, `SpanDeclines`, `RequestIdReused`), `NormalizedIds` and `Resolve`, `Row` (the
stamp) and `EchoesSent`. An id is a sequence of tokens, so that stripping a prefix or a suffix is what
the regular expressions do.

**ArmMetrics** is the block `per_arm_metrics.py` computes of one arm's rows: `Considered`
(`auditable_rows`: not the cold ones, not those no audit was read for), the traffic classes and wrapper
strata, `M1Alignment`, `M2MaterializedReuse` and `M7Inputs`. A rate is a pair of whole numbers.

**ConnectorAudit** is what writes the file, external to the repository: the scheduler half and
the worker half of an engine, each with its own sequence numbers, over four front ends
(chat with a random suffix, completions with two prompts in one request, the id as
sent, the id stripped), killed perhaps in the middle of a line and restarted. Nothing in
the modules says when the file is read: the invariants compare, in every state, what
the join says with what `requests` says the engines did.

**ResultDocs** is a campaign: an operator runs arms (`RunArm`), merges documents (`MergeResults`,
`MergeRefused`) and asserts gates (`AssertGates`), in any order, each command reading whole files
and writing one. `docs` is what is in the files, `verdict` what the last command said. A
document is what `write_result` puts together: the run record, the configuration, the
rows, and the two blocks computed of them. The pure parts are modules of their own:
**ArmMatrix** (which arm a label names; a label is the sequence of its words, which is all the
pattern of `_declaration_names_arm` sees), **Pairing** (`join_arms` and its report),
**Propagation** (`_clean_pairs`, whose answers are the cold ones, and the way of every
probe into a counter), **PairedMetrics** (speedups, the miss tax, the rates of one document)
and **Gates**. Of the data: an answer is a value, the same or another, where the code
compares ROUGE-L scores; a rate is in percent and a median doubled, so that both are whole;
`None` is -1. A row has one field the code has not, `ran`, the arm the run really was, so that
`ColdAnswersAreItsArms` can say that a label was wrong; no operator of the code's reads it. The
documents of runs with `--paired` are GatewayReplay's and are not merged. Each file is written
once.

**Corpus** is the commands over one frozen spec: `Start`, `DedupeRecord` (record by record),
`Build`, `Write`, `FreezeAudit`, `Record` and `Compare`, beside `AuditManifest` and `RunOffline`
over the manifest and `Refuse`, which ends a command before it begins. `manifest` and `checksums` are the
two files, which outlive every process; `Kill` may come anywhere, in the middle of either file too, and
`UpstreamMoves` changes what the loader returns between two commands. Under it are the pure parts:
**Blocks** (`exact_cache.py`: full blocks, the index, SemBlend's copies), **Paraphrase** (the
rewrite that leaves numbers alone, and the numbers a probe plants), **Transforms** (the items
of a record: donors, recipient, answer, negative controls with a borrowed donor) and
**CollisionAudit** (who owns a block, what counts as a wrapper, what is a violation). A text is a
sequence of words; the templates are kept as a word or two each, which is enough for blocks to
straddle template and context. **CorpusProps** states what the corpus promises the runs.

**DataLemmas** are the facts about finite data which several proofs cite: the least and the greatest
of a set of numbers, the first position at which something holds, the sum over a finite set
(`Total`), which is what the folds of the other modules compute in whatever order they go, how
many elements the parts and the images of a set have, that a function that goes on from each number to the next by a
step exists (`Iterates`), and so the joining of a sequence of sequences (`FlattensExists`).

## Runs

| Run | Expect | Properties | Shows |
|---|---|---|---|
| `dispatch_wide` (MCDispatch) | pass | TypeOK, DependenciesCompleted, WidthBound, NeverAsleepOnWork, GapsHeld, NeverOvertakenWhenReady, EveryStageCompletes, KeepsPromise | Two lanes and a window of three over every three-item manifest of six shapes: order, width, gaps, settles, forcing, completion, and the refinement of the abstract dispatcher. |
| `dispatch_serial` (MCDispatch) | pass | StreamOrderAtWidth1, SerialGapsHold | One lane: the stages run one at a time in exactly manifest order, a gap the stream's order agrees with is never cut short, and nothing is forced but by the clock. |
| `gateway_runs` (MCGateway) | pass | UsableColdWasCold, DonorsEndFirst, DonorsReusable | Gateway runs on two engines: paired ones, at one lane, with failing resets; single ones at one lane and at two, on two pool threads, with donors of two steps in flight; requests refused and broken off in each. Which pairs are used, what the cold twin found, which recipients are sent and what they find of their donors. |
| `sglang_resume` (MCSglang) | pass | PairsFromOneSession, UsableColdWasCold, EveryItemReturned, FloorIsOfColdPairs, ResumeNeverRepeats | The SGLang runner killed anywhere, twice, even in the middle of a checkpoint write, and always resumed, and a calibration on the same engine: pairs stay within a session, nothing is lost or run twice, and the noise floor is of cold runs. |
| `connector_audit` (MCConnectorAudit) | pass | RowsGetTheirOwn, NothingInvented, KeptIsOfThePromise, MissesExplained, OnlyAuditedRowsCount, UnjoinedIsExplained | The audit file two engine roles write, read at any moment: rows are stamped with their own request or none, reuse is counted against the promise it kept, and M1 and M2 are of the rows the audit is about. |
| `arm_window` (MCArmRun) | pass | WindowIsTheArm, RowIdIsItsOwn, CapturedOnce | Two arms and a run-load on two pool threads between scrapes that may fail, with requests refused and abandoned: the counter window, the ids on the wire and on the rows, and the one capture. |
| `merge_docs` (MCResultDocs) | pass | MergePairsOneToOne, MergedRowsWhole, ColdAnswersAreItsArms, ProbesAccounted, ZeroIsMeasured, MissTaxIsOfMisses, GreenIsEarned | Runs of different arms, labels, manifests and measurements, merged under any pair and with any reference, and gates on them: what pairs, whose answers M7 and M4 are counted on, and what a green gate has seen. |
| `corpus` (MCCorpus) | pass | KeptShareNothing, NoForeignEvidence, ExactHitsAreOwn, VerifiedIsClean, NoProbeLeak, FactsSurvive | Manifests built, frozen, verified, audited and run offline, from real and generated records that change, with commands killed in the middle of a write: what the corpus shares, what its audit and its checksums are worth. |
| `gateway_donor_error` (MCGateway) | violation | DonorFailureSkips | A donor request answered with an HTTP or URL error does not skip its recipient. |
| `sglang_stale_file` (MCSglang) | violation | PairsFromOneSession | A session without --resume over an old checkpoint, killed, then resumed: a pair joins the arms of two sessions. |
| `merge_run_ids` (MCResultDocs) | violation | ColdAnswersAreItsArms | A merged document as the cold reference of a later merge: the run id of its cold arm is read as the arm it was. |
| `merge_arm_names` (MCResultDocs) | violation | MergedUnderItsPair | A run labelled with the name of another arm, of which the expected arm's name is a prefix, is merged under the pair. |

### Bounds, and why they are enough

- `WindowFloor` is 3 for the code's 64 and `WindowPerLane` 1 for its 4: streams have up
  to six stages, so some stages are outside the window, some inside and not at the head.
  The proofs hold for every value of both.
- `Width` 1 and 2. With two lanes a donor and its filler can be in flight together and be
  collected from one wait, which is what all the width hazards need. Three items: a
  seeding item, a filler and a recipient, in every shape (no donors, one, two, seeded by
  the first or by the one before, gaps 0 to 2); the serial run takes gaps to 4, beyond
  what three items can fill, so that heads are forced.
- Two engines in the gateway runs: one that a request went to and one it did not, one
  whose reset failed and one whose did not. Two items at most, so that the second finds
  what the first left behind. Resets pin the paired runs to one lane (`Refused`), as in the
  code; single runs without resets go at one lane and at two (`lanes` of `MCGateway`, the
  run's concurrency, with the gateway instantiated at each width). At two, donors of both
  steps are in flight at once and break off in either order, and one step's recipient reads
  `donor_failures` while the other step's thread writes it. The mutant of `DonorsEndFirst`,
  one failure kept for all steps instead of one per step, shows only there. A behaviour of
  `LanesSpec` is one of `GatewaySpec` at its `lanes`, which the theorems have for every `Width`.
- `MaxSessions` 3: killed, resumed, killed again and resumed once more; the last session is not
  killed. Two items: one the checkpoint has and one it has not.
- Two requests in the audit run, by two rows and a stage of the first, six lines for one request,
  five for two under one id, four for two under two: enough for a promise that is kept, superseded and
  kept again, for a second request under a kept promise's id that is promised itself, and
  for two rows that are both promised or declined. Boundaries 0 and 16: at a
  boundary, and not. A span is declined as below
  the minimum or missed; the fold treats the third way as it does these. The metrics are
  taken of every choice of rows an audit was read for, beside a cold row that the join did stamp
  and one that it did not.
- Four families of campaigns in `merge_docs`, each with the files of one merge, a reference and a
  second merge. *Provenance*: baselines of A1 and A4, treatments of A4 and A6, references of A1 and A4,
  labelled truly or not at all, with a run id that reads like A1 or not, under each way to
  name a pair and to assert a reference. *Pairings*: runs of four manifests (the same items, turned,
  one of another fingerprint, one that repeats an id), whole or cut to one item, in every role,
  paired strictly or not, and a merged document merged again. *Miss taxes* and *Gated*: four
  items (a document, its probe, a request outside the class, a control); at most one
  request of each arm fails, is contaminated, sends no token, answers otherwise or not at all,
  under audits that speak of some; gates of each kind with and without `--allow-missing`.
  One deviation in each arm is enough for an item to be excluded for two reasons at once, and
  speedups of 4, 1 and 2 over three pairs tell a median from a mean.
- `run-load` is a third arm of ArmRun, behind two of `run-live-gateway`, so that what an abandoned
  request left in an engine can still meet it.
- A calibration comes before the first row of the checkpoint (`CalibrateBefore` 0) or between
  sessions that recorded nothing, over a cache a killed session has filled. Two items and six answers
  of the endpoint: silent, of another shape, of another model, of the model under a longer or shorter name.
- The corpus has windows and frozen blocks of 3 tokens (16 in the code) and audits and offline runs of
  blocks of 3 and 4, so that the block size of a freeze and of an audit may differ. A block of one word
  only is degenerate (`MinDistinct` 2). Four lists of three records: no overlap, a copied passage at
  another offset, one in a question, and a shared first word; the threshold is
  3, which is clamped where the dedupe leaves two sources and is not where it leaves three. Three specs: real data capped at two and at one record of a dataset, and
  generated data with its control classes. Killed writes stop after none or two rows.

### Fairness

Only the dispatcher's run needs it (`EveryStageCompletes`). `WF(Dispatcher)`: the thread keeps
running, nothing else holds a lock it takes. `WF(Complete)`: every request ends, as
each carries a client timeout and `_guarded` turns whatever it raised into an outcome.
`WF(SettleElapses)`: time passes. Nothing assumes that a stage finishes soon or that
requests finish in any order.

## What is proved

`DispatchProofs`, for every width, window and list of stages whose dependencies point
backward (`DispatchAssumption`, which `build_stages` guarantees by construction and TLC
evaluates on the lists of every run):

| Theorem | States |
|---|---|
| `TypeCorrect` | `Spec => []TypeOK`; includes that a position is in exactly one of queue, pending, completed |
| `DonorsBeforeRecipients` | `Spec => []DependenciesCompleted` |
| `InFlightBounded` | `Spec => []WidthBound` |
| `SerialIsInOrder` | `Spec => []StreamOrderAtWidth1` |
| `AwakeWhileWorking` | `Spec => []NeverAsleepOnWork` |
| `DispatchKeepsPromise` | `Spec => KeepsPromise`, the refinement |
| `GapsAreHeld` | `Spec => GapsHeld`, a property of steps |
| `OvertakenOnlyShortOfGap` | `Spec => NeverOvertakenWhenReady` |
| `SerialRunsNeverForce` | `Spec => SerialGapsHold` |

`DependenciesCompleted` is not inductive. A stage issued because its gap is met has its
dependencies completed by `GapMet` itself, but the forced head has not asked. It is
safe because nothing is then in flight (`NeverAsleepOnWork`: the branch is entered with
`pending = {}` and nothing in it submits without leaving it), the head has no smaller
member of the queue before it, and dependencies point backward: so each is neither
queued nor pending, hence done (the partition in `TypeOK`). The inductive invariant is
`TypeOK`, `NeverAsleepOnWork`, `DependenciesCompleted` and `WidthBound`; the last needs that
the rescan starts with nothing in flight, for it asks no `LaneFree`. At one lane, the
window is the head, so issued stages form a prefix.

The code keeps one running count and one rank per stage; the properties speak of the requests
completed since a donor. `RanksAddUp` joins the two: the count less a stage's rank is
the sum over the stages that completed after it, whatever the order in which `done`
hands them over. That `GapMet` was asked at each issue is then `GapsHeld` (`IssuedHow`: a
stage leaves the queue by a scan that found its gap met, or by force). What the cursor has gone
past is short of its gap until something completes (`PassedOver`), and nothing completes inside a scan;
so whoever is overtaken was. At one lane ranks grow with the position (`RanksInOrder`), so what
completed after a donor are all the stages in between, and when these make up the gap
(`SerialGapIsOver`, the hypothesis of `SerialGapsHold`) the head is never short of it.

`GatewayProofs`, for every manifest, option, number of lanes and set of engines
(`GatewayAssumption`: lists of items, with whole numbers of donors, and some engine):

| Theorem | States |
|---|---|
| `GatewayKeepsPromise` | `GatewaySpec => KeepsPromise` |
| `DonorsComeFirst` | `GatewaySpec => []DonorsEndFirst` |
| `UsedPairsAreCold` | `GatewaySpec => []UsableColdWasCold` |
| `RecipientsFindTheirDonors` | `GatewaySpec => DonorsReusable`, a property of steps |

Each step of the run is a step of the dispatcher or leaves it alone (`GatewaySteps`), so all of
`DispatchProofs` is inherited. What is new begins with the layout (`StageLayout`): which
positions of `BuildStages` are of which step, from a count of the steps that seed donors. Then the
invariant is a chain along a stage's life: what an outcome says (`OutcomesTell`: it has been
issued, its reset is behind it, its donors were all sent or failed), that a recipient outside the queue
has waited its settle out and no capture of its step is pending (`SettlesWaited`), that an
answered donor is cached or being captured until its recipient ends (`DonorsKept`), and that after a
reset that took nothing is cached, nor on its way, until the recipient of that step has been answered
(`ResetsHold`). The last two need that nothing comes between the reset of a step and its recipient,
which with resets is `StreamOrderAtWidth1`: that is what `Refused` is for.

`SglangProofs`, for every manifest, any number of sessions, kills and failures:

| Theorem | States |
|---|---|
| `ColdTwinsAreCold` | `CalSpec => []UsableColdWasCold` |
| `NothingMissing` | `CalSpec => []EveryItemReturned` |
| `NothingIsRepeated` | `ResumeNeverRepeats`, when the items are distinct (`DistinctItems`) |
| `OneSessionPerPair` | `PairsFromOneSession`, when no session without `--resume` is started over a file with rows (`FreshOverNothing`) |
| `FloorOfColdPairs` | `[]FloorIsOfColdPairs`, when the items are distinct |

The two hypotheses cannot go. An item that is listed twice is done the second time by its own key;
`sglang_stale_file` is the run in which a fresh session over an old file mixes a pair.
The invariant says what is measured and not yet recorded (`MeasuredInOrder`), that a cold row which
found something is flagged, in memory and on disk (`HonestRows`), and that behind the loop
every item has its keys in memory (`Covered`). For the repeats: what the file has of items still to
come, the session has known since it started (`FileIsKnown`). For the pairs: a warm row follows the cold
row of its own session, and no later session adds to an item that has one (`FileOfPairs`,
`SessionOfPairs`); `LastRow` then picks both from one session. What the cache
holds is in none of these: the rows say what was found, which is all that is claimed.

`ArmProofs`, for every list of arms, threads and engines (`ArmsAssumption`):

| Theorem | States |
|---|---|
| `RowIdsAreTheirOwn` | `[]RowIdIsItsOwn`, when run ids differ (`RunsToldApart`) |
| `ChunkIsCapturedOnce` | `Spec => CapturedOnce` |
| `WindowsAreTheArms` | `Spec => []WindowIsTheArm` |

`RunsToldApart` fails for two arms of `run-load`, which passes no run id (see below). The first two rest on
what each thread is in the middle of (`ArmInv`): it is alone at a stage in flight (`Working`),
holds the id of the block it sends and has restored what it held before (`IdsHeld`), and the flag
of the capture is set before the file is written (`OneWriter`). The third is about
numbers: for each engine and counter, what it shows now is what it showed at the first scrape plus
the requests of the wire it has counted since (`Windowed`). For that to be of this arm, what an
earlier arm left must have been given up, and an engine works on only for a client that waits or
has given up (`Waited`); for it to be a count, each part of a stage is requested once
(`RequestedOnce`). Both scrapes compared, a sum over engines of sizes is the size of the union (`TotalsAdd`).

`DataLemmas` stand in for inductions the provers cannot do. A sum over a finite set is the `Total` that
every order of adding reaches; that one exists, and that two agree, is shown by taking a smallest
counterexample. So is the end of a search through a sequence. The folds of the community modules
unfold to such a sum. Two facts on counting close it: a set that is split is counted by its parts,
and the image of a set under a function that tells its elements apart is of its size.

`ResultProofs`, for every set of files, manifests and campaigns (`CampaignsAssumption`: what a run asks
for is in its manifest, an item's fingerprint tells a control from what is none, times are whole
numbers; TLC evaluates it on those of every run):

| Theorem | States |
|---|---|
| `MergesAreOneToOne` | `Spec => []MergePairsOneToOne` |
| `MergesKeepTheRows` | `Spec => []MergedRowsWhole` |
| `EveryProbeIsCounted` | `Spec => []ProbesAccounted` |
| `ZeroesAreMeasured` | `Spec => []ZeroIsMeasured` |
| `MissTaxesAreOfMisses` | `Spec => []MissTaxIsOfMisses` |
| `GreensAreEarned` | `Spec => []GreenIsEarned` |
| `AnswersAreOfTheArm` | `Spec => []ColdAnswersAreItsArms`, when references are runs (`ReferencesAreRuns`) and a run is labelled with its own arm or with none (`LabelsAreTrue`) |

The two hypotheses are what findings 3 and 4 below lack, one each: `merge_run_ids` has a merged document as
a reference, `merge_arm_names` a baseline whose label names a second arm. The campaigns of `merge_docs`
meet both, with labels left out, run ids that read like another arm's and assertions that
contradict the reference. What the last theorem needs of the code: an id that names an arm at all names it by a word
that is in it (`ArmIsNamed`, the longest of the names found exists), a baseline that is published
under `--pair` alone and says something has passed `arm_pair_conflicts`, and an answer in `cold_answers`
is that of one row of the file it was taken from (`ReferenceAnswer`, `TwinAnswer`).

All but `GreensAreEarned` speak of a merged document and of the two it *named*, later. So the inductive invariant
(`DocsInv`) says that each document is still what its run, or its merge out of the files as they are
now, would write: a file is written once, and a merge reads only what is written. The rest follows from
it in each state. A merged document is labelled `paired`, which `arm_label_conflicts` refuses in
either role, so what a merge reads are rows of runs (`MergesReadRuns`), of items of their manifest.
The report counts items and the properties quantify over rows: `NoneRepeats` and
`TwinsFound` lead from one to the other. Without a fault the arms were even asked the
same items in the same order (`AskedTheSame`: rows are the manifest's in its order, and none
is left out), so the join lays them out in pairs (`FlattenPairs`), and each arm of the merged document
is indexed by its own rows (`WholeArms`). The counts of `_clean_pairs`, of the miss tax and of M7 are each a
chain of splits of one set (`PairsPartition`, `MissTaxAddsUp`, `ProbesAddUp`).
That a fast gate means half of the pairs needs that the median, which the code finds by sorting, has
half of the numbers at or above it (`OrderStatistic`, `HalfReachTheMedian`).
That each gate asked for was measured follows from `FailsMetric`: one that is absent
fails, by whichever of the three ways its kind is read.

`ConnectorProofs`, for any number of rows, requests and restarts and every front end
(`AuditAssumption`: rows of the audit are not of the cold arm, cold rows are; and of ids what
`deterministic_request_id` makes of them):

| Theorem | States |
|---|---|
| `OnlyAuditedRows` | `Spec => []OnlyAuditedRowsCount` |
| `RowsFindTheirOwn` | `Spec => []RowsGetTheirOwn` |
| `LostRowsAreExplained` | `Spec => []UnjoinedIsExplained` |
| `NothingIsInvented` | `Spec => []NothingInvented` |
| `LastPromiseCounts` | `Spec => []KeptIsOfThePromise` |
| `EveryMissHasItsCause` | `Spec => []MissesExplained` |

The first opens no step. The join marks what it returns as read, cold rows have their arm from the
manifest, so `auditable_rows` splits a document into exactly the parts it was put together of
(`Split`), and the metrics are computed of the same set with the others and without them.

The others rest on `AuditInv`: how each request's ids were made, that two sent under one id are of one
engine unless random tokens tell them apart, and that each line was written by its half of the engine
its request ran on. From the ids alone it follows which of them a form can be (`FormOfRequest`): behind the prefix
an engine's id is the client's, perhaps a number and perhaps a random token (`BehindPrefix`), and what
`NormalizedIds` strips of it ends at the client's part or would be another id that this
one extends by a number or a random token (`NoOtherForm`), which no id that was sent does.

What the file says against what the engines did is `KeptInv`. That the lines about one request weigh at
most what its worker kept holds of torn files too. In a file that lost nothing, the last promise is
the last one made, and the lines behind it weigh what was kept of it (`AsPromised`). `LastOf` goes by
connector and sequence numbers and `Kept` by the place in the file; they agree because the
scheduler's half of one request numbers its lines as the file has them, and ids that are equal
are of one engine (`EqualIds`), so that of lines of one id the last is the last in the file of the latest
request (`LastAmong`). `SpanInv` follows a lookup to its end: if no span was declined,
a request that is over was promised one at the boundary it was last looked up at (`SettledSpan`).
So a hit without a decline was served (`HitIsServed`), and the sums over strata and causes are sizes of
unions (`StrataAddUp`, `CausesAre`).

`CorpusProofs`, for every source of records, spec, block size, table of the rewrite and draw
(`CorpusAssumption`, `ParaphraseAssumption`, `SegmentAssumption`, `ThresholdAssumption`: texts and lists are
sequences, counts whole numbers, and draws in the ranges the calls of `derived_int` name; `NumberWords`:
two numbers are two words, and the templates of the probes hold no number):

| Theorem | States |
|---|---|
| `KeptApart` | `Spec => []KeptShareNothing` |
| `VerifiedPassedAudit` | `Spec => []VerifiedIsClean` |
| `FactsKept` | `Spec => []FactsSurvive` |
| `ProbesAreOwn` | `Spec => []NoProbeLeak` |
| `HitsAreOwn` | `Spec => []ExactHitsAreOwn` |

The loop compares a record only with `seen`, so the first needs that `seen` has the windows of
what was kept and no others (`SeenIsKept`), which a command can only rely on if the one before
it left nothing behind (`IdleIsEmpty`). The second needs to know what each step of a command may
assume of the files (`AtStep`: at `record` the manifest has passed) and that checksums which can be
read are of a corpus that passed (`ChecksumsAudited`), through kills that tear either file. For
these two it does not matter what the transforms and the audit compute.

For the other three it does. Their state part is short: what the dedupe holds are records of the loader
(`Sourcing`), what is built and what the manifest holds, cut by a kill or not, are `Sound` items
(`Soundness`), and the rows of an offline run are those of the manifest that is there (`RowsOfIt`).
What has to be shown is that the builder makes sound items only. A loop over a list is a recursive
function over its positions; that it exists is `Iterates` of `DataLemmas`, and what it preserves is shown at the
smallest position it could fail at.

- `FactsSurvive`. Each step of the rewrite writes behind what is there, and of a guarded word the word alone
  (`WordWritten`). A number, the word before it and the word behind it are all guarded, so three
  steps in a row write these three next to each other, and nothing written later moves them
  (`SentenceWritten`, `HoldsOn`). A sentence thus keeps its numbers up to its stop, and joining two takes the
  stop of the first and nothing else (`SentenceJoined`, `TextRewritten`); that only the last sentence of a
  text can lack one is `SentencesAre`.
- `NoProbeLeak`. A salt is taken only where the source and the question have none of its numbers, so an answer in
  a donor would be one of the donor's own numbers or a word of a template. The ranges of the draws
  decide the first: the divergent twin starts with another digit, the parts differ, `passed` is not
  `failed` (`DivergentIs`, `PartIs`, `FactsSaid`). In the recipient the sentence with the answer is put into the
  middle of the rewrite and is there whole (`SentenceInjected`, `ProbeBuilt`).
- `ExactHitsAreOwn`. A hit is a block of one of the item's donors (`IndexedOnce`), so the audit has that donor among
  the block's owners. Were it borrowed and the block content, the audit would
  report it unless enough sources own it; how many count as enough is a maximum of a
  minimum of sizes, all finite (`SourcesCounted`). What makes the step to `negative` is that the donors of one item
  are all borrowed from one other source or none is (`OneOrigin`).

### Only model-checked

Liveness (`EveryStageCompletes`), since it rests on fairness.
`NoForeignEvidence` is a statement about the texts of the corpus as much as about the code, and false of others: a
block of a donor that straddles a template and a context, or lies in a sentence the rewrite or an edit made, is no
window of any source, and nothing keeps another source from holding just that run of words. What
the dedupe does promise is proved (`KeptApart`).

`ColdAnswersAreItsArms` is proved under two hypotheses. It is false without either: `merge_run_ids` shows it
for references, and checked in place of `MergedUnderItsPair` it fails in `merge_arm_names` too, where an A2
under `--pair m3_ttft` answers as A1.

Every other invariant and property of steps that a run checks is stated by a theorem as it is checked, or under
the hypothesis its table names. What a recursive definition computes on particular texts is TLC's; the proofs use
only what each step of the recursion keeps.

## Assumptions about what is outside the source

- A reset endpoint that answered 2xx has emptied its engine; one that did not may or may
  not have.
- The SGLang engine reports what it reused (`cached_tokens`), or no calibration pair could be told
  from a cold one; a gateway's engine may keep quiet about it.
- A donor's settle is at least the engine's indexing time: that is what `settle`
  is for. A run without settles promises nothing about donors.
- A request abandoned by its client is worked on at once or not at all in GatewayReplay; in
  ArmRun an engine may go on with it, into the next arm as well.
- An engine has counted a request before its answer ends. `WindowIsTheArm` needs it, and
  says nothing of an arm in which a request was abandoned: what the engine counts of
  that one after the second scrape is in no window, or in the next arm's.
- Request ids made of different fields are different (a digest of all of them), and begin with no
  prefix of an engine's. No id that was sent is another one with a number or eight hex digits behind
  it: a row's ends in sixteen, a stage's in its name (`gateway_live.py:747`). Two random tokens an
  engine draws differ.
- The worker of an engine does not lag its scheduler, and a promise once kept is not kept again
  at the same boundary; an id is not sent again across a restart unless the engine makes it
  another one. The join's rules need each of them.
- A document is written once under its name and not edited by hand; what a run calls itself and
  what its requests are answered is anything in the campaign.
- The manifest is the same for all sessions over one checkpoint; its ids are distinct.

## What the model says against the text

Each is a run that TLC ends with a counterexample, listed under `findings`.

1. `gateway_donor_error`: an HTTP error on a donor request does not skip the recipient.
2. `sglang_stale_file`: a session without `--resume` over an old checkpoint, then a resumed one:
   a pair of two sessions (`sglang_live.py:157`).
3. `merge_run_ids`: a merged document as the cold reference of a later merge. Its arm is asked of
   `_declared_arm_id`, which falls back to `baseline_id`, and that may be a run id: called
   `A1-day2`, the run of any arm answers as A1 (`arm_matrix.py:150`, against `merge.py:60`).
4. `merge_arm_names`: `conn_span_noaudit` (A5) passes as A4 under `--pair m3_ttft`, and
   `stock_pc_rerun` (A2) as A1, since the name asked for need only occur (`arm_matrix.py:235`,
   where `arm_id_of` takes the longest).

The models reach three more, of which no run is kept:

- At two lanes a manifest whose gaps agree with its order *is* forced, if the filler completes
  before the donor does; `dispatch.py:145` says never. For one lane it is true (`SerialGapsHold`).
- A warm twin's failed reset is kept nowhere; it may reuse its cold twin's own prompt
  (`gateway_live.py:576`, against `pairing.py:67` and line 161 of the repository's README).
- A torn last line makes every later resume fail (`sglang_live.py:117`, 147).

The rest are read off the definitions, each of a line or two. Of runs and results: `run-load`
passes no run id (`load.py:76`), so that two load runs send the same request ids, which
`gateway_live.py:90` says a run id is there to prevent; a gate never compares the model
and engine of a calibration's artifact with the result's (`gates_cli.py:281`); `run-load`
has no preflight, though `verify.py` says that every live runner does one; `_model_matches`
takes any part of a name for the name; `alignment_given_match` can exceed 1, or be absent over hits
that were aligned, when a row's last hit was at boundary 0 and an earlier advertise was not; the probe count M7 divides by is
of what `--max-items` left, so a cut is not among the absent probes as `propagation.py:479`
says; `_rate` is 0 over no negative controls, so a requested gate on their rate passes with
none measured (`metric_math.py:35`); a probe's class is the warm row's among the pairs and the
cold row's among the excluded; and with `--allow-unpaired` an item that repeats is paired by its first
row, where the docstring of `join_arms` pairs items present exactly once.

Of the corpus: after the dedupe a block that straddles a template and a context can still be
found in another source's donor, as `dedupe.py` compares windows of content only; its window
and tokenizer are fixed whatever `--block-size` and the spec's tokenizer are; a record that is
trimmed away afterwards still suppresses later ones; in a corpus of two origins any block both
have counts as boilerplate; the checksums do not say with which block size they were frozen; a
freeze that fails its audit leaves its manifest beside the checksums of the one before; and
`verify-frozen` rebuilds the corpus and never looks at the manifest, which may be any.

## Plan

Done: ReplayStages, Dispatch, OrderedDispatch with its refinement proof, GatewayReplay,
SglangReplay, Calibration, AuditJoin with ArmMetrics and ConnectorAudit, EngineWindow with
ArmRun, the documents (ArmMatrix, Pairing, Propagation, PairedMetrics, Gates and ResultDocs) and the
corpus (Blocks, Paraphrase, Transforms, CollisionAudit and Corpus), with the theorems above.

Next, in order:

1. Engines that restart, in ArmRun's window, and late captures in GatewayReplay.
2. The hit accounting and the engine's TTFT of PairedMetrics.
3. `evaluate_openai_models`, and the environment an offline run sets and restores.
4. The overlay of `engine_metrics.py` on the rows.

No theorem is left to add of the properties the runs check: what has none is liveness, and `NoForeignEvidence`, for the
reason under *Only model-checked*.

## Not modelled, and why

Statistics (bootstrap intervals, divergences, quality scores, the ROI model) are floating
point over finished rows. The concurrency report summarises a finished run. Engine log and
configuration parsers read text an engine wrote and keep no state. Schemas are record types. The command
line parses arguments. The loaders of source records (`longbench.py`, `synthetic.py`) are what the
source returns, any of a few lists of records, as they download or draw their text.

In the modelled parts, left out are most timing fields, output scoring, logging and the wire
format of requests. Of the paired document, left out are confidence intervals, the KL
divergences, the hit accounting and the engine's own TTFT; of the gates, that the three
minima on materialization summaries are three; of the audit join, where in a prompt a span
starts, evicted blocks, and the four causes of a boundary miss, which stand as one; of the
per-arm metrics, the latency aggregates and the per-bucket summaries; of the verification,
`evaluate_openai_models` and the report's other fields; of an offline run, the environment it
sets and restores, its timings and its estimates; of the transforms, the wording. A context is
split by words where the code counts characters, words are compared without case, the draws of a
hash are constants, and a number is looked for as a word where the code also finds it
inside a longer one. One corpus command runs at a time.

## Running

    tlasany Dispatch.tla
    tlc -workers 2 -config dispatch_wide.cfg MCDispatch
    tlapm DispatchProofs.tla
    tlapm GatewayProofs.tla
    tlapm SglangProofs.tla
    tlapm ArmProofs.tla
    tlapm ResultProofs.tla
    tlapm CorpusProofs.tla
    tlapm ConnectorProofs.tla
