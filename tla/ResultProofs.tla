---------------------------- MODULE ResultProofs ----------------------------
(***************************************************************************)
(* Proofs about the result documents, for every set of campaigns.          *)
(***************************************************************************)
EXTENDS ResultProps, DataLemmas, SequenceTheorems

-----------------------------------------------------------------------------
(* join_arms: a report without problems is a one-to-one pairing.           *)

\* Rows of which none repeats an item are each the first, and the only, of it.
LEMMA NoneRepeats ==
    ASSUME NEW rows, DOMAIN rows \subseteq Nat, Repeated(rows) = {}
    PROVE  /\ Indexed(rows) = DOMAIN rows
           /\ ItemsOnce(rows)
           /\ \A n \in DOMAIN rows : RowOf(rows, rows[n].item) = rows[n]
<1>1. Indexed(rows) = DOMAIN rows
  BY DEF Repeated, Indexed
<1>2. ItemsOnce(rows)
  <2>1. \A m, n \in DOMAIN rows : m < n => rows[m].item # rows[n].item
    BY <1>1 DEF Indexed
  <2>2. \A m, n \in DOMAIN rows : m # n => m < n \/ n < m
    OBVIOUS
  <2> QED
    BY <2>1, <2>2 DEF ItemsOnce
<1>3. ASSUME NEW n \in DOMAIN rows
      PROVE  RowOf(rows, rows[n].item) = rows[n]
  <2> DEFINE k == CHOOSE k \in Indexed(rows) : rows[k].item = rows[n].item
  <2>1. k \in DOMAIN rows /\ rows[k].item = rows[n].item
    BY <1>1, <1>3
  <2>2. k = n
    BY <2>1, <1>2, <1>3 DEF ItemsOnce
  <2> QED
    BY <2>2 DEF RowOf
<1> QED
  BY <1>1, <1>2, <1>3

\* One direction of the pairing: every row has its twin.
LEMMA TwinsFound ==
    ASSUME NEW rows, NEW others,
           DOMAIN rows \subseteq Nat, DOMAIN others \subseteq Nat,
           Repeated(rows) = {}, Repeated(others) = {},
           Items(rows) \subseteq Items(others),
           \A i \in Items(rows) : RowOf(rows, i).fingerprint = RowOf(others, i).fingerprint
    PROVE  Within(rows, others)
<1> SUFFICES ASSUME NEW n \in DOMAIN rows
             PROVE  \E m \in DOMAIN others : /\ others[m].item = rows[n].item
                                             /\ others[m].fingerprint = rows[n].fingerprint
  BY DEF Within
<1>1. rows[n].item \in Items(rows)
  BY DEF Items
<1>2. PICK m \in DOMAIN others : others[m].item = rows[n].item
  BY <1>1 DEF Items
<1>3. RowOf(rows, rows[n].item) = rows[n] /\ RowOf(others, others[m].item) = others[m]
  BY <1>2, NoneRepeats
<1> QED
  BY <1>1, <1>2, <1>3

\* A join that finds no fault pairs the rows of the two arms one to one.
LEMMA OkIsOneToOne ==
    ASSUME NEW cold, NEW warm,
           DOMAIN cold.rows \subseteq Nat, DOMAIN warm.rows \subseteq Nat,
           PairingOk(cold.rows, warm.rows, cold.run.sha, warm.run.sha)
    PROVE  OneToOne(cold, warm)
<1> DEFINE C == Items(cold.rows)
           W == Items(warm.rows)
<1>1. /\ cold.run.sha = warm.run.sha
      /\ Repeated(cold.rows) = {} /\ Repeated(warm.rows) = {}
  BY DEF PairingOk
<1>2. C = W /\ Mismatched(cold.rows, warm.rows) = {}
  BY DEF PairingOk, Unpaired, PairedItems
<1>3. \A i \in C : RowOf(cold.rows, i).fingerprint = RowOf(warm.rows, i).fingerprint
  BY <1>2 DEF Mismatched
<1>4. Within(cold.rows, warm.rows) /\ Within(warm.rows, cold.rows)
  BY <1>1, <1>2, <1>3, TwinsFound
<1> QED
  BY <1>1, <1>4, NoneRepeats DEF OneToOne

-----------------------------------------------------------------------------
(* FlattenSeq, which joins the pairs of a join into rows.                    *)

\* It is what the library's operator chooses.
LEMMA FlattenIs ==
    ASSUME NEW seqs, Len(seqs) \in Nat \ {0}
    PROVE  \E g : Flattens(g, seqs, Len(seqs)) /\ FlattenSeq(seqs) = g[Len(seqs)]
<1> DEFINE g == CHOOSE g : Flattens(g, seqs, Len(seqs))
<1>1. Flattens(g, seqs, Len(seqs))
    BY FlattensExists
<1>2. FlattenSeq(seqs) = g[Len(seqs)]
    BY DEF FlattenSeq, Flattens
<1> QED BY <1>1, <1>2

\* It adds nothing of its own.
LEMMA FlattenIn ==
    ASSUME NEW T, NEW seqs, Len(seqs) \in Nat \ {0}, \A i \in 1 .. Len(seqs) : seqs[i] \in Seq(T)
    PROVE  FlattenSeq(seqs) \in Seq(T)
<1>1. PICK g : Flattens(g, seqs, Len(seqs)) /\ FlattenSeq(seqs) = g[Len(seqs)]
    BY FlattenIs
<1> DEFINE Bad == {i \in 1 .. Len(seqs) : g[i] \notin Seq(T)}
<1>2. \A i \in 1 .. Len(seqs) : g[i] = IF i = 1 THEN seqs[i] ELSE g[i-1] \o seqs[i]
    BY <1>1 DEF Flattens
<1>3. ASSUME NEW k \in Bad, \A j \in Bad : k <= j
      PROVE  FALSE
    <2>1. CASE k = 1
        BY <1>2, <2>1
    <2>2. CASE k # 1
        <3>1. k - 1 \in 1 .. Len(seqs) /\ ~(k <= k - 1)
            BY <2>2
        <3>2. g[k - 1] \in Seq(T)
            BY <1>3, <3>1
        <3>3. g[k] = g[k - 1] \o seqs[k]
            BY <1>2, <2>2
        <3>4. g[k - 1] \o seqs[k] \in Seq(T)
            BY <3>2, ConcatProperties
        <3> QED BY <3>3, <3>4
    <2> QED BY <2>1, <2>2
<1>4. Bad \subseteq Nat
    OBVIOUS
<1> HIDE DEF Bad
<1>5. Bad = {}
    BY <1>3, <1>4, Least
<1>6. g[Len(seqs)] \in Seq(T)
    BY <1>5 DEF Bad
<1> QED BY <1>1, <1>6

\* Of pairs it makes the list of their first and second elements in turn.
LEMMA FlattenPairs ==
    ASSUME NEW T, NEW n \in Nat \ {0}, NEW seqs, Len(seqs) = n,
           \A i \in 1 .. n : seqs[i] \in Seq(T) /\ Len(seqs[i]) = 2
    PROVE  LET rows == FlattenSeq(seqs)
           IN  /\ rows \in Seq(T) /\ Len(rows) = 2 * n
               /\ \A i \in 1 .. n : rows[2 * i - 1] = seqs[i][1] /\ rows[2 * i] = seqs[i][2]
<1>2. PICK g : Flattens(g, seqs, n) /\ FlattenSeq(seqs) = g[n]
    BY FlattenIs
<1>3. \A i \in 1 .. n : g[i] = IF i = 1 THEN seqs[i] ELSE g[i-1] \o seqs[i]
    BY <1>2 DEF Flattens
<1> DEFINE Good(k) == /\ g[k] \in Seq(T) /\ Len(g[k]) = 2 * k
                      /\ \A i \in 1 .. k : g[k][2 * i - 1] = seqs[i][1] /\ g[k][2 * i] = seqs[i][2]
           Bad == {k \in 1 .. n : ~Good(k)}
<1>4. ASSUME NEW k \in Bad, \A j \in Bad : k <= j
      PROVE  FALSE
    <2>1. seqs[k] \in Seq(T) /\ Len(seqs[k]) = 2
        OBVIOUS
    <2>2. CASE k = 1
        <3>1. g[1] = seqs[1]
            BY <1>3, <2>2
        <3>2. \A i \in 1 .. k : i = 1 /\ 2 * i - 1 = 1 /\ 2 * i = 2
            BY <2>2
        <3>3. Good(k)
            BY <2>1, <2>2, <3>1, <3>2
        <3> QED BY <3>3
    <2>3. CASE k # 1
        <3>1. k - 1 \in 1 .. n /\ ~(k <= k - 1)
            BY <2>3
        <3>2. Good(k - 1)
            BY <1>4, <3>1
        <3>3. g[k] = g[k - 1] \o seqs[k]
            BY <1>3, <2>3
        <3>4. /\ g[k] \in Seq(T) /\ Len(g[k]) = 2 * k
              /\ \A j \in 1 .. 2 * (k - 1) : g[k][j] = g[k - 1][j]
              /\ g[k][2 * k - 1] = seqs[k][1] /\ g[k][2 * k] = seqs[k][2]
            <4> DEFINE twin == seqs[k]
            <4>1. twin \in Seq(T) /\ Len(twin) = 2 /\ twin[1] = seqs[k][1] /\ twin[2] = seqs[k][2]
                BY <2>1
            <4> HIDE DEF twin
            <4>2. g[k - 1] \in Seq(T) /\ Len(g[k - 1]) = 2 * (k - 1)
                BY <3>2
            <4>3. /\ g[k] \in Seq(T) /\ Len(g[k]) = 2 * (k - 1) + 2
                  /\ \A j \in 1 .. 2 * (k - 1) + 2 :
                        g[k][j] = IF j <= 2 * (k - 1) THEN g[k - 1][j] ELSE twin[j - 2 * (k - 1)]
                <5> DEFINE before == g[k - 1]
                <5>1. g[k] = before \o twin
                    BY <3>3 DEF twin
                <5>2. before \in Seq(T) /\ Len(before) = 2 * (k - 1)
                    BY <4>2
                <5> HIDE DEF before
                <5>3. /\ before \o twin \in Seq(T)
                      /\ Len(before \o twin) = Len(before) + Len(twin)
                      /\ \A j \in 1 .. Len(before) + Len(twin) :
                            (before \o twin)[j] = IF j <= Len(before) THEN before[j]
                                                  ELSE twin[j - Len(before)]
                    BY <4>1, <5>2, ConcatProperties
                <5> QED BY <4>1, <5>1, <5>2, <5>3 DEF before
            <4>4. /\ 2 * (k - 1) + 2 = 2 * k /\ 2 * k - 1 = 2 * (k - 1) + 1
                  /\ (2 * k - 1) - 2 * (k - 1) = 1 /\ 2 * k - 2 * (k - 1) = 2
                  /\ 2 * k - 1 \in 1 .. 2 * k /\ 2 * k \in 1 .. 2 * k
                  /\ ~(2 * k - 1 <= 2 * (k - 1)) /\ ~(2 * k <= 2 * (k - 1))
                OBVIOUS
            <4> QED BY <4>1, <4>3, <4>4
        <3>5. ASSUME NEW i \in 1 .. k
              PROVE  g[k][2 * i - 1] = seqs[i][1] /\ g[k][2 * i] = seqs[i][2]
            <4>1. CASE i = k
                BY <3>4, <4>1
            <4>2. CASE i # k
                <5>1. i \in 1 .. k - 1 /\ 2 * i - 1 \in 1 .. 2 * (k - 1) /\ 2 * i \in 1 .. 2 * (k - 1)
                    BY <4>2, <3>1
                <5> QED BY <5>1, <3>2, <3>4
            <4> QED BY <4>1, <4>2
        <3> QED BY <3>4, <3>5
    <2> QED BY <2>2, <2>3
<1>5. Bad \subseteq Nat
    OBVIOUS
<1> HIDE DEF Bad
<1>6. Bad = {}
    BY <1>4, <1>5, Least
<1> HIDE DEF Good
<1>7. Good(n)
    <2>1. n \in 1 .. n
        OBVIOUS
    <2> QED BY <1>6, <2>1 DEF Bad
<1> QED BY <1>2, <1>7 DEF Good

-----------------------------------------------------------------------------
(* What every document is: of a run, or of a merge of documents that are    *)
(* still what they were when it read them.                                  *)

OfRun(f) == f \in DOMAIN campaign.runs /\ \E run \in campaign.runs[f] : docs[f] = RunDocument(run)
OfMerge(f) ==
    \E m \in campaign.merges :
        /\ f = m.output /\ docs[f] = MergeDocument(m)
        /\ AllWritten(m) /\ ~Conflict(m) /\ Pairable(m)
DocsInv ==
    /\ campaign \in Campaigns /\ DOMAIN docs = Files
    /\ \A f \in Files : Written(f) => OfRun(f) \/ OfMerge(f)

\* What a campaign may do.
LEMMA CampaignIs ==
    ASSUME campaign \in Campaigns
    PROVE  /\ DOMAIN campaign.runs \subseteq Files
           /\ \A m \in campaign.merges :
                 /\ m.cold \in Files /\ m.warm \in Files /\ m.output \in Files
                 /\ HasReference(m) => m.reference \in Files
                 /\ Range(m.audit) \subseteq {"absent", "silent", "advertised"}
BY CampaignsAssumption DEF HasReference

\* A merge reads the same while the documents it reads are the same.
LEMMA MergeReadsTheSame ==
    ASSUME NEW m, \A f \in Inputs(m) : docs'[f] = docs[f]
    PROVE  /\ MergeDocument(m)' = MergeDocument(m)
           /\ AllWritten(m)' = AllWritten(m) /\ Conflict(m)' = Conflict(m)
           /\ Pairable(m)' = Pairable(m)
<1>1. docs'[m.cold] = docs[m.cold] /\ docs'[m.warm] = docs[m.warm]
    BY DEF Inputs
<1>2. HasReference(m) => docs'[m.reference] = docs[m.reference]
    BY DEF Inputs
<1>3. ReferenceRowsOf(m)' = ReferenceRowsOf(m) /\ ReferenceArm(m)' = ReferenceArm(m)
    BY <1>2 DEF ReferenceRowsOf, ReferenceArm
<1>4. MergeDocument(m)' = MergeDocument(m)
    BY <1>1, <1>3 DEF MergeDocument
<1>5. AllWritten(m)' = AllWritten(m)
    BY DEF AllWritten, Written
<1>6. Conflict(m)' = Conflict(m)
    BY <1>1, <1>2 DEF Conflict
<1>7. Pairable(m)' = Pairable(m)
    BY <1>1 DEF Pairable
<1> QED BY <1>4, <1>5, <1>6, <1>7

\* The documents of a campaign start with none.
LEMMA InitDocs == Init => DocsInv
BY DEF Init, DocsInv, Written, NoDoc

\* A file is written once, so a document that is there stays what it was.
LEMMA OthersKept ==
    ASSUME DocsInv, NEW g \in Files, ~Written(g), NEW doc, campaign' = campaign,
           docs' = [docs EXCEPT ![g] = doc],
           NEW f \in Files, f # g, Written(f)'
    PROVE  (OfRun(f) \/ OfMerge(f))'
<1>1. docs'[f] = docs[f] /\ \A h \in Files : Written(h) => docs'[h] = docs[h]
    BY DEF DocsInv
<1>2. Written(f)
    BY <1>1 DEF Written
<1>3. CASE OfRun(f)
    BY <1>1, <1>3 DEF OfRun
<1>4. CASE OfMerge(f)
    <2>1. PICK m \in campaign.merges :
              /\ f = m.output /\ docs[f] = MergeDocument(m)
              /\ AllWritten(m) /\ ~Conflict(m) /\ Pairable(m)
        BY <1>4 DEF OfMerge
    <2>2. \A h \in Inputs(m) : h \in Files /\ Written(h)
        BY <2>1, CampaignIs DEF DocsInv, Inputs, AllWritten
    <2>3. \A h \in Inputs(m) : docs'[h] = docs[h]
        BY <1>1, <2>2
    <2> QED BY <1>1, <2>1, <2>3, MergeReadsTheSame DEF OfMerge
<1> QED BY <1>2, <1>3, <1>4 DEF DocsInv

\* Every command keeps the invariant.
LEMMA NextDocs == DocsInv /\ [Next]_vars => DocsInv'
<1> SUFFICES ASSUME DocsInv, [Next]_vars
             PROVE  DocsInv'
    OBVIOUS
<1>1. ASSUME NEW f \in DOMAIN campaign.runs, NEW run \in campaign.runs[f], RunArm(f, run)
      PROVE  DocsInv'
    <2>1. f \in Files /\ DOMAIN docs' = Files
        BY <1>1, CampaignIs DEF DocsInv, RunArm
    <2>2. docs'[f] = RunDocument(run) /\ campaign' = campaign
        BY <1>1, <2>1 DEF DocsInv, RunArm
    <2>3. OfRun(f)'
        BY <2>2 DEF OfRun
    <2> QED BY <1>1, <2>1, <2>2, <2>3, OthersKept DEF DocsInv, RunArm
<1>2. ASSUME NEW m \in campaign.merges, MergeResults(m)
      PROVE  DocsInv'
    <2>1. m.output \in Files /\ DOMAIN docs' = Files /\ ~Written(m.output)
        BY <1>2, CampaignIs DEF DocsInv, MergeResults
    <2>2. /\ docs'[m.output] = MergeDocument(m) /\ campaign' = campaign
          /\ AllWritten(m) /\ ~Conflict(m) /\ Pairable(m)
        BY <1>2, <2>1 DEF DocsInv, MergeResults
    <2>3. \A h \in Inputs(m) : h # m.output /\ h \in Files
        BY <2>1, <2>2, CampaignIs DEF DocsInv, Inputs, AllWritten
    <2>4. \A h \in Inputs(m) : docs'[h] = docs[h]
        BY <1>2, <2>3 DEF MergeResults, DocsInv
    <2>5. OfMerge(m.output)'
        BY <2>2, <2>4, MergeReadsTheSame DEF OfMerge
    <2> QED BY <1>2, <2>1, <2>2, <2>5, OthersKept DEF DocsInv, MergeResults
<1>3. ASSUME UNCHANGED <<campaign, docs>>
      PROVE  DocsInv'
    <2>1. ASSUME NEW f \in Files PROVE (Written(f) => OfRun(f) \/ OfMerge(f))'
        <3>1. CASE OfRun(f)
            BY <1>3, <3>1 DEF OfRun
        <3>2. CASE OfMerge(f)
            <4>1. PICK m \in campaign.merges :
                      /\ f = m.output /\ docs[f] = MergeDocument(m)
                      /\ AllWritten(m) /\ ~Conflict(m) /\ Pairable(m)
                BY <3>2 DEF OfMerge
            <4> QED BY <1>3, <4>1, MergeReadsTheSame DEF OfMerge
        <3> QED BY <1>3, <3>1, <3>2 DEF DocsInv, Written
    <2> QED BY <1>3, <2>1 DEF DocsInv
<1> QED
    BY <1>1, <1>2, <1>3 DEF Next, vars, MergeRefused, AssertGates

-----------------------------------------------------------------------------
(* What a merge reads are runs.                                             *)

\* The rows of a run, of the items it asked for.
LEMMA RunRows ==
    ASSUME NEW c \in Campaigns, NEW f \in DOMAIN c.runs, NEW run \in c.runs[f]
    PROVE  LET rows == RunDocument(run).rows
           IN  /\ run.max_items \in Nat \ {0}
               /\ DOMAIN rows = 1 .. run.max_items /\ Len(rows) = run.max_items
               /\ DOMAIN Asked(run) = 1 .. run.max_items /\ Len(Asked(run)) = run.max_items
               /\ \A n \in 1 .. run.max_items :
                     /\ Asked(run)[n] = Manifests[run.manifest][n] /\ Asked(run)[n] \in Item
                     /\ rows[n] = RowFrom(run, Asked(run)[n], run.outcomes[n])
                     /\ run.outcomes[n].ttft \in Nat
<1>1. /\ Manifests[run.manifest] \in Seq(Item)
      /\ run.max_items \in 1 .. Len(Manifests[run.manifest])
      /\ \A n \in 1 .. run.max_items : run.outcomes[n].ttft \in Nat
    BY CampaignsAssumption
<1>2. run.max_items \in Nat \ {0} /\ run.max_items <= Len(Manifests[run.manifest])
    BY <1>1
<1>3. /\ Len(Asked(run)) = run.max_items /\ Asked(run) \in Seq(Item)
      /\ \A n \in 1 .. run.max_items : Asked(run)[n] = Manifests[run.manifest][n]
    BY <1>1, <1>2, SubSeqProperties DEF Asked
<1>4. DOMAIN Asked(run) = 1 .. run.max_items /\ \A n \in 1 .. run.max_items : Asked(run)[n] \in Item
    BY <1>2, <1>3
<1>5. RunDocument(run).rows = [n \in DOMAIN Asked(run) |-> RowFrom(run, Asked(run)[n], run.outcomes[n])]
    BY DEF RunDocument, WriteResult
<1> QED BY <1>1, <1>2, <1>3, <1>4, <1>5

\* A merge was given two runs, for another merge is labelled as one.
ReadsRuns(m, cold, warm) ==
    /\ cold \in campaign.runs[m.cold] /\ docs[m.cold] = RunDocument(cold)
    /\ warm \in campaign.runs[m.warm] /\ docs[m.warm] = RunDocument(warm)
    /\ m.cold \in DOMAIN campaign.runs /\ m.warm \in DOMAIN campaign.runs

\* Every merge that is not refused was.
LEMMA MergesReadRuns ==
    ASSUME DocsInv, NEW m \in campaign.merges, AllWritten(m), ~Conflict(m)
    PROVE  \E cold, warm : ReadsRuns(m, cold, warm)
<1>1. /\ m.cold \in Files /\ Written(m.cold) /\ m.warm \in Files /\ Written(m.warm)
    BY CampaignIs DEF DocsInv, AllWritten, Inputs
<1>2. docs[m.cold].run.arm # "paired" /\ docs[m.warm].run.arm # "paired"
    BY DEF Conflict, LabelConflict
<1>3. \A n : MergeDocument(n).run.arm = "paired"
    BY DEF MergeDocument, WriteResult, MergedRun
<1>4. OfRun(m.cold) /\ OfRun(m.warm)
    BY <1>1, <1>2, <1>3 DEF DocsInv, OfMerge
<1> QED BY <1>4 DEF OfRun, ReadsRuns

\* What a merged document is: no run writes one.
LEMMA MergedIs ==
    ASSUME DocsInv, NEW f \in Files, IsMerged(f)
    PROVE  \E m \in campaign.merges :
               /\ docs[f] = MergeDocument(m)
               /\ AllWritten(m) /\ ~Conflict(m) /\ Pairable(m)
<1>1. \A run : RunDocument(run).config.mode = "run"
    BY DEF RunDocument, WriteResult
<1> QED BY <1>1 DEF DocsInv, OfRun, OfMerge, IsMerged

\* Without --allow-unpaired, merge-results only ever joins two documents whose
\* rows pair one to one, whatever the runs, and whatever it was given.
THEOREM MergesAreOneToOne == Spec => []MergePairsOneToOne
<1>1. DocsInv => MergePairsOneToOne
    <2> SUFFICES ASSUME DocsInv, NEW f \in Files, IsMerged(f), ~docs[f].config.unpaired
                 PROVE  OneToOne(docs[docs[f].config.cold], docs[docs[f].config.warm])
        BY DEF MergePairsOneToOne
    <2>1. PICK m \in campaign.merges :
              /\ docs[f] = MergeDocument(m)
              /\ AllWritten(m) /\ ~Conflict(m) /\ Pairable(m)
        BY MergedIs
    <2>2. PICK cold, warm : ReadsRuns(m, cold, warm)
        BY <2>1, MergesReadRuns
    <2>3. /\ docs[f].config.cold = m.cold /\ docs[f].config.warm = m.warm
          /\ docs[f].config.unpaired = m.unpaired
        BY <2>1 DEF MergeDocument, WriteResult
    <2>4. DOMAIN docs[m.cold].rows \subseteq Nat /\ DOMAIN docs[m.warm].rows \subseteq Nat
        BY <2>2, RunRows DEF ReadsRuns, DocsInv
    <2> QED BY <2>1, <2>3, <2>4, OkIsOneToOne DEF Pairable
<1> QED BY <1>1, InitDocs, NextDocs, PTL DEF Spec

-----------------------------------------------------------------------------
(* The rows of a merged document.                                           *)

\* A row of the join is the first row of its item in one of the arms, stamped.
JoinedFrom(row, cold, warm, n, k) ==
    /\ n \in Indexed(cold) /\ k \in Indexed(warm)
    /\ cold[n].item = warm[k].item /\ cold[n].fingerprint = warm[k].fingerprint
    /\ row = Stamped(cold[n], "cold") \/ row = Stamped(warm[k], "warm")

\* The first row of an item is the one that is looked up.
LEMMA FirstRow ==
    ASSUME NEW n \in Nat, NEW rows, DOMAIN rows = 1 .. n, NEW i \in Items(rows)
    PROVE  /\ \E k \in Indexed(rows) : rows[k].item = i /\ RowOf(rows, i) = rows[k]
           /\ \A j, k \in Indexed(rows) : rows[j].item = rows[k].item => j = k
<1> DEFINE S == {k \in 1 .. n : rows[k].item = i}
<1>1. S # {} /\ S \subseteq Nat
    BY DEF Items
<1>2. PICK k \in S : \A j \in S : k <= j
    BY <1>1, Least
<1>3. k \in Indexed(rows) /\ rows[k].item = i
    BY <1>2 DEF Indexed
<1>4. \A j \in Indexed(rows), l \in Indexed(rows) : rows[j].item = rows[l].item => j = l
    <2>1. \A j \in Indexed(rows), l \in Indexed(rows) :
              /\ j \in 1 .. n /\ l \in 1 .. n
              /\ j < l => rows[j].item # rows[l].item
              /\ l < j => rows[l].item # rows[j].item
        BY DEF Indexed
    <2> QED BY <2>1
<1>5. RowOf(rows, i) = rows[CHOOSE j \in Indexed(rows) : rows[j].item = i]
    BY DEF RowOf
<1>6. (CHOOSE j \in Indexed(rows) : rows[j].item = i) = k
    BY <1>3, <1>4
<1> QED BY <1>3, <1>4, <1>5, <1>6

\* Every row of a join is one of a pair.
LEMMA JoinedRows ==
    ASSUME NEW nc \in Nat \ {0}, NEW nw \in Nat \ {0},
           NEW cold, DOMAIN cold = 1 .. nc,
           NEW warm, DOMAIN warm = 1 .. nw
    PROVE  LET rows == JoinArms(cold, warm)
           IN  /\ Len(rows) \in Nat /\ DOMAIN rows = 1 .. Len(rows)
               /\ \A j \in DOMAIN rows : \E n, k : JoinedFrom(rows[j], cold, warm, n, k)
<1> DEFINE T == {row \in {Stamped(cold[n], "cold") : n \in 1 .. nc} \cup
                         {Stamped(RowOf(warm, cold[n].item), "warm") : n \in 1 .. nc} :
                    \E n, k : JoinedFrom(row, cold, warm, n, k)}
           Twin(n) == IF n \in Indexed(cold) /\ cold[n].item \in PairedItems(cold, warm)
                      THEN <<Stamped(cold[n], "cold"), Stamped(RowOf(warm, cold[n].item), "warm")>>
                      ELSE <<>>
           seqs == [n \in 1 .. nc |-> Twin(n)]
<1>1. ASSUME NEW n \in 1 .. nc
      PROVE  Twin(n) \in Seq(T)
    <2>1. CASE n \in Indexed(cold) /\ cold[n].item \in PairedItems(cold, warm)
        <3> DEFINE i == cold[n].item
        <3>1. /\ i \in Items(cold) /\ i \in Items(warm)
              /\ RowOf(cold, i).fingerprint = RowOf(warm, i).fingerprint
            BY <2>1 DEF PairedItems, Mismatched
        <3>2. RowOf(cold, i) = cold[n]
            BY <2>1, <3>1, FirstRow
        <3>3. PICK k \in Indexed(warm) : warm[k].item = i /\ RowOf(warm, i) = warm[k]
            BY <3>1, FirstRow
        <3>4. Stamped(cold[n], "cold") \in T /\ Stamped(RowOf(warm, i), "warm") \in T
            BY <2>1, <3>1, <3>2, <3>3 DEF JoinedFrom
        <3> HIDE DEF T
        <3> QED BY <2>1, <3>4
    <2>2. CASE ~(n \in Indexed(cold) /\ cold[n].item \in PairedItems(cold, warm))
        BY <2>2
    <2> QED BY <2>1, <2>2
<1>2. JoinArms(cold, warm) = FlattenSeq(seqs)
    BY DEF JoinArms
<1>3. Len(seqs) = nc /\ \A n \in 1 .. nc : seqs[n] = Twin(n)
    OBVIOUS
<1> HIDE DEF T, seqs, Twin
<1>4. FlattenSeq(seqs) \in Seq(T)
    BY <1>1, <1>3, FlattenIn
<1>5. \A row \in T : \E n, k : JoinedFrom(row, cold, warm, n, k)
    BY DEF T
<1> DEFINE rows == JoinArms(cold, warm)
<1>6. rows \in Seq(T)
    BY <1>2, <1>4
<1> HIDE DEF rows
<1>7. Len(rows) \in Nat /\ DOMAIN rows = 1 .. Len(rows) /\ \A j \in DOMAIN rows : rows[j] \in T
    BY <1>6
<1> QED BY <1>5, <1>7 DEF rows

\* What a row of a merged document is: that of its item in the run of its arm,
\* with what the audit says of it.
IsOf(row, run, arm) ==
    /\ row.arm = arm /\ row.item = run.item /\ row.class = run.class
    /\ row.position = run.position /\ row.ttft = run.ttft /\ row.control = run.control
    /\ row.output = run.output
MergedFrom(row, m, n, k) ==
    LET cold == docs[m.cold].rows
        warm == docs[m.warm].rows
    IN  /\ n \in Indexed(cold) /\ k \in Indexed(warm)
        /\ cold[n].item = warm[k].item /\ cold[n].control = warm[k].control
        /\ IsOf(row, cold[n], "cold") \/ IsOf(row, warm[k], "warm")
        /\ row.ttft \in Nat
        /\ row.audit = "joined" =>
              /\ row.item \in DOMAIN m.audit /\ m.audit[row.item] # "absent"
              /\ m.audit[row.item] = "advertised" => row.advertised = 1

\* A row as its run wrote it, and as a join stamps it.
LEMMA RowIs ==
    ASSUME NEW run, NEW item, NEW outcome, NEW role
    PROVE  LET row == RowFrom(run, item, outcome)
               joined == Stamped(row, role)
           IN  /\ row.control = item.control /\ row.fingerprint = item.fingerprint
               /\ row.item = item.item /\ row.class = item.class /\ row.position = item.position
               /\ IsOf(joined, row, role)
               /\ joined.audit = "unread" /\ joined.ttft = outcome.ttft
               /\ {"audit", "advertised"} \subseteq DOMAIN joined
<1>1. LET row == RowFrom(run, item, outcome)
      IN  /\ row.control = item.control /\ row.fingerprint = item.fingerprint
          /\ row.item = item.item /\ row.class = item.class /\ row.position = item.position
          /\ row.audit = "unread" /\ row.ttft = outcome.ttft
          /\ {"arm", "audit", "advertised"} \subseteq DOMAIN row
    BY DEF RowFrom
<1> DEFINE row == RowFrom(run, item, outcome)
<1> HIDE DEF row
<1>2. ASSUME "arm" \in DOMAIN row
      PROVE  LET joined == [row EXCEPT !.arm = role]
             IN  /\ joined.arm = role /\ joined.item = row.item /\ joined.class = row.class
                 /\ joined.position = row.position /\ joined.ttft = row.ttft
                 /\ joined.control = row.control /\ joined.audit = row.audit
                 /\ joined.output = row.output
                 /\ DOMAIN joined = DOMAIN row
    BY <1>2
<1> QED BY <1>1, <1>2 DEF Stamped, IsOf, row

\* Every row of a merged document is one of a pair of the two runs.
LEMMA MergedRows ==
    ASSUME DocsInv, NEW m \in campaign.merges, NEW cold, NEW warm, ReadsRuns(m, cold, warm)
    PROVE  LET rows == MergeDocument(m).rows
           IN  \E len \in Nat :
                   /\ DOMAIN rows = 1 .. len
                   /\ \A j \in 1 .. len : \E n, k : MergedFrom(rows[j], m, n, k)
<1> DEFINE C == docs[m.cold].rows
           W == docs[m.warm].rows
           joined == JoinArms(C, W)
           rows == MergeDocument(m).rows
<1>1. rows = JoinAudit(joined, m.audit)
    BY DEF MergeDocument, WriteResult
<1>2. /\ cold.max_items \in Nat \ {0} /\ DOMAIN C = 1 .. cold.max_items
      /\ \A n \in 1 .. cold.max_items :
            /\ Asked(cold)[n] \in Item /\ C[n] = RowFrom(cold, Asked(cold)[n], cold.outcomes[n])
            /\ cold.outcomes[n].ttft \in Nat
    BY RunRows DEF ReadsRuns, DocsInv
<1>3. /\ warm.max_items \in Nat \ {0} /\ DOMAIN W = 1 .. warm.max_items
      /\ \A n \in 1 .. warm.max_items :
            /\ Asked(warm)[n] \in Item /\ W[n] = RowFrom(warm, Asked(warm)[n], warm.outcomes[n])
            /\ warm.outcomes[n].ttft \in Nat
    BY RunRows DEF ReadsRuns, DocsInv
<1>4. /\ Len(joined) \in Nat /\ DOMAIN joined = 1 .. Len(joined)
      /\ \A j \in DOMAIN joined : \E n, k : JoinedFrom(joined[j], C, W, n, k)
    BY <1>2, <1>3, JoinedRows
<1>5. DOMAIN rows = DOMAIN joined
    BY <1>1 DEF JoinAudit
<1> HIDE DEF rows, joined
<1>6. ASSUME NEW j \in DOMAIN joined
      PROVE  \E n, k : MergedFrom(rows[j], m, n, k)
    <2>1. PICK n, k : JoinedFrom(joined[j], C, W, n, k)
        BY <1>4
    <2>2. /\ n \in 1 .. cold.max_items /\ n \in Indexed(C)
          /\ k \in 1 .. warm.max_items /\ k \in Indexed(W)
          /\ C[n].item = W[k].item /\ C[n].fingerprint = W[k].fingerprint
        BY <1>2, <1>3, <2>1 DEF JoinedFrom, Indexed
    <2>3. /\ C[n] = RowFrom(cold, Asked(cold)[n], cold.outcomes[n])
          /\ W[k] = RowFrom(warm, Asked(warm)[k], warm.outcomes[k])
          /\ Asked(cold)[n] \in Item /\ Asked(warm)[k] \in Item
          /\ cold.outcomes[n].ttft \in Nat /\ warm.outcomes[k].ttft \in Nat
        BY <1>2, <1>3, <2>2
    <2> HIDE DEF C, W
    <2>4. C[n].control = W[k].control
        <3> DEFINE x == Asked(cold)[n]
                   y == Asked(warm)[k]
        <3>1. /\ C[n].control = x.control /\ C[n].fingerprint = x.fingerprint
              /\ W[k].control = y.control /\ W[k].fingerprint = y.fingerprint
            <4>1. \A run, item, outcome :
                      /\ RowFrom(run, item, outcome).control = item.control
                      /\ RowFrom(run, item, outcome).fingerprint = item.fingerprint
                BY DEF RowFrom
            <4>2. /\ C[n] = RowFrom(cold, x, cold.outcomes[n])
                  /\ W[k] = RowFrom(warm, y, warm.outcomes[k])
                BY <2>3
            <4> HIDE DEF x, y
            <4>3. C[n].control = x.control
                BY <4>1, <4>2
            <4>4. C[n].fingerprint = x.fingerprint
                BY <4>1, <4>2
            <4>5. W[k].control = y.control
                BY <4>1, <4>2
            <4>6. W[k].fingerprint = y.fingerprint
                BY <4>1, <4>2
            <4> QED BY <4>3, <4>4, <4>5, <4>6
        <3>2. x \in Item /\ y \in Item
            BY <2>3
        <3>3. \A u, v \in Item : u.fingerprint = v.fingerprint => u.control = v.control
            BY CampaignsAssumption
        <3> HIDE DEF x, y
        <3> QED BY <2>2, <3>1, <3>2, <3>3
    <2>5. /\ IsOf(joined[j], C[n], "cold") \/ IsOf(joined[j], W[k], "warm")
          /\ joined[j].audit = "unread" /\ joined[j].ttft \in Nat
          /\ {"audit", "advertised"} \subseteq DOMAIN joined[j]
        BY <2>1, <2>3, RowIs DEF JoinedFrom
    <2>6. /\ rows[j].arm = joined[j].arm /\ rows[j].item = joined[j].item
          /\ rows[j].class = joined[j].class /\ rows[j].position = joined[j].position
          /\ rows[j].ttft = joined[j].ttft /\ rows[j].control = joined[j].control
          /\ rows[j].output = joined[j].output
        <3>1. CASE m.audit = NoAudit
            BY <1>1, <3>1 DEF JoinAudit
        <3>2. CASE m.audit # NoAudit
            <4> DEFINE spoken == IF Spoken(joined[j], m.audit) THEN "joined" ELSE "unspoken"
                       promise == IF /\ Spoken(joined[j], m.audit)
                                     /\ m.audit[joined[j].item] = "advertised"
                                  THEN 1 ELSE None
            <4>1. rows[j] = [joined[j] EXCEPT !.audit = spoken, !.advertised = promise]
                BY <1>1, <3>2 DEF JoinAudit
            <4> HIDE DEF spoken, promise
            <4> QED BY <4>1
        <3> QED BY <3>1, <3>2
    <2>7. rows[j].audit = "joined" =>
              /\ rows[j].item \in DOMAIN m.audit /\ m.audit[rows[j].item] # "absent"
              /\ m.audit[rows[j].item] = "advertised" => rows[j].advertised = 1
        <3>1. CASE m.audit = NoAudit
            BY <1>1, <2>5, <3>1 DEF JoinAudit
        <3>2. CASE m.audit # NoAudit
            BY <1>1, <2>5, <2>6, <3>2 DEF JoinAudit, Spoken
        <3> QED BY <3>1, <3>2
    <2>8. IsOf(rows[j], C[n], "cold") \/ IsOf(rows[j], W[k], "warm")
        BY <2>5, <2>6 DEF IsOf
    <2> QED BY <2>2, <2>4, <2>5, <2>6, <2>7, <2>8 DEF MergedFrom, C, W
<1>7. DOMAIN rows = 1 .. Len(joined)
    BY <1>4, <1>5
<1> QED BY <1>4, <1>6, <1>7 DEF rows

-----------------------------------------------------------------------------
(* The paired block is of the document's own rows.                          *)

\* Whatever wrote it, a document publishes what its rows, its count of probes
\* and its pair make with some reference.
LEMMA PairedIsOfTheRows ==
    ASSUME DocsInv, NEW f \in Files, Written(f)
    PROVE  \E reference :
               docs[f].paired = PairedSummary(docs[f].rows, docs[f].config.counted,
                                              docs[f].config.pair, reference)
<1>1. ASSUME NEW run, NEW config, NEW rows, NEW others, NEW arm,
             docs[f] = WriteResult(run, config, rows, others, arm)
      PROVE  \E reference :
               docs[f].paired = PairedSummary(docs[f].rows, docs[f].config.counted,
                                              docs[f].config.pair, reference)
    BY <1>1 DEF WriteResult
<1>2. CASE OfRun(f)
    BY <1>1, <1>2 DEF OfRun, RunDocument
<1>3. CASE OfMerge(f)
    BY <1>1, <1>3 DEF OfMerge, MergeDocument
<1> QED BY <1>2, <1>3 DEF DocsInv

\* A contamination rate over probes was scored on at least one of them, in
\* every document.
THEOREM ZeroesAreMeasured == Spec => []ZeroIsMeasured
<1>1. DocsInv => ZeroIsMeasured
    <2> SUFFICES ASSUME DocsInv, NEW f \in Files, IsMerged(f), docs[f].paired.present,
                        PropagationOf(f).numerator # None, PropagationOf(f).denominator > 0
                 PROVE  DOMAIN PropagationOf(f).cold_answers # {}
        BY DEF ZeroIsMeasured
    <2> DEFINE cold == ArmRows(docs[f].rows, "cold")
               warm == ArmRows(docs[f].rows, "warm")
               pairs == CleanPairs(cold, warm)
               excluded == ExcludedRows(cold, warm)
               counted == docs[f].config.counted
    <2>1. PICK reference :
               docs[f].paired = PairedSummary(docs[f].rows, counted, docs[f].config.pair, reference)
        BY PairedIsOfTheRows DEF IsMerged
    <2>2. PropagationOf(f) = PropagationSummary(pairs, warm, excluded, counted, reference)
        BY <2>1 DEF PairedSummary, NoSummary, PropagationOf
    <2> HIDE DEF pairs, warm, excluded, counted
    <2> DEFINE m7 == PropagationSummary(pairs, warm, excluded, counted, reference)
               answers == ColdAnswers(Probes(pairs), reference)
               scored == Scored(Probes(pairs), warm, answers)
    <2>3. DOMAIN m7.cold_answers = {q.item : q \in scored}
        BY DEF PropagationSummary
    <2>4. m7.numerator # None => ~NothingScored(m7.denominator, scored)
        BY DEF PropagationSummary
    <2> QED BY <2>2, <2>3, <2>4 DEF NothingScored
<1> QED BY <1>1, InitDocs, NextDocs, PTL DEF Spec

-----------------------------------------------------------------------------
(* Pairs of rows.                                                           *)

\* The row of each item in an arm is one of the arm, of the item.
LEMMA ArmRowsAre ==
    ASSUME NEW len \in Nat, NEW rows, DOMAIN rows = 1 .. len, NEW arm
    PROVE  /\ IsFiniteSet(DOMAIN ArmRows(rows, arm))
           /\ \A n \in 1 .. len : rows[n].arm = arm => rows[n].item \in DOMAIN ArmRows(rows, arm)
           /\ \A i \in DOMAIN ArmRows(rows, arm) :
                 \E n \in 1 .. len : /\ rows[n].arm = arm /\ rows[n].item = i
                                     /\ ArmRows(rows, arm)[i] = rows[n]
<1> DEFINE mine == {n \in DOMAIN rows : rows[n].arm = arm}
           last == {n \in mine : \A m \in mine : rows[m].item = rows[n].item => m <= n}
           items == {rows[n].item : n \in mine}
<1>1. ArmRows(rows, arm) = [i \in items |-> rows[CHOOSE n \in last : rows[n].item = i]]
    BY DEF ArmRows
<1>2. IsFiniteSet(items)
    <2> DEFINE f == [n \in mine |-> rows[n].item]
    <2>1. IsFiniteSet(mine)
        BY FS_Interval, FS_Subset
    <2>2. items = {f[n] : n \in mine}
        OBVIOUS
    <2> HIDE DEF items, mine
    <2>3. IsFiniteSet({f[n] : n \in mine})
        BY <2>1, ImageSize
    <2> QED BY <2>2, <2>3
<1>3. ASSUME NEW i \in items
      PROVE  \E n \in last : rows[n].item = i
    <2> DEFINE S == {n \in mine : rows[n].item = i}
    <2>1. S # {} /\ S \in SUBSET Nat /\ \A n \in S : n <= len
        OBVIOUS
    <2> HIDE DEF S
    <2>2. PICK n \in S : \A m \in S : m <= n
        BY <2>1, Greatest
    <2> QED BY <2>2 DEF S
<1>4. ASSUME NEW i \in items
      PROVE  \E n \in mine : rows[n].item = i /\ ArmRows(rows, arm)[i] = rows[n]
    <2> DEFINE n == CHOOSE n \in last : rows[n].item = i
    <2>1. n \in last /\ rows[n].item = i
        BY <1>3, <1>4
    <2> QED BY <1>1, <1>4, <2>1
<1> QED BY <1>1, <1>2, <1>4

-----------------------------------------------------------------------------
(* Whose answers are the cold ones.                                         *)

\* What a run says of its arm is a name of the arm it was, and of no other.
SaysItsArm(run) ==
    \A n \in Phase0Names : NamesArm(DeclaredId(RunRecord(run), "cold"), n.words) => n.arm = run.ran

\* The runs a merge may take for a baseline or a reference are labelled with
\* their own arm or with none (merge_arm_names is a campaign in which they are
\* not), and no reference is itself a merge (merge_run_ids is one in which it
\* is).
LabelsAreTrue ==
    \A c \in Campaigns : \A m \in c.merges : \A f \in {m.cold, m.reference} \cap DOMAIN c.runs :
        \A run \in c.runs[f] : SaysItsArm(run)
ReferencesAreRuns ==
    \A c \in Campaigns : \A m, n \in c.merges : m.reference # n.output

\* The names of the matrix have a length and a place in it, and some word.
LEMMA NamesAre ==
    \A n \in Phase0Names :
        n.length \in Nat /\ n.length <= 22 /\ n.rank \in Nat /\ Len(n.words) \in Nat \ {0}
<1>1. ASSUME NEW rank \in Nat, NEW id, NEW label, Len(label) \in Nat \ {0},
             NEW length \in Nat, length <= 22, NEW n \in AnArm(rank, id, label, length)
      PROVE  n.length \in Nat /\ n.length <= 22 /\ n.rank \in Nat /\ Len(n.words) \in Nat \ {0}
    <2>1. CASE n = [rank |-> rank, arm |-> id, words |-> <<id>>, length |-> 2]
        BY <2>1
    <2>2. CASE n = [rank |-> rank, arm |-> id, words |-> label, length |-> length]
        BY <1>1, <2>2
    <2> QED BY <2>1, <2>2 DEF AnArm
<1> HIDE DEF AnArm
<1> QED BY <1>1 DEF Phase0Names

\* Of several names one is the longest, and of those the first.
LEMMA LongestIs ==
    ASSUME NEW found, found # {},
           \A n \in found : n.length \in Nat /\ n.length <= 22 /\ n.rank \in Nat
    PROVE  \E m \in found : \A n \in found : Longer(m, n)
<1> DEFINE lengths == {n.length : n \in found}
           most == {n \in found : n.length = Max(lengths)}
           ranks == {n.rank : n \in most}
<1>1. lengths \in SUBSET Nat /\ lengths # {} /\ \A l \in lengths : l <= 22
    OBVIOUS
<1>2. Max(lengths) \in lengths /\ \A l \in lengths : l <= Max(lengths)
    BY <1>1, Greatest
<1>3. ranks \in SUBSET Nat /\ ranks # {}
    BY <1>2
<1>4. PICK r \in ranks : \A q \in ranks : r <= q
    BY <1>3, Least
<1>5. PICK m \in most : m.rank = r
    OBVIOUS
<1>6. /\ m \in found /\ m.length = Max(lengths)
      /\ \A n \in found : n.length \in lengths /\ (n.length = Max(lengths) => n.rank \in ranks)
    BY <1>5
<1> HIDE DEF most, lengths, ranks
<1>7. ASSUME NEW n \in found PROVE Longer(m, n)
    <2>1. n.length <= m.length /\ n.length \in Nat /\ m.length \in Nat
        BY <1>1, <1>2, <1>6
    <2>2. n.length = m.length => m.rank <= n.rank
        BY <1>4, <1>5, <1>6
    <2>3. m.length > n.length \/ m.length = n.length
        BY <2>1
    <2> QED BY <2>2, <2>3 DEF Longer
<1> QED BY <1>6, <1>7

\* An id that names an arm is of an arm one of whose names is in it: the
\* longest is one of the names found.
LEMMA ArmIsNamed ==
    ASSUME NEW declared, ArmIdOf(declared) # ""
    PROVE  \E n \in Phase0Names : NamesArm(declared, n.words) /\ n.arm = ArmIdOf(declared)
<1> DEFINE found == {n \in Phase0Names : NamesArm(declared, n.words)}
<1>1. found # {} /\ ArmIdOf(declared) = (CHOOSE m \in found : \A n \in found : Longer(m, n)).arm
    BY DEF ArmIdOf
<1>2. \A n \in found : n.length \in Nat /\ n.length <= 22 /\ n.rank \in Nat
    BY NamesAre
<1> HIDE DEF found
<1>3. \E m \in found : \A n \in found : Longer(m, n)
    BY <1>1, <1>2, LongestIs
<1>4. (CHOOSE m \in found : \A n \in found : Longer(m, n)) \in found
    BY <1>3
<1>5. PICK m \in found : ArmIdOf(declared) = m.arm
    BY <1>1, <1>4
<1> QED BY <1>5 DEF found

\* Who declares nothing names no arm.
LEMMA NothingIsNamed == \A n \in Phase0Names : ~NamesArm(Nothing, n.words)
<1> SUFFICES ASSUME NEW n \in Phase0Names PROVE ~NamesArm(Nothing, n.words)
    OBVIOUS
<1>1. Len(n.words) \in Nat \ {0}
    BY NamesAre
<1>2. Len(Nothing) = 0
    BY DEF Nothing
<1> DEFINE words == Len(n.words)
<1>3. words \in Nat \ {0}
    BY <1>1
<1> HIDE DEF words
<1>4. 1 .. 0 - words + 1 = {}
    BY <1>3
<1> QED BY <1>2, <1>4 DEF NamesArm, words

\* The arm that is read off the label of such a run is its own.
LEMMA LabelIsRead ==
    ASSUME NEW run, SaysItsArm(run), BackendArm(RunRecord(run)) # ""
    PROVE  BackendArm(RunRecord(run)) = run.ran
BY ArmIsNamed DEF SaysItsArm, BackendArm

\* An answer of a reference is that of a row of its item.
LEMMA ReferenceAnswer ==
    ASSUME NEW len \in Nat, NEW rows, DOMAIN rows = 1 .. len, NEW probes,
           NEW i \in DOMAIN ReferenceAnswers(probes, ReferenceRows(rows))
    PROVE  \E n \in 1 .. len :
               /\ rows[n].item = i
               /\ rows[n].output = ReferenceAnswers(probes, ReferenceRows(rows))[i]
<1> DEFINE lines == ReferenceLines(rows)
           first == {n \in lines : \A m \in lines : rows[m].item = rows[n].item => n <= m}
           mine == {n \in lines : rows[n].item = i}
<1>1. lines \subseteq 1 .. len
    BY DEF ReferenceLines
<1>2. ReferenceRows(rows) = [x \in {rows[n].item : n \in lines} |->
                                rows[CHOOSE n \in first : rows[n].item = x]]
    BY DEF ReferenceRows
<1>3. /\ i \in DOMAIN ReferenceRows(rows)
      /\ ReferenceAnswers(probes, ReferenceRows(rows))[i] = ReferenceRows(rows)[i].output
    BY DEF ReferenceAnswers
<1> HIDE DEF lines
<1>4. mine \in SUBSET Nat /\ mine # {}
    <2>1. i \in {rows[n].item : n \in lines}
        BY <1>2, <1>3
    <2>2. \E n \in lines : rows[n].item = i
        BY <2>1
    <2>3. lines \subseteq Nat
        BY <1>1
    <2> QED BY <2>2, <2>3
<1>5. PICK n \in mine : \A m \in mine : n <= m
    BY <1>4, Least
<1>6. n \in first /\ rows[n].item = i
    BY <1>5
<1> HIDE DEF first
<1>7. /\ (CHOOSE x \in first : rows[x].item = i) \in first
      /\ rows[CHOOSE x \in first : rows[x].item = i].item = i
    BY <1>6
<1>8. ReferenceRows(rows)[i] = rows[CHOOSE x \in first : rows[x].item = i]
    BY <1>2, <1>3
<1> QED BY <1>1, <1>3, <1>7, <1>8 DEF first

\* An answer of the pair's own twin is that of the cold row of its item.
LEMMA TwinAnswer ==
    ASSUME NEW cold, NEW warm, NEW probes, probes \subseteq Twins(cold, warm),
           NEW i \in DOMAIN TwinAnswers(probes)
    PROVE  i \in DOMAIN cold /\ TwinAnswers(probes)[i] = cold[i].output
<1> DEFINE p == CHOOSE p \in probes : p.item = i
<1>1. TwinAnswers(probes)[i] = p.cold.output /\ \E q \in probes : q.item = i
    BY DEF TwinAnswers
<1>2. p \in probes /\ p.item = i
    BY <1>1
<1> HIDE DEF p
<1>3. p \in Twins(cold, warm)
    BY <1>2
<1> QED BY <1>1, <1>2, <1>3 DEF Twins, Pair

\* Every row of a run's document is of the arm it ran.
LEMMA RanTheArm ==
    ASSUME NEW run
    PROVE  /\ RunDocument(run).run = RunRecord(run)
           /\ \A n \in DOMAIN RunDocument(run).rows : RunDocument(run).rows[n].ran = run.ran
<1>1. /\ RunDocument(run).run = RunRecord(run)
      /\ RunDocument(run).rows =
             [n \in DOMAIN Asked(run) |-> RowFrom(run, Asked(run)[n], run.outcomes[n])]
    BY DEF RunDocument, WriteResult
<1>2. \A item, outcome : RowFrom(run, item, outcome).ran = run.ran
    BY DEF RowFrom
<1> QED BY <1>1, <1>2

\* A contamination rate published against a named arm was counted on answers
\* of that arm, in every document and whatever the pair, the assertion and the
\* run ids say, so long as references are runs and labels are true
\* (cold_reference_for, cold_reference_arm_conflicts, arm_pair_conflicts).
THEOREM AnswersAreOfTheArm ==
    ASSUME LabelsAreTrue, ReferencesAreRuns
    PROVE  Spec => []ColdAnswersAreItsArms
<1>1. DocsInv => ColdAnswersAreItsArms
    <2> SUFFICES ASSUME DocsInv, NEW f \in Files, IsMerged(f), docs[f].paired.present,
                        PropagationOf(f).numerator # None, PropagationOf(f).arm # Undeclared,
                        ~VouchedFor(f), NEW i \in DOMAIN PropagationOf(f).cold_answers
                 PROVE  \E n \in DOMAIN docs[ColdSource(f)].rows :
                            /\ docs[ColdSource(f)].rows[n].item = i
                            /\ docs[ColdSource(f)].rows[n].output = PropagationOf(f).cold_answers[i]
                            /\ docs[ColdSource(f)].rows[n].ran = PropagationOf(f).arm
        BY DEF ColdAnswersAreItsArms
    <2>1. PICK m \in campaign.merges :
              /\ docs[f] = MergeDocument(m)
              /\ AllWritten(m) /\ ~Conflict(m) /\ Pairable(m)
        BY MergedIs
    <2>2. PICK cold, warm : ReadsRuns(m, cold, warm)
        BY <2>1, MergesReadRuns
    <2> DEFINE rows == docs[f].rows
               declared == DeclaredId(docs[m.cold].run, "cold")
               reference == ColdReferenceFor(m.pair, ReferenceRowsOf(m), ReferenceArm(m), declared)
               C == ArmRows(rows, "cold")
               W == ArmRows(rows, "warm")
               probes == Probes(CleanPairs(C, W))
               answers == ColdAnswers(probes, reference)
               m7 == PropagationOf(f)
    <2>3. /\ docs[f].paired = PairedSummary(rows, docs[f].config.counted, m.pair, reference)
          /\ docs[f].config.cold = m.cold /\ docs[f].config.reference = m.reference
          /\ docs[f].config.pair = m.pair
        <3>1. \A run, config, joined, others, arm :
                  LET doc == WriteResult(run, config, joined, others, arm)
                  IN  /\ doc.config = config
                      /\ doc.paired = PairedSummary(doc.rows, doc.config.counted, doc.config.pair,
                             ColdReferenceFor(doc.config.pair, others, arm,
                                              run.baseline_arm_declared))
            BY DEF WriteResult
        <3>2. PICK config, joined :
                  /\ docs[f] = WriteResult(MergedRun(docs[m.cold].run, docs[m.warm].run), config,
                                           joined, ReferenceRowsOf(m), ReferenceArm(m))
                  /\ config.cold = m.cold /\ config.reference = m.reference
                  /\ config.pair = m.pair
            BY <2>1 DEF MergeDocument
        <3>3. MergedRun(docs[m.cold].run, docs[m.warm].run).baseline_arm_declared = declared
            BY DEF MergedRun, BaselineDeclared
        <3> HIDE DEF declared
        <3> QED BY <3>1, <3>2, <3>3
    <2>4. /\ m7.source = reference.source /\ m7.arm = reference.arm
          /\ ~reference.missing /\ reference.arm # Undeclared
          /\ i \in DOMAIN answers /\ m7.cold_answers[i] = answers[i]
        <3> DEFINE pairs == CleanPairs(C, W)
                   excluded == ExcludedRows(C, W)
                   counted == docs[f].config.counted
        <3>1. m7 = PropagationSummary(pairs, W, excluded, counted, reference)
            BY <2>3 DEF PairedSummary, NoSummary, PropagationOf
        <3> HIDE DEF pairs, excluded, counted, reference, W
        <3> DEFINE scored == Scored(Probes(pairs), W, ColdAnswers(Probes(pairs), reference))
                   summary == PropagationSummary(pairs, W, excluded, counted, reference)
        <3>2. /\ summary.source = reference.source /\ summary.arm = reference.arm
              /\ summary.numerator # None => ~reference.missing
              /\ summary.cold_answers = [x \in {q.item : q \in scored} |->
                                            ColdAnswers(Probes(pairs), reference)[x]]
            BY DEF PropagationSummary
        <3>3. \A q \in scored : q.item \in DOMAIN ColdAnswers(Probes(pairs), reference)
            BY DEF Scored
        <3> HIDE DEF scored, summary
        <3>4. m7 = summary /\ m7.numerator # None /\ m7.arm # Undeclared
            BY <3>1 DEF summary
        <3> HIDE DEF m7
        <3>5. i \in DOMAIN m7.cold_answers
            BY DEF m7
        <3> QED BY <3>2, <3>3, <3>4, <3>5 DEF pairs
    <2> DEFINE source == docs[ColdSource(f)].rows
    <2>5. CASE ReferenceRowsOf(m) # NoRows
        <3>1. /\ HasReference(m) /\ ReferenceRowsOf(m) = docs[m.reference].rows
              /\ ReferenceArm(m) = BackendArm(docs[m.reference].run)
            BY <2>5 DEF ReferenceRowsOf, ReferenceArm
        <3>2. reference = FromReference(docs[m.reference].rows, ReferenceArm(m))
            BY <2>5, <3>1 DEF ColdReferenceFor
        <3>3. /\ reference.arm = ReferenceArm(m) /\ ReferenceArm(m) # ""
              /\ reference.source = "reference_arm"
              /\ reference.rows = ReferenceRows(docs[m.reference].rows)
            <4> HIDE DEF reference
            <4>1. \A lines, arm :
                      LET from == FromReference(lines, arm)
                      IN  /\ from.rows = ReferenceRows(lines)
                          /\ from.arm # Undeclared =>
                                from.arm = arm /\ arm # "" /\ from.source = "reference_arm"
                BY DEF FromReference
            <4> QED BY <2>4, <3>2, <4>1
        <3>4. m.reference \in Files /\ Written(m.reference)
            BY <2>1, <3>1, CampaignIs DEF DocsInv, AllWritten, Inputs
        <3>5. ~OfMerge(m.reference)
            BY ReferencesAreRuns DEF ReferencesAreRuns, OfMerge, DocsInv
        <3>6. PICK run \in campaign.runs[m.reference] :
                  docs[m.reference] = RunDocument(run) /\ m.reference \in DOMAIN campaign.runs
            BY <3>4, <3>5 DEF DocsInv, OfRun
        <3>7. SaysItsArm(run)
            BY <3>6, LabelsAreTrue DEF LabelsAreTrue, DocsInv
        <3>8. m7.arm = run.ran
            BY <2>4, <3>1, <3>3, <3>6, <3>7, LabelIsRead, RanTheArm
        <3>9. source = RunDocument(run).rows
            BY <2>3, <2>4, <3>3, <3>6 DEF ColdSource
        <3>10. /\ run.max_items \in Nat /\ DOMAIN source = 1 .. run.max_items
            BY <3>6, <3>9, RunRows DEF DocsInv
        <3>11. answers = ReferenceAnswers(probes, ReferenceRows(source))
            BY <2>4, <3>3, <3>6, <3>9 DEF ColdAnswers
        <3> HIDE DEF answers, source, m7, probes, reference
        <3>12. PICK n \in 1 .. run.max_items : source[n].item = i /\ source[n].output = answers[i]
            BY <2>4, <3>10, <3>11, ReferenceAnswer
        <3>13. source[n].ran = run.ran
            BY <3>9, <3>10, RanTheArm
        <3> QED BY <2>4, <3>8, <3>10, <3>12, <3>13 DEF source, m7
    <2>6. CASE ReferenceRowsOf(m) = NoRows
        <3>1. reference = FromBaseline(Baseline(m.pair, declared))
            BY <2>6 DEF ColdReferenceFor
        <3>2. /\ Baseline(m.pair, declared) = ColdArm
              /\ reference.source = "baseline_arm" /\ reference.arm = ColdArm
            <4> HIDE DEF reference
            <4>1. \A arm : Missing(arm).missing
                BY DEF Missing
            <4>2. Baseline(m.pair, declared) = ColdArm
                BY <2>4, <3>1, <4>1 DEF FromBaseline
            <4> QED BY <3>1, <4>2 DEF FromBaseline
        <3>3. /\ docs[m.cold] = RunDocument(cold) /\ docs[m.cold].run = RunRecord(cold)
              /\ SaysItsArm(cold)
            BY <2>2, RanTheArm, LabelsAreTrue DEF ReadsRuns, LabelsAreTrue, DocsInv
        <3>4. cold.ran = ColdArm
            <4>1. CASE m.pair = NoPair
                <5>1. BackendArm(RunRecord(cold)) = ColdArm /\ ColdArm # ""
                    BY <3>2, <3>3, <4>1 DEF Baseline, BackendArm, ColdArm
                <5> QED BY <3>3, <5>1, LabelIsRead
            <4>2. CASE m.pair # NoPair
                <5>1. ArmPairs[m.pair].baseline = ColdArm
                    BY <3>2, <4>2 DEF Baseline
                <5>2. ArmIdOf(declared) # ""
                    BY <2>3, <2>4, <3>2, <4>2 DEF VouchedFor, BackendArm
                <5>3. declared # Nothing
                    BY <5>2, ArmIsNamed, NothingIsNamed
                <5>4. ~Contradicts(declared, ColdArm)
                    BY <2>1, <4>2, <5>1 DEF Conflict, PairConflict
                <5>5. PICK name \in Phase0Names : name.arm = ColdArm /\ NamesArm(declared, name.words)
                    BY <5>3, <5>4 DEF Contradicts
                <5> QED BY <3>3, <5>5 DEF SaysItsArm
            <4> QED BY <4>1, <4>2
        <3>5. source = docs[m.cold].rows
            BY <2>3, <2>4, <3>2 DEF ColdSource
        <3>6. answers = TwinAnswers(probes)
            BY <3>2 DEF ColdAnswers
        <3>7. i \in DOMAIN C /\ answers[i] = C[i].output
            <4>1. probes \subseteq Twins(C, W)
                BY DEF Probes, CleanPairs
            <4> HIDE DEF probes, C, W, answers
            <4> QED BY <2>4, <3>6, <4>1, TwinAnswer
        <3> HIDE DEF answers, m7, reference, declared
        <3>8. PICK len \in Nat :
                  /\ DOMAIN rows = 1 .. len
                  /\ \A j \in 1 .. len : \E n, k : MergedFrom(rows[j], m, n, k)
            BY <2>1, <2>2, MergedRows
        <3>9. PICK j \in 1 .. len : rows[j].arm = "cold" /\ rows[j].item = i /\ C[i] = rows[j]
            BY <3>7, <3>8, ArmRowsAre
        <3>10. PICK n, k : MergedFrom(rows[j], m, n, k)
            BY <3>8
        <3>11. n \in DOMAIN source /\ source[n].item = i /\ source[n].output = answers[i]
            BY <3>5, <3>7, <3>9, <3>10 DEF MergedFrom, IsOf, Indexed
        <3>12. source[n].ran = m7.arm
            BY <2>4, <3>2, <3>3, <3>4, <3>5, <3>11, RanTheArm
        <3> QED BY <2>4, <3>11, <3>12 DEF m7
    <2> QED BY <2>5, <2>6
<1> QED BY <1>1, InitDocs, NextDocs, PTL DEF Spec

\* _clean_pairs leaves none out: of the cold items, those without a twin and
\* the four kinds of pairs there are.
LEMMA PairsPartition ==
    ASSUME NEW cold, IsFiniteSet(DOMAIN cold), NEW warm
    PROVE  LET twins == Twins(cold, warm)
               clean == CleanPairs(cold, warm)
               contaminated == ContaminatedPairs(cold, warm)
               errored == ErroredPairs(cold, warm)
               rest == twins \ (clean \cup contaminated \cup errored)
               alone == DOMAIN cold \ DOMAIN warm
           IN  /\ IsFiniteSet(clean) /\ Cardinality(clean) \in Nat
               /\ Cardinality(contaminated) \in Nat /\ Cardinality(errored) \in Nat
               /\ Cardinality(rest) \in Nat /\ Cardinality(alone) \in Nat
               /\ Cardinality(DOMAIN cold) =
                     Cardinality(clean) + Cardinality(contaminated) + Cardinality(errored)
                     + Cardinality(rest) + Cardinality(alone)
<1> DEFINE both == DOMAIN cold \cap DOMAIN warm
           alone == DOMAIN cold \ DOMAIN warm
           twins == Twins(cold, warm)
           clean == CleanPairs(cold, warm)
           contaminated == ContaminatedPairs(cold, warm)
           errored == ErroredPairs(cold, warm)
           f == [i \in both |-> Pair(cold, warm, i)]
<1>1. /\ IsFiniteSet(both) /\ Cardinality(both) \in Nat /\ Cardinality(alone) \in Nat
      /\ Cardinality(DOMAIN cold) = Cardinality(both) + Cardinality(alone)
    <2>1. alone = DOMAIN cold \ both
        OBVIOUS
    <2> QED BY <2>1, Splits
<1>2. twins = {f[i] : i \in both}
    BY DEF Twins
<1>3. \A i, j \in both : f[i] = f[j] => i = j
    <2>1. \A i \in both : f[i].item = i
        BY DEF Pair
    <2> QED BY <2>1, Zenon
<1> HIDE DEF both
<1>4. IsFiniteSet(twins) /\ Cardinality(twins) = Cardinality(both)
    <2>1. f = [i \in both |-> f[i]]
        OBVIOUS
    <2> HIDE DEF f
    <2> QED BY <1>1, <1>2, <1>3, <2>1, ImageSize
<1>5. /\ clean \subseteq twins /\ contaminated \subseteq twins /\ errored \subseteq twins
      /\ clean \cap contaminated = {} /\ clean \cap errored = {}
      /\ contaminated \cap errored = {}
    BY DEF CleanPairs, ContaminatedPairs, ErroredPairs
<1> HIDE DEF twins, clean, contaminated, errored, alone
<1>6. /\ IsFiniteSet(clean) /\ IsFiniteSet(twins \ clean) /\ Cardinality(clean) \in Nat
      /\ Cardinality(twins) = Cardinality(clean) + Cardinality(twins \ clean)
    BY <1>4, <1>5, Splits
<1>7. /\ IsFiniteSet((twins \ clean) \ contaminated) /\ Cardinality(contaminated) \in Nat
      /\ Cardinality(twins \ clean) =
            Cardinality(contaminated) + Cardinality((twins \ clean) \ contaminated)
    <2>1. contaminated \subseteq twins \ clean
        BY <1>5
    <2> QED BY <1>6, <2>1, Splits
<1>8. LET left == (twins \ clean) \ contaminated
      IN  /\ Cardinality(errored) \in Nat /\ Cardinality(left \ errored) \in Nat
          /\ Cardinality(left) = Cardinality(errored) + Cardinality(left \ errored)
    <2>1. errored \subseteq (twins \ clean) \ contaminated
        BY <1>5
    <2> QED BY <1>7, <2>1, Splits
<1>9. ((twins \ clean) \ contaminated) \ errored = twins \ (clean \cup contaminated \cup errored)
    OBVIOUS
<1> DEFINE rest == twins \ (clean \cup contaminated \cup errored)
<1>10. /\ IsFiniteSet(clean) /\ Cardinality(clean) \in Nat
       /\ Cardinality(contaminated) \in Nat /\ Cardinality(errored) \in Nat
       /\ Cardinality(rest) \in Nat /\ Cardinality(alone) \in Nat
    BY <1>1, <1>6, <1>7, <1>8, <1>9
<1>11. Cardinality(DOMAIN cold) =
           Cardinality(clean) + Cardinality(contaminated) + Cardinality(errored)
           + Cardinality(rest) + Cardinality(alone)
    <2> HIDE DEF rest
    <2>1. Cardinality(rest) = Cardinality(((twins \ clean) \ contaminated) \ errored)
        BY <1>9 DEF rest
    <2> QED BY <1>1, <1>4, <1>6, <1>7, <1>8, <1>10, <2>1
<1> QED BY <1>10, <1>11 DEF twins, clean, contaminated, errored, alone

-----------------------------------------------------------------------------
(* M4.                                                                      *)

\* The miss tax leaves no clean pair out.
LEMMA MissTaxAddsUp ==
    ASSUME NEW pairs, IsFiniteSet(pairs), NEW pair
    PROVE  LET missed == MissedPairs(pairs, pair)
           IN  Cardinality(pairs) =
                   Cardinality(Timed(missed)) + Cardinality(missed \ Timed(missed))
                   + Cardinality(Advertising(pairs)) + Cardinality(NotAudited(pairs))
                   + Cardinality(OutsideClass(pairs, pair)) + Cardinality(Controls(pairs))
<1> DEFINE missed == MissedPairs(pairs, pair)
           silent == Audited(pairs) \ Advertising(pairs)
<1>1. /\ Controls(pairs) \subseteq pairs /\ Candidates(pairs) = pairs \ Controls(pairs)
      /\ Audited(pairs) \subseteq Candidates(pairs)
      /\ NotAudited(pairs) = Candidates(pairs) \ Audited(pairs)
      /\ Advertising(pairs) \subseteq Audited(pairs)
      /\ OutsideClass(pairs, pair) \subseteq silent
      /\ missed = silent \ OutsideClass(pairs, pair)
      /\ Timed(missed) \subseteq missed
    BY DEF Controls, Candidates, Audited, NotAudited, Advertising, OutsideClass, MissedPairs, Timed
<1>2. /\ IsFiniteSet(Candidates(pairs)) /\ Cardinality(Controls(pairs)) \in Nat
      /\ Cardinality(pairs) = Cardinality(Controls(pairs)) + Cardinality(Candidates(pairs))
    BY <1>1, Splits
<1>3. /\ IsFiniteSet(Audited(pairs)) /\ Cardinality(NotAudited(pairs)) \in Nat
      /\ Cardinality(Candidates(pairs)) = Cardinality(Audited(pairs)) + Cardinality(NotAudited(pairs))
    BY <1>1, <1>2, Splits
<1>4. /\ IsFiniteSet(silent) /\ Cardinality(Advertising(pairs)) \in Nat
      /\ Cardinality(Audited(pairs)) = Cardinality(Advertising(pairs)) + Cardinality(silent)
    BY <1>1, <1>3, Splits
<1> HIDE DEF silent
<1>5. /\ IsFiniteSet(missed) /\ Cardinality(OutsideClass(pairs, pair)) \in Nat
      /\ Cardinality(silent) = Cardinality(OutsideClass(pairs, pair)) + Cardinality(missed)
    BY <1>1, <1>4, Splits
<1> HIDE DEF missed
<1>6. /\ Cardinality(Timed(missed)) \in Nat /\ Cardinality(missed \ Timed(missed)) \in Nat
      /\ Cardinality(missed) = Cardinality(Timed(missed)) + Cardinality(missed \ Timed(missed))
    BY <1>1, <1>5, Splits
<1>7. Cardinality(pairs) =
          Cardinality(Timed(missed)) + Cardinality(missed \ Timed(missed))
          + Cardinality(Advertising(pairs)) + Cardinality(NotAudited(pairs))
          + Cardinality(OutsideClass(pairs, pair)) + Cardinality(Controls(pairs))
    BY <1>2, <1>3, <1>4, <1>5, <1>6
<1> QED BY <1>7 DEF missed

\* What a merge prices was looked up and promised nothing, and is no control
\* in either arm; and it prices, or accounts for, every clean pair.
THEOREM MissTaxesAreOfMisses == Spec => []MissTaxIsOfMisses
<1>1. DocsInv => MissTaxIsOfMisses
    <2> SUFFICES ASSUME DocsInv, NEW f \in Files, IsMerged(f), docs[f].paired.present
                 PROVE  LET m4 == TaxOf(f)
                            paired == docs[f].paired
                            clean == paired.total - paired.contaminated - paired.errored
                                     - paired.unpaired - paired.mismatched
                        IN  /\ \A i \in m4.priced :
                                /\ i \in DOMAIN docs[f].config.audit
                                /\ docs[f].config.audit[i] = "silent"
                                /\ \A n \in DOMAIN docs[f].rows : docs[f].rows[n].item = i =>
                                       ~docs[f].rows[n].control
                            /\ m4.pairs # None =>
                                clean = m4.pairs + m4.without_ttft + m4.advertising + m4.not_audited
                                        + m4.outside_class + m4.controls
        BY DEF MissTaxIsOfMisses
    <2> DEFINE rows == docs[f].rows
               cold == ArmRows(rows, "cold")
               warm == ArmRows(rows, "warm")
               pairs == CleanPairs(cold, warm)
               pair == docs[f].config.pair
               missed == MissedPairs(pairs, pair)
    <2>1. PICK m \in campaign.merges :
              /\ docs[f] = MergeDocument(m)
              /\ AllWritten(m) /\ ~Conflict(m) /\ Pairable(m)
        BY MergedIs
    <2>2. PICK coldRun, warmRun : ReadsRuns(m, coldRun, warmRun)
        BY <2>1, MergesReadRuns
    <2>3. PICK len \in Nat : /\ DOMAIN rows = 1 .. len
                             /\ \A j \in 1 .. len : \E n, k : MergedFrom(rows[j], m, n, k)
        BY <2>1, <2>2, MergedRows
    <2>4. docs[f].config.audit = m.audit
        BY <2>1 DEF MergeDocument, WriteResult
    <2>5. PICK reference : docs[f].paired = PairedSummary(rows, docs[f].config.counted, pair, reference)
        BY PairedIsOfTheRows DEF IsMerged
    <2> HIDE DEF rows, pair
    <2>6. /\ TaxOf(f) = MissTaxSummary(pairs, pair)
          /\ docs[f].paired.total = Cardinality(DOMAIN cold)
          /\ docs[f].paired.contaminated = Cardinality(ContaminatedPairs(cold, warm))
          /\ docs[f].paired.errored = Cardinality(ErroredPairs(cold, warm))
          /\ docs[f].paired.unpaired = Cardinality(DOMAIN cold \ DOMAIN warm)
          /\ docs[f].paired.mismatched =
                Cardinality(Twins(cold, warm) \ (pairs \cup ContaminatedPairs(cold, warm)
                                                 \cup ErroredPairs(cold, warm)))
        BY <2>5 DEF PairedSummary, NoSummary, TaxOf
    <2>7. /\ IsFiniteSet(DOMAIN cold)
          /\ \A i \in DOMAIN cold : \E n \in 1 .. len :
                rows[n].arm = "cold" /\ rows[n].item = i /\ cold[i] = rows[n]
          /\ \A i \in DOMAIN warm : \E n \in 1 .. len :
                rows[n].arm = "warm" /\ rows[n].item = i /\ warm[i] = rows[n]
        <3>1. len \in Nat /\ DOMAIN rows = 1 .. len
            BY <2>3
        <3> QED BY <3>1, ArmRowsAre
    <2> HIDE DEF cold, warm
    <2>8. ASSUME NEW i \in TaxOf(f).priced
          PROVE  /\ i \in DOMAIN m.audit /\ m.audit[i] = "silent"
                 /\ \A n \in DOMAIN rows : rows[n].item = i => ~rows[n].control
        <3>1. PICK p \in Timed(missed) : p.item = i
            BY <2>6, <2>8 DEF MissTaxSummary
        <3>2. /\ p \in pairs /\ ~p.cold.control
              /\ p.warm.audit = "joined" /\ ~(p.warm.advertised > 0)
            BY <3>1 DEF Timed, MissedPairs, Audited, Advertising, Advertised, Candidates, Controls,
                        MeasuredRow
        <3>3. /\ i \in DOMAIN cold /\ i \in DOMAIN warm
              /\ p.cold = cold[i] /\ p.warm = warm[i]
            BY <3>1, <3>2 DEF CleanPairs, Twins, Pair
        <3>4. /\ i \in DOMAIN m.audit /\ m.audit[i] = "silent"
            <4>1. PICK n \in 1 .. len : rows[n].item = i /\ warm[i] = rows[n]
                BY <2>7, <3>3
            <4>2. PICK j, k : MergedFrom(rows[n], m, j, k)
                BY <2>3
            <4>3. /\ i \in DOMAIN m.audit /\ m.audit[i] # "absent"
                  /\ m.audit[i] = "advertised" => p.warm.advertised = 1
                BY <3>2, <3>3, <4>1, <4>2 DEF MergedFrom
            <4>4. m.audit[i] \in {"absent", "silent", "advertised"}
                BY <2>1, <4>3, CampaignIs DEF DocsInv, Range
            <4> QED BY <3>2, <4>3, <4>4
        <3>5. ASSUME NEW n \in DOMAIN rows, rows[n].item = i
              PROVE  ~rows[n].control
            <4> DEFINE C == docs[m.cold].rows
            <4>1. PICK l \in 1 .. len : rows[l].item = i /\ rows[l].arm = "cold" /\ p.cold = rows[l]
                BY <2>7, <3>3
            <4>2. PICK j, k : MergedFrom(rows[l], m, j, k)
                BY <2>3
            <4>3. PICK h, g : MergedFrom(rows[n], m, h, g)
                BY <2>3, <3>5
            <4>4. /\ j \in Indexed(C) /\ C[j].item = i /\ rows[l].control = C[j].control
                BY <4>1, <4>2 DEF MergedFrom, IsOf
            <4>5. /\ h \in Indexed(C) /\ C[h].item = i /\ rows[n].control = C[h].control
                BY <3>5, <4>3 DEF MergedFrom, IsOf
            <4>6. j = h
                <5>1. /\ coldRun.max_items \in Nat /\ DOMAIN C = 1 .. coldRun.max_items
                    BY <2>2, RunRows DEF ReadsRuns, DocsInv
                <5>2. i \in Items(C)
                    BY <4>4 DEF Items, Indexed
                <5> HIDE DEF C
                <5> QED BY <4>4, <4>5, <5>1, <5>2, FirstRow
            <4> QED BY <3>2, <4>1, <4>4, <4>5, <4>6
        <3> QED BY <3>4, <3>5
    <2>9. TaxOf(f).pairs # None =>
              Cardinality(pairs) = TaxOf(f).pairs + TaxOf(f).without_ttft + TaxOf(f).advertising
                                   + TaxOf(f).not_audited + TaxOf(f).outside_class + TaxOf(f).controls
        <3>1. IsFiniteSet(pairs)
            BY <2>7, PairsPartition
        <3> HIDE DEF pairs
        <3>2. Cardinality(pairs) =
                   Cardinality(Timed(missed)) + Cardinality(missed \ Timed(missed))
                   + Cardinality(Advertising(pairs)) + Cardinality(NotAudited(pairs))
                   + Cardinality(OutsideClass(pairs, pair)) + Cardinality(Controls(pairs))
            BY <3>1, MissTaxAddsUp
        <3> DEFINE m4 == MissTaxSummary(pairs, pair)
        <3>3. m4.pairs # None => AuditJoined(pairs)
            BY DEF MissTaxSummary
        <3>4. AuditJoined(pairs) =>
                  /\ m4.pairs = Cardinality(Timed(missed))
                  /\ m4.without_ttft = Cardinality(missed \ Timed(missed))
                  /\ m4.advertising = Cardinality(Advertising(pairs))
                  /\ m4.not_audited = Cardinality(NotAudited(pairs))
                  /\ m4.outside_class = Cardinality(OutsideClass(pairs, pair))
                  /\ m4.controls = Cardinality(Controls(pairs))
            BY DEF MissTaxSummary
        <3> HIDE DEF m4, missed
        <3> QED BY <2>6, <3>2, <3>3, <3>4 DEF m4
    <2>10. Cardinality(pairs) =
               docs[f].paired.total - docs[f].paired.contaminated - docs[f].paired.errored
               - docs[f].paired.unpaired - docs[f].paired.mismatched
        <3> DEFINE rest == Twins(cold, warm) \ (pairs \cup ContaminatedPairs(cold, warm)
                                                    \cup ErroredPairs(cold, warm))
        <3>1. /\ Cardinality(pairs) \in Nat
              /\ Cardinality(ContaminatedPairs(cold, warm)) \in Nat
              /\ Cardinality(ErroredPairs(cold, warm)) \in Nat
              /\ Cardinality(rest) \in Nat /\ Cardinality(DOMAIN cold \ DOMAIN warm) \in Nat
              /\ Cardinality(DOMAIN cold) =
                    Cardinality(pairs) + Cardinality(ContaminatedPairs(cold, warm))
                    + Cardinality(ErroredPairs(cold, warm)) + Cardinality(rest)
                    + Cardinality(DOMAIN cold \ DOMAIN warm)
            <4>1. LET t == Twins(cold, warm)
                      p == CleanPairs(cold, warm)
                      c == ContaminatedPairs(cold, warm)
                      e == ErroredPairs(cold, warm)
                      r == t \ (p \cup c \cup e)
                      a == DOMAIN cold \ DOMAIN warm
                  IN  /\ IsFiniteSet(p) /\ Cardinality(p) \in Nat
                      /\ Cardinality(c) \in Nat /\ Cardinality(e) \in Nat
                      /\ Cardinality(r) \in Nat /\ Cardinality(a) \in Nat
                      /\ Cardinality(DOMAIN cold) =
                            Cardinality(p) + Cardinality(c) + Cardinality(e)
                            + Cardinality(r) + Cardinality(a)
                BY <2>7, PairsPartition
            <4> QED BY <4>1, Zenon
        <3> HIDE DEF pairs, rest
        <3>2. docs[f].paired.mismatched = Cardinality(rest)
            BY <2>6 DEF rest
        <3> QED BY <2>6, <3>1, <3>2
    <2> QED BY <2>4, <2>8, <2>9, <2>10 DEF rows
<1> QED BY <1>1, InitDocs, NextDocs, PTL DEF Spec

-----------------------------------------------------------------------------
(* A merge of arms that pair one to one.                                    *)

\* Two arms that pair one to one were asked the same items, in the same order.
LEMMA AskedTheSame ==
    ASSUME DocsInv, NEW m \in campaign.merges, NEW cold, NEW warm, ReadsRuns(m, cold, warm),
           PairingOk(docs[m.cold].rows, docs[m.warm].rows, docs[m.cold].run.sha, docs[m.warm].run.sha)
    PROVE  /\ OneToOne(docs[m.cold], docs[m.warm])
           /\ cold.max_items = warm.max_items
           /\ \A k \in 1 .. warm.max_items : Asked(cold)[k] = Asked(warm)[k]
<1> DEFINE C == docs[m.cold].rows
           W == docs[m.warm].rows
<1>1. /\ cold.max_items \in Nat \ {0} /\ DOMAIN C = 1 .. cold.max_items
      /\ \A k \in 1 .. cold.max_items :
            /\ Asked(cold)[k] = Manifests[cold.manifest][k]
            /\ C[k] = RowFrom(cold, Asked(cold)[k], cold.outcomes[k])
    BY RunRows DEF ReadsRuns, DocsInv
<1>2. /\ warm.max_items \in Nat \ {0} /\ DOMAIN W = 1 .. warm.max_items
      /\ \A k \in 1 .. warm.max_items :
            /\ Asked(warm)[k] = Manifests[warm.manifest][k]
            /\ W[k] = RowFrom(warm, Asked(warm)[k], warm.outcomes[k])
    BY RunRows DEF ReadsRuns, DocsInv
<1>3. OneToOne(docs[m.cold], docs[m.warm])
    BY <1>1, <1>2, OkIsOneToOne
<1>4. cold.manifest = warm.manifest
    <2>1. \A run : RunDocument(run).run.sha = run.manifest
        BY DEF RunDocument, WriteResult, RunRecord
    <2> QED BY <1>3, <2>1 DEF ReadsRuns, OneToOne
<1>5. /\ ItemsOnce(C) /\ ItemsOnce(W)
      /\ \A k \in DOMAIN C : \E l \in DOMAIN W : W[l].item = C[k].item
      /\ \A l \in DOMAIN W : \E k \in DOMAIN C : C[k].item = W[l].item
    BY <1>3 DEF OneToOne, Within
<1> HIDE DEF C, W
<1>6. /\ \A k \in 1 .. cold.max_items : C[k].item = Manifests[warm.manifest][k].item
      /\ \A k \in 1 .. warm.max_items : W[k].item = Manifests[warm.manifest][k].item
    <2>1. \A run, item, outcome : RowFrom(run, item, outcome).item = item.item
        BY DEF RowFrom
    <2> QED BY <1>1, <1>2, <1>4, <2>1
<1>7. ~(cold.max_items < warm.max_items)
    <2> SUFFICES ASSUME cold.max_items < warm.max_items PROVE FALSE
        OBVIOUS
    <2>1. warm.max_items \in DOMAIN W
        BY <1>2
    <2>2. PICK k \in 1 .. cold.max_items : C[k].item = W[warm.max_items].item
        BY <1>1, <1>5, <2>1
    <2>3. k \in 1 .. warm.max_items /\ k # warm.max_items
        BY <1>1, <1>2
    <2> QED BY <1>2, <1>5, <1>6, <2>1, <2>2, <2>3 DEF ItemsOnce
<1>8. ~(warm.max_items < cold.max_items)
    <2> SUFFICES ASSUME warm.max_items < cold.max_items PROVE FALSE
        OBVIOUS
    <2>1. cold.max_items \in DOMAIN C
        BY <1>1
    <2>2. PICK k \in 1 .. warm.max_items : W[k].item = C[cold.max_items].item
        BY <1>2, <1>5, <2>1
    <2>3. k \in 1 .. cold.max_items /\ k # cold.max_items
        BY <1>1, <1>2
    <2> QED BY <1>1, <1>5, <1>6, <2>1, <2>2, <2>3 DEF ItemsOnce
<1>9. cold.max_items = warm.max_items
    BY <1>1, <1>2, <1>7, <1>8
<1> QED BY <1>1, <1>2, <1>3, <1>4, <1>9

\* The rows of a merge of n pairs: of each item its cold row and its warm one.
Joins(row, run, arm) == IsOf(row, run, arm) /\ Bare(row) = Bare(run) /\ Bare(run).item = run.item
IsWhole(rows, cold, warm, n) ==
    /\ n \in Nat \ {0}
    /\ DOMAIN cold = 1 .. n /\ DOMAIN warm = 1 .. n /\ Len(cold) = n /\ Len(warm) = n
    /\ ItemsOnce(cold) /\ ItemsOnce(warm)
    /\ DOMAIN rows = 1 .. 2 * n /\ Len(rows) = 2 * n
    /\ \A k \in 1 .. n :
          /\ cold[k].item = warm[k].item /\ cold[k].class = warm[k].class
          /\ cold[k].position = warm[k].position
          /\ Joins(rows[2 * k - 1], cold[k], "cold") /\ Joins(rows[2 * k], warm[k], "warm")

\* Of n pairs, the two rows of each in turn.
InPairs(rows, cold, warm, n) ==
    /\ Len(rows) = 2 * n /\ DOMAIN rows = 1 .. 2 * n
    /\ \A k \in 1 .. n : /\ rows[2 * k - 1] = Stamped(cold[k], "cold")
                         /\ rows[2 * k] = Stamped(warm[k], "warm")

\* Without a fault the join has every pair.
LEMMA JoinIsWhole ==
    ASSUME NEW n \in Nat \ {0}, NEW cold, DOMAIN cold = 1 .. n, NEW warm, DOMAIN warm = 1 .. n,
           NEW coldSha, NEW warmSha, PairingOk(cold, warm, coldSha, warmSha),
           \A k \in 1 .. n : cold[k].item = warm[k].item
    PROVE  InPairs(JoinArms(cold, warm), cold, warm, n)
<1> DEFINE a == [k \in 1 .. n |-> Stamped(cold[k], "cold")]
           b == [k \in 1 .. n |-> Stamped(warm[k], "warm")]
           T == {a[k] : k \in 1 .. n} \cup {b[k] : k \in 1 .. n}
           rows == JoinArms(cold, warm)
<1>1. ASSUME NEW k \in 1 .. n
      PROVE  /\ k \in Indexed(cold) /\ cold[k].item \in PairedItems(cold, warm)
             /\ RowOf(warm, cold[k].item) = warm[k]
    <2>1. Repeated(cold) = {} /\ Repeated(warm) = {}
        BY DEF PairingOk
    <2>2. k \in Indexed(cold) /\ RowOf(warm, warm[k].item) = warm[k]
        BY <2>1, NoneRepeats
    <2>3. cold[k].item \in Items(cold)
        BY DEF Items
    <2> QED BY <2>2, <2>3 DEF PairingOk, Unpaired
<1> DEFINE seqs == [k \in 1 .. n |->
                       IF k \in Indexed(cold) /\ cold[k].item \in PairedItems(cold, warm)
                       THEN <<Stamped(cold[k], "cold"), Stamped(RowOf(warm, cold[k].item), "warm")>>
                       ELSE <<>>]
<1>2. Len(seqs) = n /\ rows = FlattenSeq(seqs)
    BY DEF JoinArms
<1>3. \A k \in 1 .. n : /\ a[k] = Stamped(cold[k], "cold") /\ b[k] = Stamped(warm[k], "warm")
    OBVIOUS
<1>4. ASSUME NEW k \in 1 .. n
      PROVE  /\ seqs[k] \in Seq(T) /\ Len(seqs[k]) = 2
             /\ seqs[k][1] = a[k] /\ seqs[k][2] = b[k]
    <2>1. a[k] \in T /\ b[k] \in T
        OBVIOUS
    <2>2. seqs[k] = <<a[k], b[k]>>
        BY <1>1
    <2> HIDE DEF T, a, b, seqs
    <2> QED BY <2>1, <2>2
<1> HIDE DEF a, b, T, rows, seqs
<1>5. /\ rows \in Seq(T) /\ Len(rows) = 2 * n
      /\ \A k \in 1 .. n : rows[2 * k - 1] = a[k] /\ rows[2 * k] = b[k]
    <2>1. /\ FlattenSeq(seqs) \in Seq(T) /\ Len(FlattenSeq(seqs)) = 2 * n
          /\ \A k \in 1 .. n : /\ FlattenSeq(seqs)[2 * k - 1] = seqs[k][1]
                               /\ FlattenSeq(seqs)[2 * k] = seqs[k][2]
        <3>1. \A i \in 1 .. n : seqs[i] \in Seq(T) /\ Len(seqs[i]) = 2
            BY <1>4
        <3>2. Len(seqs) = n
            BY <1>2
        <3> QED BY <3>1, <3>2, FlattenPairs
    <2> QED BY <1>2, <1>4, <2>1
<1>6. DOMAIN rows = 1 .. 2 * n
    BY <1>5
<1>7. InPairs(rows, cold, warm, n)
    BY <1>3, <1>5, <1>6 DEF InPairs
<1> QED BY <1>7 DEF rows

\* The rows of a merge that was not allowed to leave any out.
LEMMA MergeIsWhole ==
    ASSUME DocsInv, NEW m \in campaign.merges, NEW cold, NEW warm, ReadsRuns(m, cold, warm),
           PairingOk(docs[m.cold].rows, docs[m.warm].rows, docs[m.cold].run.sha, docs[m.warm].run.sha)
    PROVE  IsWhole(MergeDocument(m).rows, docs[m.cold].rows, docs[m.warm].rows, warm.max_items)
<1> DEFINE C == docs[m.cold].rows
           W == docs[m.warm].rows
           n == warm.max_items
           joined == JoinArms(C, W)
           rows == MergeDocument(m).rows
<1>1. /\ n \in Nat \ {0} /\ ItemsOnce(C) /\ ItemsOnce(W)
      /\ DOMAIN C = 1 .. n /\ Len(C) = n /\ DOMAIN W = 1 .. n /\ Len(W) = n
      /\ \A k \in 1 .. n : /\ C[k] = RowFrom(cold, Asked(warm)[k], cold.outcomes[k])
                           /\ W[k] = RowFrom(warm, Asked(warm)[k], warm.outcomes[k])
    <2>1. /\ warm.max_items \in Nat \ {0} /\ DOMAIN W = 1 .. warm.max_items /\ Len(W) = warm.max_items
          /\ \A k \in 1 .. warm.max_items : W[k] = RowFrom(warm, Asked(warm)[k], warm.outcomes[k])
        BY RunRows DEF ReadsRuns, DocsInv
    <2>2. /\ DOMAIN C = 1 .. cold.max_items /\ Len(C) = cold.max_items
          /\ \A k \in 1 .. cold.max_items : C[k] = RowFrom(cold, Asked(cold)[k], cold.outcomes[k])
        BY RunRows DEF ReadsRuns, DocsInv
    <2>3. /\ ItemsOnce(C) /\ ItemsOnce(W) /\ cold.max_items = warm.max_items
          /\ \A k \in 1 .. warm.max_items : Asked(cold)[k] = Asked(warm)[k]
        BY AskedTheSame DEF OneToOne
    <2> HIDE DEF C, W
    <2> QED BY <2>1, <2>2, <2>3
<1>2. \A run, item, outcome :
          LET row == RowFrom(run, item, outcome)
          IN  /\ row.item = item.item /\ row.class = item.class /\ row.position = item.position
              /\ "item" \in DOMAIN row
    BY DEF RowFrom
<1>3. \A run, item, outcome, role :
          IsOf(Stamped(RowFrom(run, item, outcome), role), RowFrom(run, item, outcome), role)
    BY RowIs
<1>4. rows = JoinAudit(joined, m.audit)
    BY DEF MergeDocument, WriteResult
<1> HIDE DEF C, W, n, rows
<1>5. \A k \in 1 .. n : C[k].item = W[k].item /\ C[k].class = W[k].class /\ C[k].position = W[k].position
    BY <1>1, <1>2
<1>6. /\ Len(joined) = 2 * n /\ DOMAIN joined = 1 .. 2 * n
      /\ \A k \in 1 .. n : /\ joined[2 * k - 1] = Stamped(C[k], "cold")
                           /\ joined[2 * k] = Stamped(W[k], "warm")
    <2>1. \A k \in 1 .. n : C[k].item = W[k].item
        BY <1>5
    <2>2. PICK x, y : PairingOk(C, W, x, y)
        BY DEF C, W
    <2>3. DOMAIN C = 1 .. n /\ DOMAIN W = 1 .. n /\ n \in Nat \ {0}
        BY <1>1
    <2>4. InPairs(JoinArms(C, W), C, W, n)
        BY <2>1, <2>2, <2>3, JoinIsWhole
    <2> QED BY <2>4 DEF InPairs
<1> HIDE DEF joined
<1>7. DOMAIN rows = 1 .. 2 * n /\ Len(rows) = 2 * n
    <2>1. CASE m.audit = NoAudit
        BY <1>4, <1>6, <2>1 DEF JoinAudit
    <2>2. CASE m.audit # NoAudit
        <3> DEFINE row(j) == [joined[j] EXCEPT
                !.audit = IF Spoken(joined[j], m.audit) THEN "joined" ELSE "unspoken",
                !.advertised = IF /\ Spoken(joined[j], m.audit)
                                  /\ m.audit[joined[j].item] = "advertised"
                               THEN 1 ELSE None]
        <3>1. rows = [j \in 1 .. 2 * n |-> row(j)]
            BY <1>4, <1>6, <2>2 DEF JoinAudit
        <3> HIDE DEF row
        <3>2. 2 * n \in Nat
            BY <1>1
        <3> QED BY <3>1, <3>2
    <2> QED BY <2>1, <2>2
<1>8. ASSUME NEW j \in 1 .. 2 * n, NEW run, NEW arm, joined[j] = Stamped(run, arm),
             IsOf(Stamped(run, arm), run, arm), "item" \in DOMAIN run
      PROVE  Joins(rows[j], run, arm)
    <2>1. CASE m.audit = NoAudit
        <3>1. rows[j] = Stamped(run, arm)
            BY <1>4, <1>8, <2>1 DEF JoinAudit
        <3>2. Bare(Stamped(run, arm)) = Bare(run) /\ Bare(run).item = run.item
            BY <1>8 DEF Bare, Stamped
        <3> QED BY <1>8, <3>1, <3>2 DEF Joins
    <2>2. CASE m.audit # NoAudit
        <3>1. PICK x, y : rows[j] = [Stamped(run, arm) EXCEPT !.audit = x, !.advertised = y]
            BY <1>4, <1>6, <1>8, <2>2 DEF JoinAudit
        <3>2. Bare(rows[j]) = Bare(run) /\ Bare(run).item = run.item
            BY <1>8, <3>1 DEF Bare, Stamped
        <3> DEFINE joint == Stamped(run, arm)
        <3>3. rows[j] = [joint EXCEPT !.audit = x, !.advertised = y] /\ IsOf(joint, run, arm)
            BY <1>8, <3>1
        <3> HIDE DEF joint
        <3>4. IsOf(rows[j], run, arm)
            BY <3>3 DEF IsOf
        <3> QED BY <3>2, <3>4 DEF Joins
    <2> QED BY <2>1, <2>2
<1>9. ASSUME NEW k \in 1 .. n
      PROVE  Joins(rows[2 * k - 1], C[k], "cold") /\ Joins(rows[2 * k], W[k], "warm")
    <2>1. 2 * k - 1 \in 1 .. 2 * n /\ 2 * k \in 1 .. 2 * n
        BY <1>1
    <2>2. /\ IsOf(Stamped(C[k], "cold"), C[k], "cold") /\ "item" \in DOMAIN C[k]
          /\ IsOf(Stamped(W[k], "warm"), W[k], "warm") /\ "item" \in DOMAIN W[k]
        BY <1>1, <1>2, <1>3
    <2> QED BY <1>6, <1>8, <2>1, <2>2
<1>10. IsWhole(rows, C, W, n)
    BY <1>1, <1>5, <1>7, <1>9 DEF IsWhole
<1> QED BY <1>10 DEF C, W, n, rows

\* Each of its rows is the cold or the warm one of a pair.
LEMMA EveryRow ==
    ASSUME NEW n \in Nat, NEW j \in 1 .. 2 * n
    PROVE  \E k \in 1 .. n : j = 2 * k - 1 \/ j = 2 * k
<1> DEFINE k == (j + 1) \div 2
<1>1. k \in 1 .. n /\ (j = 2 * k - 1 \/ j = 2 * k)
    OBVIOUS
<1> QED BY <1>1

\* The row of each item in either arm of such a merge.
ArmsAre(c, w, rows, cold, n) ==
    /\ DOMAIN w = DOMAIN c /\ IsFiniteSet(DOMAIN c) /\ Cardinality(DOMAIN c) = n
    /\ DOMAIN c = {cold[k].item : k \in 1 .. n}
    /\ \A k \in 1 .. n : /\ cold[k].item \in DOMAIN c
                         /\ c[cold[k].item] = rows[2 * k - 1] /\ w[cold[k].item] = rows[2 * k]
    /\ \A i \in DOMAIN c : \E k \in 1 .. n : i = cold[k].item

\* Both arms of such a merge hold the same items, each by its own rows.
LEMMA WholeArms ==
    ASSUME NEW rows, NEW cold, NEW warm, NEW n, IsWhole(rows, cold, warm, n)
    PROVE  ArmsAre(ArmRows(rows, "cold"), ArmRows(rows, "warm"), rows, cold, n)
<1> DEFINE c == ArmRows(rows, "cold")
           w == ArmRows(rows, "warm")
           items == {cold[k].item : k \in 1 .. n}
<1>1. /\ n \in Nat \ {0} /\ DOMAIN rows = 1 .. 2 * n /\ 2 * n \in Nat
      /\ \A k, l \in 1 .. n : cold[k].item = cold[l].item => k = l
    <2>1. n \in Nat \ {0} /\ DOMAIN rows = 1 .. 2 * n /\ DOMAIN cold = 1 .. n /\ ItemsOnce(cold)
        BY DEF IsWhole
    <2> QED BY <2>1 DEF ItemsOnce
<1>2. \A k \in 1 .. n :
          /\ 2 * k - 1 \in 1 .. 2 * n /\ 2 * k \in 1 .. 2 * n
          /\ rows[2 * k - 1].arm = "cold" /\ rows[2 * k - 1].item = cold[k].item
          /\ rows[2 * k].arm = "warm" /\ rows[2 * k].item = cold[k].item
    BY DEF IsWhole, Joins, IsOf
<1>3. \A j \in 1 .. 2 * n : \E k \in 1 .. n : j = 2 * k - 1 \/ j = 2 * k
    BY <1>1, EveryRow
<1>4. ASSUME NEW i \in DOMAIN c
      PROVE  \E k \in 1 .. n : i = cold[k].item /\ c[i] = rows[2 * k - 1]
    <2>1. PICK j \in 1 .. 2 * n : rows[j].arm = "cold" /\ rows[j].item = i /\ c[i] = rows[j]
        BY <1>1, ArmRowsAre
    <2>2. PICK k \in 1 .. n : j = 2 * k - 1 \/ j = 2 * k
        BY <1>3
    <2> QED BY <1>2, <2>1, <2>2
<1>5. ASSUME NEW i \in DOMAIN w
      PROVE  \E k \in 1 .. n : i = cold[k].item /\ w[i] = rows[2 * k]
    <2>1. PICK j \in 1 .. 2 * n : rows[j].arm = "warm" /\ rows[j].item = i /\ w[i] = rows[j]
        BY <1>1, ArmRowsAre
    <2>2. PICK k \in 1 .. n : j = 2 * k - 1 \/ j = 2 * k
        BY <1>3
    <2> QED BY <1>2, <2>1, <2>2
<1>6. ASSUME NEW k \in 1 .. n
      PROVE  cold[k].item \in DOMAIN c /\ cold[k].item \in DOMAIN w
    <2>1. \A j \in 1 .. 2 * n : rows[j].arm = "cold" => rows[j].item \in DOMAIN c
        BY <1>1, ArmRowsAre
    <2>2. \A j \in 1 .. 2 * n : rows[j].arm = "warm" => rows[j].item \in DOMAIN w
        BY <1>1, ArmRowsAre
    <2> HIDE DEF c, w
    <2> QED BY <1>2, <2>1, <2>2
<1> HIDE DEF c, w
<1>7. ASSUME NEW k \in 1 .. n
      PROVE  c[cold[k].item] = rows[2 * k - 1] /\ w[cold[k].item] = rows[2 * k]
    <2>1. PICK l \in 1 .. n : cold[k].item = cold[l].item /\ c[cold[k].item] = rows[2 * l - 1]
        BY <1>4, <1>6
    <2>2. PICK h \in 1 .. n : cold[k].item = cold[h].item /\ w[cold[k].item] = rows[2 * h]
        BY <1>5, <1>6
    <2>3. l = k /\ h = k
        BY <1>1, <2>1, <2>2
    <2> QED BY <2>1, <2>2, <2>3
<1>8. DOMAIN c = items /\ DOMAIN w = items
    BY <1>4, <1>5, <1>6
<1>9. IsFiniteSet(items) /\ Cardinality(items) = n
    <2> DEFINE S == 1 .. n
               f == [k \in S |-> cold[k].item]
    <2>1. /\ items = {f[k] : k \in S} /\ f = [k \in S |-> f[k]]
          /\ \A k, l \in S : f[k] = f[l] => k = l
        BY <1>1
    <2>2. IsFiniteSet(S) /\ Cardinality(S) = n
        BY <1>1, FS_Interval
    <2> HIDE DEF S, f, items
    <2> QED BY <2>1, <2>2, ImageSize
<1>10. ArmsAre(c, w, rows, cold, n)
    BY <1>4, <1>6, <1>7, <1>8, <1>9 DEF ArmsAre
<1> QED BY <1>10 DEF c, w

\* A merge that was not allowed to leave any row out has left none out, nor
\* made one up: each row of the two runs is in it once, and each item of
\* theirs in one of the counts.
THEOREM MergesKeepTheRows == Spec => []MergedRowsWhole
<1>1. DocsInv => MergedRowsWhole
    <2> SUFFICES ASSUME DocsInv, NEW f \in Files, IsMerged(f), ~docs[f].config.unpaired
                 PROVE  LET cold == docs[docs[f].config.cold].rows
                            warm == docs[docs[f].config.warm].rows
                            paired == docs[f].paired
                        IN  /\ Len(docs[f].rows) = Len(cold) + Len(warm)
                            /\ Holds(docs[f].rows, "cold", cold) /\ Holds(docs[f].rows, "warm", warm)
                            /\ paired.present
                            /\ paired.total = Len(cold) /\ paired.unpaired = 0
                            /\ paired.mismatched = 0
                            /\ paired.used + paired.contaminated + paired.errored <= paired.total
        BY DEF MergedRowsWhole
    <2>1. PICK m \in campaign.merges :
              /\ docs[f] = MergeDocument(m)
              /\ AllWritten(m) /\ ~Conflict(m) /\ Pairable(m)
        BY MergedIs
    <2>2. PICK coldRun, warmRun : ReadsRuns(m, coldRun, warmRun)
        BY <2>1, MergesReadRuns
    <2>3. /\ docs[f].config.cold = m.cold /\ docs[f].config.warm = m.warm
          /\ docs[f].config.unpaired = m.unpaired
        BY <2>1 DEF MergeDocument, WriteResult
    <2> DEFINE C == docs[m.cold].rows
               W == docs[m.warm].rows
               n == warmRun.max_items
               rows == docs[f].rows
               cold == ArmRows(rows, "cold")
               warm == ArmRows(rows, "warm")
               pairs == CleanPairs(cold, warm)
               out == Twins(cold, warm) \ (pairs \cup ContaminatedPairs(cold, warm)
                                           \cup ErroredPairs(cold, warm))
    <2>4. IsWhole(rows, C, W, n)
        BY <2>1, <2>2, <2>3, MergeIsWhole DEF Pairable
    <2>5. PICK reference :
              docs[f].paired = PairedSummary(rows, docs[f].config.counted, docs[f].config.pair, reference)
        BY PairedIsOfTheRows DEF IsMerged
    <2> HIDE DEF rows, C, W, n
    <2>6. ArmsAre(cold, warm, rows, C, n)
        BY <2>4, WholeArms
    <2>7. n \in Nat \ {0} /\ Len(C) = n /\ Len(W) = n /\ Len(rows) = 2 * n
        BY <2>4 DEF IsWhole
    <2>8. DOMAIN cold # {} /\ DOMAIN warm # {}
        <3>1. 1 \in 1 .. n
            BY <2>7
        <3> HIDE DEF cold, warm
        <3> QED BY <2>6, <3>1 DEF ArmsAre
    <2>9. /\ docs[f].paired.present
          /\ docs[f].paired.total = Cardinality(DOMAIN cold)
          /\ docs[f].paired.used = Cardinality(Timed(pairs))
          /\ docs[f].paired.contaminated = Cardinality(ContaminatedPairs(cold, warm))
          /\ docs[f].paired.errored = Cardinality(ErroredPairs(cold, warm))
          /\ docs[f].paired.unpaired = Cardinality(DOMAIN cold \ DOMAIN warm)
          /\ docs[f].paired.mismatched = Cardinality(out)
        BY <2>5, <2>8 DEF PairedSummary
    <2> HIDE DEF cold, warm
    <2>10. DOMAIN cold \ DOMAIN warm = {}
        BY <2>6 DEF ArmsAre
    <2>11. out = {}
        <3> SUFFICES ASSUME NEW p \in Twins(cold, warm)
                     PROVE  SamePosition(p)
            BY DEF CleanPairs, ContaminatedPairs, ErroredPairs
        <3>1. PICK k \in 1 .. n : p.cold = rows[2 * k - 1] /\ p.warm = rows[2 * k]
            BY <2>6 DEF ArmsAre, Twins, Pair
        <3>2. p.cold.position = p.warm.position
            <4>1. IsOf(rows[2 * k - 1], C[k], "cold") /\ IsOf(rows[2 * k], W[k], "warm")
                BY <2>4 DEF IsWhole, Joins
            <4>2. C[k].position = W[k].position
                BY <2>4 DEF IsWhole
            <4> QED BY <3>1, <4>1, <4>2 DEF IsOf
        <3> QED BY <3>2 DEF SamePosition
    <2>12. docs[f].paired.unpaired = 0 /\ docs[f].paired.mismatched = 0
        <3> HIDE DEF out
        <3> QED BY <2>9, <2>10, <2>11, FS_EmptySet
    <2>13. Cardinality(Timed(pairs)) <= Cardinality(pairs) /\ Cardinality(Timed(pairs)) \in Nat
        <3>1. IsFiniteSet(pairs)
            BY <2>6, PairsPartition DEF ArmsAre
        <3>2. Timed(pairs) \subseteq pairs
            BY DEF Timed
        <3> HIDE DEF pairs
        <3>3. /\ Cardinality(Timed(pairs)) \in Nat /\ Cardinality(pairs \ Timed(pairs)) \in Nat
              /\ Cardinality(pairs) = Cardinality(Timed(pairs)) + Cardinality(pairs \ Timed(pairs))
            BY <3>1, <3>2, Splits
        <3> QED BY <3>3
    <2>14. docs[f].paired.used + docs[f].paired.contaminated + docs[f].paired.errored
               <= docs[f].paired.total
        <3>1. /\ Cardinality(pairs) \in Nat
              /\ Cardinality(ContaminatedPairs(cold, warm)) \in Nat
              /\ Cardinality(ErroredPairs(cold, warm)) \in Nat
              /\ Cardinality(out) \in Nat /\ Cardinality(DOMAIN cold \ DOMAIN warm) \in Nat
              /\ Cardinality(DOMAIN cold) =
                    Cardinality(pairs) + Cardinality(ContaminatedPairs(cold, warm))
                    + Cardinality(ErroredPairs(cold, warm)) + Cardinality(out)
                    + Cardinality(DOMAIN cold \ DOMAIN warm)
            <4>1. IsFiniteSet(DOMAIN cold)
                BY <2>6 DEF ArmsAre
            <4>2. LET t == Twins(cold, warm)
                      p == CleanPairs(cold, warm)
                      c == ContaminatedPairs(cold, warm)
                      e == ErroredPairs(cold, warm)
                      r == t \ (p \cup c \cup e)
                      a == DOMAIN cold \ DOMAIN warm
                  IN  /\ IsFiniteSet(p) /\ Cardinality(p) \in Nat
                      /\ Cardinality(c) \in Nat /\ Cardinality(e) \in Nat
                      /\ Cardinality(r) \in Nat /\ Cardinality(a) \in Nat
                      /\ Cardinality(DOMAIN cold) =
                            Cardinality(p) + Cardinality(c) + Cardinality(e)
                            + Cardinality(r) + Cardinality(a)
                BY <4>1, PairsPartition
            <4> QED BY <4>2, Zenon
        <3> HIDE DEF pairs, out
        <3> QED BY <2>9, <2>13, <3>1
    <2>15. Holds(rows, "cold", C)
        <3> SUFFICES ASSUME NEW k \in DOMAIN C
                     PROVE  Cardinality({j \in DOMAIN rows :
                                rows[j].arm = "cold" /\ Bare(rows[j]) = Bare(C[k])}) = 1
            BY DEF Holds
        <3>1. {j \in DOMAIN rows : rows[j].arm = "cold" /\ Bare(rows[j]) = Bare(C[k])} = {2 * k - 1}
            <4>1. k \in 1 .. n
                BY <2>4 DEF IsWhole
            <4>2. /\ 2 * k - 1 \in DOMAIN rows /\ rows[2 * k - 1].arm = "cold"
                  /\ Bare(rows[2 * k - 1]) = Bare(C[k])
                BY <2>4, <4>1 DEF IsWhole, Joins, IsOf
            <4>3. ASSUME NEW j \in DOMAIN rows, rows[j].arm = "cold", Bare(rows[j]) = Bare(C[k])
                  PROVE  j = 2 * k - 1
                <5>1. PICK l \in 1 .. n : j = 2 * l - 1 \/ j = 2 * l
                    BY <2>4, EveryRow DEF IsWhole
                <5>2. j = 2 * l - 1
                    BY <2>4, <4>3, <5>1 DEF IsWhole, Joins, IsOf
                <5>3. Joins(rows[2 * l - 1], C[l], "cold")
                    BY <2>4 DEF IsWhole
                <5>4. Joins(rows[2 * k - 1], C[k], "cold")
                    BY <2>4, <4>1 DEF IsWhole
                <5>5. /\ Bare(rows[j]) = Bare(C[l]) /\ Bare(C[l]).item = C[l].item
                      /\ Bare(C[k]).item = C[k].item
                    BY <5>2, <5>3, <5>4 DEF Joins
                <5>6. C[l].item = C[k].item
                    BY <4>3, <5>5
                <5> QED BY <2>4, <4>1, <5>2, <5>6 DEF IsWhole, ItemsOnce
            <4> QED BY <4>2, <4>3
        <3> QED BY <3>1, FS_Singleton
    <2>16. Holds(rows, "warm", W)
        <3> SUFFICES ASSUME NEW k \in DOMAIN W
                     PROVE  Cardinality({j \in DOMAIN rows :
                                rows[j].arm = "warm" /\ Bare(rows[j]) = Bare(W[k])}) = 1
            BY DEF Holds
        <3>1. {j \in DOMAIN rows : rows[j].arm = "warm" /\ Bare(rows[j]) = Bare(W[k])} = {2 * k}
            <4>1. k \in 1 .. n
                BY <2>4 DEF IsWhole
            <4>2. /\ 2 * k \in DOMAIN rows /\ rows[2 * k].arm = "warm"
                  /\ Bare(rows[2 * k]) = Bare(W[k])
                BY <2>4, <4>1 DEF IsWhole, Joins, IsOf
            <4>3. ASSUME NEW j \in DOMAIN rows, rows[j].arm = "warm", Bare(rows[j]) = Bare(W[k])
                  PROVE  j = 2 * k
                <5>1. PICK l \in 1 .. n : j = 2 * l - 1 \/ j = 2 * l
                    BY <2>4, EveryRow DEF IsWhole
                <5>2. j = 2 * l
                    BY <2>4, <4>3, <5>1 DEF IsWhole, Joins, IsOf
                <5>3. Joins(rows[2 * l], W[l], "warm")
                    BY <2>4 DEF IsWhole
                <5>4. Joins(rows[2 * k], W[k], "warm")
                    BY <2>4, <4>1 DEF IsWhole
                <5>5. /\ Bare(rows[j]) = Bare(W[l]) /\ Bare(W[l]).item = W[l].item
                      /\ Bare(W[k]).item = W[k].item
                    BY <5>2, <5>3, <5>4 DEF Joins
                <5>6. W[l].item = W[k].item
                    BY <4>3, <5>5
                <5> QED BY <2>4, <4>1, <5>2, <5>6 DEF IsWhole, ItemsOnce
            <4> QED BY <4>2, <4>3
        <3> QED BY <3>1, FS_Singleton
    <2>17. Len(rows) = Len(C) + Len(W) /\ docs[f].paired.total = Len(C)
        BY <2>6, <2>7, <2>9 DEF ArmsAre
    <2> QED BY <2>3, <2>9, <2>12, <2>14, <2>15, <2>16, <2>17 DEF rows, C, W
<1> QED BY <1>1, InitDocs, NextDocs, PTL DEF Spec

-----------------------------------------------------------------------------
(* M7.                                                                      *)

\* _count_propagation leaves no probe out.
LEMMA ProbesAddUp ==
    ASSUME NEW probes, IsFiniteSet(probes), NEW warm, NEW answers
    PROVE  LET unlinked == Unlinked(probes)
               unserved == Unserved(probes, warm)
               unanswered == Unanswered(probes, warm)
               scored == Scored(probes, warm, answers)
               unscored == Readable(probes, warm) \ scored
           IN  /\ Cardinality(unlinked) \in Nat /\ Cardinality(unserved) \in Nat
               /\ Cardinality(unanswered) \in Nat /\ Cardinality(scored) \in Nat
               /\ Cardinality(unscored) \in Nat
               /\ Cardinality(probes) = Cardinality(scored) + Cardinality(unlinked)
                     + Cardinality(unserved) + Cardinality(unanswered) + Cardinality(unscored)
<1> DEFINE unlinked == Unlinked(probes)
           linked == Linked(probes)
           unserved == Unserved(probes, warm)
           unanswered == Unanswered(probes, warm)
           readable == Readable(probes, warm)
           scored == Scored(probes, warm, answers)
<1>1. /\ unlinked \subseteq probes /\ linked = probes \ unlinked
      /\ unserved \subseteq linked /\ unanswered \subseteq linked \ unserved
      /\ readable = (linked \ unserved) \ unanswered /\ scored \subseteq readable
    BY DEF Unlinked, Linked, Unserved, Unanswered, Readable, Scored
<1> HIDE DEF unlinked, linked, unserved, unanswered, readable, scored
<1>2. /\ IsFiniteSet(linked) /\ Cardinality(unlinked) \in Nat
      /\ Cardinality(probes) = Cardinality(unlinked) + Cardinality(linked)
    BY <1>1, Splits
<1>3. /\ IsFiniteSet(linked \ unserved) /\ Cardinality(unserved) \in Nat
      /\ Cardinality(linked) = Cardinality(unserved) + Cardinality(linked \ unserved)
    BY <1>1, <1>2, Splits
<1>4. /\ IsFiniteSet(readable) /\ Cardinality(unanswered) \in Nat
      /\ Cardinality(linked \ unserved) = Cardinality(unanswered) + Cardinality(readable)
    BY <1>1, <1>3, Splits
<1>5. /\ Cardinality(scored) \in Nat /\ Cardinality(readable \ scored) \in Nat
      /\ Cardinality(readable) = Cardinality(scored) + Cardinality(readable \ scored)
    BY <1>1, <1>4, Splits
<1>6. Cardinality(probes) = Cardinality(scored) + Cardinality(unlinked)
          + Cardinality(unserved) + Cardinality(unanswered) + Cardinality(readable \ scored)
    BY <1>2, <1>3, <1>4, <1>5
<1> QED BY <1>2, <1>3, <1>4, <1>5, <1>6
        DEF unlinked, linked, unserved, unanswered, readable, scored

\* What the items of a finite set are is as many, if each is of one element.
LEMMA AsManyItems ==
    ASSUME NEW S, IsFiniteSet(S), \A x, y \in S : x.item = y.item => x = y
    PROVE  LET T == {x.item : x \in S}
           IN  IsFiniteSet(T) /\ Cardinality(T) = Cardinality(S) /\ Cardinality(S) \in Nat
<1> DEFINE f == [x \in S |-> x.item]
           T == {x.item : x \in S}
<1>1. /\ f = [x \in S |-> f[x]] /\ T = {f[x] : x \in S}
      /\ \A x, y \in S : f[x] = f[y] => x = y
    OBVIOUS
<1> HIDE DEF f, T
<1>2. IsFiniteSet(T) /\ Cardinality(T) = Cardinality(S)
    BY <1>1, ImageSize
<1> QED BY <1>2, FS_CardinalityType DEF T

\* The probes that a warm run was asked.
AskedProbes(warm, n) == {k \in 1 .. n : warm[k].class = ProbeClass}

\* The probes that became pairs and those that did not are probes the warm run
\* was asked: together no more than those.
LEMMA ProbesFit ==
    ASSUME NEW rows, NEW cold, NEW warm, NEW n, IsWhole(rows, cold, warm, n),
           NEW c, NEW w, ArmsAre(c, w, rows, cold, n),
           NEW probes, probes = Probes(CleanPairs(c, w)),
           NEW excluded, excluded = {r \in ExcludedRows(c, w) : r.class = ProbeClass}
    PROVE  /\ IsFiniteSet(probes) /\ Cardinality(probes) \in Nat /\ Cardinality(excluded) \in Nat
           /\ Cardinality(probes) + Cardinality(excluded) <= Cardinality(AskedProbes(warm, n))
           /\ Cardinality(AskedProbes(warm, n)) \in Nat
<1> DEFINE K == AskedProbes(warm, n)
           A == {cold[k].item : k \in K}
           P == {p.item : p \in probes}
           E == {r.item : r \in excluded}
<1>1. n \in Nat \ {0}
    BY DEF IsWhole
<1>2. \A k \in 1 .. n :
          /\ cold[k].class = warm[k].class
          /\ rows[2 * k - 1].item = cold[k].item /\ rows[2 * k - 1].class = cold[k].class
          /\ rows[2 * k].class = warm[k].class
    BY DEF IsWhole, Joins, IsOf
<1>3. /\ IsFiniteSet(DOMAIN c)
      /\ \A i \in DOMAIN c : \E k \in 1 .. n :
            i = cold[k].item /\ c[i] = rows[2 * k - 1] /\ w[i] = rows[2 * k]
    BY DEF ArmsAre
<1>4. \A p \in probes :
          /\ p \in CleanPairs(c, w) /\ p.item \in DOMAIN c
          /\ p = Pair(c, w, p.item) /\ w[p.item].class = ProbeClass
    BY DEF Probes, CleanPairs, Twins, Pair
<1>5. \A r \in excluded :
          \E i \in DOMAIN c : /\ r = c[i] /\ c[i].class = ProbeClass
                              /\ \A p \in CleanPairs(c, w) : p.item # i
    BY DEF ExcludedRows
<1> HIDE DEF K
<1>6. ASSUME NEW i \in DOMAIN c
      PROVE  /\ c[i].item = i
             /\ c[i].class = ProbeClass \/ w[i].class = ProbeClass => i \in A
    <2>1. PICK k \in 1 .. n : i = cold[k].item /\ c[i] = rows[2 * k - 1] /\ w[i] = rows[2 * k]
        BY <1>3
    <2>2. c[i].item = i /\ c[i].class = warm[k].class /\ w[i].class = warm[k].class
        BY <1>2, <2>1
    <2>3. warm[k].class = ProbeClass => k \in K
        BY DEF K, AskedProbes
    <2> QED BY <2>1, <2>2, <2>3
<1>7. /\ IsFiniteSet(P) /\ Cardinality(P) = Cardinality(probes) /\ Cardinality(probes) \in Nat
      /\ IsFiniteSet(probes)
    <2>1. IsFiniteSet(probes)
        <3>1. IsFiniteSet(CleanPairs(c, w))
            BY <1>3, PairsPartition
        <3>2. probes \subseteq CleanPairs(c, w)
            BY <1>4
        <3> QED BY <3>1, <3>2, FS_Subset
    <2>2. \A p, q \in probes : p.item = q.item => p = q
        BY <1>4
    <2> QED BY <2>1, <2>2, AsManyItems
<1>8. IsFiniteSet(E) /\ Cardinality(E) = Cardinality(excluded) /\ Cardinality(excluded) \in Nat
    <2>1. IsFiniteSet(excluded)
        <3> DEFINE f == [i \in DOMAIN c |-> c[i]]
        <3>1. f = [i \in DOMAIN c |-> f[i]] /\ excluded \subseteq {f[i] : i \in DOMAIN c}
            BY <1>5
        <3> HIDE DEF f
        <3>2. IsFiniteSet({f[i] : i \in DOMAIN c})
            BY <1>3, <3>1, ImageSize
        <3> QED BY <3>1, <3>2, FS_Subset
    <2>2. \A r, s \in excluded : r.item = s.item => r = s
        BY <1>5, <1>6
    <2> QED BY <2>1, <2>2, AsManyItems
<1>9. /\ IsFiniteSet(A) /\ Cardinality(A) \in Nat /\ Cardinality(A) <= Cardinality(K)
      /\ Cardinality(K) \in Nat
    <2>1. IsFiniteSet(K)
        <3>1. K \subseteq 1 .. n
            BY DEF K, AskedProbes
        <3>2. IsFiniteSet(1 .. n)
            BY <1>1, FS_Interval
        <3> QED BY <3>1, <3>2, FS_Subset
    <2> DEFINE f == [k \in K |-> cold[k].item]
    <2>2. f = [k \in K |-> f[k]] /\ A = {f[k] : k \in K}
        OBVIOUS
    <2> HIDE DEF f, A
    <2> QED BY <2>1, <2>2, ImageSize
<1>10. P \cup E \subseteq A /\ P \cap E = {}
    <2>1. ASSUME NEW p \in probes PROVE p.item \in A
        BY <1>4, <1>6
    <2>2. ASSUME NEW r \in excluded PROVE r.item \in A /\ \A p \in probes : p.item # r.item
        <3>1. PICK i \in DOMAIN c : /\ r = c[i] /\ c[i].class = ProbeClass
                                    /\ \A p \in CleanPairs(c, w) : p.item # i
            BY <1>5
        <3>2. r.item = i /\ i \in A
            BY <1>6, <3>1
        <3> QED BY <1>4, <3>1, <3>2
    <2> HIDE DEF A
    <2> QED BY <2>1, <2>2
<1> HIDE DEF A, P, E
<1>11. /\ IsFiniteSet(P \cup E) /\ Cardinality(P \cup E) \in Nat
       /\ Cardinality(P \cup E) = Cardinality(P) + Cardinality(E)
    <2>1. (P \cup E) \ P = E /\ P \subseteq P \cup E
        BY <1>10
    <2>2. IsFiniteSet(P \cup E)
        BY <1>7, <1>8, FS_Union
    <2>3. /\ Cardinality(P \cup E) \in Nat
          /\ Cardinality(P \cup E) = Cardinality(P) + Cardinality((P \cup E) \ P)
        BY <2>1, <2>2, Splits
    <2> QED BY <2>1, <2>2, <2>3
<1>12. Cardinality(P \cup E) <= Cardinality(A)
    BY <1>9, <1>10, FS_Subset
<1>13. Cardinality(probes) + Cardinality(excluded) <= Cardinality(K)
    BY <1>7, <1>8, <1>9, <1>11, <1>12
<1> QED BY <1>7, <1>8, <1>9, <1>13 DEF K

\* Of arms that pair one to one every probe the warm run was asked is in the
\* denominator of M7, and in one of the counts.
THEOREM EveryProbeIsCounted == Spec => []ProbesAccounted
<1>1. DocsInv => ProbesAccounted
    <2> SUFFICES ASSUME DocsInv, NEW f \in Files, IsMerged(f), ~docs[f].config.unpaired
                 PROVE  LET m7 == PropagationOf(f)
                        IN  /\ m7.denominator = ProbesAsked(docs[f].config.warm)
                            /\ m7.numerator # None =>
                                m7.denominator = m7.scored + m7.excluded + m7.unlinked
                                                 + m7.without_served + m7.without_answers
                                                 + m7.without_reference + m7.absent
        BY DEF ProbesAccounted
    <2>1. PICK m \in campaign.merges :
              /\ docs[f] = MergeDocument(m)
              /\ AllWritten(m) /\ ~Conflict(m) /\ Pairable(m)
        BY MergedIs
    <2>2. PICK coldRun, warmRun : ReadsRuns(m, coldRun, warmRun)
        BY <2>1, MergesReadRuns
    <2>3. /\ docs[f].config.warm = m.warm /\ docs[f].config.unpaired = m.unpaired
          /\ docs[f].config.counted = CountsOf(docs[m.cold], docs[m.warm])
        BY <2>1 DEF MergeDocument, WriteResult
    <2> DEFINE C == docs[m.cold].rows
               W == docs[m.warm].rows
               n == warmRun.max_items
               rows == docs[f].rows
               counted == docs[f].config.counted
               cold == ArmRows(rows, "cold")
               warm == ArmRows(rows, "warm")
               pairs == CleanPairs(cold, warm)
               probes == Probes(pairs)
               excluded == {r \in ExcludedRows(cold, warm) : r.class = ProbeClass}
    <2>4. IsWhole(rows, C, W, n)
        BY <2>1, <2>2, <2>3, MergeIsWhole DEF Pairable
    <2>5. ArmsAre(cold, warm, rows, C, n)
        BY <2>4, WholeArms
    <2>6. /\ Cardinality(AskedProbes(W, n)) \in Nat
          /\ IsFiniteSet(probes) /\ Cardinality(probes) \in Nat /\ Cardinality(excluded) \in Nat
          /\ Cardinality(probes) + Cardinality(excluded) <= Cardinality(AskedProbes(W, n))
        BY <2>4, <2>5, ProbesFit
    <2>7. docs[m.warm].config.counted = Cardinality(AskedProbes(W, n))
        <3>1. /\ DOMAIN Asked(warmRun) = 1 .. n
              /\ \A k \in 1 .. n : W[k] = RowFrom(warmRun, Asked(warmRun)[k], warmRun.outcomes[k])
            BY <2>2, RunRows DEF ReadsRuns, DocsInv
        <3>2. \A run, item, outcome : RowFrom(run, item, outcome).class = item.class
            BY DEF RowFrom
        <3>3. \A run : RunDocument(run).config.counted = ProbesIn(Asked(run))
            BY DEF RunDocument, WriteResult
        <3>4. docs[m.warm].config.counted = ProbesIn(Asked(warmRun))
            BY <2>2, <3>3 DEF ReadsRuns
        <3> HIDE DEF W, n
        <3>5. {k \in DOMAIN Asked(warmRun) : Asked(warmRun)[k].class = ProbeClass} = AskedProbes(W, n)
            BY <3>1, <3>2 DEF AskedProbes
        <3> QED BY <3>4, <3>5 DEF ProbesIn
    <2>8. ProbesAsked(m.warm) = Cardinality(AskedProbes(W, n))
        <3>1. DOMAIN W = 1 .. n
            BY <2>4 DEF IsWhole
        <3> QED BY <3>1 DEF ProbesAsked, AskedProbes
    <2>9. counted = Cardinality(AskedProbes(W, n)) /\ counted # NoCounts
        BY <2>3, <2>6, <2>7 DEF CountsOf, NoCounts, None
    <2>10. PICK reference :
              docs[f].paired = PairedSummary(rows, counted, docs[f].config.pair, reference)
        BY PairedIsOfTheRows DEF IsMerged
    <2>11. DOMAIN cold # {} /\ DOMAIN warm # {}
        <3>1. 1 \in 1 .. n
            BY <2>4 DEF IsWhole
        <3> HIDE DEF cold, warm, n
        <3> QED BY <2>5, <3>1 DEF ArmsAre
    <2> HIDE DEF rows, counted
    <2>12. PropagationOf(f) = PropagationSummary(pairs, warm, ExcludedRows(cold, warm), counted, reference)
        BY <2>10, <2>11 DEF PairedSummary, PropagationOf
    <2> HIDE DEF pairs, cold, warm, C, W, n
    <2> DEFINE m7 == PropagationSummary(pairs, warm, ExcludedRows(cold, warm), counted, reference)
               scored == Scored(probes, warm, ColdAnswers(probes, reference))
               unscored == Readable(probes, warm) \ scored
               left == counted - Cardinality(probes) - Cardinality(excluded)
    <2>13. m7.denominator = counted
        BY <2>9 DEF PropagationSummary, ProbeSet
    <2>14. /\ m7.excluded = Cardinality(excluded)
           /\ m7.unlinked = Cardinality(Unlinked(probes))
           /\ m7.without_served = Cardinality(Unserved(probes, warm))
           /\ m7.numerator # None => m7.scored = Cardinality(scored)
        BY DEF PropagationSummary
    <2>15. \/ /\ m7.without_answers = Cardinality(Unanswered(probes, warm)) + Cardinality(unscored)
              /\ m7.without_reference = 0
           \/ /\ m7.without_answers = Cardinality(Unanswered(probes, warm)) + 0
              /\ m7.without_reference = Cardinality(unscored)
        BY DEF PropagationSummary
    <2>16. m7.absent = IF left < 0 THEN 0 ELSE left
        BY <2>9 DEF PropagationSummary, ProbeSet
    <2> HIDE DEF m7
    <2>17. /\ Cardinality(Unlinked(probes)) \in Nat /\ Cardinality(Unserved(probes, warm)) \in Nat
           /\ Cardinality(Unanswered(probes, warm)) \in Nat /\ Cardinality(scored) \in Nat
           /\ Cardinality(unscored) \in Nat
           /\ Cardinality(probes) = Cardinality(scored) + Cardinality(Unlinked(probes))
                 + Cardinality(Unserved(probes, warm)) + Cardinality(Unanswered(probes, warm))
                 + Cardinality(unscored)
        <3> HIDE DEF probes
        <3> QED BY <2>6, ProbesAddUp DEF probes
    <2> HIDE DEF probes, excluded, scored, unscored
    <2>18. m7.numerator # None =>
               m7.denominator = m7.scored + m7.excluded + m7.unlinked + m7.without_served
                                + m7.without_answers + m7.without_reference + m7.absent
        BY <2>6, <2>9, <2>13, <2>14, <2>15, <2>16, <2>17
    <2> QED BY <2>3, <2>8, <2>9, <2>12, <2>13, <2>18 DEF m7
<1> QED BY <1>1, InitDocs, NextDocs, PTL DEF Spec

-----------------------------------------------------------------------------
(* The median.                                                              *)

\* The k-th of the numbers f on a finite set is that of s.
IsKth(S, f, s, k) == /\ Cardinality({t \in S : f[t] < f[s]}) < k
                     /\ k <= Cardinality({t \in S : f[t] <= f[s]})

\* There is one, as TwiceMedian looks for it.
LEMMA OrderStatistic ==
    ASSUME NEW S, IsFiniteSet(S), NEW f, \A s \in S : f[s] \in Nat,
           NEW k \in Nat \ {0}, k <= Cardinality(S)
    PROVE  \E s \in S : IsKth(S, f, s, k)
<1> DEFINE below(s) == {t \in S : f[t] < f[s]}
           upto(s) == {t \in S : f[t] <= f[s]}
           high == {s \in S : k <= Cardinality(upto(s))}
           values == {f[s] : s \in high}
<1>1. /\ Cardinality(S) \in Nat /\ S # {}
      /\ \A s \in S : /\ IsFiniteSet(below(s)) /\ Cardinality(below(s)) \in Nat
                      /\ IsFiniteSet(upto(s)) /\ Cardinality(upto(s)) \in Nat
    BY FS_Subset, FS_CardinalityType, FS_EmptySet
<1>2. high # {}
    <2>1. PICK s \in S : \A t \in S : f[t] <= f[s]
        BY <1>1, Highest
    <2>2. upto(s) = S
        BY <2>1
    <2> QED BY <2>2
<1>3. PICK s \in high : \A t \in high : f[s] <= f[t]
    <2>1. values # {} /\ values \in SUBSET Nat
        BY <1>2
    <2> HIDE DEF values
    <2>2. PICK v \in values : \A u \in values : v <= u
        BY <2>1, Least
    <2> HIDE DEF high
    <2> QED BY <2>2 DEF values
<1>4. Cardinality(below(s)) < k
    <2> SUFFICES ASSUME ~(Cardinality(below(s)) < k) PROVE FALSE
        OBVIOUS
    <2>1. below(s) # {} /\ IsFiniteSet(below(s)) /\ \A t \in below(s) : f[t] \in Nat
        BY <1>1, <1>3, FS_EmptySet
    <2>2. PICK t \in below(s) : \A u \in below(s) : f[u] <= f[t]
        <3> HIDE DEF below
        <3> QED BY <2>1, Highest
    <2>3. t \in S /\ f[t] < f[s] /\ below(s) \subseteq upto(t)
        BY <2>2
    <2>4. Cardinality(below(s)) <= Cardinality(upto(t))
        <3> HIDE DEF below, upto
        <3> QED BY <1>1, <1>3, <2>3, FS_Subset
    <2>5. t \in high
        <3> HIDE DEF below, upto
        <3>1. Cardinality(below(s)) \in Nat /\ Cardinality(upto(t)) \in Nat
            BY <1>1, <1>3, <2>3
        <3> QED BY <2>3, <2>4, <3>1
    <2> QED BY <1>3, <2>3, <2>5
<1> QED BY <1>3, <1>4 DEF IsKth

\* At least half of the numbers are no smaller than half of twice their median.
LEMMA HalfReachTheMedian ==
    ASSUME NEW S, IsFiniteSet(S), S # {}, NEW f, DOMAIN f = S, \A s \in S : f[s] \in Nat,
           NEW bound \in Int, TwiceMedian(f) >= bound
    PROVE  LET fast == {s \in S : 2 * f[s] >= bound}
           IN  2 * Cardinality(fast) >= Cardinality(S)
<1> DEFINE below(s) == {t \in S : f[t] < f[s]}
           upto(s) == {t \in S : f[t] <= f[s]}
           n == Cardinality(S)
           at(k) == CHOOSE s \in S : IsKth(S, f, s, k)
           lo == (n + 1) \div 2
           hi == n \div 2 + 1
           fast == {s \in S : 2 * f[s] >= bound}
<1>1. n \in Nat \ {0}
    BY FS_CardinalityType, FS_EmptySet
<1>2. TwiceMedian(f) = f[at(lo)] + f[at(hi)]
    BY DEF TwiceMedian, IsKth
<1>3. /\ lo \in Nat \ {0} /\ hi \in Nat \ {0} /\ lo <= hi /\ hi <= n
      /\ 2 * (n - (hi - 1)) >= n
    <2> HIDE DEF n
    <2> QED BY <1>1
<1>4. /\ at(lo) \in S /\ IsKth(S, f, at(lo), lo)
      /\ at(hi) \in S /\ IsKth(S, f, at(hi), hi)
    <2>1. /\ lo <= Cardinality(S) /\ hi <= Cardinality(S)
          /\ lo \in Nat \ {0} /\ hi \in Nat \ {0}
        <3> HIDE DEF lo, hi
        <3> QED BY <1>1, <1>3
    <2> HIDE DEF lo, hi, n
    <2>2. (\E s \in S : IsKth(S, f, s, lo)) /\ (\E s \in S : IsKth(S, f, s, hi))
        BY <2>1, OrderStatistic
    <2> QED BY <2>2
<1> DEFINE a == at(lo)
           b == at(hi)
<1> HIDE DEF at, n
<1>5. /\ a \in S /\ b \in S /\ f[a] \in Nat /\ f[b] \in Nat
      /\ Cardinality(below(a)) < lo /\ lo <= Cardinality(upto(a))
      /\ Cardinality(below(b)) < hi /\ hi <= Cardinality(upto(b))
    BY <1>4 DEF IsKth
<1>6. TwiceMedian(f) = f[a] + f[b]
    BY <1>2
<1> HIDE DEF a, b, lo, hi
<1>7. \A s \in S : /\ IsFiniteSet(below(s)) /\ Cardinality(below(s)) \in Nat
                  /\ IsFiniteSet(upto(s)) /\ Cardinality(upto(s)) \in Nat
    BY FS_Subset, FS_CardinalityType
<1>8. f[a] <= f[b]
    <2> SUFFICES ASSUME ~(f[a] <= f[b]) PROVE FALSE
        OBVIOUS
    <2>1. upto(b) \subseteq below(a)
        BY <1>5
    <2> HIDE DEF upto, below
    <2>2. Cardinality(upto(b)) <= Cardinality(below(a))
        BY <1>5, <1>7, <2>1, FS_Subset
    <2>3. /\ Cardinality(upto(b)) \in Nat /\ Cardinality(below(a)) \in Nat
          /\ lo \in Nat /\ hi \in Nat /\ lo <= hi
        BY <1>3, <1>5, <1>7
    <2> QED BY <1>5, <2>2, <2>3
<1>9. 2 * f[b] >= bound
    BY <1>5, <1>6, <1>8
<1>10. S \ below(b) \subseteq fast
    <2> SUFFICES ASSUME NEW s \in S, ~(f[s] < f[b]) PROVE 2 * f[s] >= bound
        OBVIOUS
    <2>1. f[s] \in Nat /\ f[b] <= f[s]
        BY <1>5
    <2> QED BY <1>5, <1>9, <2>1
<1>11. /\ Cardinality(S \ below(b)) \in Nat
       /\ Cardinality(S) = Cardinality(below(b)) + Cardinality(S \ below(b))
    <2>1. below(b) \subseteq S
        OBVIOUS
    <2> HIDE DEF below
    <2> QED BY <2>1, Splits
<1>12. Cardinality(S \ below(b)) <= Cardinality(fast) /\ Cardinality(fast) \in Nat
    <2>1. IsFiniteSet(fast)
        BY FS_Subset
    <2> HIDE DEF fast, below
    <2> QED BY <1>10, <2>1, FS_Subset, FS_CardinalityType
<1>13. 2 * Cardinality(fast) >= Cardinality(S)
    <2> HIDE DEF below, upto
    <2>1. Cardinality(below(b)) \in Nat /\ Cardinality(below(b)) <= hi - 1 /\ hi \in Nat
        <3>1. Cardinality(below(b)) \in Nat /\ Cardinality(below(b)) < hi /\ hi \in Nat
            BY <1>3, <1>5, <1>7
        <3> QED BY <3>1
    <2>2. n = Cardinality(S) /\ 2 * (n - (hi - 1)) >= n /\ n \in Nat
        BY <1>1, <1>3 DEF n
    <2> HIDE DEF fast
    <2> QED BY <1>11, <1>12, <2>1, <2>2
<1> QED BY <1>13 DEF fast

-----------------------------------------------------------------------------
(* assert-result-gates. *)

\* A document that passes without --allow-missing was measured for every gate
\* that was asked for.
LEMMA PassedIsMeasured ==
    ASSUME NEW doc, NEW args, Passes(doc, args), ~args.allow_missing,
           NEW g \in args.requested, g \in MetricGates \cup PairedGates
    PROVE  Metric(doc, g) # None
<1>1. CASE g = RougeDrop
  <2>1. Metric(doc, g) \in RougeFloor .. RougeCeiling
    BY <1>1 DEF Passes, RougeFails
  <2> QED
    BY <2>1, GatesAssumption DEF None
<1>2. CASE g # RougeDrop
  <2>1. g \in MetricGates
    BY <1>2 DEF MetricGates, PairedGates, AtLeast
  <2>2. ~FailsMetric(doc, g, args)
    BY <2>1 DEF Passes, FailedMetrics
  <2> QED
    BY <2>2 DEF FailsMetric
<1> QED
  BY <1>1, <1>2

\* The rows of a document are numbered, and their ttfts are numbers.
LEMMA RowsTimed ==
    ASSUME DocsInv, NEW f \in Files, Written(f)
    PROVE  \E len \in Nat : /\ DOMAIN docs[f].rows = 1 .. len
                            /\ \A j \in 1 .. len : docs[f].rows[j].ttft \in Nat
<1>1. CASE OfRun(f)
    <2>1. PICK run \in campaign.runs[f] : docs[f] = RunDocument(run)
        BY <1>1 DEF OfRun
    <2>2. f \in DOMAIN campaign.runs
        BY <1>1 DEF OfRun
    <2>3. /\ run.max_items \in Nat /\ DOMAIN docs[f].rows = 1 .. run.max_items
          /\ \A j \in 1 .. run.max_items :
                /\ docs[f].rows[j] = RowFrom(run, Asked(run)[j], run.outcomes[j])
                /\ run.outcomes[j].ttft \in Nat
        BY <2>1, <2>2, RunRows DEF DocsInv
    <2>4. \A item, outcome : RowFrom(run, item, outcome).ttft = outcome.ttft
        BY DEF RowFrom
    <2> QED BY <2>3, <2>4
<1>2. CASE OfMerge(f)
    <2>1. PICK m \in campaign.merges :
              /\ docs[f] = MergeDocument(m)
              /\ AllWritten(m) /\ ~Conflict(m) /\ Pairable(m)
        BY <1>2 DEF OfMerge
    <2>2. PICK cold, warm : ReadsRuns(m, cold, warm)
        BY <2>1, MergesReadRuns
    <2>3. PICK len \in Nat : /\ DOMAIN docs[f].rows = 1 .. len
                             /\ \A j \in 1 .. len : \E n, k : MergedFrom(docs[f].rows[j], m, n, k)
        BY <2>1, <2>2, MergedRows
    <2> QED BY <2>3 DEF MergedFrom
<1> QED BY <1>1, <1>2 DEF DocsInv

\* A green speedup gate has half of its pairs at the threshold.
LEMMA PassedIsFast ==
    ASSUME DocsInv, NEW f \in Files, Written(f),
           NEW args, Passes(docs[f], args), ~args.allow_missing,
           "min_blended_ttft_speedup" \in args.requested
    PROVE  FastEnough(docs[f], Thresholds["min_blended_ttft_speedup"])
<1> DEFINE gate == "min_blended_ttft_speedup"
           rows == docs[f].rows
           cold == ArmRows(rows, "cold")
           warm == ArmRows(rows, "warm")
           pairs == CleanPairs(cold, warm)
           timed == {p \in pairs : p.cold.ttft > 0 /\ p.warm.ttft > 0 /\ ~p.cold.control}
           speedups == Speedups(timed)
           bound == Thresholds[gate]
<1>1. gate \in MetricGates /\ gate \in AtLeast /\ gate \notin AtMost /\ gate # Deviation
    BY DEF MetricGates, AtLeast, AtMost, Deviation
<1>2. bound \in Int
    BY <1>1, GatesAssumption
<1>3. Metric(docs[f], gate) # None /\ Metric(docs[f], gate) >= bound
    <2>1. ~FailsMetric(docs[f], gate, args)
        BY <1>1 DEF Passes, FailedMetrics
    <2>2. Metric(docs[f], gate) # None
        BY <2>1 DEF FailsMetric
    <2>3. Meets(gate, Metric(docs[f], gate), args.requested)
        BY <2>1, <2>2 DEF FailsMetric
    <2> QED BY <1>1, <2>2, <2>3 DEF Meets, Threshold
<1>4. Metric(docs[f], gate) = OfPaired(docs[f], docs[f].paired.speedup)
    BY DEF Metric, Deviation, RougeDrop
<1>5. docs[f].paired.present /\ docs[f].paired.speedup # None /\ docs[f].paired.speedup >= bound
    BY <1>3, <1>4 DEF OfPaired
<1>6. PICK reference :
          docs[f].paired = PairedSummary(rows, docs[f].config.counted, docs[f].config.pair, reference)
    BY PairedIsOfTheRows
<1>7. PICK len \in Nat : DOMAIN rows = 1 .. len /\ \A j \in 1 .. len : rows[j].ttft \in Nat
    BY RowsTimed
<1> HIDE DEF rows
<1>8. timed = Timed(pairs) \ Controls(Timed(pairs))
    BY DEF Timed, Controls
<1>9. docs[f].paired.speedup = TwiceMedian(Speedups(Timed(pairs) \ Controls(Timed(pairs))))
    BY <1>5, <1>6 DEF PairedSummary, NoSummary
<1>10. TwiceMedian(speedups) # None /\ TwiceMedian(speedups) >= bound
    BY <1>5, <1>8, <1>9
<1>11. /\ IsFiniteSet(DOMAIN cold)
       /\ \A i \in DOMAIN cold : \E n \in 1 .. len : cold[i] = rows[n]
       /\ \A i \in DOMAIN warm : \E n \in 1 .. len : warm[i] = rows[n]
    BY <1>7, ArmRowsAre
<1> HIDE DEF cold, warm
<1>12. IsFiniteSet(timed)
    <2>1. IsFiniteSet(pairs) /\ timed \subseteq pairs
        BY <1>11, PairsPartition
    <2> HIDE DEF pairs, timed
    <2> QED BY <2>1, FS_Subset
<1>13. ASSUME NEW p \in timed
       PROVE  Speedup(p) \in Nat
    <2>1. /\ p.cold \in {cold[i] : i \in DOMAIN cold}
          /\ p.warm \in {warm[i] : i \in DOMAIN warm}
        BY DEF CleanPairs, Twins, Pair
    <2>2. p.cold.ttft \in Nat /\ p.warm.ttft \in Nat /\ p.warm.ttft > 0
        BY <1>7, <1>11, <2>1
    <2> DEFINE x == p.cold.ttft
               y == p.warm.ttft
    <2>3. x \in Nat /\ y \in Nat /\ y > 0
        BY <2>2
    <2>4. Speedup(p) = (Tick * x) \div y
        BY DEF Speedup
    <2> HIDE DEF x, y
    <2>5. Tick * x \in Nat
        BY <2>3, GatesAssumption
    <2>6. \A a \in Nat, b \in Nat \ {0} : a \div b \in Nat
        OBVIOUS
    <2> QED BY <2>3, <2>4, <2>5, <2>6
<1>14. DOMAIN speedups = timed /\ \A p \in timed : speedups[p] = Speedup(p) /\ speedups[p] \in Nat
    BY <1>13 DEF Speedups
<1> HIDE DEF pairs, timed, speedups
<1>15. timed # {}
    BY <1>10, <1>14 DEF TwiceMedian
<1> HIDE DEF bound
<1>16. 2 * Cardinality({p \in timed : 2 * speedups[p] >= bound}) >= Cardinality(timed)
    <2>1. /\ DOMAIN speedups = timed /\ \A p \in timed : speedups[p] \in Nat
          /\ TwiceMedian(speedups) >= bound
        BY <1>10, <1>14
    <2> QED BY <1>2, <1>12, <1>15, <2>1, HalfReachTheMedian
<1>17. {p \in timed : 2 * speedups[p] >= bound} = {p \in timed : 2 * Speedup(p) >= bound}
    BY <1>14
<1>18. 2 * Cardinality({p \in timed : 2 * Speedup(p) >= bound}) >= Cardinality(timed)
    BY <1>16, <1>17
<1> QED BY <1>18 DEF FastEnough, rows, cold, warm, pairs, timed, bound

\* A green verdict over gates that were asked for, without --allow-missing, is
\* over metrics that were all measured, and a green speedup gate is no work of
\* a few very fast requests.
THEOREM GreensAreEarned == Spec => []GreenIsEarned
<1> DEFINE EarnedInv == DocsInv /\ GreenIsEarned
<1>1. Init => EarnedInv
    BY InitDocs DEF Init, GreenIsEarned, EveryGateMeasured, Green, NoVerdict
<1>2. EarnedInv /\ [Next]_vars => EarnedInv'
    <2> SUFFICES ASSUME DocsInv, GreenIsEarned, [Next]_vars
                 PROVE  GreenIsEarned'
        BY NextDocs
    <2>1. ASSUME verdict' = NoVerdict
          PROVE  GreenIsEarned'
        BY <2>1 DEF GreenIsEarned, EveryGateMeasured, Green, NoVerdict
    <2>2. ASSUME NEW f \in Files, NEW args \in campaign.gates[f], AssertGates(f, args)
          PROVE  GreenIsEarned'
        <3>1. /\ Written(f) /\ docs' = docs
              /\ verdict' = [given |-> TRUE, result |-> f, args |-> args,
                             passed |-> Passes(docs[f], args)]
            BY <2>2 DEF AssertGates
        <3>2. /\ verdict'.passed = Passes(docs[f], args)
              /\ verdict'.args = args /\ verdict'.result = f
            BY <3>1
        <3>3. args.requested \subseteq MetricGates \cup PairedGates
            BY CampaignsAssumption DEF DocsInv
        <3> SUFFICES ASSUME Passes(docs[f], args), ~args.allow_missing
                     PROVE  /\ \A g \in args.requested : Metric(docs[f], g) # None
                            /\ "min_blended_ttft_speedup" \in args.requested =>
                                FastEnough(docs[f], Thresholds["min_blended_ttft_speedup"])
            BY <3>1, <3>2 DEF GreenIsEarned, EveryGateMeasured, Green
        <3>4. \A g \in args.requested : Metric(docs[f], g) # None
            BY <3>3, PassedIsMeasured
        <3> QED BY <3>1, <3>4, PassedIsFast
    <2>3. CASE UNCHANGED vars
        BY <2>3 DEF vars, GreenIsEarned, EveryGateMeasured, Green, FastEnough
    <2>4. ASSUME NEW f, NEW run, RunArm(f, run)
          PROVE  GreenIsEarned'
        BY <2>1, <2>4 DEF RunArm
    <2>5. ASSUME NEW m, MergeResults(m) \/ MergeRefused(m)
          PROVE  GreenIsEarned'
        BY <2>1, <2>5 DEF MergeResults, MergeRefused
    <2> QED BY <2>2, <2>3, <2>4, <2>5 DEF Next
<1> QED BY <1>1, <1>2, PTL DEF Spec
=============================================================================
