------------------------------ MODULE Pairing -------------------------------
(***************************************************************************)
(* Joining the rows of two documents by item: join_arms and its report,    *)
(* src/sembench/pairing.py.                                                *)
(***************************************************************************)
EXTENDS Integers, Sequences, SequencesExt

\* index_by_item: the first row of each item, and the items of the others.
Items(rows) == {rows[n].item : n \in DOMAIN rows}
Indexed(rows) ==
    {n \in DOMAIN rows : \A m \in DOMAIN rows : m < n => rows[m].item # rows[n].item}
Repeated(rows) == {rows[n].item : n \in DOMAIN rows \ Indexed(rows)}
RowOf(rows, i) == rows[CHOOSE n \in Indexed(rows) : rows[n].item = i]

\* The pairs, and what did not become one.
Mismatched(cold, warm) ==
    {i \in Items(cold) \cap Items(warm) :
        RowOf(cold, i).fingerprint # RowOf(warm, i).fingerprint}
PairedItems(cold, warm) == (Items(cold) \cap Items(warm)) \ Mismatched(cold, warm)
Unpaired(rows, cold, warm) ==
    Items(rows) \ (PairedItems(cold, warm) \cup Mismatched(cold, warm))

\* PairingReport.problems: empty.  (OkWithoutWarmOnly, the mutated form, looks
\* for the twins of the cold rows alone.)
OkWithoutWarmOnly(cold, warm, coldSha, warmSha) ==
    /\ coldSha # "" /\ coldSha = warmSha
    /\ Repeated(cold) = {} /\ Repeated(warm) = {}
    /\ Unpaired(cold, cold, warm) = {}
    /\ Mismatched(cold, warm) = {}
    /\ PairedItems(cold, warm) # {}
PairingOk(cold, warm, coldSha, warmSha) ==
    /\ coldSha # "" /\ coldSha = warmSha
    /\ Repeated(cold) = {} /\ Repeated(warm) = {}
    /\ Unpaired(cold, cold, warm) = {} /\ Unpaired(warm, cold, warm) = {}
    /\ Mismatched(cold, warm) = {}
    /\ PairedItems(cold, warm) # {}

\* The merged rows: in the order of the cold run, cold then warm, stamped
\* with the role each was given as.  (OwnLabel is a mutated form.)
OwnLabel(row, role) == row
Stamped(row, role) == [row EXCEPT !.arm = role]
JoinArms(cold, warm) ==
    FlattenSeq([n \in DOMAIN cold |->
        IF n \in Indexed(cold) /\ cold[n].item \in PairedItems(cold, warm)
        THEN <<Stamped(cold[n], "cold"), Stamped(RowOf(warm, cold[n].item), "warm")>>
        ELSE <<>>])
=============================================================================
