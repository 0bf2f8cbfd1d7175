---------------------------- MODULE CorpusProofs ----------------------------
(***************************************************************************)
(* Proofs about the corpus: what the dedupe keeps shares no window, what   *)
(* verify-frozen accepts has passed the audit, the rewrite keeps every     *)
(* number of a text between its neighbours, a probe's answer is in its     *)
(* recipient alone, and an exact hit in an audited corpus is the source's  *)
(* own.                                                                    *)
(*                                                                         *)
(* For the first two nothing depends on what the transforms, the audit and *)
(* the blocks compute, and they stay opaque.  For the others they are      *)
(* opened: a loop over a list is a recursive function, whose existence     *)
(* DataLemmas has, and what it keeps is kept at the least number it could  *)
(* fail at.                                                                *)
(***************************************************************************)
EXTENDS CorpusProps, DataLemmas, SequenceTheorems

\* `seen` has the windows of the kept records, and nothing else.
SeenIsKept ==
    spec.real =>
        /\ kept \in Seq(TokensOf(kept))
        /\ DOMAIN seen = UNION {WindowHashes(kept[i]) : i \in DOMAIN kept}

\* Between two commands nothing is held.
IdleIsEmpty == pc = "idle" => kept = <<>> /\ seen = NothingSeen

Apart == SeenIsKept /\ KeptShareNothing
DedupeInv == IdleIsEmpty /\ Apart

\* Which command has come to which step, and what it then knows of the files.
AtStep ==
    /\ exit = "ok" => pc = "exit"
    /\ cmd.name = "freeze" => cmd.size = FreezeSize
    /\ pc = "write" => cmd.name \in {"build", "freeze"}
    /\ pc \in {"audit", "record"} => cmd.name = "freeze"
    /\ pc = "record" => AuditPasses(manifest.items, FreezeSize)
    /\ pc = "compare" => Readable(checksums)
    /\ pc = "dedupe" => /\ cmd.name \in {"build", "freeze", "verify"}
                        /\ cmd.name = "verify" => Readable(checksums)

ChecksumsAudited == Readable(checksums) => AuditPasses(checksums.items, FreezeSize)

FreezeInv == AtStep /\ ChecksumsAudited /\ VerifiedIsClean

-----------------------------------------------------------------------------
(* The dedupe. *)

\* Appending a record whose windows are new keeps the windows apart and
\* `seen` complete.
LEMMA KeepingKeepsApart ==
    ASSUME Apart, spec.real, spec' = spec, NEW r, KeepRecord(r)
    PROVE  Apart'
<1> DEFINE H(i) == WindowHashes(kept[i])
<1>1. kept \in Seq(TokensOf(kept)) /\ kept' = Append(kept, r)
    BY DEF Apart, SeenIsKept, KeepRecord
<1>2. /\ Len(kept) \in Nat /\ DOMAIN kept = 1..Len(kept)
      /\ DOMAIN kept' = 1..(Len(kept) + 1)
      /\ \A i \in DOMAIN kept : kept'[i] = kept[i]
      /\ kept'[Len(kept) + 1] = r
    BY <1>1
<1>3. kept' \in Seq(TokensOf(kept) \cup {r}) /\ TokensOf(kept') = TokensOf(kept) \cup {r}
    BY <1>1, <1>2 DEF TokensOf
<1>4. kept' \in Seq(TokensOf(kept'))
    BY <1>3
<1>5. \A i \in DOMAIN kept : H(i) \subseteq DOMAIN seen
    BY DEF Apart, SeenIsKept
<1>6. WindowHashes(r) \cap DOMAIN seen = {}
    BY DEF KeepRecord
<1>7. DOMAIN seen' = DOMAIN seen \cup WindowHashes(r)
    BY DEF KeepRecord
<1>8. DOMAIN seen' = UNION {WindowHashes(kept'[i]) : i \in DOMAIN kept'}
    <2>1. DOMAIN seen = UNION {H(i) : i \in DOMAIN kept}
        BY DEF Apart, SeenIsKept
    <2>2. {WindowHashes(kept'[i]) : i \in DOMAIN kept'}
              = {H(i) : i \in DOMAIN kept} \cup {WindowHashes(r)}
        BY <1>2
    <2> QED BY <1>7, <2>1, <2>2
<1>9. ASSUME NEW i \in DOMAIN kept', NEW j \in DOMAIN kept', i # j
      PROVE  WindowHashes(kept'[i]) \cap WindowHashes(kept'[j]) = {}
    <2>1. CASE i \in DOMAIN kept /\ j \in DOMAIN kept
        <3>1. H(i) \cap H(j) = {}
            BY <1>9, <2>1 DEF Apart, KeptShareNothing
        <3> QED BY <3>1, <2>1, <1>2
    <2>2. CASE i \in DOMAIN kept /\ j = Len(kept) + 1
        BY <2>2, <1>2, <1>5, <1>6
    <2>3. CASE j \in DOMAIN kept /\ i = Len(kept) + 1
        BY <2>3, <1>2, <1>5, <1>6
    <2> QED BY <2>1, <2>2, <2>3, <1>2, <1>9
<1> QED BY <1>4, <1>8, <1>9 DEF Apart, SeenIsKept, KeptShareNothing

\* With nothing kept there is nothing to share.
LEMMA NothingKept ==
    ASSUME kept = <<>>, seen = NothingSeen
    PROVE  Apart
<1>1. kept \in Seq(TokensOf(kept)) /\ DOMAIN kept = {}
    BY DEF TokensOf
<1>2. DOMAIN seen = {}
    BY DEF NothingSeen
<1> QED BY <1>1, <1>2 DEF Apart, SeenIsKept, KeptShareNothing

\* A step that leaves what is held alone.
LEMMA HeldUnchanged ==
    ASSUME DedupeInv, UNCHANGED <<spec, kept, seen>>, pc' # "idle" \/ pc = "idle"
    PROVE  DedupeInv'
BY DEF DedupeInv, IdleIsEmpty, Apart, SeenIsKept, KeptShareNothing, WindowHashes, Material

\* A process that is gone holds nothing.
LEMMA GoneIsEmpty ==
    ASSUME Gone
    PROVE  DedupeInv'
<1>1. kept' = <<>> /\ seen' = NothingSeen
    BY DEF Gone
<1>2. kept' \in Seq(TokensOf(kept')) /\ DOMAIN kept' = {} /\ DOMAIN seen' = {}
    BY <1>1 DEF TokensOf, NothingSeen
<1> QED BY <1>1, <1>2 DEF DedupeInv, IdleIsEmpty, Apart, SeenIsKept, KeptShareNothing

\* Of real data, what the dedupe keeps shares no window of content, through
\* every step of every command: the loop only ever compares with `seen`, and
\* `seen` has the windows of everything kept.
THEOREM KeptApart == Spec => []KeptShareNothing
<1>1. Init => DedupeInv
    <2> SUFFICES ASSUME Init PROVE DedupeInv
        OBVIOUS
    <2>1. kept = <<>> /\ seen = NothingSeen
        BY DEF Init
    <2> QED BY <2>1, NothingKept DEF DedupeInv, IdleIsEmpty
<1>2. DedupeInv /\ [Next]_vars => DedupeInv'
    <2> SUFFICES ASSUME DedupeInv, [Next]_vars
                 PROVE  DedupeInv'
        OBVIOUS
    <2>1. ASSUME NEW name, Refuse(name) PROVE DedupeInv'
        BY <2>1, HeldUnchanged DEF Refuse, End
    <2>2. ASSUME NEW name, Start(name) PROVE DedupeInv'
        <3>1. pc = "idle" /\ kept = <<>> /\ seen = NothingSeen
            BY <2>2 DEF Start, DedupeInv, IdleIsEmpty
        <3>2. pc' = "dedupe" /\ spec' = spec /\ seen' = NothingSeen
            BY <2>2, <3>1 DEF Start
        <3>3. CASE spec.real
            <4>1. kept' = <<>>
                BY <2>2, <3>3 DEF Start
            <4>2. kept' \in Seq(TokensOf(kept')) /\ DOMAIN kept' = {} /\ DOMAIN seen' = {}
                BY <4>1, <3>2 DEF TokensOf, NothingSeen
            <4> QED BY <3>2, <4>1, <4>2
                    DEF DedupeInv, IdleIsEmpty, Apart, SeenIsKept, KeptShareNothing
        <3>4. CASE ~spec.real
            BY <3>2, <3>4 DEF DedupeInv, IdleIsEmpty, Apart, SeenIsKept, KeptShareNothing
        <3> QED BY <3>3, <3>4
    <2>3. ASSUME DedupeRecord PROVE DedupeInv'
        <3>1. spec' = spec /\ pc' = "dedupe"
            BY <2>3 DEF DedupeRecord
        <3>2. IdleIsEmpty'
            BY <3>1 DEF IdleIsEmpty
        <3>3. CASE KeepRecord(Head(todo))
            <4>1. CASE spec.real
                BY <3>3, <4>1, <3>1, <3>2, KeepingKeepsApart DEF DedupeInv
            <4>2. CASE ~spec.real
                BY <3>1, <3>2, <4>2 DEF DedupeInv, Apart, SeenIsKept, KeptShareNothing
            <4> QED BY <4>1, <4>2
        <3>4. CASE DropRecord(Head(todo))
            <4>1. UNCHANGED <<kept, seen>>
                BY <3>4 DEF DropRecord
            <4> QED BY <3>1, <4>1, HeldUnchanged
        <3> QED BY <2>3, <3>3, <3>4 DEF DedupeRecord
    <2>4. ASSUME Build \/ Write \/ FreezeAudit \/ Record \/ Compare PROVE DedupeInv'
        BY <2>4, HeldUnchanged DEF Build, Write, FreezeAudit, Record, Compare, End
    <2>5. ASSUME NEW size, AuditManifest(size) PROVE DedupeInv'
        BY <2>5, HeldUnchanged DEF AuditManifest, End
    <2>6. ASSUME NEW size, NEW outcome, RunOffline(size, outcome) PROVE DedupeInv'
        BY <2>6, HeldUnchanged DEF RunOffline, End
    <2>7. ASSUME Exit \/ Kill PROVE DedupeInv'
        BY <2>7, GoneIsEmpty DEF Exit, Kill
    <2>8. ASSUME UpstreamMoves \/ UNCHANGED vars PROVE DedupeInv'
        BY <2>8, HeldUnchanged DEF UpstreamMoves, vars, process
    <2> QED BY <2>1, <2>2, <2>3, <2>4, <2>5, <2>6, <2>7, <2>8 DEF Next
<1>3. DedupeInv => KeptShareNothing
    BY DEF DedupeInv, Apart
<1> QED BY <1>1, <1>2, <1>3, PTL DEF Spec

-----------------------------------------------------------------------------
(* What verify-frozen accepts. *)

\* Checksums are only ever recorded of a manifest that passed the audit, a
\* write that is killed leaves none that can be read, and what verify-frozen
\* accepts is what they were recorded of.
THEOREM VerifiedPassedAudit == Spec => []VerifiedIsClean
<1>1. Init => FreezeInv
    BY DEF Init, FreezeInv, AtStep, ChecksumsAudited, VerifiedIsClean, Readable, NoFile, Idle
<1>2. FreezeInv /\ [Next]_vars => FreezeInv'
    <2> SUFFICES ASSUME FreezeInv, [Next]_vars
                 PROVE  FreezeInv'
        OBVIOUS
    <2> USE DEF FreezeInv, AtStep, ChecksumsAudited, VerifiedIsClean
    <2>1. ASSUME NEW name, Refuse(name) PROVE FreezeInv'
        BY <2>1 DEF Refuse, End, Idle, files
    <2>2. ASSUME NEW name \in {"build", "freeze", "verify"}, Start(name) PROVE FreezeInv'
        BY <2>2 DEF Start, files
    <2>3. ASSUME DedupeRecord PROVE FreezeInv'
        BY <2>3 DEF DedupeRecord, files
    <2>4. ASSUME Build PROVE FreezeInv'
        BY <2>4 DEF Build, End, files
    <2>5. ASSUME Write PROVE FreezeInv'
        BY <2>5 DEF Write, End
    <2>6. ASSUME FreezeAudit PROVE FreezeInv'
        BY <2>6 DEF FreezeAudit, End, files
    <2>7. ASSUME Record PROVE FreezeInv'
        BY <2>7 DEF Record, End, AFile
    <2>8. ASSUME Compare PROVE FreezeInv'
        BY <2>8 DEF Compare, Compared, End, files
    <2>9. ASSUME NEW size, AuditManifest(size) PROVE FreezeInv'
        BY <2>9 DEF AuditManifest, End, files
    <2>10. ASSUME NEW size, NEW outcome, RunOffline(size, outcome) PROVE FreezeInv'
        BY <2>10 DEF RunOffline, End, files
    <2>11. ASSUME Exit PROVE FreezeInv'
        BY <2>11 DEF Exit, Gone, Idle, files
    <2>12. ASSUME Kill PROVE FreezeInv'
        BY <2>12 DEF Kill, Gone, Idle, files, Readable
    <2>13. ASSUME UpstreamMoves \/ UNCHANGED vars PROVE FreezeInv'
        BY <2>13 DEF UpstreamMoves, vars, process, files
    <2> QED BY <2>1, <2>2, <2>3, <2>4, <2>5, <2>6, <2>7, <2>8, <2>9, <2>10, <2>11, <2>12, <2>13
            DEF Next
<1>3. FreezeInv => VerifiedIsClean
    BY DEF FreezeInv
<1> QED BY <1>1, <1>2, <1>3, PTL DEF Spec

-----------------------------------------------------------------------------
(* Sequences.                                                              *)

\* A sequence of elements of a set is one of its own elements.
LEMMA InSeq ==
    ASSUME NEW T, NEW s \in Seq(T)
    PROVE  IsSequence(s) /\ TokensOf(s) \subseteq T
<1>1. Len(s) \in Nat /\ DOMAIN s = 1 .. Len(s) /\ s \in [1 .. Len(s) -> T]
    BY LenProperties
<1>2. s \in [1 .. Len(s) -> TokensOf(s)]
    BY <1>1 DEF TokensOf
<1>3. s \in Seq(TokensOf(s))
    BY <1>1, <1>2, SeqDef
<1> QED BY <1>1, <1>3 DEF TokensOf, IsSequence

LEMMA SequenceFacts ==
    ASSUME NEW s, IsSequence(s)
    PROVE  /\ Len(s) \in Nat /\ DOMAIN s = 1 .. Len(s)
           /\ \A i \in 1 .. Len(s) : s[i] \in TokensOf(s)
           /\ \A T : TokensOf(s) \subseteq T => s \in Seq(T)
<1>1. Len(s) \in Nat /\ DOMAIN s = 1 .. Len(s) /\ s \in [1 .. Len(s) -> TokensOf(s)]
    BY LenProperties DEF IsSequence
<1>2. ASSUME NEW T, TokensOf(s) \subseteq T PROVE s \in Seq(T)
    <2>1. s \in [1 .. Len(s) -> T]
        BY <1>1, <1>2
    <2> QED BY <1>1, <2>1, SeqDef
<1> QED BY <1>1, <1>2

\* One after the other.
LEMMA Concats ==
    ASSUME NEW s, NEW t, IsSequence(s), IsSequence(t)
    PROVE  /\ IsSequence(s \o t) /\ TokensOf(s \o t) = TokensOf(s) \cup TokensOf(t)
           /\ Len(s \o t) = Len(s) + Len(t)
           /\ \A i \in 1 .. Len(s) : (s \o t)[i] = s[i]
           /\ \A i \in 1 .. Len(t) : (s \o t)[Len(s) + i] = t[i]
<1> DEFINE T == TokensOf(s) \cup TokensOf(t)
           u == s \o t
<1>1. s \in Seq(T) /\ t \in Seq(T)
    BY SequenceFacts
<1>2. /\ u \in Seq(T) /\ Len(u) = Len(s) + Len(t)
      /\ \A i \in 1 .. Len(s) + Len(t) : u[i] = IF i <= Len(s) THEN s[i] ELSE t[i - Len(s)]
    <2> HIDE DEF T
    <2> QED BY <1>1, ConcatProperties
<1>3. Len(s) \in Nat /\ Len(t) \in Nat /\ DOMAIN s = 1 .. Len(s) /\ DOMAIN t = 1 .. Len(t)
    BY SequenceFacts
<1>4. IsSequence(u) /\ TokensOf(u) \subseteq T /\ DOMAIN u = 1 .. Len(u)
    BY <1>2, InSeq, SequenceFacts
<1> HIDE DEF u
<1>5. \A i \in 1 .. Len(s) : u[i] = s[i] /\ i \in DOMAIN u
    BY <1>2, <1>3, <1>4
<1>6. \A i \in 1 .. Len(t) : u[Len(s) + i] = t[i] /\ Len(s) + i \in DOMAIN u
    BY <1>2, <1>3, <1>4
<1>7. T \subseteq TokensOf(u)
    BY <1>3, <1>5, <1>6 DEF TokensOf
<1> QED BY <1>2, <1>4, <1>5, <1>6, <1>7 DEF u

\* A part of one.
LEMMA Parts ==
    ASSUME NEW s, IsSequence(s), NEW a \in 1 .. Len(s) + 1, NEW b \in 0 .. Len(s)
    PROVE  /\ IsSequence(SubSeq(s, a, b)) /\ TokensOf(SubSeq(s, a, b)) \subseteq TokensOf(s)
           /\ Len(SubSeq(s, a, b)) = IF a <= b THEN b - a + 1 ELSE 0
           /\ \A i \in 1 .. b - a + 1 : SubSeq(s, a, b)[i] = s[a + i - 1]
<1> DEFINE u == SubSeq(s, a, b)
<1>1. Len(s) \in Nat /\ s \in Seq(TokensOf(s))
    BY SequenceFacts DEF IsSequence
<1>2. /\ u \in Seq(TokensOf(s))
      /\ Len(u) = IF a <= b THEN b - a + 1 ELSE 0
      /\ \A i \in 1 .. b - a + 1 : u[i] = s[a + i - 1]
    BY <1>1, SubSeqProperties
<1> QED BY <1>2, InSeq

LEMMA NoneAndOne ==
    /\ IsSequence(<<>>) /\ TokensOf(<<>>) = {} /\ Len(<<>>) = 0
    /\ \A x : IsSequence(<<x>>) /\ TokensOf(<<x>>) = {x} /\ Len(<<x>>) = 1
<1>1. <<>> \in Seq({}) /\ TokensOf(<<>>) = {}
    BY DEF TokensOf
<1>2. ASSUME NEW x PROVE <<x>> \in Seq({x}) /\ TokensOf(<<x>>) = {x} /\ Len(<<x>>) = 1
    <2>1. <<x>> \in Seq({x}) /\ DOMAIN <<x>> = {1} /\ <<x>>[1] = x /\ Len(<<x>>) = 1
        OBVIOUS
    <2> QED BY <2>1 DEF TokensOf
<1> QED BY <1>1, <1>2, InSeq

\* A function on 1 to n is a sequence.
LEMMA ListIs ==
    ASSUME NEW n \in Nat, NEW f, f = [i \in 1 .. n |-> f[i]]
    PROVE  IsSequence(f) /\ Len(f) = n /\ TokensOf(f) = {f[i] : i \in 1 .. n}
<1> DEFINE T == {f[i] : i \in 1 .. n}
<1>1. f \in [1 .. n -> T] /\ DOMAIN f = 1 .. n
    OBVIOUS
<1>2. f \in Seq(T)
    <2> HIDE DEF T
    <2> QED BY <1>1, SeqDef
<1>3. Len(f) = n
    <2> HIDE DEF T
    <2> QED BY <1>1, <1>2, LenProperties
<1> QED BY <1>1, <1>2, <1>3, InSeq DEF TokensOf

\* Lists strung together one by one.
StrungBy(g, seqs) ==
    /\ FlattenSeq(seqs) = g[Len(seqs)]
    /\ g[1] = seqs[1]
    /\ \A i \in 1 .. Len(seqs) :
          /\ i # 1 => g[i] = g[i - 1] \o seqs[i]
          /\ IsSequence(g[i])
          /\ TokensOf(g[i]) = UNION {TokensOf(seqs[j]) : j \in 1 .. i}

LEMMA Strung ==
    ASSUME NEW seqs, IsSequence(seqs), Len(seqs) # 0, \A i \in DOMAIN seqs : IsSequence(seqs[i])
    PROVE  \E g : StrungBy(g, seqs)
<1> DEFINE n == Len(seqs)
           g == CHOOSE g : Flattens(g, seqs, n)
<1>1. n \in Nat \ {0} /\ DOMAIN seqs = 1 .. n
    BY SequenceFacts
<1>2. Flattens(g, seqs, n) /\ FlattenSeq(seqs) = g[n]
    BY <1>1, FlattensExists DEF FlattenSeq, Flattens
<1> HIDE DEF g
<1>3. \A i \in 1 .. n : g[i] = IF i = 1 THEN seqs[i] ELSE g[i - 1] \o seqs[i]
    BY <1>2, Zenon DEF Flattens
<1> DEFINE All(i) == UNION {TokensOf(seqs[j]) : j \in 1 .. i}
           Good(i) == IsSequence(g[i]) /\ TokensOf(g[i]) = All(i)
           Bad == {i \in 1 .. n : ~Good(i)}
<1>4. ASSUME NEW k \in Bad, \A j \in Bad : k <= j PROVE FALSE
    <2>1. CASE k = 1
        <3>1. g[1] = seqs[1] /\ IsSequence(seqs[1])
            BY <1>1, <1>3, <2>1
        <3>2. 1 .. 1 = {1}
            OBVIOUS
        <3>3. All(1) = TokensOf(seqs[1])
            BY <3>2
        <3> QED BY <2>1, <3>1, <3>3
    <2>2. CASE k # 1
        <3>1. k - 1 \in 1 .. n /\ ~(k <= k - 1) /\ k \in 1 .. n
            BY <2>2
        <3>2. Good(k - 1)
            BY <1>4, <3>1
        <3>3. g[k] = g[k - 1] \o seqs[k] /\ IsSequence(seqs[k])
            BY <1>1, <1>3, <2>2
        <3>4. IsSequence(g[k]) /\ TokensOf(g[k]) = TokensOf(g[k - 1]) \cup TokensOf(seqs[k])
            BY <3>2, <3>3, Concats
        <3>5. 1 .. k = (1 .. k - 1) \cup {k}
            BY <3>1
        <3>6. All(k) = All(k - 1) \cup TokensOf(seqs[k])
            BY <3>5
        <3> QED BY <3>2, <3>4, <3>6
    <2> QED BY <2>1, <2>2
<1>5. Bad \subseteq Nat
    BY <1>1
<1> HIDE DEF Bad
<1>6. Bad = {}
    BY <1>4, <1>5, Least
<1>7. \A i \in 1 .. n : Good(i)
    BY <1>6 DEF Bad
<1>8. g[1] = seqs[1]
    BY <1>1, <1>3
<1> QED BY <1>2, <1>3, <1>7, <1>8 DEF StrungBy

\* FlattenSeq adds nothing and loses nothing.
LEMMA FlattenTokens ==
    ASSUME NEW seqs, IsSequence(seqs), \A i \in DOMAIN seqs : IsSequence(seqs[i])
    PROVE  /\ IsSequence(FlattenSeq(seqs))
           /\ TokensOf(FlattenSeq(seqs)) = UNION {TokensOf(seqs[i]) : i \in DOMAIN seqs}
<1>1. Len(seqs) \in Nat /\ DOMAIN seqs = 1 .. Len(seqs)
    BY SequenceFacts
<1>2. CASE Len(seqs) = 0
    <2>1. FlattenSeq(seqs) = seqs
        BY <1>2 DEF FlattenSeq
    <2>2. DOMAIN seqs = {}
        BY <1>1, <1>2
    <2> QED BY <2>1, <2>2 DEF TokensOf
<1>3. CASE Len(seqs) # 0
    <2>1. Len(seqs) \in 1 .. Len(seqs)
        BY <1>1, <1>3
    <2>2. PICK g : StrungBy(g, seqs)
        BY <1>3, Strung
    <2> QED BY <1>1, <2>1, <2>2 DEF StrungBy
<1> QED BY <1>1, <1>2, <1>3

\* What is picked is what is at those positions, and nothing but the last is
\* picked at the last of them.
LEMMA Picks ==
    ASSUME NEW s, IsSequence(s), NEW P
    PROVE  LET picked == Picked(s, P)
           IN  /\ IsSequence(picked) /\ TokensOf(picked) = {s[i] : i \in DOMAIN s \cap P}
               /\ \A k \in DOMAIN picked :
                      k < Len(picked) =>
                          \E i \in DOMAIN s \cap P : i < Len(s) /\ picked[k] = s[i]
<1> DEFINE n == Len(s)
           one(i) == IF i \in P THEN <<s[i]>> ELSE <<>>
           seqs == [i \in DOMAIN s |-> one(i)]
           picked == Picked(s, P)
<1>1. n \in Nat /\ DOMAIN s = 1 .. n
    BY SequenceFacts
<1>2. IsSequence(seqs) /\ Len(seqs) = n /\ DOMAIN seqs = 1 .. n
    <2> HIDE DEF one
    <2>1. seqs = [i \in 1 .. n |-> seqs[i]]
        BY <1>1
    <2> QED BY <1>1, <2>1, ListIs
<1>3. \A i \in 1 .. n : /\ seqs[i] = one(i) /\ IsSequence(one(i))
                        /\ TokensOf(one(i)) = IF i \in P THEN {s[i]} ELSE {}
                        /\ Len(one(i)) = IF i \in P THEN 1 ELSE 0
    <2> SUFFICES ASSUME NEW i \in 1 .. n
                 PROVE  /\ seqs[i] = one(i) /\ IsSequence(one(i))
                        /\ TokensOf(one(i)) = IF i \in P THEN {s[i]} ELSE {}
                        /\ Len(one(i)) = IF i \in P THEN 1 ELSE 0
        OBVIOUS
    <2>1. seqs[i] = one(i)
        BY <1>1
    <2>2. CASE i \in P
        <3>1. one(i) = <<s[i]>>
            BY <2>2
        <3> QED BY <2>1, <2>2, <3>1, NoneAndOne
    <2>3. CASE i \notin P
        <3>1. one(i) = <<>>
            BY <2>3
        <3> QED BY <2>1, <2>3, <3>1, NoneAndOne
    <2> QED BY <2>2, <2>3
<1>4. picked = FlattenSeq(seqs)
    BY DEF Picked
<1> HIDE DEF one, seqs, picked
<1>5. IsSequence(picked) /\ TokensOf(picked) = UNION {TokensOf(seqs[i]) : i \in 1 .. n}
    BY <1>2, <1>3, <1>4, FlattenTokens
<1>6. TokensOf(picked) = {s[i] : i \in DOMAIN s \cap P}
    BY <1>1, <1>3, <1>5
<1>7. ASSUME NEW k \in DOMAIN picked, k < Len(picked)
      PROVE  \E i \in DOMAIN s \cap P : i < Len(s) /\ picked[k] = s[i]
    <2>1. n # 0
        <3>1. picked[k] \in TokensOf(picked)
            BY <1>7 DEF TokensOf
        <3> QED BY <1>1, <1>6, <3>1
    <2>2. PICK g : /\ picked = g[n] /\ g[1] = seqs[1]
                   /\ \A i \in 1 .. n :
                         /\ i # 1 => g[i] = g[i - 1] \o seqs[i]
                         /\ IsSequence(g[i])
                         /\ TokensOf(g[i]) = UNION {TokensOf(seqs[j]) : j \in 1 .. i}
        <3>1. \A i \in DOMAIN seqs : IsSequence(seqs[i])
            BY <1>2, <1>3
        <3>2. PICK g : StrungBy(g, seqs)
            BY <1>2, <2>1, <3>1, Strung
        <3> WITNESS g
        <3> QED BY <1>2, <1>4, <3>2 DEF StrungBy
    <2>3. Len(picked) \in Nat /\ DOMAIN picked = 1 .. Len(picked)
        BY <1>5, SequenceFacts
    <2>4. CASE n = 1
        <3>1. picked = one(1)
            BY <1>3, <2>2, <2>4
        <3>2. Len(picked) \in {0, 1}
            BY <1>3, <2>4, <3>1
        <3> QED BY <1>7, <2>3, <3>2
    <2>5. CASE n # 1
        <3> DEFINE g1 == g[n - 1]
        <3>1. n \in 1 .. n /\ n - 1 \in 1 .. n
            BY <1>1, <2>1, <2>5
        <3>2. /\ picked = g1 \o one(n) /\ IsSequence(g1) /\ IsSequence(one(n))
              /\ TokensOf(g1) = UNION {TokensOf(seqs[j]) : j \in 1 .. n - 1}
              /\ Len(one(n)) \in {0, 1}
            BY <1>3, <2>2, <2>5, <3>1
        <3> HIDE DEF g1
        <3>3. Len(g1) \in Nat /\ DOMAIN g1 = 1 .. Len(g1)
            BY <3>2, SequenceFacts
        <3>4. Len(picked) = Len(g1) + Len(one(n)) /\ \A i \in 1 .. Len(g1) : picked[i] = g1[i]
            BY <3>2, Concats
        <3>5. k \in 1 .. Len(g1)
            BY <1>7, <2>3, <3>2, <3>3, <3>4
        <3>6. picked[k] = g1[k] /\ g1[k] \in TokensOf(g1)
            BY <3>3, <3>4, <3>5 DEF TokensOf
        <3>7. PICK j \in 1 .. n - 1 : g1[k] \in TokensOf(seqs[j])
            BY <3>2, <3>6
        <3>8. j \in 1 .. n /\ j < n
            BY <1>1
        <3> QED BY <1>1, <1>3, <3>6, <3>7, <3>8
    <2> QED BY <2>4, <2>5
<1> QED BY <1>5, <1>6, <1>7 DEF picked

-----------------------------------------------------------------------------
(* Texts and sentences.                                                    *)

LEMMA EncodeAdds ==
    ASSUME NEW text, IsSequence(text)
    PROVE  IsSequence(Encode(text)) /\ TokensOf(Encode(text)) \subseteq TokensOf(text)
<1>1. /\ IsSequence(Encode(text))
      /\ TokensOf(Encode(text)) = {text[i] : i \in DOMAIN text \cap {p \in DOMAIN text : text[p] # Break}}
    BY Picks DEF Encode
<1> QED BY <1>1 DEF TokensOf

\* A piece is a part of the text that ends where one of the ends is, and only
\* the last piece ends where the text does.
LEMMA PiecesAre ==
    ASSUME NEW text, IsSequence(text), NEW ends \in SUBSET Nat
    PROVE  LET pieces == Pieces(text, ends)
           IN  /\ IsSequence(pieces)
               /\ \A k \in DOMAIN pieces :
                      \E e \in ends \cap DOMAIN text, a \in 1 .. Len(text) :
                          /\ a <= e /\ pieces[k] = SubSeq(text, a, e)
                          /\ k < Len(pieces) => e < Len(text)
<1> DEFINE n == Len(text)
           before(p) == {0} \cup {q \in ends : q < p}
           start(p) == 1 + Max(before(p))
           upto == [p \in DOMAIN text |-> SubSeq(text, start(p), p)]
           pieces == Pieces(text, ends)
<1>1. n \in Nat /\ DOMAIN text = 1 .. n
    BY SequenceFacts
<1>2. ASSUME NEW p \in 1 .. n PROVE start(p) \in 1 .. p
    <2>1. before(p) \in SUBSET Nat /\ before(p) # {} /\ p - 1 \in Nat
          /\ \A q \in before(p) : q <= p - 1
        <3>1. p \in Nat /\ 1 <= p /\ p - 1 \in Nat
            BY <1>1
        <3>2. \A q \in before(p) : q \in Nat /\ q <= p - 1
            BY <3>1
        <3>3. 0 \in before(p)
            OBVIOUS
        <3> HIDE DEF before
        <3> QED BY <3>1, <3>2, <3>3
    <2> HIDE DEF before
    <2>2. Max(before(p)) \in before(p) /\ Max(before(p)) <= p - 1 /\ Max(before(p)) \in Nat
        BY <2>1, Greatest
    <2> QED BY <1>1, <2>2
<1> HIDE DEF start
<1>3. IsSequence(upto) /\ Len(upto) = n /\ DOMAIN upto = 1 .. n
    <2>1. upto = [p \in 1 .. n |-> upto[p]]
        BY <1>1
    <2> HIDE DEF upto
    <2> QED BY <1>1, <2>1, ListIs
<1>4. pieces = Picked(upto, ends)
    BY DEF Pieces, start
<1>5. \A p \in 1 .. n : upto[p] = SubSeq(text, start(p), p)
    BY <1>1
<1> HIDE DEF upto, pieces
<1>6. /\ IsSequence(pieces) /\ TokensOf(pieces) = {upto[i] : i \in DOMAIN upto \cap ends}
      /\ \A k \in DOMAIN pieces : k < Len(pieces) =>
             \E i \in DOMAIN upto \cap ends : i < Len(upto) /\ pieces[k] = upto[i]
    BY <1>3, <1>4, Picks
<1>7. ASSUME NEW k \in DOMAIN pieces
      PROVE  \E e \in ends \cap DOMAIN text, a \in 1 .. Len(text) :
                 /\ a <= e /\ pieces[k] = SubSeq(text, a, e)
                 /\ k < Len(pieces) => e < Len(text)
    <2>1. PICK e \in ends \cap (1 .. n) : /\ pieces[k] = upto[e]
                                          /\ k < Len(pieces) => e < n
        <3>1. CASE k < Len(pieces)
            BY <1>3, <1>6, <3>1
        <3>2. CASE ~(k < Len(pieces))
            <4>1. pieces[k] \in TokensOf(pieces)
                BY DEF TokensOf
            <4> QED BY <1>3, <1>6, <3>2, <4>1
        <3> QED BY <3>1, <3>2
    <2>2. start(e) \in 1 .. n /\ start(e) <= e
        BY <1>1, <1>2
    <2> QED BY <1>1, <1>5, <2>1, <2>2
<1> QED BY <1>6, <1>7 DEF pieces

\* A part of a text ends with what the text has there.
LEMMA PartEnds ==
    ASSUME NEW text, IsSequence(text), NEW e \in DOMAIN text, NEW a \in 1 .. Len(text), a <= e
    PROVE  LET part == SubSeq(text, a, e)
           IN  /\ IsSequence(part) /\ part # <<>> /\ TokensOf(part) \subseteq TokensOf(text)
               /\ Last(part) = text[e]
<1> DEFINE part == SubSeq(text, a, e)
<1>1. Len(text) \in Nat /\ DOMAIN text = 1 .. Len(text)
    BY SequenceFacts
<1>2. a \in 1 .. Len(text) + 1 /\ e \in 0 .. Len(text)
    BY <1>1
<1>3. /\ IsSequence(part) /\ TokensOf(part) \subseteq TokensOf(text)
      /\ Len(part) = e - a + 1 /\ \A i \in 1 .. e - a + 1 : part[i] = text[a + i - 1]
    BY <1>1, <1>2, Parts
<1>4. e - a + 1 \in 1 .. e - a + 1 /\ a + (e - a + 1) - 1 = e
    BY <1>1
<1> HIDE DEF part
<1>5. part[Len(part)] = text[e] /\ Len(part) # 0
    BY <1>3, <1>4
<1>6. part # <<>>
    BY <1>5, NoneAndOne
<1> QED BY <1>3, <1>5, <1>6 DEF Last, part

\* Every sentence but the last ends with its stop.
LEMMA SentencesAre ==
    ASSUME NEW text, IsSequence(text)
    PROVE  LET sentences == SplitSentences(text)
           IN  /\ IsSequence(sentences)
               /\ \A k \in DOMAIN sentences :
                      /\ IsSequence(sentences[k]) /\ sentences[k] # <<>>
                      /\ TokensOf(sentences[k]) \subseteq TokensOf(text)
                      /\ k < Len(sentences) => Last(sentences[k]) = Stop
<1> DEFINE words == Encode(text)
           ends == {p \in DOMAIN words : words[p] = Stop \/ p = Len(words)}
           sentences == SplitSentences(text)
<1>1. IsSequence(words) /\ TokensOf(words) \subseteq TokensOf(text)
    BY EncodeAdds
<1>2. Len(words) \in Nat /\ DOMAIN words = 1 .. Len(words)
    BY <1>1, SequenceFacts
<1>3. sentences = Pieces(words, ends)
    BY DEF SplitSentences
<1> HIDE DEF words
<1>4. ends \in SUBSET Nat
    BY <1>2
<1>5. \A e \in ends : e \in DOMAIN words /\ (e < Len(words) => words[e] = Stop)
    BY <1>2
<1> HIDE DEF ends, sentences
<1>6. /\ IsSequence(sentences)
      /\ \A k \in DOMAIN sentences :
             \E e \in ends \cap DOMAIN words, a \in 1 .. Len(words) :
                 /\ a <= e /\ sentences[k] = SubSeq(words, a, e)
                 /\ k < Len(sentences) => e < Len(words)
    BY <1>1, <1>3, <1>4, PiecesAre
<1>7. ASSUME NEW k \in DOMAIN sentences
      PROVE  /\ IsSequence(sentences[k]) /\ sentences[k] # <<>>
             /\ TokensOf(sentences[k]) \subseteq TokensOf(text)
             /\ k < Len(sentences) => Last(sentences[k]) = Stop
    <2>1. PICK e \in ends \cap DOMAIN words, a \in 1 .. Len(words) :
                 /\ a <= e /\ sentences[k] = SubSeq(words, a, e)
                 /\ k < Len(sentences) => e < Len(words)
        BY <1>6
    <2>2. /\ IsSequence(sentences[k]) /\ sentences[k] # <<>>
          /\ TokensOf(sentences[k]) \subseteq TokensOf(words)
          /\ Last(sentences[k]) = words[e]
        BY <1>1, <2>1, PartEnds
    <2> QED BY <1>1, <1>5, <2>1, <2>2
<1> QED BY <1>6, <1>7 DEF sentences

\* A sentence without its stop.
LEMMA StopTaken ==
    ASSUME NEW s, IsSequence(s)
    PROVE  /\ IsSequence(WithoutStop(s)) /\ TokensOf(WithoutStop(s)) \subseteq TokensOf(s)
           /\ s # <<>> /\ Last(s) = Stop => WithoutStop(s) # s
           /\ WithoutStop(s \o <<Stop>>) = s
<1>1. Len(s) \in Nat /\ DOMAIN s = 1 .. Len(s)
    BY SequenceFacts
<1> DEFINE Goal == /\ IsSequence(WithoutStop(s)) /\ TokensOf(WithoutStop(s)) \subseteq TokensOf(s)
                   /\ s # <<>> /\ Last(s) = Stop => WithoutStop(s) # s
<1>2. ASSUME s # <<>> /\ Last(s) = Stop PROVE Goal
    <2>1. WithoutStop(s) = SubSeq(s, 1, Len(s) - 1)
        BY <1>2 DEF WithoutStop, Front
    <2>2. Len(s) # 0
        <3>1. s \in Seq(TokensOf(s))
            BY DEF IsSequence
        <3> QED BY <1>2, <3>1
    <2>3. 1 \in 1 .. Len(s) + 1 /\ Len(s) - 1 \in 0 .. Len(s)
        BY <1>1, <2>2
    <2>4. /\ IsSequence(WithoutStop(s)) /\ TokensOf(WithoutStop(s)) \subseteq TokensOf(s)
          /\ Len(WithoutStop(s)) = IF 1 <= Len(s) - 1 THEN (Len(s) - 1) - 1 + 1 ELSE 0
        <3> DEFINE u == SubSeq(s, 1, Len(s) - 1)
        <3>1. /\ IsSequence(u) /\ TokensOf(u) \subseteq TokensOf(s)
              /\ Len(u) = IF 1 <= Len(s) - 1 THEN (Len(s) - 1) - 1 + 1 ELSE 0
            BY <2>3, Parts
        <3> QED BY <2>1, <3>1, Zenon
    <2>5. Len(WithoutStop(s)) # Len(s)
        <3>1. Len(s) \in Nat \ {0}
            BY <1>1, <2>2
        <3>2. Len(WithoutStop(s)) = IF 1 <= Len(s) - 1 THEN (Len(s) - 1) - 1 + 1 ELSE 0
            BY <2>4
        <3> QED BY <3>1, <3>2
    <2> QED BY <2>4, <2>5
<1>3. ASSUME ~(s # <<>> /\ Last(s) = Stop) PROVE Goal
    BY <1>3 DEF WithoutStop
<1>4. WithoutStop(s \o <<Stop>>) = s
    <2> DEFINE t == s \o <<Stop>>
    <2>1. /\ IsSequence(t) /\ Len(t) = Len(s) + 1
          /\ \A i \in 1 .. Len(s) : t[i] = s[i]
          /\ t[Len(s) + 1] = Stop
        <3>1. IsSequence(<<Stop>>) /\ Len(<<Stop>>) = 1 /\ <<Stop>>[1] = Stop /\ 1 \in 1 .. 1
            BY NoneAndOne
        <3> QED BY <3>1, Concats
    <2> HIDE DEF t
    <2>2. t # <<>> /\ Last(t) = Stop
        BY <1>1, <2>1, NoneAndOne DEF Last
    <2>3. WithoutStop(t) = SubSeq(t, 1, Len(s))
        BY <1>1, <2>1, <2>2 DEF WithoutStop, Front
    <2>4. /\ IsSequence(SubSeq(t, 1, Len(s)))
          /\ Len(SubSeq(t, 1, Len(s))) = Len(s)
          /\ \A i \in 1 .. Len(s) : SubSeq(t, 1, Len(s))[i] = t[i]
        <3>1. 1 \in 1 .. Len(t) + 1 /\ Len(s) \in 0 .. Len(t) /\ Len(s) - 1 + 1 = Len(s)
              /\ (1 <= Len(s) \/ Len(s) = 0) /\ \A i \in 1 .. Len(s) : 1 + i - 1 = i
            BY <1>1, <2>1
        <3> QED BY <2>1, <3>1, Parts
    <2>5. SubSeq(t, 1, Len(s)) = s
        <3> DEFINE p == SubSeq(t, 1, Len(s))
        <3>1. IsSequence(p) /\ Len(p) = Len(s) /\ \A i \in 1 .. Len(s) : p[i] = s[i]
            BY <2>1, <2>4
        <3> HIDE DEF p
        <3>2. p \in Seq(TokensOf(p) \cup TokensOf(s)) /\ s \in Seq(TokensOf(p) \cup TokensOf(s))
            BY <3>1, SequenceFacts
        <3>3. p = s
            BY <3>1, <3>2, SeqEqual
        <3> QED BY <3>3 DEF p
    <2> QED BY <2>3, <2>5 DEF t
<1> QED BY <1>2, <1>3, <1>4

-----------------------------------------------------------------------------
(* The rewrite keeps the facts.                                            *)

\* A unit stays held when more is written before or behind.
LEMMA HoldsOn ==
    ASSUME NEW s, NEW t, IsSequence(s), IsSequence(t), NEW unit, HoldsUnit(s, unit)
    PROVE  HoldsUnit(s \o t, unit) /\ HoldsUnit(t \o s, unit)
<1>1. PICK at \in DOMAIN s :
          /\ s[at] = unit.word
          /\ unit.before \subseteq {s[j] : j \in DOMAIN s \cap {at - 1}}
          /\ unit.behind \subseteq {s[j] : j \in DOMAIN s \cap {at + 1}}
    BY DEF HoldsUnit
<1>2. /\ Len(s) \in Nat /\ DOMAIN s = 1 .. Len(s) /\ Len(t) \in Nat /\ DOMAIN t = 1 .. Len(t)
      /\ DOMAIN (s \o t) = 1 .. (Len(s) + Len(t)) /\ DOMAIN (t \o s) = 1 .. (Len(t) + Len(s))
      /\ \A i \in 1 .. Len(s) : (s \o t)[i] = s[i] /\ (t \o s)[Len(t) + i] = s[i]
    BY SequenceFacts, Concats
<1>3. HoldsUnit(s \o t, unit)
    <2> DEFINE u == s \o t
    <2>1. \A i \in DOMAIN s : i \in DOMAIN u /\ u[i] = s[i]
        BY <1>2
    <2> HIDE DEF u
    <2>2. /\ at \in DOMAIN u /\ u[at] = unit.word
          /\ unit.before \subseteq {u[j] : j \in DOMAIN u \cap {at - 1}}
          /\ unit.behind \subseteq {u[j] : j \in DOMAIN u \cap {at + 1}}
        BY <1>1, <2>1
    <2>3. HoldsUnit(u, unit)
        BY <2>2 DEF HoldsUnit
    <2> QED BY <2>3 DEF u
<1>4. HoldsUnit(t \o s, unit)
    <2> DEFINE u == t \o s
               to == Len(t) + at
    <2>1. \A i \in DOMAIN s : Len(t) + i \in DOMAIN u /\ u[Len(t) + i] = s[i]
        BY <1>2
    <2>2. to - 1 = Len(t) + (at - 1) /\ to + 1 = Len(t) + (at + 1)
        BY <1>2
    <2> HIDE DEF u, to
    <2>3. to \in DOMAIN u /\ u[to] = unit.word
        BY <1>1, <2>1 DEF to
    <2>4. unit.before \subseteq {u[j] : j \in DOMAIN u \cap {to - 1}}
        BY <1>1, <2>1, <2>2
    <2>5. unit.behind \subseteq {u[j] : j \in DOMAIN u \cap {to + 1}}
        BY <1>1, <2>1, <2>2
    <2>6. HoldsUnit(u, unit)
        BY <2>3, <2>4, <2>5 DEF HoldsUnit
    <2> QED BY <2>6 DEF u
<1> QED BY <1>3, <1>4

\* Something has been written behind what was there.
GoneOn(before, after) == \E more : IsSequence(more) /\ after = before \o more

\* All the words a rewrite can write.
Written(words) ==
    TokensOf(words) \cup TokensOf(Fillers) \cup UNION {TokensOf(Swaps[w]) : w \in DOMAIN Swaps}

Rewriting(words) == [out : Seq(Written(words)), since : Nat, fillers : Nat]

\* One word: something is written behind what is there, and it is the word
\* alone if the word is guarded.
LEMMA WordWritten ==
    ASSUME NEW words, IsSequence(words), NEW base \in Nat,
           NEW done \in Rewriting(words), NEW i \in DOMAIN words
    PROVE  LET next == RewriteWord(done, words, i, base)
           IN  /\ next \in Rewriting(words)
               /\ GoneOn(done.out, next.out)
               /\ FactGuard(words, i) => next.out = done.out \o <<words[i]>>
<1> DEFINE W == Written(words)
           word == words[i]
           since == done.since + 1
           filler == Fillers[((base + done.fillers) % Len(Fillers)) + 1]
           next == RewriteWord(done, words, i, base)
<1>1. /\ done.out \in Seq(W) /\ done.since \in Nat /\ done.fillers \in Nat
      /\ done = [out |-> done.out, since |-> done.since, fillers |-> done.fillers]
    BY DEF Rewriting
<1>2. word \in W
    BY SequenceFacts DEF Written, TokensOf
<1>3. filler \in W
    <2>1. /\ IsSequence(Fillers) /\ Fillers # <<>>
        BY ParaphraseAssumption DEF ParaphraseAssumption
    <2>2. Len(Fillers) \in Nat \ {0} /\ DOMAIN Fillers = 1 .. Len(Fillers)
        <3>1. Fillers \in Seq(TokensOf(Fillers))
            BY <2>1 DEF IsSequence
        <3> QED BY <2>1, <3>1
    <2>3. (base + done.fillers) % Len(Fillers) \in 0 .. Len(Fillers) - 1
        BY <1>1, <2>2
    <2>4. ((base + done.fillers) % Len(Fillers)) + 1 \in DOMAIN Fillers
        BY <2>2, <2>3
    <2> QED BY <2>4 DEF Written, TokensOf
<1>4. \A w \in DOMAIN Swaps : Swaps[w] \in Seq(W)
    <2> SUFFICES ASSUME NEW w \in DOMAIN Swaps PROVE Swaps[w] \in Seq(W)
        OBVIOUS
    <2>1. IsSequence(Swaps[w])
        BY ParaphraseAssumption DEF ParaphraseAssumption
    <2>2. TokensOf(Swaps[w]) \subseteq W
        BY DEF Written
    <2> QED BY <2>1, <2>2, SequenceFacts
<1> HIDE DEF W, filler, word, next
<1>5. CASE ~FactGuard(words, i) /\ word \in DOMAIN Swaps /\ since >= 2
    <2>1. next = [out |-> done.out \o Swaps[word], since |-> 0, fillers |-> done.fillers]
        BY <1>1, <1>5 DEF next, RewriteWord, word
    <2>2. done.out \o Swaps[word] \in Seq(W)
        BY <1>1, <1>4, <1>5, ConcatProperties
    <2>3. next \in Rewriting(words)
        BY <1>1, <2>1, <2>2 DEF Rewriting, W
    <2>4. next.out = done.out \o Swaps[word] /\ Swaps[word] \in Seq(W)
        BY <1>4, <1>5, <2>1
    <2> QED BY <1>5, <2>3, <2>4, InSeq DEF W, next, GoneOn
<1>6. CASE ~FactGuard(words, i) /\ word \notin DOMAIN Swaps /\ since >= ForceWindow
    <2>1. next = [out |-> done.out \o <<filler, word>>, since |-> 0, fillers |-> done.fillers + 1]
        BY <1>1, <1>6 DEF next, RewriteWord, word, filler
    <2>2. <<filler, word>> \in Seq(W)
        BY <1>2, <1>3
    <2>3. done.out \o <<filler, word>> \in Seq(W)
        BY <1>1, <2>2, ConcatProperties
    <2>4. next \in Rewriting(words)
        BY <1>1, <2>1, <2>3 DEF Rewriting, W
    <2>5. next.out = done.out \o <<filler, word>>
        BY <2>1
    <2> QED BY <1>6, <2>2, <2>4, <2>5, InSeq DEF W, next, GoneOn
<1>7. CASE /\ ~(~FactGuard(words, i) /\ word \in DOMAIN Swaps /\ since >= 2)
           /\ ~(~FactGuard(words, i) /\ word \notin DOMAIN Swaps /\ since >= ForceWindow)
    <2>1. next = [out |-> Append(done.out, word), since |-> since, fillers |-> done.fillers]
        BY <1>1, <1>7 DEF next, RewriteWord, word
    <2>2. Append(done.out, word) = done.out \o <<word>> /\ <<word>> \in Seq(W)
        BY <1>1, <1>2, AppendIsConcat
    <2>3. done.out \o <<word>> \in Seq(W)
        BY <1>1, <2>2, ConcatProperties
    <2>4. next \in Rewriting(words)
        BY <1>1, <2>1, <2>2, <2>3 DEF Rewriting, W
    <2>5. next.out = done.out \o <<word>>
        BY <2>1, <2>2
    <2> QED BY <2>2, <2>4, <2>5, InSeq DEF W, next, word, GoneOn
<1> QED BY <1>5, <1>6, <1>7

\* g is the loop over the words, word by word.
Rewrites(g, words, base) ==
    g = [i \in 0..Len(words) |->
            IF i = 0 THEN [out |-> <<>>, since |-> 0, fillers |-> 0]
            ELSE RewriteWord(g[i - 1], words, i, base)]

LEMMA RewritesExists ==
    ASSUME NEW words, IsSequence(words), NEW base \in Nat
    PROVE  \E g \in [0 .. Len(words) -> Rewriting(words)] : Rewrites(g, words, base)
<1> DEFINE n == Len(words)
           S == Rewriting(words)
           none == [out |-> <<>>, since |-> 0, fillers |-> 0]
           step == [a \in S \X (1 .. n) |-> RewriteWord(a[1], words, a[2], base)]
<1>1. n \in Nat /\ DOMAIN words = 1 .. n
    BY SequenceFacts
<1>2. none \in S
    BY EmptySeq DEF Rewriting
<1>3. \A d \in S, i \in 1 .. n : RewriteWord(d, words, i, base) \in S
    BY <1>1, WordWritten
<1> HIDE DEF S, none
<1>4. step \in [S \X (1 .. n) -> S] /\ \A d \in S, i \in 1 .. n : step[<<d, i>>] = RewriteWord(d, words, i, base)
    BY <1>3
<1> HIDE DEF step
<1>5. PICK g : StepsOn(g, n, S, none, step)
    BY <1>1, <1>2, <1>4, Iterates
<1> USE DEF StepsOn
<1>6. \A i \in 0 .. n : g[i] = IF i = 0 THEN none ELSE RewriteWord(g[i - 1], words, i, base)
    <2> SUFFICES ASSUME NEW i \in 0 .. n, i # 0
                 PROVE  g[i] = RewriteWord(g[i - 1], words, i, base)
        BY <1>5
    <2>1. i \in 1 .. n /\ i - 1 \in 0 .. n
        BY <1>1
    <2>2. g[i] = step[<<g[i - 1], i>>] /\ g[i - 1] \in S
        BY <1>5, <2>1
    <2> QED BY <1>4, <2>1, <2>2
<1>7. g = [i \in 0 .. n |-> g[i]]
    BY <1>5
<1>8. Rewrites(g, words, base)
    BY <1>6, <1>7 DEF Rewrites, none
<1> QED BY <1>5, <1>8 DEF S

\* What is written for a sentence holds its numbers between their neighbours.
LEMMA SentenceWritten ==
    ASSUME NEW sentence, IsSequence(sentence), NEW base \in Nat
    PROVE  LET words == WithoutStop(sentence)
           IN  \E out : /\ IsSequence(out)
                        /\ RewriteSentence(sentence, base)
                               = out \o (IF words = sentence THEN <<>> ELSE <<Stop>>)
                        /\ \A unit \in UnitsOf(words) : HoldsUnit(out, unit)
<1> DEFINE words == WithoutStop(sentence)
           n == Len(words)
           g == CHOOSE g : Rewrites(g, words, base)
<1>1. IsSequence(words)
    BY StopTaken
<1> HIDE DEF words
<1>2. n \in Nat /\ DOMAIN words = 1 .. n
    BY <1>1, SequenceFacts
<1>3. Rewrites(g, words, base)
    BY <1>1, RewritesExists
<1>4. RewriteSentence(sentence, base) = g[n].out \o (IF words = sentence THEN <<>> ELSE <<Stop>>)
    BY DEF RewriteSentence, Rewrites, words
<1> HIDE DEF g
<1>5. \A i \in 0 .. n : g[i] = IF i = 0 THEN [out |-> <<>>, since |-> 0, fillers |-> 0]
                               ELSE RewriteWord(g[i - 1], words, i, base)
    BY <1>3, Zenon DEF Rewrites
<1> DEFINE o(i) == g[i].out
           Good(i) == g[i] \in Rewriting(words)
           Bad == {i \in 0 .. n : ~Good(i)}
<1>6. ASSUME NEW k \in Bad, \A j \in Bad : k <= j PROVE FALSE
    <2>1. k # 0
        <3>1. [out |-> <<>>, since |-> 0, fillers |-> 0] \in Rewriting(words)
            BY EmptySeq DEF Rewriting
        <3>2. 0 \in 0 .. n
            BY <1>2
        <3> QED BY <1>5, <3>1, <3>2
    <2>2. k - 1 \in 0 .. n /\ ~(k <= k - 1) /\ k \in DOMAIN words
        BY <1>2, <2>1
    <2>3. Good(k - 1)
        BY <1>6, <2>2
    <2>4. g[k] = RewriteWord(g[k - 1], words, k, base)
        BY <1>5, <2>1
    <2> QED BY <1>1, <2>2, <2>3, <2>4, WordWritten
<1>7. Bad \subseteq Nat
    BY <1>2
<1> HIDE DEF Bad
<1>8. Bad = {}
    BY <1>6, <1>7, Least
<1>9. \A i \in 0 .. n : Good(i)
    BY <1>8 DEF Bad
<1>10. ASSUME NEW i \in 1 .. n
       PROVE  /\ IsSequence(o(i - 1)) /\ IsSequence(o(i)) /\ i - 1 \in 0 .. n
              /\ \E more : IsSequence(more) /\ o(i) = o(i - 1) \o more
              /\ FactGuard(words, i) => o(i) = o(i - 1) \o <<words[i]>>
    <2>1. i - 1 \in 0 .. n /\ i \in 0 .. n /\ i # 0 /\ i \in DOMAIN words
        BY <1>2
    <2>2. g[i] = RewriteWord(g[i - 1], words, i, base) /\ Good(i) /\ Good(i - 1)
        BY <1>5, <1>9, <2>1
    <2> DEFINE next == RewriteWord(g[i - 1], words, i, base)
    <2>3. /\ GoneOn(o(i - 1), o(i))
          /\ FactGuard(words, i) => o(i) = o(i - 1) \o <<words[i]>>
        <3>1. /\ GoneOn(g[i - 1].out, next.out)
              /\ FactGuard(words, i) => next.out = g[i - 1].out \o <<words[i]>>
            BY <1>1, <2>1, <2>2, WordWritten
        <3>2. g[i] = next
            BY <2>2
        <3> HIDE DEF next
        <3> QED BY <3>1, <3>2
    <2>4. o(i) \in Seq(Written(words)) /\ o(i - 1) \in Seq(Written(words))
        BY <2>2 DEF Rewriting
    <2> HIDE DEF o
    <2>5. IsSequence(o(i)) /\ IsSequence(o(i - 1))
        BY <2>4, InSeq
    <2> QED BY <2>1, <2>3, <2>5 DEF GoneOn
<1> HIDE DEF Good
<1>11. ASSUME NEW i \in 1 .. n, FactGuard(words, i)
       PROVE  LET q == Len(o(i - 1)) + 1
              IN  /\ IsSequence(o(i - 1)) /\ IsSequence(o(i)) /\ Len(o(i)) = q /\ q \in Nat \ {0}
                  /\ DOMAIN o(i) = 1 .. q
                  /\ o(i)[q] = words[i]
                  /\ \A j \in 1 .. q - 1 : o(i)[j] = o(i - 1)[j]
    <2>1. /\ IsSequence(o(i - 1)) /\ IsSequence(o(i))
          /\ o(i) = o(i - 1) \o <<words[i]>>
        BY <1>10, <1>11
    <2> HIDE DEF o
    <2>2. Len(o(i - 1)) \in Nat /\ DOMAIN o(i) = 1 .. Len(o(i))
        BY <2>1, SequenceFacts
    <2>3. IsSequence(<<words[i]>>) /\ Len(<<words[i]>>) = 1 /\ 1 \in 1 .. 1 /\ <<words[i]>>[1] = words[i]
        BY NoneAndOne
    <2>4. /\ Len(o(i)) = Len(o(i - 1)) + 1
          /\ \A j \in 1 .. Len(o(i - 1)) : o(i)[j] = o(i - 1)[j]
          /\ o(i)[Len(o(i - 1)) + 1] = words[i]
        BY <2>1, <2>3, Concats
    <2> QED BY <2>1, <2>2, <2>4
<1> HIDE DEF o
<1>12. ASSUME NEW i \in 1 .. n, words[i] \in Numbers, NEW unit,
              unit = [word |-> words[i],
                      before |-> IF i > 1 THEN {words[i - 1]} ELSE {},
                      behind |-> IF i < n THEN {words[i + 1]} ELSE {}]
       PROVE  HoldsUnit(o(n), unit)
    <2> DEFINE q == Len(o(i - 1)) + 1
               m == IF i < n THEN i + 1 ELSE i
    <2>1. /\ FactGuard(words, i)
          /\ i > 1 => i - 1 \in 1 .. n /\ FactGuard(words, i - 1) /\ (i - 1) - 1 = i - 2
          /\ i < n => i + 1 \in 1 .. n /\ FactGuard(words, i + 1) /\ (i + 1) - 1 = i
        BY <1>2, <1>12 DEF FactGuard
    <2>2. /\ q \in Nat \ {0} /\ IsSequence(o(i)) /\ Len(o(i)) = q /\ DOMAIN o(i) = 1 .. q
          /\ o(i)[q] = words[i] /\ \A j \in 1 .. q - 1 : o(i)[j] = o(i - 1)[j]
        BY <1>11, <2>1
    <2>3. i > 1 => q - 1 \in 1 .. q /\ o(i)[q - 1] = words[i - 1]
        <3> SUFFICES ASSUME i > 1 PROVE q - 1 \in 1 .. q /\ o(i)[q - 1] = words[i - 1]
            OBVIOUS
        <3>1. LET p == Len(o(i - 2)) + 1
              IN  Len(o(i - 1)) = p /\ p \in Nat \ {0} /\ o(i - 1)[p] = words[i - 1]
            BY <1>11, <2>1
        <3>2. q - 1 = Len(o(i - 1)) /\ Len(o(i - 1)) \in Nat \ {0} /\ o(i - 1)[q - 1] = words[i - 1]
            BY <3>1
        <3>3. q - 1 \in 1 .. q - 1
            BY <2>2, <3>2
        <3> QED BY <2>2, <3>2, <3>3
    <2>4. /\ IsSequence(o(m)) /\ m \in 1 .. n
          /\ \A j \in 1 .. q : j \in DOMAIN o(m) /\ o(m)[j] = o(i)[j]
          /\ i < n => q + 1 \in DOMAIN o(m) /\ o(m)[q + 1] = words[i + 1]
        <3>1. CASE i < n
            <4>1. LET p == Len(o(i)) + 1
                  IN  /\ IsSequence(o(m)) /\ Len(o(m)) = p /\ DOMAIN o(m) = 1 .. p
                      /\ o(m)[p] = words[i + 1] /\ \A j \in 1 .. p - 1 : o(m)[j] = o(i)[j]
                BY <1>11, <2>1, <3>1
            <4>2. Len(o(i)) + 1 = q + 1 /\ (q + 1) - 1 = q /\ q + 1 \in 1 .. q + 1
                  /\ \A j \in 1 .. q : j \in 1 .. q + 1
                BY <2>2
            <4> QED BY <2>1, <3>1, <4>1, <4>2
        <3>2. CASE ~(i < n)
            BY <2>2, <3>2
        <3> QED BY <3>1, <3>2
    <2> HIDE DEF q
    <2>5. HoldsUnit(o(m), unit)
        <3>1. q \in DOMAIN o(m) /\ o(m)[q] = words[i]
            BY <2>2, <2>4
        <3>2. unit.before \subseteq {o(m)[j] : j \in DOMAIN o(m) \cap {q - 1}}
            <4>1. CASE i > 1
                <5>1. q - 1 \in DOMAIN o(m) /\ o(m)[q - 1] = words[i - 1]
                    BY <2>3, <2>4, <4>1
                <5> QED BY <1>12, <4>1, <5>1
            <4>2. CASE ~(i > 1)
                BY <1>12, <4>2
            <4> QED BY <4>1, <4>2
        <3>3. unit.behind \subseteq {o(m)[j] : j \in DOMAIN o(m) \cap {q + 1}}
            <4>1. CASE i < n
                BY <1>12, <2>4, <4>1
            <4>2. CASE ~(i < n)
                BY <1>12, <4>2
            <4> QED BY <4>1, <4>2
        <3> QED BY <1>12, <3>1, <3>2, <3>3 DEF HoldsUnit
    <2> HIDE DEF m
    <2> DEFINE Lost == {j \in m .. n : ~HoldsUnit(o(j), unit)}
    <2>6. ASSUME NEW k \in Lost, \A j \in Lost : k <= j PROVE FALSE
        <3>1. k # m
            BY <2>5
        <3>2. k \in 1 .. n /\ k - 1 \in m .. n /\ ~(k <= k - 1)
            BY <1>2, <2>4, <3>1
        <3>3. HoldsUnit(o(k - 1), unit)
            BY <2>6, <3>2
        <3>4. PICK more : IsSequence(more) /\ o(k) = o(k - 1) \o more /\ IsSequence(o(k - 1))
            BY <1>10, <3>2
        <3> QED BY <3>3, <3>4, HoldsOn
    <2>7. Lost \subseteq Nat
        BY <1>2, <2>4
    <2> HIDE DEF Lost
    <2>8. Lost = {}
        BY <2>6, <2>7, Least
    <2>9. n \in m .. n
        BY <1>2, <2>4
    <2> QED BY <2>8, <2>9 DEF Lost
<1>13. IsSequence(o(n))
    <2>1. g[n] \in Rewriting(words)
        <3>1. n \in 0 .. n
            BY <1>2
        <3> QED BY <1>9, <3>1 DEF Good
    <2>2. o(n) \in Seq(Written(words))
        BY <2>1 DEF Rewriting, o
    <2> QED BY <2>2, InSeq
<1>14. \A unit \in UnitsOf(words) : HoldsUnit(o(n), unit)
    <2> SUFFICES ASSUME NEW unit \in UnitsOf(words) PROVE HoldsUnit(o(n), unit)
        OBVIOUS
    <2>1. PICK i \in {j \in DOMAIN words : words[j] \in Numbers} :
              unit = [word |-> words[i],
                      before |-> IF i > 1 THEN {words[i - 1]} ELSE {},
                      behind |-> IF i < Len(words) THEN {words[i + 1]} ELSE {}]
        BY DEF UnitsOf
    <2>2. i \in 1 .. n /\ words[i] \in Numbers
        BY <1>2
    <2> QED BY <1>12, <2>1, <2>2
<1>15. RewriteSentence(sentence, base) = o(n) \o (IF words = sentence THEN <<>> ELSE <<Stop>>)
    BY <1>4 DEF o
<1> QED BY <1>13, <1>14, <1>15 DEF words

\* Every number of a sentence is in a text, between its neighbours.
Held(out, sentence) == \A unit \in UnitsOf(WithoutStop(sentence)) : HoldsUnit(out, unit)

\* What is written for a sentence holds its numbers, its stop taken or not.
LEMMA SentenceHeld ==
    ASSUME NEW sentence, IsSequence(sentence), NEW base \in Nat
    PROVE  LET written == RewriteSentence(sentence, base)
           IN  /\ IsSequence(written) /\ Held(written, sentence)
               /\ sentence # <<>> /\ Last(sentence) = Stop => Held(WithoutStop(written), sentence)
<1> DEFINE words == WithoutStop(sentence)
           written == RewriteSentence(sentence, base)
           end == IF words = sentence THEN <<>> ELSE <<Stop>>
<1>1. PICK out : /\ IsSequence(out) /\ written = out \o end
                 /\ \A unit \in UnitsOf(words) : HoldsUnit(out, unit)
    BY SentenceWritten
<1>2. IsSequence(end)
    BY NoneAndOne
<1>3. sentence # <<>> /\ Last(sentence) = Stop => end = <<Stop>>
    BY StopTaken
<1> HIDE DEF end, written
<1>4. IsSequence(written)
    BY <1>1, <1>2, Concats
<1>5. \A unit \in UnitsOf(words) : HoldsUnit(written, unit)
    BY <1>1, <1>2, HoldsOn
<1>6. ASSUME sentence # <<>> /\ Last(sentence) = Stop PROVE WithoutStop(written) = out
    BY <1>1, <1>3, <1>6, StopTaken
<1> QED BY <1>1, <1>4, <1>5, <1>6 DEF Held, written

\* The sentences of a text as SplitSentences leaves them.
Sentences(sentences) ==
    /\ IsSequence(sentences)
    /\ \A k \in DOMAIN sentences :
           /\ IsSequence(sentences[k]) /\ sentences[k] # <<>>
           /\ k < Len(sentences) => Last(sentences[k]) = Stop

\* The loop over the sentences, one by one.
Rewritten(sentences, j) == RewriteSentence(sentences[j], FillerBase + j - 1)
Link == <<";", "in other words">>

JoinWords(sentences) ==
    TokensOf(Link) \cup UNION {TokensOf(Rewritten(sentences, j)) : j \in DOMAIN sentences}

JoinStates(sentences) == [out : Seq(JoinWords(sentences)), joined : BOOLEAN]

Joins(g, sentences) ==
    g = [k \in 0..Len(sentences) |->
            IF k = 0 THEN [out |-> <<>>, joined |-> FALSE]
            ELSE JoinSentence(g[k - 1], sentences, k)]

\* After k sentences: each of them is held, and the next if it was taken along.
JoinedSoFar(done, sentences, k) ==
    /\ IsSequence(done.out)
    /\ \A j \in DOMAIN sentences :
           j <= k \/ (done.joined /\ j = k + 1) => Held(done.out, sentences[j])

LEMMA RewrittenHeld ==
    ASSUME NEW sentences, Sentences(sentences), NEW j \in DOMAIN sentences
    PROVE  LET written == Rewritten(sentences, j)
           IN  /\ IsSequence(written) /\ Held(written, sentences[j])
               /\ IsSequence(WithoutStop(written))
               /\ TokensOf(WithoutStop(written)) \subseteq TokensOf(written)
               /\ j < Len(sentences) => Held(WithoutStop(written), sentences[j])
<1>1. FillerBase + j - 1 \in Nat /\ IsSequence(sentences[j])
    <2>1. Len(sentences) \in Nat /\ DOMAIN sentences = 1 .. Len(sentences) /\ FillerBase \in Nat
        BY SequenceFacts, ParaphraseAssumption DEF Sentences, ParaphraseAssumption
    <2> QED BY <2>1 DEF Sentences
<1>2. j < Len(sentences) => sentences[j] # <<>> /\ Last(sentences[j]) = Stop
    BY DEF Sentences
<1> QED BY <1>1, <1>2, SentenceHeld, StopTaken DEF Rewritten

\* What was held stays held when more is written.
LEMMA HeldOn ==
    ASSUME NEW s, NEW t, IsSequence(s), IsSequence(t), NEW sentence
    PROVE  /\ Held(s, sentence) => Held(s \o t, sentence)
           /\ Held(t, sentence) => Held(s \o t, sentence)
BY HoldsOn DEF Held

LEMMA LinkIs == IsSequence(Link)
<1>1. Link \in Seq({";", "in other words"})
    BY DEF Link
<1> QED BY <1>1, InSeq

\* One sentence more.
LEMMA SentenceJoined ==
    ASSUME NEW sentences, Sentences(sentences), NEW k \in DOMAIN sentences,
           NEW done \in JoinStates(sentences)
    PROVE  LET next == JoinSentence(done, sentences, k)
           IN  /\ next \in JoinStates(sentences)
               /\ JoinedSoFar(done, sentences, k - 1) => JoinedSoFar(next, sentences, k)
<1> DEFINE U == JoinWords(sentences)
           next == JoinSentence(done, sentences, k)
           R(j) == Rewritten(sentences, j)
<1>1. /\ done.out \in Seq(U) /\ done.joined \in BOOLEAN
      /\ done = [out |-> done.out, joined |-> done.joined]
    BY DEF JoinStates
<1>2. Len(sentences) \in Nat /\ DOMAIN sentences = 1 .. Len(sentences)
    BY SequenceFacts DEF Sentences
<1>3. \A j \in DOMAIN sentences :
          /\ IsSequence(R(j)) /\ Held(R(j), sentences[j]) /\ R(j) \in Seq(U)
          /\ IsSequence(WithoutStop(R(j))) /\ WithoutStop(R(j)) \in Seq(U)
          /\ j < Len(sentences) => Held(WithoutStop(R(j)), sentences[j])
    <2> SUFFICES ASSUME NEW j \in DOMAIN sentences
                 PROVE  /\ IsSequence(R(j)) /\ Held(R(j), sentences[j]) /\ R(j) \in Seq(U)
                        /\ IsSequence(WithoutStop(R(j))) /\ WithoutStop(R(j)) \in Seq(U)
                        /\ j < Len(sentences) => Held(WithoutStop(R(j)), sentences[j])
        OBVIOUS
    <2>1. /\ IsSequence(R(j)) /\ Held(R(j), sentences[j])
          /\ IsSequence(WithoutStop(R(j))) /\ TokensOf(WithoutStop(R(j))) \subseteq TokensOf(R(j))
          /\ j < Len(sentences) => Held(WithoutStop(R(j)), sentences[j])
        BY RewrittenHeld
    <2>2. TokensOf(R(j)) \subseteq U
        BY DEF JoinWords
    <2>3. TokensOf(WithoutStop(R(j))) \subseteq U
        BY <2>1, <2>2
    <2> HIDE DEF R, U
    <2> QED BY <2>1, <2>2, <2>3, SequenceFacts
<1>4. IsSequence(Link) /\ Link \in Seq(U)
    <2>1. TokensOf(Link) \subseteq U
        BY DEF JoinWords
    <2> HIDE DEF U
    <2> QED BY <2>1, LinkIs, SequenceFacts
<1> HIDE DEF U, R, next
<1>5. IsSequence(done.out)
    BY <1>1, InSeq
<1>6. CASE done.joined
    <2>1. next = [out |-> done.out, joined |-> FALSE]
        BY <1>1, <1>6 DEF next, JoinSentence
    <2>2. next \in JoinStates(sentences)
        BY <1>1, <2>1 DEF JoinStates, U
    <2>3. ASSUME JoinedSoFar(done, sentences, k - 1) PROVE JoinedSoFar(next, sentences, k)
        <3>1. \A j \in DOMAIN sentences : j <= k => j <= k - 1 \/ j = (k - 1) + 1
            BY <1>2
        <3> QED BY <1>5, <1>6, <2>1, <2>3, <3>1 DEF JoinedSoFar
    <2> QED BY <2>2, <2>3 DEF next
<1>7. CASE ~done.joined /\ k < Len(sentences) /\ MergeSafe(sentences[k + 1])
    <2> DEFINE a == done.out \o WithoutStop(R(k))
               b == a \o Link
               c == b \o R(k + 1)
    <2>1. k + 1 \in DOMAIN sentences
        BY <1>2, <1>7
    <2>2. next = [out |-> c, joined |-> TRUE]
        BY <1>7 DEF next, JoinSentence, Rewritten, R, Link
    <2>3. a \in Seq(U) /\ IsSequence(a)
        BY <1>1, <1>3, ConcatProperties, InSeq
    <2> HIDE DEF a
    <2>4. b \in Seq(U) /\ IsSequence(b)
        BY <1>4, <2>3, ConcatProperties, InSeq
    <2> HIDE DEF b
    <2>5. c \in Seq(U) /\ IsSequence(c)
        BY <1>3, <2>1, <2>4, ConcatProperties, InSeq
    <2> HIDE DEF c
    <2>6. next \in JoinStates(sentences)
        BY <2>2, <2>5 DEF JoinStates, U
    <2>7. \A sentence : /\ Held(done.out, sentence) => Held(c, sentence)
                        /\ Held(WithoutStop(R(k)), sentence) => Held(c, sentence)
                        /\ Held(R(k + 1), sentence) => Held(c, sentence)
        <3> SUFFICES ASSUME NEW sentence
                     PROVE  /\ Held(done.out, sentence) => Held(c, sentence)
                            /\ Held(WithoutStop(R(k)), sentence) => Held(c, sentence)
                            /\ Held(R(k + 1), sentence) => Held(c, sentence)
            OBVIOUS
        <3>1. Held(done.out, sentence) \/ Held(WithoutStop(R(k)), sentence) => Held(a, sentence)
            BY <1>3, <1>5, HeldOn DEF a
        <3>2. Held(a, sentence) => Held(b, sentence)
            BY <1>4, <2>3, HeldOn DEF b
        <3>3. Held(b, sentence) \/ Held(R(k + 1), sentence) => Held(c, sentence)
            BY <1>3, <2>1, <2>4, HeldOn DEF c
        <3> QED BY <3>1, <3>2, <3>3
    <2>8. ASSUME JoinedSoFar(done, sentences, k - 1) PROVE JoinedSoFar(next, sentences, k)
        <3>1. \A j \in DOMAIN sentences : j <= k \/ j = k + 1 => j <= k - 1 \/ j = k \/ j = k + 1
            BY <1>2
        <3>2. \A j \in DOMAIN sentences : j <= k - 1 => Held(done.out, sentences[j])
            BY <2>8 DEF JoinedSoFar
        <3> QED BY <1>3, <1>7, <2>1, <2>2, <2>5, <2>7, <3>1, <3>2 DEF JoinedSoFar
    <2> QED BY <2>6, <2>8 DEF next
<1>8. CASE ~done.joined /\ ~(k < Len(sentences) /\ MergeSafe(sentences[k + 1]))
    <2> DEFINE a == done.out \o R(k)
    <2>1. next = [out |-> a, joined |-> FALSE]
        BY <1>1, <1>8 DEF next, JoinSentence, Rewritten, R
    <2>2. a \in Seq(U) /\ IsSequence(a)
        BY <1>1, <1>3, ConcatProperties, InSeq
    <2>3. \A sentence : Held(done.out, sentence) \/ Held(R(k), sentence) => Held(a, sentence)
        BY <1>3, <1>5, HeldOn
    <2> HIDE DEF a
    <2>4. next \in JoinStates(sentences)
        BY <2>1, <2>2 DEF JoinStates, U
    <2>5. ASSUME JoinedSoFar(done, sentences, k - 1) PROVE JoinedSoFar(next, sentences, k)
        <3>1. \A j \in DOMAIN sentences : j <= k => j <= k - 1 \/ j = k
            BY <1>2
        <3>2. \A j \in DOMAIN sentences : j <= k - 1 => Held(done.out, sentences[j])
            BY <2>5 DEF JoinedSoFar
        <3> QED BY <1>3, <2>1, <2>2, <2>3, <3>1, <3>2 DEF JoinedSoFar
    <2> QED BY <2>4, <2>5 DEF next
<1> QED BY <1>1, <1>6, <1>7, <1>8

LEMMA JoinsExists ==
    ASSUME NEW sentences, Sentences(sentences)
    PROVE  \E g \in [0 .. Len(sentences) -> JoinStates(sentences)] : Joins(g, sentences)
<1> DEFINE n == Len(sentences)
           S == JoinStates(sentences)
           none == [out |-> <<>>, joined |-> FALSE]
           step == [a \in S \X (1 .. n) |-> JoinSentence(a[1], sentences, a[2])]
<1>1. n \in Nat /\ DOMAIN sentences = 1 .. n
    BY SequenceFacts DEF Sentences
<1>2. none \in S
    BY EmptySeq DEF JoinStates
<1>3. \A d \in S, k \in 1 .. n : JoinSentence(d, sentences, k) \in S
    BY <1>1, SentenceJoined
<1> HIDE DEF S, none
<1>4. step \in [S \X (1 .. n) -> S]
      /\ \A d \in S, k \in 1 .. n : step[<<d, k>>] = JoinSentence(d, sentences, k)
    BY <1>3
<1> HIDE DEF step
<1>5. PICK g : StepsOn(g, n, S, none, step)
    BY <1>1, <1>2, <1>4, Iterates
<1> USE DEF StepsOn
<1>6. \A k \in 0 .. n : g[k] = IF k = 0 THEN none ELSE JoinSentence(g[k - 1], sentences, k)
    <2> SUFFICES ASSUME NEW k \in 0 .. n, k # 0
                 PROVE  g[k] = JoinSentence(g[k - 1], sentences, k)
        BY <1>5
    <2>1. k \in 1 .. n /\ k - 1 \in 0 .. n
        BY <1>1
    <2>2. g[k] = step[<<g[k - 1], k>>] /\ g[k - 1] \in S
        BY <1>5, <2>1
    <2> QED BY <1>4, <2>1, <2>2
<1>7. g = [k \in 0 .. n |-> g[k]]
    BY <1>5
<1>8. Joins(g, sentences)
    BY <1>6, <1>7 DEF Joins, none
<1> QED BY <1>5, <1>8 DEF S

\* The rewrite of a text holds every number of its sentences.
LEMMA TextRewritten ==
    ASSUME NEW text, IsSequence(text)
    PROVE  /\ IsSequence(RewritePreservingFacts(text))
           /\ \A sentence \in TokensOf(SplitSentences(text)) :
                  Held(RewritePreservingFacts(text), sentence)
<1> DEFINE sentences == SplitSentences(text)
           n == Len(sentences)
           g == CHOOSE g : Joins(g, sentences)
<1>1. Sentences(sentences)
    BY SentencesAre DEF Sentences
<1>2. RewritePreservingFacts(text) = g[n].out
    BY DEF RewritePreservingFacts, Joins
<1> HIDE DEF sentences
<1>3. n \in Nat /\ DOMAIN sentences = 1 .. n
    BY <1>1, SequenceFacts DEF Sentences
<1>4. Joins(g, sentences)
    BY <1>1, JoinsExists
<1> HIDE DEF g
<1>5. \A k \in 0 .. n : g[k] = IF k = 0 THEN [out |-> <<>>, joined |-> FALSE]
                               ELSE JoinSentence(g[k - 1], sentences, k)
    BY <1>4, Zenon DEF Joins
<1> DEFINE Good(k) == g[k] \in JoinStates(sentences) /\ JoinedSoFar(g[k], sentences, k)
           Bad == {k \in 0 .. n : ~Good(k)}
<1>6. ASSUME NEW k \in Bad, \A j \in Bad : k <= j PROVE FALSE
    <2>1. k # 0
        <3> DEFINE none == [out |-> <<>>, joined |-> FALSE]
        <3>1. none \in JoinStates(sentences)
            BY EmptySeq DEF JoinStates
        <3>2. JoinedSoFar(none, sentences, 0)
            <4>1. none.out = <<>> /\ ~none.joined
                OBVIOUS
            <4>2. \A j \in DOMAIN sentences : ~(j <= 0)
                BY <1>3
            <4> HIDE DEF none
            <4> QED BY <4>1, <4>2, NoneAndOne DEF JoinedSoFar
        <3>3. 0 \in 0 .. n
            BY <1>3
        <3>4. g[0] = none
            BY <1>5, <3>3
        <3> HIDE DEF none
        <3> QED BY <3>1, <3>2, <3>4
    <2>2. k - 1 \in 0 .. n /\ ~(k <= k - 1) /\ k \in DOMAIN sentences
        BY <1>3, <2>1
    <2>3. Good(k - 1)
        BY <1>6, <2>2
    <2>4. g[k] = JoinSentence(g[k - 1], sentences, k)
        BY <1>5, <2>1
    <2> QED BY <1>1, <2>2, <2>3, <2>4, SentenceJoined
<1>7. Bad \subseteq Nat
    BY <1>3
<1> HIDE DEF Bad
<1>8. Bad = {}
    BY <1>6, <1>7, Least
<1>9. Good(n)
    <2>1. n \in 0 .. n
        BY <1>3
    <2> QED BY <1>8, <2>1 DEF Bad
<1>10. \A j \in DOMAIN sentences : Held(g[n].out, sentences[j]) /\ IsSequence(g[n].out)
    BY <1>3, <1>9 DEF JoinedSoFar
<1>11. IsSequence(g[n].out)
    BY <1>9 DEF JoinedSoFar
<1> QED BY <1>2, <1>10, <1>11 DEF TokensOf, sentences

-----------------------------------------------------------------------------
(* The probes.                                                             *)

\* A sentence put into a text adds that sentence.
LEMMA SentenceInjected ==
    ASSUME NEW text, IsSequence(text), NEW sentence, IsSequence(sentence)
    PROVE  LET injected == InjectSentence(text, sentence)
           IN  /\ IsSequence(injected) /\ TokensOf(sentence) \subseteq TokensOf(injected)
               /\ TokensOf(injected) \subseteq TokensOf(text) \cup TokensOf(sentence)
<1> DEFINE sentences == SplitSentences(text)
           n == Len(sentences)
           mid == n \div 2
           front == SubSeq(sentences, 1, mid)
           back == SubSeq(sentences, mid + 1, n)
           joined == (front \o <<sentence>>) \o back
           injected == InjectSentence(text, sentence)
<1>1. injected = FlattenSeq(joined)
    BY DEF InjectSentence
<1>2. /\ IsSequence(sentences)
      /\ \A s \in TokensOf(sentences) : IsSequence(s) /\ TokensOf(s) \subseteq TokensOf(text)
    BY SentencesAre DEF TokensOf
<1> HIDE DEF sentences, injected
<1>3. n \in Nat /\ mid \in 0 .. n /\ 1 \in 1 .. n + 1 /\ mid + 1 \in 1 .. n + 1 /\ n \in 0 .. n
    <2>1. n \in Nat
        BY <1>2, SequenceFacts
    <2> HIDE DEF n
    <2> QED BY <2>1
<1>4. /\ IsSequence(front) /\ TokensOf(front) \subseteq TokensOf(sentences)
      /\ IsSequence(back) /\ TokensOf(back) \subseteq TokensOf(sentences)
    BY <1>2, <1>3, Parts
<1> HIDE DEF front, back
<1>5. /\ IsSequence(<<sentence>>) /\ TokensOf(<<sentence>>) = {sentence}
    BY NoneAndOne
<1>6. /\ IsSequence(front \o <<sentence>>)
      /\ TokensOf(front \o <<sentence>>) = TokensOf(front) \cup {sentence}
    BY <1>4, <1>5, Concats
<1>7. IsSequence(joined) /\ TokensOf(joined) = TokensOf(front) \cup {sentence} \cup TokensOf(back)
    BY <1>4, <1>6, Concats
<1> HIDE DEF joined
<1>8. \A i \in DOMAIN joined :
          /\ IsSequence(joined[i])
          /\ TokensOf(joined[i]) \subseteq TokensOf(text) \cup TokensOf(sentence)
    <2>1. \A i \in DOMAIN joined : joined[i] \in TokensOf(sentences) \cup {sentence}
        BY <1>4, <1>7 DEF TokensOf
    <2> QED BY <1>2, <2>1
<1>9. \E i \in DOMAIN joined : joined[i] = sentence
    BY <1>7 DEF TokensOf
<1>10. /\ IsSequence(injected)
       /\ TokensOf(injected) = UNION {TokensOf(joined[i]) : i \in DOMAIN joined}
    BY <1>1, <1>7, <1>8, FlattenTokens
<1> QED BY <1>8, <1>9, <1>10 DEF injected

\* A prompt of a context and a request.
LEMMA Prompted ==
    ASSUME NEW context, IsSequence(context), NEW request, IsSequence(request)
    PROVE  /\ IsSequence(BasePrompt(context, request))
           /\ TokensOf(BasePrompt(context, request))
                  = {"workspace", "source", "user request", "answer"}
                        \cup TokensOf(context) \cup TokensOf(request)
<1> DEFINE a == <<"workspace", "source">>
           b == a \o context
           c == b \o <<"user request">>
           d == c \o request
           e == d \o <<"answer">>
<1>1. IsSequence(a) /\ TokensOf(a) = {"workspace", "source"}
    <2>1. a \in Seq({"workspace", "source"}) /\ DOMAIN a = {1, 2} /\ a[1] = "workspace" /\ a[2] = "source"
        OBVIOUS
    <2> HIDE DEF a
    <2> QED BY <2>1, InSeq DEF TokensOf
<1> HIDE DEF a
<1>2. IsSequence(b) /\ TokensOf(b) = {"workspace", "source"} \cup TokensOf(context)
    BY <1>1, Concats
<1> HIDE DEF b
<1>3. IsSequence(c) /\ TokensOf(c) = {"workspace", "source", "user request"} \cup TokensOf(context)
    <2>1. IsSequence(<<"user request">>) /\ TokensOf(<<"user request">>) = {"user request"}
        BY NoneAndOne
    <2>2. IsSequence(c) /\ TokensOf(c) = TokensOf(b) \cup {"user request"}
        BY <1>2, <2>1, Concats
    <2> QED BY <1>2, <2>2
<1> HIDE DEF c
<1>4. IsSequence(d) /\ TokensOf(d) = TokensOf(c) \cup TokensOf(request)
    BY <1>3, Concats
<1> HIDE DEF d
<1>5. IsSequence(e) /\ TokensOf(e) = TokensOf(d) \cup {"answer"}
    <2>1. IsSequence(<<"answer">>) /\ TokensOf(<<"answer">>) = {"answer"}
        BY NoneAndOne
    <2> QED BY <1>4, <2>1, Concats
<1>6. BasePrompt(context, request) = e
    BY DEF BasePrompt, a, b, c, d
<1> HIDE DEF e
<1> QED BY <1>3, <1>4, <1>5, <1>6

\* The first of some salts is one of them.
LEMMA FirstIsOne ==
    ASSUME NEW salts \in SUBSET Nat, salts # {}
    PROVE  FirstOf(salts) \in salts
<1>1. \E s \in salts : \A t \in salts : s <= t
    BY Least
<1> QED BY <1>1 DEF FirstOf

\* The fact's number and the divergent one, of a draw.
LEMMA DivergentIs ==
    ASSUME NEW draw \in [n : 23..89, more : 0..9]
    PROVE  Divergent(draw) \in 33..108 /\ Divergent(draw) # draw.n
<1> DEFINE next(k) == draw.n + 10 + draw.more + 10 * k
           fits == {k \in 0..9 : LeadingDigit(next(k)) # LeadingDigit(draw.n)}
           least == CHOOSE k \in fits : \A j \in fits : k <= j
<1>1. draw.n \in 23..89 /\ draw.more \in 0..9
    OBVIOUS
<1>2. next(0) = draw.n + 10 + draw.more
    BY <1>1
<1>3. LeadingDigit(next(0)) # LeadingDigit(draw.n)
    <2> DEFINE n == draw.n
               m == draw.n + 10 + draw.more
    <2>1. n \in 23..89 /\ m \in 33..108 /\ m >= n + 10
        BY <1>1
    <2> HIDE DEF n, m
    <2>2. LeadingDigit(n) = n \div 10 /\ n \div 10 >= 2
        BY <2>1 DEF LeadingDigit
    <2>3. CASE m >= 100
        <3>1. LeadingDigit(m) = m \div 100 /\ m \div 100 = 1
            BY <2>1, <2>3 DEF LeadingDigit
        <3> QED BY <1>2, <2>2, <3>1 DEF n, m
    <2>4. CASE ~(m >= 100)
        <3>1. LeadingDigit(m) = m \div 10 /\ m \div 10 # n \div 10
            BY <2>1, <2>4 DEF LeadingDigit
        <3> QED BY <1>2, <2>2, <3>1 DEF n, m
    <2> QED BY <2>3, <2>4
<1>4. 0 \in fits /\ \A j \in fits : j \in 0..9
    BY <1>3
<1>5. Divergent(draw) = next(least)
    BY DEF Divergent
<1> HIDE DEF fits, next
<1>6. least = 0
    <2>1. \A j \in fits : 0 <= j
        BY <1>4
    <2>2. least \in fits /\ \A j \in fits : least <= j
        BY <1>4, <2>1
    <2>3. least <= 0 /\ least \in 0 .. 9
        BY <1>4, <2>2
    <2> HIDE DEF least
    <2> QED BY <2>3
<1> HIDE DEF least
<1> QED BY <1>1, <1>2, <1>5, <1>6

\* The parts of the fact's number are smaller than it.
LEMMA PartIs ==
    ASSUME NEW n \in 23..89, NEW s \in DOMAIN PartDraws
    PROVE  PartOf(n, s) \in 11..78 /\ n - PartOf(n, s) \in 11..78
           /\ PartOf(n, s) # n /\ n - PartOf(n, s) # n
<1>1. PartDraws[s] \in Nat
    <2>1. PartDraws \in Seq(Nat)
        BY ParaphraseAssumption DEF ParaphraseAssumption
    <2> QED BY <2>1
<1> DEFINE r == PartDraws[s] % (n - 21)
<1>2. n - 21 \in Nat \ {0} /\ r \in 0 .. (n - 21) - 1
    BY <1>1
<1>3. PartOf(n, s) = 11 + r
    BY DEF PartOf
<1> HIDE DEF r
<1> QED BY <1>2, <1>3

\* A number's word is no other number's, nor one the donors are worded with.
LEMMA NumbersDiffer ==
    ASSUME NEW m \in 0..120
    PROVE  ToString(m) \notin Wording /\ \A n \in 0..120 : n # m => ToString(n) # ToString(m)
<1>1. ToString(m) \in Numbers
    BY DEF Numbers
<1> QED BY <1>1, NumberWords DEF NumberWords

\* What the probe's donor and recipient say.
LEMMA FactsSaid ==
    ASSUME NEW record, IsSequence(record.context), IsSequence(record.input),
           NEW transform \in ToSet(ProbeTransforms), Buildable(record, transform)
    PROVE  LET facts == ProbeFacts(record, transform)
           IN  /\ IsSequence(facts.donor) /\ IsSequence(facts.recipient)
               /\ facts.answer \in 0..120
               /\ ToString(facts.answer) \in TokensOf(facts.recipient)
               /\ transform # "fact_paraphrase" =>
                      ToString(facts.answer) \notin TokensOf(facts.donor) \cup Wording
                             \cup TokensOf(record.context) \cup TokensOf(record.input)
<1> DEFINE text == Haystack(record)
           facts == ProbeFacts(record, transform)
           a == facts.answer
           Goal == /\ IsSequence(facts.donor) /\ IsSequence(facts.recipient)
                   /\ a \in 0..120 /\ ToString(a) \in TokensOf(facts.recipient)
                   /\ transform # "fact_paraphrase" =>
                          /\ ToString(a) \notin TokensOf(facts.donor)
                          /\ ToString(a) \notin TokensOf(text)
<1>1. transform \in {"fact_paraphrase", "fact_divergent_paraphrase",
                     "arithmetic_restatement", "complement_restatement"}
    BY DEF ToSet, ProbeTransforms
<1>2. TokensOf(text) = TokensOf(record.context) \cup TokensOf(record.input)
    BY Concats DEF Haystack
<1> HIDE DEF text
<1>3. ASSUME NEW m \in 0..120
      PROVE  /\ IsSequence(Tally(m)) /\ TokensOf(Tally(m)) \subseteq Wording \cup {ToString(m)}
             /\ IsSequence(Precisely(m)) /\ ToString(m) \in TokensOf(Precisely(m))
    <2> DEFINE w == ToString(m)
    <2>1. /\ Tally(m) = <<"tally", w, Stop>>
          /\ Precisely(m) = <<"precisely", w, "tally", Stop>>
        BY DEF Tally, Precisely
    <2> HIDE DEF w
    <2>2. /\ <<"tally", w, Stop>> \in Seq({"tally", w, Stop})
          /\ <<"precisely", w, "tally", Stop>> \in Seq({"precisely", "tally", w, Stop})
          /\ <<"precisely", w, "tally", Stop>>[2] = w
          /\ 2 \in DOMAIN <<"precisely", w, "tally", Stop>>
        OBVIOUS
    <2>3. /\ IsSequence(Tally(m)) /\ TokensOf(Tally(m)) \subseteq {"tally", w, Stop}
          /\ IsSequence(Precisely(m))
        BY <2>1, <2>2, InSeq
    <2>4. w \in TokensOf(Precisely(m))
        BY <2>1, <2>2 DEF TokensOf
    <2> QED BY <2>3, <2>4 DEF Wording, w
<1>4. ASSUME transform # "complement_restatement"
      PROVE  /\ FactProbe(record) \in [n : 23..89, more : 0..9]
             /\ AbsentFrom(text, {FactProbe(record).n, Divergent(FactProbe(record))})
    <2>1. FactSalts(text) # {}
        BY <1>4 DEF Buildable, text
    <2>2. FactDraws \in Seq([n : 23..89, more : 0..9])
        BY ParaphraseAssumption DEF ParaphraseAssumption
    <2>3. FactSalts(text) \in SUBSET Nat
        BY <2>2 DEF FactSalts
    <2>4. FirstOf(FactSalts(text)) \in FactSalts(text)
        BY <2>1, <2>3, FirstIsOne
    <2> DEFINE s == FirstOf(FactSalts(text))
    <2>5. FactProbe(record) = FactDraws[s]
        BY DEF FactProbe, text
    <2> HIDE DEF s
    <2>6. s \in DOMAIN FactDraws /\ AbsentFrom(text, {FactDraws[s].n, Divergent(FactDraws[s])})
        BY <2>4 DEF FactSalts, s
    <2>7. FactDraws[s] \in [n : 23..89, more : 0..9]
        <3> DEFINE Draws == [n : 23..89, more : 0..9]
        <3>1. FactDraws \in Seq(Draws)
            BY <2>2
        <3> HIDE DEF Draws
        <3>2. FactDraws[s] \in Draws
            BY <2>6, <3>1
        <3> QED BY <3>2 DEF Draws
    <2> QED BY <2>5, <2>6, <2>7, Zenon
<1>5. CASE transform = "fact_paraphrase"
    <2> DEFINE n == FactProbe(record).n
    <2>1. n \in 0..120
        BY <1>4, <1>5
    <2>2. facts = [donor |-> Tally(n), recipient |-> Precisely(n), answer |-> n]
        BY <1>5 DEF ProbeFacts
    <2> HIDE DEF n, facts
    <2>3. facts.donor = Tally(n) /\ facts.recipient = Precisely(n) /\ a = n
        BY <2>2
    <2>4. Goal
        BY <1>3, <1>5, <2>1, <2>3
    <2> QED BY <1>2, <1>5, <2>4 DEF facts
<1>6. CASE transform = "fact_divergent_paraphrase"
    <2> DEFINE n == FactProbe(record).n
               m == Divergent(FactProbe(record))
    <2>1. n \in 0..120 /\ m \in 0..120 /\ m # n /\ ToString(n) \notin TokensOf(text)
        BY <1>4, <1>6, DivergentIs DEF AbsentFrom
    <2>2. facts = [donor |-> Tally(m), recipient |-> Precisely(n), answer |-> n]
        BY <1>6 DEF ProbeFacts
    <2> HIDE DEF n, m, facts
    <2>3. facts.donor = Tally(m) /\ facts.recipient = Precisely(n) /\ a = n
        BY <2>2
    <2>4. ToString(n) \notin Wording /\ ToString(n) # ToString(m)
        BY <2>1, NumbersDiffer
    <2>5. Goal
        BY <1>3, <2>1, <2>3, <2>4
    <2> QED BY <1>2, <2>1, <2>3, <2>4, <2>5 DEF facts
<1>7. CASE transform = "arithmetic_restatement"
    <2> DEFINE n == FactProbe(record).n
               p == PartProbe(record)
    <2>1. n \in 23..89 /\ ToString(n) \notin TokensOf(text)
        BY <1>4, <1>7 DEF AbsentFrom
    <2>2. p \in 0..120 /\ n - p \in 0..120 /\ p # n /\ n - p # n
        <3>1. PartSalts(text, n) # {}
            BY <1>7 DEF Buildable, text
        <3>2. PartSalts(text, n) \subseteq DOMAIN PartDraws /\ DOMAIN PartDraws \subseteq Nat
            <4>1. PartDraws \in Seq(Nat)
                BY ParaphraseAssumption DEF ParaphraseAssumption
            <4> QED BY <4>1 DEF PartSalts
        <3>3. FirstOf(PartSalts(text, n)) \in DOMAIN PartDraws
            BY <3>1, <3>2, FirstIsOne
        <3>4. p = PartOf(n, FirstOf(PartSalts(text, n)))
            BY DEF PartProbe, text
        <3> HIDE DEF n, p
        <3> QED BY <2>1, <3>3, <3>4, PartIs
    <2>3. facts = [donor |-> TwoParts(p, n - p), recipient |-> Precisely(n), answer |-> n]
        BY <1>7 DEF ProbeFacts
    <2> HIDE DEF n, p, facts
    <2>4. facts.donor = TwoParts(p, n - p) /\ facts.recipient = Precisely(n) /\ a = n /\ n \in 0..120
        BY <2>1, <2>3
    <2> DEFINE u == ToString(p)
               v == ToString(n - p)
               parts == <<"logged", u, "and", v, Stop>>
    <2>5. /\ IsSequence(TwoParts(p, n - p))
          /\ TokensOf(TwoParts(p, n - p)) \subseteq Wording \cup {u, v}
        <3>1. TwoParts(p, n - p) = parts
            BY DEF TwoParts
        <3> HIDE DEF u, v
        <3>2. parts \in Seq({"logged", u, "and", v, Stop})
            OBVIOUS
        <3>3. IsSequence(parts) /\ TokensOf(parts) \subseteq {"logged", u, "and", v, Stop}
            BY <3>2, InSeq
        <3> QED BY <3>1, <3>3 DEF Wording
    <2>6. ToString(n) \notin Wording /\ ToString(n) # u /\ ToString(n) # v
        BY <2>2, <2>4, NumbersDiffer
    <2> HIDE DEF u, v
    <2>7. Goal
        BY <1>3, <2>1, <2>4, <2>5, <2>6
    <2> QED BY <1>2, <2>1, <2>4, <2>6, <2>7 DEF facts
<1>8. CASE transform = "complement_restatement"
    <2> DEFINE draw == TotalProbe(record)
               t == draw.total
               f == draw.failed
    <2>1. /\ draw \in [total : 60..95, failed : 21..39]
          /\ LeadingDigit(f) # LeadingDigit(t - f)
          /\ AbsentFrom(text, {t, f, t - f})
        <3>1. ComplementSalts(text) # {}
            BY <1>8 DEF Buildable, text
        <3>2. TotalDraws \in Seq([total : 60..95, failed : 21..39])
            BY ParaphraseAssumption DEF ParaphraseAssumption
        <3>3. ComplementSalts(text) \in SUBSET Nat
            BY <3>2 DEF ComplementSalts
        <3>4. FirstOf(ComplementSalts(text)) \in ComplementSalts(text)
            BY <3>1, <3>3, FirstIsOne
        <3> DEFINE s == FirstOf(ComplementSalts(text))
        <3>5. draw = TotalDraws[s]
            BY DEF TotalProbe, text
        <3>6. s \in DOMAIN TotalDraws
              /\ LET d == TotalDraws[s]
                     passed == d.total - d.failed
                 IN  /\ LeadingDigit(d.failed) # LeadingDigit(passed)
                     /\ AbsentFrom(text, {d.total, d.failed, passed})
            BY <3>4 DEF ComplementSalts
        <3>7. TotalDraws[s] \in [total : 60..95, failed : 21..39]
            <4> DEFINE Draws == [total : 60..95, failed : 21..39]
            <4>1. TotalDraws \in Seq(Draws)
                BY <3>2
            <4> HIDE DEF Draws
            <4>2. TotalDraws[s] \in Draws
                BY <3>6, <4>1
            <4> QED BY <4>2 DEF Draws
        <3> HIDE DEF s, draw
        <3> QED BY <3>5, <3>6, <3>7, Zenon
    <2>2. facts = [donor |-> Passed(t, t - f), recipient |-> FailedItems(t, f), answer |-> f]
        BY <1>8 DEF ProbeFacts
    <2> HIDE DEF draw
    <2>3. t \in 60..95 /\ f \in 21..39 /\ ToString(f) \notin TokensOf(text) /\ t - f # f
        BY <2>1 DEF AbsentFrom
    <2> HIDE DEF t, f, facts
    <2>4. t \in 0..120 /\ f \in 0..120 /\ t - f \in 0..120 /\ t # f
        BY <2>3
    <2>5. facts.donor = Passed(t, t - f) /\ facts.recipient = FailedItems(t, f) /\ a = f
        BY <2>2
    <2> DEFINE u == ToString(t)
               v == ToString(t - f)
               w == ToString(f)
               passed == <<"of", u, "items", v, "passed", Stop>>
               failed == <<"of", u, "items", w, "failed", Stop>>
    <2>6. Passed(t, t - f) = passed /\ FailedItems(t, f) = failed
        BY DEF Passed, FailedItems
    <2>7. w \notin Wording /\ w # u /\ w # v
        BY <2>3, <2>4, NumbersDiffer
    <2>8. ToString(a) = w
        BY <2>5
    <2> HIDE DEF u, v, w
    <2>9. /\ passed \in Seq({"of", u, "items", v, "passed", Stop})
          /\ failed \in Seq({"of", u, "items", w, "failed", Stop})
          /\ failed[4] = w /\ 4 \in DOMAIN failed
        OBVIOUS
    <2>10. /\ IsSequence(passed) /\ TokensOf(passed) \subseteq {"of", u, "items", v, "passed", Stop}
           /\ IsSequence(failed)
        BY <2>9, InSeq
    <2>11. w \in TokensOf(failed)
        BY <2>9 DEF TokensOf
    <2>12. TokensOf(passed) \subseteq Wording \cup {u, v}
        BY <2>10 DEF Wording
    <2>13. w \notin TokensOf(text)
        BY <2>3 DEF w
    <2> HIDE DEF passed, failed
    <2>14. Goal
        BY <2>4, <2>5, <2>6, <2>7, <2>8, <2>10, <2>11, <2>12, <2>13
    <2> QED BY <1>2, <2>7, <2>8, <2>13, <2>14 DEF facts
<1> QED BY <1>1, <1>5, <1>6, <1>7, <1>8

-----------------------------------------------------------------------------
(* The items.                                                              *)

\* A probe's answer is its recipient's alone.
OwnProbe(item) ==
    item.transform \in ToSet(ProbeTransforms) =>
        /\ item.answer \in TokensOf(item.recipient)
        /\ item.transform # "fact_paraphrase" =>
               \A donor \in TokensOf(item.donors) :
                   item.answer \notin TokensOf(donor.text)

\* The donors' texts come from one source, the item's own or another one.
OneOrigin(item) ==
    /\ IsSequence(item.donors)
    /\ \A donor, twin \in TokensOf(item.donors) :
           /\ donor.from = twin.from
           /\ donor.from = NoSource \/ donor.from # item.source

Sound(item) == OwnProbe(item) /\ OneOrigin(item)

\* A record as the loader makes them.
Loaded(record) == IsSequence(record.context) /\ IsSequence(record.input)

LEMMA ProbeBuilt ==
    ASSUME NEW record, Loaded(record), NEW other,
           NEW transform \in ToSet(ProbeTransforms), Buildable(record, transform)
    PROVE  OwnProbe(BuildItem(record, transform, other))
<1> DEFINE item == BuildItem(record, transform, other)
           facts == ProbeFacts(record, transform)
           word == ToString(facts.answer)
           donorText == BasePrompt(InjectSentence(record.context, facts.donor), record.input)
           recipientText == BasePrompt(InjectSentence(RewritePreservingFacts(record.context),
                                                      facts.recipient), <<"how many">>)
           texts == DonorTexts(record, transform, other)
           from == IF transform \in {"negative_control", "entity_swap_control"}
                   THEN other.id ELSE NoSource
           donors == [k \in DOMAIN texts |-> [text |-> texts[k], from |-> from]]
<1>1. transform \in {"fact_paraphrase", "fact_divergent_paraphrase",
                     "arithmetic_restatement", "complement_restatement"}
    BY DEF ToSet, ProbeTransforms
<1>2. /\ IsSequence(facts.donor) /\ IsSequence(facts.recipient)
      /\ word \in TokensOf(facts.recipient)
      /\ transform # "fact_paraphrase" =>
             word \notin TokensOf(facts.donor) \cup Wording
                    \cup TokensOf(record.context) \cup TokensOf(record.input)
    BY FactsSaid DEF Loaded
<1>3. texts = <<donorText>>
    BY <1>1 DEF DonorTexts, BasePrompts
<1>4. RecipientText(record, transform) = recipientText
    BY <1>1 DEF RecipientText
<1>5. /\ item.transform = transform /\ item.answer = word /\ item.recipient = recipientText
      /\ item.donors = donors
    BY <1>4 DEF BuildItem
<1> HIDE DEF item, facts, word, texts
<1>6. word \in TokensOf(recipientText)
    <2> DEFINE context == InjectSentence(RewritePreservingFacts(record.context), facts.recipient)
    <2>1. IsSequence(RewritePreservingFacts(record.context))
        BY TextRewritten DEF Loaded
    <2>2. IsSequence(context) /\ TokensOf(facts.recipient) \subseteq TokensOf(context)
        BY <1>2, <2>1, SentenceInjected
    <2>3. IsSequence(<<"how many">>)
        BY NoneAndOne
    <2> HIDE DEF context
    <2>4. TokensOf(context) \subseteq TokensOf(BasePrompt(context, <<"how many">>))
        BY <2>2, <2>3, Prompted
    <2> QED BY <1>2, <2>2, <2>4 DEF context
<1>7. ASSUME transform # "fact_paraphrase" PROVE word \notin TokensOf(donorText)
    <2> DEFINE context == InjectSentence(record.context, facts.donor)
    <2>1. /\ IsSequence(context)
          /\ TokensOf(context) \subseteq TokensOf(record.context) \cup TokensOf(facts.donor)
        BY <1>2, SentenceInjected DEF Loaded
    <2> HIDE DEF context
    <2>2. TokensOf(BasePrompt(context, record.input))
              = {"workspace", "source", "user request", "answer"}
                    \cup TokensOf(context) \cup TokensOf(record.input)
        BY <2>1, Prompted DEF Loaded
    <2>3. {"workspace", "source", "user request", "answer"} \subseteq Wording
        BY DEF Wording
    <2> QED BY <1>2, <1>7, <2>1, <2>2, <2>3 DEF context
<1> HIDE DEF donorText, recipientText
<1>8. \A donor \in TokensOf(donors) : donor.text = donorText
    <2>1. DOMAIN texts = {1} /\ texts[1] = donorText
        BY <1>3
    <2> QED BY <2>1 DEF TokensOf
<1> HIDE DEF donors
<1>9. OwnProbe(item)
    BY <1>5, <1>6, <1>7, <1>8 DEF OwnProbe
<1> QED BY <1>9 DEF item

-----------------------------------------------------------------------------
(* The donors.                                                             *)

LEMMA PiecesList ==
    ASSUME NEW text, IsSequence(text), NEW ends
    PROVE  IsSequence(Pieces(text, ends))
<1> DEFINE start(p) == 1 + Max({0} \cup {q \in ends : q < p})
           upto == [p \in DOMAIN text |-> SubSeq(text, start(p), p)]
<1>1. Len(text) \in Nat /\ DOMAIN text = 1 .. Len(text)
    BY SequenceFacts
<1>2. Pieces(text, ends) = Picked(upto, ends)
    BY DEF Pieces
<1> HIDE DEF start
<1>3. upto = [p \in 1 .. Len(text) |-> upto[p]]
    BY <1>1
<1> HIDE DEF upto
<1> QED BY <1>1, <1>2, <1>3, ListIs, Picks

LEMMA StrippedList ==
    ASSUME NEW pieces, IsSequence(pieces)
    PROVE  IsSequence(Stripped(pieces))
<1> DEFINE all == [k \in DOMAIN pieces |-> Strip(pieces[k])]
           full == {k \in DOMAIN pieces : Strip(pieces[k]) # <<>>}
<1>1. Len(pieces) \in Nat /\ DOMAIN pieces = 1 .. Len(pieces)
    BY SequenceFacts
<1>2. Stripped(pieces) = Picked(all, full)
    BY DEF Stripped
<1>3. all = [k \in 1 .. Len(pieces) |-> all[k]]
    BY <1>1
<1> HIDE DEF all, full
<1> QED BY <1>1, <1>2, <1>3, ListIs, Picks

LEMMA StripList ==
    ASSUME NEW text, IsSequence(text)
    PROVE  IsSequence(Strip(text))
<1> DEFINE words == {p \in DOMAIN text : text[p] # Break}
           first == CHOOSE p \in words : \A q \in words : p <= q
           last == CHOOSE p \in words : \A q \in words : q <= p
<1>1. Len(text) \in Nat /\ DOMAIN text = 1 .. Len(text)
    BY SequenceFacts
<1>2. CASE words = {}
    <2>1. Strip(text) = <<>>
        BY <1>2 DEF Strip
    <2> QED BY <2>1, NoneAndOne
<1>3. CASE words # {}
    <2>1. Strip(text) = SubSeq(text, first, last)
        BY <1>3 DEF Strip
    <2>2. words \subseteq 1 .. Len(text)
        BY <1>1
    <2> HIDE DEF words
    <2>3. words \in SUBSET Nat /\ \A p \in words : p <= Len(text)
        BY <1>1, <2>2
    <2>4. \E p \in words : \A q \in words : p <= q
        BY <1>3, <2>3, Least
    <2>5. \E p \in words : \A q \in words : q <= p
        <3>1. Max(words) \in words /\ \A q \in words : q <= Max(words)
            BY <1>1, <1>3, <2>3, Greatest
        <3> QED BY <3>1
    <2>6. first \in words /\ last \in words
        BY <2>4, <2>5
    <2> HIDE DEF first, last
    <2>7. first \in 1 .. Len(text) + 1 /\ last \in 0 .. Len(text)
        BY <1>1, <2>2, <2>6
    <2> QED BY <2>1, <2>7, Parts
<1> QED BY <1>2, <1>3

\* The segments of a context are a list.
LEMMA SegmentsList ==
    ASSUME NEW context, IsSequence(context)
    PROVE  IsSequence(SplitContext(context))
<1> DEFINE paragraphs == Paragraphs(context)
           text == Strip(context)
           segments == SplitContext(context)
           ends == LET Cut[k \in 0..MaxSegments] == IF k = 0 THEN 0 ELSE SegmentEnd(text, Cut[k - 1])
                   IN  {Cut[k] : k \in 1..MaxSegments}
<1>1. IsSequence(paragraphs)
    BY PiecesList, StrippedList DEF Paragraphs
<1>2. IsSequence(text)
    BY StripList
<1>3. segments = IF Len(paragraphs) >= MaxSegments THEN SubSeq(paragraphs, 1, MaxSegments)
                 ELSE IF text = <<>> THEN << <<>> >> ELSE Stripped(Pieces(text, ends))
    BY DEF SplitContext
<1> HIDE DEF paragraphs, text, ends, segments
<1>4. Len(paragraphs) \in Nat /\ MaxSegments \in Nat
    BY <1>1, SequenceFacts, SegmentAssumption DEF SegmentAssumption
<1>5. CASE Len(paragraphs) >= MaxSegments
    <2>1. 1 \in 1 .. Len(paragraphs) + 1 /\ MaxSegments \in 0 .. Len(paragraphs)
        BY <1>4, <1>5
    <2>2. IsSequence(segments)
        BY <1>1, <1>3, <1>5, <2>1, Parts
    <2> QED BY <2>2 DEF segments
<1>6. CASE ~(Len(paragraphs) >= MaxSegments) /\ text = <<>>
    <2>1. IsSequence(segments)
        BY <1>3, <1>6, NoneAndOne
    <2> QED BY <2>1 DEF segments
<1>7. CASE ~(Len(paragraphs) >= MaxSegments) /\ text # <<>>
    <2>1. IsSequence(segments)
        BY <1>2, <1>3, <1>7, PiecesList, StrippedList
    <2> QED BY <2>1 DEF segments
<1> QED BY <1>5, <1>6, <1>7

LEMMA TextsList ==
    ASSUME NEW record, Loaded(record), NEW transform, NEW other
    PROVE  IsSequence(DonorTexts(record, transform, other))
<1> DEFINE texts == DonorTexts(record, transform, other)
           segments == SplitContext(record.context)
<1>1. CASE ~BasePrompts(transform) /\ transform = "multi_donor_composite"
    <2>1. texts = [k \in DOMAIN segments |-> SegmentDonorPrompt(segments[k], k)]
        BY <1>1 DEF DonorTexts
    <2>2. IsSequence(segments)
        BY SegmentsList DEF Loaded
    <2> HIDE DEF segments, texts
    <2>3. Len(segments) \in Nat /\ DOMAIN segments = 1 .. Len(segments)
        BY <2>2, SequenceFacts
    <2>4. texts = [k \in 1 .. Len(segments) |-> texts[k]]
        BY <2>1, <2>3
    <2>5. IsSequence(texts)
        BY <2>3, <2>4, ListIs
    <2> QED BY <2>5 DEF texts
<1>2. CASE BasePrompts(transform) \/ transform # "multi_donor_composite"
    <2>1. \E text : texts = <<text>>
        <3>1. CASE BasePrompts(transform)
            BY <3>1 DEF DonorTexts, BasePrompts
        <3>2. CASE ~BasePrompts(transform) /\ transform = "leading_evidence_new_task"
            BY <3>2 DEF DonorTexts
        <3>3. CASE ~BasePrompts(transform) /\ transform \in {"negative_control", "entity_swap_control"}
            BY <3>3 DEF DonorTexts
        <3>4. CASE /\ ~BasePrompts(transform)
                   /\ transform \notin {"leading_evidence_new_task", "multi_donor_composite",
                                        "negative_control", "entity_swap_control"}
            BY <3>4 DEF DonorTexts
        <3> QED BY <1>2, <3>1, <3>2, <3>3, <3>4
    <2> HIDE DEF texts
    <2>2. IsSequence(texts)
        BY <2>1, NoneAndOne
    <2> QED BY <2>2 DEF texts
<1> QED BY <1>1, <1>2

\* An item that is wanted has one origin.
LEMMA OriginBuilt ==
    ASSUME NEW record, Loaded(record), NEW transform, NEW other,
           transform \in {"negative_control", "entity_swap_control"} => other.id # record.id
    PROVE  OneOrigin(BuildItem(record, transform, other))
<1> DEFINE item == BuildItem(record, transform, other)
           texts == DonorTexts(record, transform, other)
           from == IF transform \in {"negative_control", "entity_swap_control"}
                   THEN other.id ELSE NoSource
           donors == [k \in DOMAIN texts |-> [text |-> texts[k], from |-> from]]
<1>1. item.donors = donors /\ item.source = record.id
    BY DEF BuildItem
<1>2. IsSequence(texts)
    BY TextsList
<1>3. from = NoSource \/ from # record.id
    OBVIOUS
<1> HIDE DEF item, texts, from
<1>4. Len(texts) \in Nat /\ DOMAIN texts = 1 .. Len(texts)
    BY <1>2, SequenceFacts
<1>5. \A donor \in TokensOf(donors) : donor.from = from
    BY DEF TokensOf
<1>6. donors = [k \in 1 .. Len(texts) |-> donors[k]]
    BY <1>4
<1> HIDE DEF donors
<1>7. IsSequence(donors)
    BY <1>4, <1>6, ListIs
<1>8. OneOrigin(item)
    BY <1>1, <1>3, <1>5, <1>7 DEF OneOrigin
<1> QED BY <1>8 DEF item

-----------------------------------------------------------------------------
(* The workload.                                                           *)

\* The workload of records is a list of sound items.
LEMMA WorkloadSound ==
    ASSUME NEW records, IsSequence(records), \A r \in TokensOf(records) : Loaded(r),
           NEW s, IsSequence(s.transforms), WorkloadBuilds(records, s)
    PROVE  /\ IsSequence(BuildWorkload(records, s))
           /\ \A item \in TokensOf(BuildWorkload(records, s)) : Sound(item)
<1> DEFINE ts == s.transforms
           other(i, k) == Other(records, i, ts[k], s.negative_selection)
           all(i) == [k \in DOMAIN ts |-> BuildItem(records[i], ts[k], other(i, k))]
           wanted(i) == {k \in DOMAIN ts : Wanted(records, i, ts[k], s.negative_selection)}
           lists == [i \in DOMAIN records |-> ItemsOf(records, i, s)]
<1>1. Len(records) \in Nat /\ DOMAIN records = 1 .. Len(records)
      /\ Len(ts) \in Nat /\ DOMAIN ts = 1 .. Len(ts)
    BY SequenceFacts
<1>2. ASSUME NEW i \in DOMAIN records
      PROVE  /\ IsSequence(ItemsOf(records, i, s))
             /\ \A item \in TokensOf(ItemsOf(records, i, s)) : Sound(item)
    <2>1. ItemsOf(records, i, s) = Picked(all(i), wanted(i))
        BY DEF ItemsOf
    <2>2. IsSequence(all(i)) /\ DOMAIN all(i) = DOMAIN ts
        <3>1. all(i) = [k \in 1 .. Len(ts) |-> all(i)[k]]
            BY <1>1
        <3> HIDE DEF all
        <3>2. IsSequence(all(i))
            BY <1>1, <3>1, ListIs
        <3> QED BY <3>2 DEF all
    <2>3. ASSUME NEW k \in DOMAIN ts \cap wanted(i) PROVE Sound(all(i)[k])
        <3> DEFINE record == records[i]
                   transform == ts[k]
        <3>1. Loaded(record)
            BY DEF TokensOf
        <3>2. Buildable(record, transform)
            BY DEF WorkloadBuilds, ToSet
        <3>3. transform \in {"negative_control", "entity_swap_control"} => other(i, k).id # record.id
            <4>1. Wanted(records, i, transform, s.negative_selection)
                OBVIOUS
            <4> QED BY <4>1 DEF Wanted
        <3>4. all(i)[k] = BuildItem(record, transform, other(i, k))
            OBVIOUS
        <3> HIDE DEF all, other, record, transform
        <3> DEFINE item == BuildItem(record, transform, other(i, k))
        <3>5. OneOrigin(item)
            BY <3>1, <3>3, OriginBuilt
        <3>6. OwnProbe(item)
            <4>1. CASE transform \in ToSet(ProbeTransforms)
                BY <3>1, <3>2, <4>1, ProbeBuilt
            <4>2. CASE transform \notin ToSet(ProbeTransforms)
                <5>1. item.transform = transform
                    BY DEF BuildItem
                <5> QED BY <4>2, <5>1 DEF OwnProbe
            <4> QED BY <4>1, <4>2
        <3> QED BY <3>4, <3>5, <3>6 DEF Sound
    <2>4. /\ IsSequence(ItemsOf(records, i, s))
          /\ TokensOf(ItemsOf(records, i, s)) = {all(i)[k] : k \in DOMAIN ts \cap wanted(i)}
        <3> HIDE DEF all, wanted
        <3> QED BY <2>1, <2>2, Picks
    <2> QED BY <2>3, <2>4
<1>3. BuildWorkload(records, s) = FlattenSeq(lists)
    BY DEF BuildWorkload
<1>4. lists = [i \in 1 .. Len(records) |-> lists[i]]
    BY <1>1
<1>5. \A i \in DOMAIN records : lists[i] = ItemsOf(records, i, s)
    OBVIOUS
<1>6. DOMAIN lists = DOMAIN records
    OBVIOUS
<1> HIDE DEF lists
<1>7. IsSequence(lists)
    BY <1>1, <1>4, ListIs
<1>8. /\ IsSequence(FlattenSeq(lists))
      /\ TokensOf(FlattenSeq(lists)) = UNION {TokensOf(lists[i]) : i \in DOMAIN lists}
    BY <1>2, <1>5, <1>6, <1>7, FlattenTokens
<1> QED BY <1>2, <1>3, <1>5, <1>6, <1>8

-----------------------------------------------------------------------------
(* The exact hits.                                                         *)

\* The indexes of some blocks and donors.
Indexes(blocks, donors) == UNION {[D -> SUBSET donors] : D \in SUBSET blocks}

LEMMA IndexAdded ==
    ASSUME NEW blocks, NEW donors, NEW index \in Indexes(blocks, donors), NEW donor \in donors,
           NEW ids, NEW size, TokensOf(IterFullBlocks(ids, size)) \subseteq blocks
    PROVE  IndexAdd(index, donor, ids, size) \in Indexes(blocks, donors)
<1> DEFINE added == TokensOf(IterFullBlocks(ids, size))
           D == DOMAIN index \cup added
           next == IndexAdd(index, donor, ids, size)
<1>1. PICK E \in SUBSET blocks : index \in [E -> SUBSET donors]
    BY DEF Indexes
<1>2. next = [block \in D |-> (IF block \in DOMAIN index THEN index[block] ELSE {})
                                  \cup (IF block \in added THEN {donor} ELSE {})]
    BY DEF IndexAdd
<1> HIDE DEF added, next
<1>3. DOMAIN index = E /\ D \in SUBSET blocks
    BY <1>1 DEF added
<1>4. ASSUME NEW block \in D
      PROVE  (IF block \in DOMAIN index THEN index[block] ELSE {})
                 \cup (IF block \in added THEN {donor} ELSE {}) \in SUBSET donors
    BY <1>1, <1>3
<1>5. next \in [D -> SUBSET donors]
    <2> HIDE DEF D
    <2> QED BY <1>2, <1>4
<1> QED BY <1>3, <1>5 DEF Indexes, next

\* g is the index, donor by donor.
IndexIs(g, item, size) ==
    g = [k \in 0..Len(item.donors) |->
            IF k = 0 THEN EmptyIndex
            ELSE IndexAdd(g[k - 1], DonorId(item, k), Encode(item.donors[k].text), size)]

BlocksOf(text, size) == TokensOf(IterFullBlocks(Encode(text), size))

\* A block the index has of an item is a block of one of its donors.
LEMMA IndexedOnce ==
    ASSUME NEW item, IsSequence(item.donors), NEW size
    PROVE  \A block \in DOMAIN ExactIndex(item, size) :
               \E donor \in TokensOf(item.donors) : block \in BlocksOf(donor.text, size)
<1> DEFINE n == Len(item.donors)
           blocks == UNION {BlocksOf(donor.text, size) : donor \in TokensOf(item.donors)}
           ids == {DonorId(item, k) : k \in 1 .. n}
           S == Indexes(blocks, ids)
           next(index, k) == IndexAdd(index, DonorId(item, k), Encode(item.donors[k].text), size)
           step == [a \in S \X (1 .. n) |-> next(a[1], a[2])]
           g == CHOOSE g : IndexIs(g, item, size)
<1>1. n \in Nat /\ DOMAIN item.donors = 1 .. n
    BY SequenceFacts
<1>2. \A index \in S, k \in 1 .. n : next(index, k) \in S
    <2> SUFFICES ASSUME NEW index \in S, NEW k \in 1 .. n PROVE next(index, k) \in S
        OBVIOUS
    <2>1. item.donors[k] \in TokensOf(item.donors)
        BY <1>1 DEF TokensOf
    <2>2. BlocksOf(item.donors[k].text, size) \subseteq blocks
        BY <2>1
    <2>3. TokensOf(IterFullBlocks(Encode(item.donors[k].text), size)) \subseteq blocks
        BY <2>2 DEF BlocksOf
    <2>4. DonorId(item, k) \in ids
        OBVIOUS
    <2> HIDE DEF blocks, ids
    <2> QED BY <2>3, <2>4, IndexAdded
<1>3. EmptyIndex \in S
    <2> HIDE DEF blocks, ids
    <2>1. EmptyIndex \in [{} -> SUBSET ids]
        BY DEF EmptyIndex
    <2>2. {} \in SUBSET blocks
        OBVIOUS
    <2> QED BY <2>1, <2>2 DEF Indexes
<1> HIDE DEF S, next
<1>4. step \in [S \X (1 .. n) -> S]
      /\ \A index \in S, k \in 1 .. n : step[<<index, k>>] = next(index, k)
    BY <1>2
<1> HIDE DEF step
<1>5. PICK h : StepsOn(h, n, S, EmptyIndex, step)
    BY <1>1, <1>3, <1>4, Iterates
<1>6. IndexIs(h, item, size)
    <2> USE DEF StepsOn
    <2>1. \A k \in 0 .. n : h[k] = IF k = 0 THEN EmptyIndex ELSE next(h[k - 1], k)
        <3> SUFFICES ASSUME NEW k \in 0 .. n, k # 0 PROVE h[k] = next(h[k - 1], k)
            BY <1>5
        <3>1. k \in 1 .. n /\ k - 1 \in 0 .. n
            BY <1>1
        <3>2. h[k] = step[<<h[k - 1], k>>] /\ h[k - 1] \in S
            BY <1>5, <3>1
        <3> QED BY <1>4, <3>1, <3>2
    <2>2. h = [k \in 0 .. n |-> h[k]]
        BY <1>5
    <2> QED BY <2>1, <2>2 DEF IndexIs, next
<1>7. IndexIs(g, item, size)
    BY <1>6
<1>8. ExactIndex(item, size) = g[n]
    BY DEF ExactIndex, IndexIs
<1> HIDE DEF g
<1>9. \A k \in 0 .. n : g[k] = IF k = 0 THEN EmptyIndex ELSE next(g[k - 1], k)
    BY <1>7, Zenon DEF IndexIs, next
<1> DEFINE Bad == {k \in 0 .. n : g[k] \notin S}
<1>10. ASSUME NEW k \in Bad, \A j \in Bad : k <= j PROVE FALSE
    <2>1. k # 0
        BY <1>3, <1>9
    <2>2. k \in 1 .. n /\ k - 1 \in 0 .. n /\ ~(k <= k - 1)
        BY <1>1, <2>1
    <2>3. g[k - 1] \in S
        BY <1>10, <2>2
    <2> QED BY <1>2, <1>9, <2>1, <2>2, <2>3
<1>11. Bad \subseteq Nat
    BY <1>1
<1> HIDE DEF Bad
<1>12. Bad = {}
    BY <1>10, <1>11, Least
<1>13. g[n] \in S
    <2>1. n \in 0 .. n
        BY <1>1
    <2> QED BY <1>12, <2>1 DEF Bad
<1>14. DOMAIN ExactIndex(item, size) \subseteq blocks
    <2> HIDE DEF blocks, ids
    <2> QED BY <1>8, <1>13 DEF S, Indexes
<1> QED BY <1>14

-----------------------------------------------------------------------------
(* The audit.                                                              *)

\* The sources of a corpus are as many as can be counted.
LEMMA SourcesCounted ==
    ASSUME NEW corpus, IsSequence(corpus),
           \A item \in TokensOf(corpus) : IsSequence(item.donors),
           NEW blocks, NEW size
    PROVE  /\ Cardinality(UNION {Sources(Owners(corpus, b, size)) : b \in blocks}) \in Nat
           /\ \A b : Cardinality(Sources(Owners(corpus, b, size))) \in Nat
<1> DEFINE origins(item) == {Origin(item, donor) : donor \in TokensOf(item.donors)}
           all == UNION {origins(item) : item \in TokensOf(corpus)}
           these == UNION {Sources(Owners(corpus, b, size)) : b \in blocks}
<1>1. \A s : IsSequence(s) => IsFiniteSet(TokensOf(s))
    <2> SUFFICES ASSUME NEW s, IsSequence(s) PROVE IsFiniteSet(TokensOf(s))
        OBVIOUS
    <2>1. Len(s) \in Nat /\ DOMAIN s = 1 .. Len(s)
        BY SequenceFacts
    <2>2. IsFiniteSet(1 .. Len(s))
        BY <2>1, FS_Interval
    <2>3. s = [i \in 1 .. Len(s) |-> s[i]]
        <3>1. s \in Seq(TokensOf(s))
            BY DEF IsSequence
        <3> QED BY <2>1, <3>1
    <2>4. IsFiniteSet({s[i] : i \in 1 .. Len(s)})
        BY <2>2, <2>3, ImageSize
    <2> QED BY <2>1, <2>4 DEF TokensOf
<1>2. \A item \in TokensOf(corpus) : IsFiniteSet(origins(item))
    <2> SUFFICES ASSUME NEW item \in TokensOf(corpus) PROVE IsFiniteSet(origins(item))
        OBVIOUS
    <2> DEFINE D == TokensOf(item.donors)
               f == [donor \in D |-> Origin(item, donor)]
    <2>1. IsFiniteSet(D)
        BY <1>1
    <2> HIDE DEF D
    <2>2. IsFiniteSet({f[donor] : donor \in D})
        <3>1. f = [donor \in D |-> f[donor]]
            OBVIOUS
        <3> HIDE DEF f
        <3> QED BY <2>1, <3>1, ImageSize
    <2> QED BY <2>2 DEF D
<1>3. IsFiniteSet({origins(item) : item \in TokensOf(corpus)})
    <2> DEFINE I == TokensOf(corpus)
               f == [item \in I |-> origins(item)]
    <2>1. IsFiniteSet(I)
        BY <1>1
    <2> HIDE DEF I, origins
    <2>2. IsFiniteSet({f[item] : item \in I})
        <3>1. f = [item \in I |-> f[item]]
            OBVIOUS
        <3> HIDE DEF f
        <3> QED BY <2>1, <3>1, ImageSize
    <2> QED BY <2>2 DEF I
<1>4. IsFiniteSet(all)
    <2> DEFINE sets == {origins(item) : item \in TokensOf(corpus)}
    <2>1. \A set \in sets : IsFiniteSet(set)
        BY <1>2
    <2>2. IsFiniteSet(sets)
        BY <1>3
    <2> HIDE DEF sets
    <2>3. IsFiniteSet(UNION sets)
        BY <2>1, <2>2, FS_UNION
    <2> QED BY <2>3 DEF sets
<1>5. ASSUME NEW b PROVE Sources(Owners(corpus, b, size)) \subseteq all
    <2> SUFFICES ASSUME NEW s \in Sources(Owners(corpus, b, size)) PROVE s \in all
        OBVIOUS
    <2>1. PICK owner \in Owners(corpus, b, size) : s = owner[2]
        BY DEF Sources
    <2>2. PICK item \in TokensOf(corpus) : \E donor \in TokensOf(item.donors) :
              owner = <<item.id, Origin(item, donor)>>
        BY <2>1 DEF Owners
    <2>3. PICK donor \in TokensOf(item.donors) : owner = <<item.id, Origin(item, donor)>>
        BY <2>2
    <2>4. s \in origins(item)
        BY <2>1, <2>3
    <2> QED BY <2>4
<1> HIDE DEF all
<1>6. these \subseteq all
    BY <1>5
<1> HIDE DEF these
<1>7. \A set : set \subseteq all => Cardinality(set) \in Nat
    BY <1>4, FS_Subset, FS_CardinalityType
<1>8. Cardinality(these) \in Nat
    BY <1>6, <1>7
<1> QED BY <1>5, <1>7, <1>8 DEF these

LEMMA OfTwo ==
    ASSUME NEW m \in Int, NEW n \in Int
    PROVE  /\ Max({m, n}) \in Int /\ Max({m, n}) >= m /\ Max({m, n}) >= n
           /\ Min({m, n}) \in {m, n}
<1> DEFINE S == {m, n}
<1>1. \E x \in S : \A y \in S : x >= y
    <2>1. CASE m >= n
        <3>1. \A y \in S : m >= y
            BY <2>1
        <3> QED BY <3>1
    <2>2. CASE ~(m >= n)
        <3>1. \A y \in S : n >= y
            BY <2>2
        <3> QED BY <3>1
    <2> QED BY <2>1, <2>2
<1>2. \E x \in S : \A y \in S : x <= y
    <2>1. CASE m <= n
        <3>1. \A y \in S : m <= y
            BY <2>1
        <3> QED BY <3>1
    <2>2. CASE ~(m <= n)
        <3>1. \A y \in S : n <= y
            BY <2>2
        <3> QED BY <3>1
    <2> QED BY <2>1, <2>2
<1>3. m \in S /\ n \in S /\ \A x \in S : x \in Int
    OBVIOUS
<1> HIDE DEF S
<1>4. Max(S) \in S /\ \A y \in S : Max(S) >= y
    BY <1>1 DEF Max
<1>5. Min(S) \in S
    BY <1>2 DEF Min
<1>6. Max(S) \in Int /\ Max(S) >= m /\ Max(S) >= n
    BY <1>3, <1>4
<1> QED BY <1>5, <1>6 DEF S

\* A hit of an item in a corpus that passes the audit.
LEMMA HitIsOwn ==
    ASSUME NEW corpus, IsSequence(corpus), \A item \in TokensOf(corpus) : OneOrigin(item),
           NEW size, AuditPasses(corpus, size),
           NEW item \in TokensOf(corpus),
           NEW block \in BlocksOf(item.recipient, size), block \in DOMAIN ExactIndex(item, size)
    PROVE  \/ IsDegenerateBlock(block)
           \/ SharedWidely(block, corpus, size)
           \/ ~item.negative /\ \A donor \in TokensOf(item.donors) : donor.from = NoSource
<1> DEFINE owners == [b \in DonorBlocks(corpus, size) |-> Owners(corpus, b, size)]
           all == Cardinality(UNION {Sources(Owners(corpus, b, size)) : b \in DonorBlocks(corpus, size)})
           shared == Cardinality(Sources(Owners(corpus, block, size)))
<1> SUFFICES ASSUME ~IsDegenerateBlock(block)
             PROVE  \/ SharedWidely(block, corpus, size)
                    \/ ~item.negative /\ \A donor \in TokensOf(item.donors) : donor.from = NoSource
    OBVIOUS
<1>1. IsSequence(item.donors)
    BY DEF OneOrigin
<1>2. PICK donor \in TokensOf(item.donors) : block \in BlocksOf(donor.text, size)
    BY <1>1, IndexedOnce
<1>3. block \in ContentBlocks(donor.text, size)
    BY <1>2 DEF ContentBlocks, BlocksOf
<1>4. block \in DonorBlocks(corpus, size)
    BY <1>2, <1>3 DEF DonorBlocks
<1>5. <<item.id, Origin(item, donor)>> \in Owners(corpus, block, size)
    BY <1>2, <1>3 DEF Owners
<1>6. DOMAIN owners = DonorBlocks(corpus, size) /\ owners[block] = Owners(corpus, block, size)
    BY <1>4
<1> HIDE DEF owners
<1>7. ViolationAt(owners, item, block) = "none"
    <2> DEFINE bad(i) == {b \in BlocksOf(i.recipient, size) : ViolationAt(owners, i, b) # "none"}
               found(i) == {<<i.id, b, ViolationAt(owners, i, b)>> : b \in bad(i)}
    <2>1. UNION {found(i) : i \in TokensOf(corpus)} = {}
        BY DEF AuditPasses, Violations, BlocksOf, owners
    <2> HIDE DEF found
    <2>2. found(item) = {}
        BY <2>1
    <2> HIDE DEF bad
    <2>3. bad(item) = {}
        BY <2>2 DEF found
    <2> QED BY <2>3 DEF bad
<1>8. CASE IsBoilerplate(owners, block)
    <2>1. UNION {Sources(owners[b]) : b \in DOMAIN owners}
              = UNION {Sources(Owners(corpus, b, size)) : b \in DonorBlocks(corpus, size)}
        BY <1>6 DEF owners
    <2>2. shared >= Max({2, Min({BoilerplateThreshold, all})})
        BY <1>6, <1>8, <2>1 DEF IsBoilerplate, EffectiveThreshold
    <2>3. all \in Nat
        BY SourcesCounted DEF OneOrigin
    <2>4. shared \in Nat
        BY SourcesCounted DEF OneOrigin
    <2> HIDE DEF all, shared
    <2>5. Min({BoilerplateThreshold, all}) \in Int
        <3>1. all \in Int /\ BoilerplateThreshold \in Int
            BY <2>3, ThresholdAssumption DEF ThresholdAssumption
        <3>2. Min({BoilerplateThreshold, all}) \in {BoilerplateThreshold, all}
            BY <3>1, OfTwo, Zenon
        <3> QED BY <3>1, <3>2
    <2> DEFINE least == Min({BoilerplateThreshold, all})
    <2>6. Max({2, least}) \in Int /\ Max({2, least}) >= 2 /\ Max({2, least}) >= least /\ least \in Int
        <3>1. least \in Int /\ 2 \in Int
            BY <2>5
        <3> HIDE DEF least
        <3> QED BY <3>1, OfTwo, Zenon
    <2> HIDE DEF least
    <2>7. shared >= 2 /\ shared >= least
        BY <2>2, <2>4, <2>6 DEF least
    <2>8. SharedWidely(block, corpus, size)
        BY <2>7 DEF SharedWidely, least, all, shared
    <2> QED BY <2>8
<1>9. CASE ~IsBoilerplate(owners, block)
    <2>1. /\ ~(item.negative /\ \E owner \in owners[block] : owner[1] = item.id)
          /\ ~(\E owner \in owners[block] : owner[2] # item.source)
        BY <1>4, <1>6, <1>7, <1>9 DEF ViolationAt
    <2> DEFINE mine == <<item.id, Origin(item, donor)>>
    <2>2. mine[1] = item.id /\ mine[2] = Origin(item, donor) /\ mine \in owners[block]
        BY <1>5, <1>6
    <2> HIDE DEF mine
    <2>3. ~item.negative /\ Origin(item, donor) = item.source
        BY <2>1, <2>2
    <2>4. donor.from = NoSource
        BY <1>2, <2>3 DEF OneOrigin, Origin
    <2> QED BY <1>2, <2>3, <2>4 DEF OneOrigin
<1> QED BY <1>8, <1>9

-----------------------------------------------------------------------------
(* The commands.                                                           *)

LoadedList(list) == IsSequence(list) /\ TokensOf(list) \subseteq Records
SoundList(list) == IsSequence(list) /\ \A item \in TokensOf(list) : Sound(item)

\* What a process holds was loaded, and what it or the manifest has of items
\* was built of it.
Sourcing ==
    /\ upstream \in Upstreams /\ spec \in Specs
    /\ LoadedList(todo) /\ LoadedList(kept)

Soundness == SoundList(items) /\ SoundList(manifest.items)

\* The rows are those of the manifest that is there.
RowsOfIt ==
    rows # <<>> =>
        /\ pc = "exit"
        /\ \E outcome \in SemOutcomes :
               rows = [i \in DOMAIN manifest.items |->
                          RunOneItem(manifest.items[i], cmd.size, outcome)]

LEMMA RecordsLoaded == \A r \in Records : Loaded(r)
    BY CorpusAssumption DEF CorpusAssumption, Loaded

LEMMA Trimmed ==
    ASSUME NEW records, LoadedList(records), NEW cap
    PROVE  LoadedList(TrimPerDataset(records, cap))
<1> DEFINE taken == {i \in DOMAIN records :
                        Cardinality({j \in 1..(i - 1) : records[j].dataset = records[i].dataset}) < cap}
<1>1. CASE cap = NoCap
    BY <1>1 DEF TrimPerDataset
<1>2. CASE cap # NoCap
    <2>1. TrimPerDataset(records, cap) = Picked(records, taken)
        BY <1>2 DEF TrimPerDataset
    <2> HIDE DEF taken
    <2>2. /\ IsSequence(Picked(records, taken))
          /\ TokensOf(Picked(records, taken)) = {records[i] : i \in DOMAIN records \cap taken}
        BY Picks DEF LoadedList
    <2> QED BY <2>1, <2>2 DEF LoadedList, TokensOf
<1> QED BY <1>1, <1>2

LEMMA NoList == LoadedList(<<>>) /\ SoundList(<<>>)
    BY NoneAndOne DEF LoadedList, SoundList

LEMMA FactsOfLoaded ==
    ASSUME LoadedList(kept)
    PROVE  FactsSurvive
<1>1. ASSUME NEW r \in TokensOf(kept), NEW a \in DOMAIN r.context, NEW b \in DOMAIN r.context
      PROVE  IsSequence(SubSeq(r.context, a, b))
    <2>1. IsSequence(r.context)
        BY RecordsLoaded DEF LoadedList, Loaded
    <2>2. Len(r.context) \in Nat /\ DOMAIN r.context = 1 .. Len(r.context)
        BY <2>1, SequenceFacts
    <2>3. a \in 1 .. Len(r.context) + 1 /\ b \in 0 .. Len(r.context)
        BY <2>2
    <2> QED BY <2>1, <2>3, Parts
<1>2. ASSUME NEW r \in TokensOf(kept),
             NEW piece \in {SubSeq(r.context, a, b) : a, b \in DOMAIN r.context} \ {<<>>}
      PROVE  \A sentence \in TokensOf(SplitSentences(piece)) :
                 \A unit \in UnitsOf(WithoutStop(sentence)) :
                     HoldsUnit(RewritePreservingFacts(piece), unit)
    <2>1. PICK a \in DOMAIN r.context, b \in DOMAIN r.context : piece = SubSeq(r.context, a, b)
        OBVIOUS
    <2>2. IsSequence(piece)
        BY <1>1, <2>1
    <2>3. \A sentence \in TokensOf(SplitSentences(piece)) :
              Held(RewritePreservingFacts(piece), sentence)
        BY <2>2, TextRewritten
    <2> QED BY <2>3 DEF Held
<1> QED BY <1>2 DEF FactsSurvive

\* Every step leaves what is held loaded.
LEMMA SourcingKept ==
    ASSUME Sourcing, [Next]_vars
    PROVE  Sourcing'
<1> USE DEF Sourcing
<1>1. ASSUME NEW name, Refuse(name) PROVE Sourcing'
    BY <1>1 DEF Refuse
<1>2. ASSUME NEW name, Start(name) PROVE Sourcing'
    <2>1. LoadedList(upstream)
        <3>1. IsSequence(upstream)
            BY CorpusAssumption DEF CorpusAssumption
        <3>2. TokensOf(upstream) \subseteq Records
            BY DEF Records
        <3> QED BY <3>1, <3>2 DEF LoadedList
    <2>2. LoadedList(TrimPerDataset(upstream, FetchCap))
        BY <2>1, Trimmed
    <2>3. LoadedList(todo') /\ LoadedList(kept')
        BY <1>2, <2>1, <2>2, NoList DEF Start
    <2> QED BY <1>2, <2>3 DEF Start
<1>3. ASSUME DedupeRecord PROVE Sourcing'
    <2>1. todo \in Seq(Records) /\ todo # <<>>
        BY <1>3, SequenceFacts DEF DedupeRecord, LoadedList
    <2>2. Head(todo) \in Records /\ Tail(todo) \in Seq(Records)
        BY <2>1, HeadTailProperties
    <2>3. LoadedList(todo')
        BY <1>3, <2>2, InSeq DEF DedupeRecord, LoadedList
    <2>4. kept' = kept \/ kept' = Append(kept, Head(todo))
        BY <1>3 DEF DedupeRecord, KeepRecord, DropRecord
    <2>5. LoadedList(kept')
        <3>1. kept \in Seq(Records)
            BY SequenceFacts DEF LoadedList
        <3>2. Append(kept, Head(todo)) \in Seq(Records)
            BY <2>2, <3>1, AppendProperties
        <3> QED BY <2>4, <3>1, <3>2, InSeq DEF LoadedList
    <2> QED BY <1>3, <2>3, <2>5 DEF DedupeRecord
<1>4. ASSUME Build \/ Write \/ FreezeAudit \/ Record \/ Compare PROVE Sourcing'
    BY <1>4 DEF Build, Write, FreezeAudit, Record, Compare
<1>5. ASSUME NEW size, AuditManifest(size) PROVE Sourcing'
    BY <1>5 DEF AuditManifest
<1>6. ASSUME NEW size, NEW outcome, RunOffline(size, outcome) PROVE Sourcing'
    BY <1>6 DEF RunOffline
<1>7. ASSUME Exit \/ Kill PROVE Sourcing'
    BY <1>7, NoList DEF Exit, Kill, Gone
<1>8. ASSUME UpstreamMoves \/ UNCHANGED vars PROVE Sourcing'
    BY <1>8 DEF UpstreamMoves, vars, process
<1> QED BY <1>1, <1>2, <1>3, <1>4, <1>5, <1>6, <1>7, <1>8 DEF Next

\* What is built of it is sound, and stays so as far as it was written.
LEMMA SoundnessKept ==
    ASSUME Sourcing, Soundness, [Next]_vars
    PROVE  Soundness'
<1> USE DEF Soundness
<1>1. ASSUME UNCHANGED <<items, manifest>> PROVE Soundness'
    BY <1>1
<1>2. ASSUME Build PROVE Soundness'
    <2>1. LoadedList(Sourced)
        BY Trimmed DEF Sourced, Sourcing
    <2>2. IsSequence(spec.transforms)
        BY CorpusAssumption DEF CorpusAssumption, Sourcing
    <2>3. WorkloadBuilds(Sourced, spec) => SoundList(BuildWorkload(Sourced, spec))
        BY <2>1, <2>2, RecordsLoaded, WorkloadSound DEF LoadedList, SoundList
    <2>4. items' = items \/ SoundList(items')
        BY <1>2, <2>3 DEF Build
    <2> QED BY <1>2, <2>4 DEF Build, files
<1>3. ASSUME Write PROVE Soundness'
    BY <1>3 DEF Write, AFile
<1>4. ASSUME Gone, manifest' = manifest PROVE Soundness'
    BY <1>4, NoList DEF Gone
<1>5. ASSUME Kill PROVE Soundness'
    <2>1. CASE manifest' = manifest
        BY <1>4, <1>5, <2>1 DEF Kill
    <2>2. CASE \E rowsOut \in CutRows : rowsOut < Len(items) /\ manifest'.items = SubSeq(items, 1, rowsOut)
        <3>1. PICK rowsOut \in CutRows :
                  rowsOut < Len(items) /\ manifest'.items = SubSeq(items, 1, rowsOut)
            BY <2>2
        <3>2. rowsOut \in Nat
            BY CorpusAssumption DEF CorpusAssumption
        <3>3. Len(items) \in Nat
            BY SequenceFacts DEF SoundList
        <3>4. 1 \in 1 .. Len(items) + 1 /\ rowsOut \in 0 .. Len(items)
            BY <3>1, <3>2, <3>3
        <3>5. /\ IsSequence(SubSeq(items, 1, rowsOut))
              /\ TokensOf(SubSeq(items, 1, rowsOut)) \subseteq TokensOf(items)
            BY <3>4, Parts DEF SoundList
        <3>6. SoundList(manifest'.items)
            BY <3>1, <3>5 DEF SoundList
        <3>7. items' = <<>>
            BY <1>5 DEF Kill, Gone
        <3> QED BY <3>6, <3>7, NoList
    <2> QED BY <1>5, <2>1, <2>2 DEF Kill, files
<1>6. ASSUME Exit PROVE Soundness'
    BY <1>4, <1>6 DEF Exit, files
<1>7. ASSUME NEW name, Refuse(name) \/ Start(name) PROVE Soundness'
    BY <1>1, <1>7 DEF Refuse, Start, files
<1>8. ASSUME DedupeRecord \/ FreezeAudit \/ Record \/ Compare \/ UpstreamMoves \/ UNCHANGED vars
      PROVE  Soundness'
    BY <1>1, <1>8 DEF DedupeRecord, FreezeAudit, Record, Compare, UpstreamMoves, vars, process, files
<1>9. ASSUME NEW size, AuditManifest(size) PROVE Soundness'
    BY <1>1, <1>9 DEF AuditManifest, files
<1>10. ASSUME NEW size, NEW outcome, RunOffline(size, outcome) PROVE Soundness'
    BY <1>1, <1>10 DEF RunOffline, files
<1> QED BY <1>2, <1>3, <1>5, <1>6, <1>7, <1>8, <1>9, <1>10 DEF Next

\* Rows there are only as long as nothing else happens.
LEMMA RowsKept ==
    ASSUME RowsOfIt, [Next]_vars
    PROVE  RowsOfIt'
<1> USE DEF RowsOfIt
<1>1. ASSUME pc # "exit", rows' = rows PROVE RowsOfIt'
    BY <1>1
<1>2. ASSUME NEW name, Refuse(name) \/ Start(name) PROVE RowsOfIt'
    BY <1>1, <1>2 DEF Refuse, Start
<1>3. ASSUME DedupeRecord \/ Build \/ Write \/ FreezeAudit \/ Record \/ Compare PROVE RowsOfIt'
    BY <1>1, <1>3 DEF DedupeRecord, Build, Write, FreezeAudit, Record, Compare
<1>4. ASSUME NEW size, AuditManifest(size) PROVE RowsOfIt'
    BY <1>1, <1>4 DEF AuditManifest
<1>5. ASSUME NEW size, NEW outcome \in SemOutcomes, RunOffline(size, outcome) PROVE RowsOfIt'
    <2>1. CASE rows' = rows
        BY <1>1, <1>5, <2>1 DEF RunOffline
    <2>2. CASE rows' = [i \in DOMAIN manifest.items |->
                           RunOneItem(manifest.items[i], size, outcome)]
        <3>1. pc' = "exit" /\ cmd'.size = size /\ manifest' = manifest
            BY <1>5 DEF RunOffline, End, files
        <3>2. rows' = [i \in DOMAIN manifest'.items |->
                           RunOneItem(manifest'.items[i], cmd'.size, outcome)]
            BY <2>2, <3>1, Zenon
        <3> QED BY <3>1, <3>2
    <2> QED BY <1>5, <2>1, <2>2 DEF RunOffline
<1>6. ASSUME Exit \/ Kill PROVE RowsOfIt'
    BY <1>6 DEF Exit, Kill, Gone
<1>7. ASSUME UpstreamMoves PROVE RowsOfIt'
    BY <1>1, <1>7 DEF UpstreamMoves, process
<1>8. ASSUME UNCHANGED vars PROVE RowsOfIt'
    BY <1>8 DEF vars, process, files
<1> QED BY <1>2, <1>3, <1>4, <1>5, <1>6, <1>7, <1>8 DEF Next

LEMMA HitsOfSound ==
    ASSUME Soundness, RowsOfIt
    PROVE  ExactHitsAreOwn
<1> DEFINE corpus == manifest.items
           size == cmd.size
           blocksOf(item) == IterFullBlocks(Encode(item.recipient), size)
<1> SUFFICES ASSUME rows # <<>>, AuditPasses(corpus, size),
                    NEW i \in DOMAIN rows, NEW b \in rows[i].exact
             PROVE  \/ IsDegenerateBlock(blocksOf(corpus[i])[b + 1])
                    \/ SharedWidely(blocksOf(corpus[i])[b + 1], corpus, size)
                    \/ /\ ~corpus[i].negative
                       /\ \A donor \in TokensOf(corpus[i].donors) : donor.from = NoSource
    BY DEF ExactHitsAreOwn
<1> DEFINE item == corpus[i]
           ids == Encode(item.recipient)
           block == blocksOf(item)[b + 1]
<1>1. PICK outcome : rows = [j \in DOMAIN corpus |-> RunOneItem(corpus[j], size, outcome)]
    BY DEF RowsOfIt
<1>2. i \in DOMAIN corpus /\ rows[i] = RunOneItem(item, size, outcome)
    BY <1>1
<1>3. rows[i].exact = HitBlocks(ExactIndex(item, size), ids, size)
    BY <1>2 DEF RunOneItem
<1>4. PICK c \in DOMAIN blocksOf(item) : b = c - 1 /\ blocksOf(item)[c] \in DOMAIN ExactIndex(item, size)
    BY <1>3 DEF HitBlocks
<1>5. c = b + 1
    <2>1. c \in Int
        BY DEF IterFullBlocks
    <2> HIDE DEF blocksOf
    <2> QED BY <1>4, <2>1
<1>6. block \in BlocksOf(item.recipient, size) /\ block \in DOMAIN ExactIndex(item, size)
    BY <1>4, <1>5 DEF BlocksOf, TokensOf
<1>7. item \in TokensOf(corpus)
    BY <1>2 DEF TokensOf
<1>8. IsSequence(corpus) /\ \A other \in TokensOf(corpus) : OneOrigin(other)
    BY DEF Soundness, SoundList, Sound
<1> HIDE DEF block, item, corpus, size
<1>9. \/ IsDegenerateBlock(block) \/ SharedWidely(block, corpus, size)
      \/ ~item.negative /\ \A donor \in TokensOf(item.donors) : donor.from = NoSource
    BY <1>6, <1>7, <1>8, HitIsOwn
<1> QED BY <1>9 DEF block, item

\* No command has run.
LEMMA SourcesFirst ==
    ASSUME Init
    PROVE  Sourcing /\ Soundness /\ RowsOfIt
BY NoList DEF Init, Sourcing, Soundness, RowsOfIt, NoFile

\* The rewrite loses no number of a text, nor its neighbours: a guarded word is
\* written as it is and next to what was written before it, and joining two
\* sentences takes a stop only where a sentence ends with one
\* (rewrite_preserving_facts, whatever its swaps, fillers and names are).
THEOREM FactsKept == Spec => []FactsSurvive
<1>1. Init => Sourcing
    BY SourcesFirst
<1>2. Sourcing /\ [Next]_vars => Sourcing'
    BY SourcingKept
<1>3. Sourcing => FactsSurvive
    BY FactsOfLoaded DEF Sourcing
<1> QED BY <1>1, <1>2, <1>3, PTL DEF Spec

\* A probe's answer is in its recipient and, but for the plain paraphrase, in
\* none of its donors: the salts are only taken where the source, the question
\* included, has none of the numbers, and the donor's numbers are others
\* (_build_v5_probe_item, for every draw derived_int can make).
THEOREM ProbesAreOwn == Spec => []NoProbeLeak
<1> DEFINE Inv == Sourcing /\ Soundness
<1>1. Init => Inv
    BY SourcesFirst
<1>2. Inv /\ [Next]_vars => Inv'
    BY SourcingKept, SoundnessKept
<1>3. Inv => NoProbeLeak
    BY DEF Soundness, SoundList, Sound, OwnProbe, NoProbeLeak
<1> QED BY <1>1, <1>2, <1>3, PTL DEF Spec

\* An exact hit of an offline run over a manifest that passes the audit is the
\* source's own text, a block without content or a wrapper's: a hit is a block
\* of one of the item's donors, so the audit has seen it with that donor as its
\* owner (audit_manifest_items and _run_one_item, at every block size).
THEOREM HitsAreOwn == Spec => []ExactHitsAreOwn
<1> DEFINE Inv == Sourcing /\ Soundness /\ RowsOfIt
<1>1. Init => Inv
    BY SourcesFirst
<1>2. Inv /\ [Next]_vars => Inv'
    BY SourcingKept, SoundnessKept, RowsKept
<1>3. Inv => ExactHitsAreOwn
    BY HitsOfSound
<1> QED BY <1>1, <1>2, <1>3, PTL DEF Spec
=============================================================================
