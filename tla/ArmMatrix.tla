----------------------------- MODULE ArmMatrix ------------------------------
(***************************************************************************)
(* Which arm a result document says it ran: src/sembench/arm_matrix.py.    *)
(*                                                                         *)
(* What an operator writes for --backend-id is free text; here it is the   *)
(* sequence of the words the pattern of _declaration_names_arm sees in it  *)
(* (anything but a letter or a digit ends a word), in one case; the words  *)
(* of a name are joined in it as they are in the name.                     *)
(***************************************************************************)
EXTENDS Integers, Sequences

\* PHASE0_ARMS, in the order of the matrix: the two names of an arm, its id
\* and its label, with the length of the text.
AnArm(rank, id, label, length) ==
    {[rank |-> rank, arm |-> id, words |-> <<id>>, length |-> 2],
     [rank |-> rank, arm |-> id, words |-> label, length |-> length]}

Phase0Names == UNION {
    AnArm(0, "A0", <<"stock", "nopc">>, 10),
    AnArm(1, "A1", <<"stock", "pc">>, 8),
    AnArm(2, "A2", <<"stock", "pc", "rerun">>, 14),
    AnArm(3, "A3", <<"conn", "discovery">>, 14),
    AnArm(4, "A4", <<"conn", "span">>, 9),
    AnArm(5, "A5", <<"conn", "span", "noaudit">>, 17),
    AnArm(6, "A6", <<"conn", "span", "nomitigation">>, 22),
    AnArm(7, "A7", <<"fleet", "3worker">>, 13)}

Phase0Arms == {n.arm : n \in Phase0Names}

\* PHASE0_ARM_PAIRS: the comparisons --pair may name.
ArmPairs == [
    m3_ttft            |-> [baseline |-> "A1", treatment |-> "A4"],
    m6_noise_floor     |-> [baseline |-> "A1", treatment |-> "A2"],
    m4_capture         |-> [baseline |-> "A3", treatment |-> "A4"],
    m4_instrumentation |-> [baseline |-> "A5", treatment |-> "A4"],
    m7_propagation     |-> [baseline |-> "A4", treatment |-> "A6"]]

\* A run that declares nothing, or no pair.
Nothing == <<>>
NoPair == "none"

\* The pattern finds a name wherever its words stand in a row.
NamesArm(declared, words) ==
    \E n \in 1 .. Len(declared) - Len(words) + 1 :
        SubSeq(declared, n, n + Len(words) - 1) = words

\* arm_id_of: of the names found the longest, the first in the matrix of
\* those.  An id that names no arm is none.
Longer(m, n) == m.length > n.length \/ (m.length = n.length /\ m.rank <= n.rank)
ArmIdOf(declared) ==
    LET found == {n \in Phase0Names : NamesArm(declared, n.words)}
    IN  IF found = {} THEN "" ELSE (CHOOSE m \in found : \A n \in found : Longer(m, n)).arm

\* _declared_arm_id: what a document's run wrote down of its arm.
DeclaredId(run, role) ==
    IF role = "cold" /\ run.backend_id = Nothing THEN run.baseline_id ELSE run.backend_id

\* result_backend_arm
BackendArm(run) == ArmIdOf(DeclaredId(run, "cold"))

\* arm_label_conflicts: a document whose run was another role, or is a merge.
LabelConflict(coldRun, warmRun) ==
    \/ coldRun.arm \notin {"", "cold", "single"}
    \/ warmRun.arm \notin {"", "warm", "single"}

\* arm_pair_conflicts: an arm that declares itself, and not by a name of the
\* arm the pair expects.
Contradicts(declared, arm) ==
    /\ declared # Nothing
    /\ \A n \in Phase0Names : n.arm = arm => ~NamesArm(declared, n.words)
PairConflict(pair, coldRun, warmRun) ==
    /\ pair # NoPair
    /\ \/ Contradicts(DeclaredId(coldRun, "cold"), ArmPairs[pair].baseline)
       \/ Contradicts(DeclaredId(warmRun, "warm"), ArmPairs[pair].treatment)

\* cold_reference_arm_conflicts: the reference declares another arm than
\* --cold-reference-arm asserts.
ReferenceArmConflict(run, asserted) ==
    /\ "" \notin {BackendArm(run), ArmIdOf(asserted)}
    /\ BackendArm(run) # ArmIdOf(asserted)
=============================================================================
