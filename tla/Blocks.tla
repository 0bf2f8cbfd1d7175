------------------------------- MODULE Blocks -------------------------------
(***************************************************************************)
(* Token blocks and what is counted of them: src/sembench/exact_cache.py,  *)
(* the tokenizer of tokenization.py and is_degenerate_block of             *)
(* collision_audit.py.                                                     *)
(*                                                                         *)
(* A text is a sequence of words and marks, Break among them where the     *)
(* text has a blank line.  The tokenizer passes over white space, so what  *)
(* it makes of a text is the text without its Breaks.  chunk_hash names a  *)
(* block: two blocks have one digest when they have the same tokens, and a *)
(* block stands for its digest.  Positions count from 0, as in the code.   *)
(***************************************************************************)
EXTENDS Integers, SequencesExt

CONSTANTS
    NoSource,    \* a donor whose text is of its item's own source
    Unsaid,      \* what an action does not say
    Break,       \* the blank line between two paragraphs
    MinDistinct  \* MIN_DISTINCT_TOKENS_PER_BLOCK

TokensOf(text) == {text[i] : i \in DOMAIN text}
IsSequence(s) == s \in Seq(TokensOf(s))

\* What a sequence has at some of its positions, in its order.
Picked(s, positions) ==
    FlattenSeq([i \in DOMAIN s |-> IF i \in positions THEN <<s[i]>> ELSE <<>>])

Encode(text) == Picked(text, {p \in DOMAIN text : text[p] # Break})

\* The full blocks of a sequence of tokens; what is left at its end is none.
FullBlockCount(count, size) == count \div size

IterFullBlocks(ids, size) ==
    [b \in 1..FullBlockCount(Len(ids), size) |-> SubSeq(ids, (b - 1) * size + 1, b * size)]

IsDegenerateBlock(block) == Cardinality(TokensOf(block)) < MinDistinct

\* The blocks of one donor or recipient that carry content.
ContentBlocks(text, size) ==
    {block \in TokensOf(IterFullBlocks(Encode(text), size)) : ~IsDegenerateBlock(block)}

\* A run of tokens at any offset.
Windows(ids, size) == {SubSeq(ids, s, s + size - 1) : s \in 1..((Len(ids) + 1) - size)}

-----------------------------------------------------------------------------
(* ExactBlockIndex: from a digest to the donors that have the block.       *)

\* add: one donor's blocks into the index.
IndexAdd(index, donor, ids, size) ==
    LET added == TokensOf(IterFullBlocks(ids, size))
    IN  [block \in DOMAIN index \cup added |->
            (IF block \in DOMAIN index THEN index[block] ELSE {})
                \cup (IF block \in added THEN {donor} ELSE {})]

EmptyIndex == [block \in {} |-> {}]

\* lookup: the blocks of the recipient, by number from 0, the index has.
HitBlocks(index, ids, size) ==
    {b - 1 : b \in {b \in DOMAIN IterFullBlocks(ids, size) :
                        IterFullBlocks(ids, size)[b] \in DOMAIN index}}

-----------------------------------------------------------------------------
(* The copy actions of SemBlend: each copies one position of a donor to    *)
(* one position of the recipient.  An action may leave its donor or the    *)
(* donor's position unsaid.                                                *)

BlockPositions(b, size) == (b * size)..(b * size + size - 1)
Blocks(count, size) == 0..(FullBlockCount(count, size) - 1)

\* count_full_reuse_blocks: blocks whose every position is copied.
ReuseBlocks(actions, count, size) ==
    {b \in Blocks(count, size) :
        BlockPositions(b, size) \subseteq {actions[n].target : n \in DOMAIN actions}}

\* by_target: of the actions that name a donor's position, the last for a
\* position of the recipient.
Placed(actions, position) ==
    {n \in DOMAIN actions : actions[n].target = position /\ actions[n].at # Unsaid}
ActionAt(actions, position) ==
    actions[CHOOSE n \in Placed(actions, position) :
                \A m \in Placed(actions, position) : m <= n]

\* count_backend_eligible_blocks: blocks copied from positions that follow
\* each other, of one donor as far as the actions say.
EligibleBlocks(actions, count, size) ==
    {b \in Blocks(count, size) :
        LET positions == BlockPositions(b, size)
            first     == ActionAt(actions, b * size).at
        IN  /\ \A p \in positions : Placed(actions, p) # {}
            /\ Cardinality({ActionAt(actions, p).donor : p \in positions} \ {Unsaid}) <= 1
            /\ \A p \in positions : ActionAt(actions, p).at = first + (p - b * size)}
=============================================================================
