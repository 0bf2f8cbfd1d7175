---------------------------- MODULE ReplayStages ----------------------------
(***************************************************************************)
(* From a manifest to the list of stages the dispatcher is given.          *)
(*                                                                         *)
(* replay_plan (src/sembench/pairing.py) turns the manifest's items into   *)
(* the ordered steps of a run, and build_stages                            *)
(* (src/sembench/replay_stages.py) expands each step into a donor stage,   *)
(* when the step seeds donors, and a recipient stage that depends on it    *)
(* and on the earlier recipients its item names as donors.                 *)
(*                                                                         *)
(* An item is a record                                                     *)
(*   id     : its item_id                                                  *)
(*   donors : how many donor prompts it carries                            *)
(*   refs   : the item ids metadata.donor_item_id(s) names                 *)
(*   gap    : metadata.donor_gap_requests, 0 when it has none              *)
(* A stage is named by its position in the list: the key the code builds   *)
(* from the step's position, item id and kind is unique, so the position   *)
(* tells stages apart exactly as the key does.                             *)
(***************************************************************************)
EXTENDS Naturals, Sequences, FiniteSets, FiniteSetsExt

RunModes == {"single", "cold", "warm", "paired"}

Step(item, arm, seed) == [item |-> item, arm |-> arm, seed |-> seed]

DuplicateItemIds(items) ==
    {items[i].id : i \in {i \in DOMAIN items :
                            \E j \in DOMAIN items : j < i /\ items[j].id = items[i].id}}

\* What replay_plan raises ValueError for: arms are joined on item_id.
PlanRefused(items, mode) == mode # "single" /\ DuplicateItemIds(items) # {}

(***************************************************************************)
(* Paired: each item's cold twin, without donors, and right behind it its  *)
(* warm twin, with them.  Otherwise the manifest order, donors seeded for  *)
(* every item, whatever arm the run is stamped with.                       *)
(***************************************************************************)
ReplayPlan(items, mode) ==
    IF mode = "paired"
    THEN [k \in 1 .. 2 * Len(items) |->
            IF k % 2 = 1 THEN Step(items[(k + 1) \div 2], "cold", FALSE)
                         ELSE Step(items[k \div 2], "warm", TRUE)]
    ELSE [k \in DOMAIN items |-> Step(items[k], mode, TRUE)]

-----------------------------------------------------------------------------

SeedsDonors(step) == step.seed /\ step.item.donors > 0

\* Where step k's recipient stage stands in the list; its donor stage, if it
\* has one, stands right before it.
RecipientAt(plan, k) == k + Cardinality({j \in 1 .. k : SeedsDonors(plan[j])})

\* recipient_keys.get(ref): the latest earlier step of that item.  A forward
\* or unknown reference finds none and is dropped.
EarlierSteps(plan, k, ref) == {j \in 1 .. k - 1 : plan[j].item.id = ref}

DonorGap(item, minGap) == IF item.gap > 0 THEN item.gap ELSE minGap

DependsOn(plan, k, minGap, settle) ==
    LET ownDonors == IF SeedsDonors(plan[k])
                     THEN {[on |-> RecipientAt(plan, k) - 1, gap |-> 0, settle |-> settle]}
                     ELSE {}
        named     == {ref \in plan[k].item.refs : EarlierSteps(plan, k, ref) # {}}
    IN  ownDonors \cup
        {[on     |-> RecipientAt(plan, Max(EarlierSteps(plan, k, ref))),
          gap    |-> DonorGap(plan[k].item, minGap),
          settle |-> FALSE] : ref \in named}

DonorStage(plan, k) ==
    [kind |-> "donors", step |-> k, requests |-> plan[k].item.donors, deps |-> {}]

RecipientStage(plan, k, minGap, settle) ==
    [kind |-> "recipient", step |-> k, requests |-> 1,
     deps |-> DependsOn(plan, k, minGap, settle)]

\* build_stages: minGap is min_donor_gap_requests, settle whether the run
\* has a post-donor settle at all.
BuildStages(plan, minGap, settle) ==
    [n \in 1 .. RecipientAt(plan, Len(plan)) |->
        LET k == CHOOSE k \in DOMAIN plan :
                    n \in (IF SeedsDonors(plan[k])
                           THEN {RecipientAt(plan, k) - 1, RecipientAt(plan, k)}
                           ELSE {RecipientAt(plan, k)})
        IN  IF n = RecipientAt(plan, k) THEN RecipientStage(plan, k, minGap, settle)
                                        ELSE DonorStage(plan, k)]
=============================================================================
