--------------------------- MODULE CollisionAudit ---------------------------
(***************************************************************************)
(* The audit a corpus must pass before its checksums are recorded:         *)
(* src/sembench/collision_audit.py.  The owners of a block are the pairs   *)
(* of a carrying item and the source the donor's text came from.           *)
(***************************************************************************)
EXTENDS Blocks

CONSTANT
    BoilerplateThreshold  \* boilerplate_source_threshold

ASSUME ThresholdAssumption == BoilerplateThreshold \in Int

\* The source a donor's text came from.
Origin(item, donor) == IF donor.from # NoSource THEN donor.from ELSE item.source

DonorBlocks(items, size) ==
    UNION {ContentBlocks(donor.text, size) :
               donor \in UNION {TokensOf(item.donors) : item \in TokensOf(items)}}

Owners(items, block, size) ==
    UNION {{<<item.id, Origin(item, donor)>> :
                donor \in {d \in TokensOf(item.donors) : block \in ContentBlocks(d.text, size)}} :
           item \in TokensOf(items)}

Sources(owners) == {owner[2] : owner \in owners}

\* The threshold cannot be above the sources there are, nor below two.
EffectiveThreshold(owners) ==
    LET distinct == Cardinality(UNION {Sources(owners[b]) : b \in DOMAIN owners})
    IN  Max({2, Min({BoilerplateThreshold, distinct})})

\* A block of that many sources is a wrapper's.  (SharedByItems, the mutated
\* form, counts the items.)
SharedByItems(owners, block) == Cardinality(owners[block]) >= EffectiveThreshold(owners)

IsBoilerplate(owners, block) ==
    Cardinality(Sources(owners[block])) >= EffectiveThreshold(owners)

\* The violations of one item, in the order of its recipient's blocks: a
\* control's block among its own donors', or a block of another source.
ViolationAt(owners, item, block) ==
    IF IsDegenerateBlock(block) \/ block \notin DOMAIN owners \/ IsBoilerplate(owners, block)
    THEN "none"
    ELSE IF item.negative /\ \E owner \in owners[block] : owner[1] = item.id
         THEN "negative_control_overlap"
    ELSE IF \E owner \in owners[block] : owner[2] # item.source
         THEN "phantom_cross_source" ELSE "none"

Violations(items, size) ==
    LET owners == [block \in DonorBlocks(items, size) |-> Owners(items, block, size)]
    IN  UNION {{<<item.id, block, ViolationAt(owners, item, block)>> :
                    block \in {b \in TokensOf(IterFullBlocks(Encode(item.recipient), size)) :
                                  ViolationAt(owners, item, b) # "none"}} :
               item \in TokensOf(items)}

\* audit_manifest_items(...).passed.  The report is cut at fifty violations,
\* which does not make it empty.
AuditPasses(items, size) == Violations(items, size) = {}
=============================================================================
