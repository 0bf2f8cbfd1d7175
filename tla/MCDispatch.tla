----------------------------- MODULE MCDispatch -----------------------------
(***************************************************************************)
(* Small manifests for the dispatcher: every list is one that replay_plan  *)
(* and build_stages make of up to three or four items.                     *)
(***************************************************************************)
EXTENDS DispatchProps, ReplayStages

Item(i, donors, refs, gap) == [id |-> i, donors |-> donors, refs |-> refs, gap |-> gap]

Stream(items, settle) == BuildStages(ReplayPlan(items, "single"), 0, settle)

\* What each of three items may look like: a plain request, one that brings a
\* donor (or two), one seeded by the first item or by the one before it.
Shapes(i) ==
    {Item(i, 0, {}, 0), Item(i, 1, {}, 0), Item(i, 2, {}, 0)}
    \cup (IF i > 1 THEN {Item(i, 0, {1}, g) : g \in {1, 2}} \cup {Item(i, 1, {i - 1}, 1)} ELSE {})

ThreeItems == {<<a, b, c>> : a \in Shapes(1), b \in Shapes(2), c \in Shapes(3)}

WideLists == {Stream(items, TRUE) : items \in ThreeItems}

\* Four items, the last two seeded by the first one with a gap the stream's
\* order agrees with.
AgreeingLists ==
    {Stream(<<Item(1, 0, {}, 0), Item(2, 0, {}, 0), Item(3, 0, {1}, g), Item(4, 0, {1}, h)>>,
            FALSE) : g \in 0 .. 1, h \in 1 .. 2}

SerialLists == WideLists \cup AgreeingLists \cup
    {Stream(<<Item(1, 1, {}, 0), Item(2, 2, {}, 0), Item(3, 0, {1}, g)>>, s) :
        g \in 1 .. 4, s \in BOOLEAN}
=============================================================================
