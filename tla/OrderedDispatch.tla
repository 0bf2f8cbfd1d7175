-------------------------- MODULE OrderedDispatch ---------------------------
(***************************************************************************)
(* What the dispatcher promises the runner that calls it, whatever it does *)
(* about lanes, look-ahead, settles and wake-ups: a stage runs at most     *)
(* once, no stage runs before the stages it depends on have completed, and *)
(* no more than Width stages are in flight.                                *)
(***************************************************************************)
EXTENDS Naturals, Sequences, FiniteSets

CONSTANTS Width,       \* lanes: the most stages in flight at once
          StageLists   \* the stage lists a run may be given

VARIABLES stages, phase
vars == <<stages, phase>>

InPhase(ph) == {p \in DOMAIN phase : phase[p] = ph}

Init == /\ stages \in StageLists
        /\ phase = [p \in DOMAIN stages |-> "queued"]

Issue(p) == /\ phase[p] = "queued"
            /\ \A d \in stages[p].deps : phase[d.on] = "done"
            /\ Cardinality(InPhase("inflight")) < Width
            /\ phase' = [phase EXCEPT ![p] = "inflight"]
            /\ UNCHANGED stages

Finish(p) == /\ phase[p] = "inflight"
             /\ phase' = [phase EXCEPT ![p] = "done"]
             /\ UNCHANGED stages

Next == \E p \in DOMAIN stages : Issue(p) \/ Finish(p)

Spec == Init /\ [][Next]_vars

=============================================================================
