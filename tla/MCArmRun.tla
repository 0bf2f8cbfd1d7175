------------------------------ MODULE MCArmRun ------------------------------
(***************************************************************************)
(* Two arms against two engines, one of them with a connector: the first   *)
(* has one row, with a donor and replayed with one cut, the second two     *)
(* plain rows.  Then run-load over one row.                                *)
(***************************************************************************)
EXTENDS ArmRun, TLC

AnItem(id, donors) == [id |-> id, donors |-> donors, refs |-> {}, gap |-> 0]
Run(command, run, items, cuts) ==
    [command |-> command, run_id |-> run, items |-> items, cuts |-> cuts]

GatewayArms ==
    <<Run("run-live-gateway", "r1", <<AnItem("a", 1)>>, <<1>>),
      Run("run-live-gateway", "r2", <<AnItem("a", 0), AnItem("b", 0)>>, <<0, 0>>),
      Run("run-load", "r3", <<AnItem("a", 0)>>, <<0>>)>>

Scrapes == <<"e1", "e2", "e1">>

AnyThread == Permutations(Threads)
=============================================================================
