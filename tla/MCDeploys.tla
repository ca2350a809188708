----------------------------- MODULE MCDeploys -----------------------------
(***************************************************************************)
(* Instances of Deploys for TLC: two players, and a few revisions of both *)
(* branches, whose quality each run picks.                                 *)
(***************************************************************************)
EXTENDS Deploys

MCIndex == [p \in Players |-> IF p = "ann" THEN 1 ELSE 2]

\* Every way a pipeline may end: but for the uncaught one, and with it.
Mixed == [rev \in Revs |->
  CASE rev = 2 -> "sick" [] rev = 3 -> "rejected" [] rev = 4 -> "broken" [] OTHER -> "good"]
Failing == [rev \in Revs |-> CASE rev = 1 -> "sick" [] rev = 2 -> "garbled" [] OTHER -> "good"]
=============================================================================
