-------------------------- MODULE MCOperationGate --------------------------
(* Small instances of OperationGate: one plan that is always reviewed, one   *)
(* behind a setting, one denied.                                             *)
EXTENDS OperationGate, TLC

CONSTANTS deploy, edit, ban, shop, i1, i2, t1, t2, r1, r2

\* deploy is always reviewed, edit is switched by a setting, ban is denied.
MCOneProject == (deploy :> shop) @@ (edit :> NoProject) @@ (ban :> shop)
MCGlobalPlan == deploy :> NoProject

GateSymmetry ==
  Permutations(Ids) \cup Permutations(Tokens) \cup Permutations(Requests)
=============================================================================
