-------------------------- MODULE MCPlanAssignment --------------------------
(* Constants of the TLC runs of PlanAssignment.                            *)
EXTENDS PlanAssignment, TLC

CONSTANTS u1, u2, w1, w2, p1, p2, p3, p4

(* The limits of seed_plans.                                               *)
Seeds == (FREE :> 5) @@ (PREMIUM :> 20)

(* The same limit for every plan, where no property reads it.              *)
FlatSeeds == (FREE :> 5) @@ (PREMIUM :> 5)

Symmetry == Permutations(Users) \cup Permutations(Workers) \cup Permutations(Plans)

=============================================================================
