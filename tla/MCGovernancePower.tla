--------------------------- MODULE MCGovernancePower ---------------------------
(* GovernancePower on small instances. *)
EXTENDS GovernancePower, TLC

UserSymmetry == Permutations(User)

\* The behaviours in which the upgrade comes in the first block: every block
\* that is over ended under StakedREXV3, for which the views are documented.
UpgradedFirstSpec ==
  Init /\ [][Next /\ (block' # StartBlock => implementation' = "StakedREXV3")]_vars
==============================================================================
