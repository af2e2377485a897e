----------------------------- MODULE MCRecords -----------------------------
(***************************************************************************)
(* One statement whose text the screen flags if it is run on it, two       *)
(* reviewers who race over at most three decisions, two agenda items.      *)
(***************************************************************************)
EXTENDS Records, TLC

MCSymmetry == Permutations(Items)
=============================================================================
