----------------------------- MODULE MCBetaGate -----------------------------
(***************************************************************************)
(* Three requests, two of them at a time, against two commands of the      *)
(* owner and limits of one: enough for two requests to race a limit, a     *)
(* token, a revocation or each other's account, and for one to come later. *)
(***************************************************************************)
EXTENDS BetaGate, TLC

MCSymmetry == Permutations(Requests)
=============================================================================
