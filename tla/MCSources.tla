----------------------------- MODULE MCSources -----------------------------
(***************************************************************************)
(* Two tools, two items on or off the agenda, one statement that may be    *)
(* moved from one to the other, at most two versions: what is retrieved    *)
(* after them is one of the two.                                           *)
(***************************************************************************)
EXTENDS Sources, TLC

MCSymmetry == Permutations(Tools) \cup Permutations(Items)
=============================================================================
