-------------------------- MODULE MCSuppliedFiles --------------------------
(***************************************************************************)
(* Two tools over at most two files and three edits, one content that is   *)
(* not on the deny list, one downstream record, one kill.                  *)
(***************************************************************************)
EXTENDS SuppliedFiles, TLC

MCSymmetry == Permutations(Tools)
=============================================================================
