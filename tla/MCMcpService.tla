---------------------------- MODULE MCMcpService ----------------------------
(***************************************************************************)
(* Two runs of two lenses each over one local provider that the policy     *)
(* names after a remote one, with a cap that one call can reach.           *)
(***************************************************************************)
EXTENDS McpService, TLC

MCPreference == <<"remote", "ollama">>
MCSymmetry == Permutations(Runs)
=============================================================================
