------------------------------- MODULE MCMiner -------------------------------
(***************************************************************************)
(* Instances of Miner for TLC.                                             *)
(***************************************************************************)
EXTENDS Miner, TLC

Symmetry == Permutations(Workers)
=============================================================================
