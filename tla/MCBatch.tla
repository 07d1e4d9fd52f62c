------------------------------- MODULE MCBatch -------------------------------
(* Instances of Batch for TLC. *)
EXTENDS Batch, TLC

Symmetry == Permutations(Calls) \cup Permutations(Txs) \cup Permutations(Users)
=============================================================================
