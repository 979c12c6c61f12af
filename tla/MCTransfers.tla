----------------------------- MODULE MCTransfers -----------------------------
(* Instances of Transfers for TLC. *)
EXTENDS Transfers, TLC

Symmetry == Permutations(Client) \cup Permutations(Bank)
=============================================================================
