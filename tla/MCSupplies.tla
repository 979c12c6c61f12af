----------------------------- MODULE MCSupplies -----------------------------
(* Instances of Supplies for TLC. *)
EXTENDS Supplies, TLC

Symmetry == Permutations(Client) \cup Permutations(Item)

\* What happens after quantities were lost is of no interest.
Relevant == "lost" \notin history
=============================================================================
