---------------------------- MODULE MCInventory ----------------------------
(* Instances of Inventory for TLC. *)
EXTENDS Inventory, TLC

CONSTANTS i1, o1, o2

\* An outcome that needs both opening batches, and one that fits in the second.
MCQty == i1 :> 2 @@ o1 :> 3 @@ o2 :> 2
MCOpening == <<1, 2>>

Symmetry == Permutations(Req)
=============================================================================
