--------------------------- MODULE MCPostingRuns ---------------------------
(* Finite instances of PostingRuns.  No action tells requests apart, so they *)
(* are a symmetry set; documents are not, as Init picks one of them.         *)
EXTENDS PostingRuns, TLC

Symmetry == Permutations(Req)
=============================================================================
