-------------------------- MODULE MCStatementFees --------------------------
(* Instances of StatementFees for TLC. *)
EXTENDS StatementFees, TLC

Symmetry == Permutations(FeeLine) \cup Permutations(Caller)

\* Of what the history names, the lines have four together at most.
Relevant ==
  \A l, m \in FeeLine : l # m => Cardinality(history[l]) + Cardinality(history[m]) <= 4
=============================================================================
