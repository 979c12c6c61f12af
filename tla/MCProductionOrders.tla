-------------------------- MODULE MCProductionOrders --------------------------
(* Instances of ProductionOrders for TLC. *)
EXTENDS ProductionOrders, TLC

Symmetry == Permutations(Client) \cup Permutations(Item)

Begun ==
  \/ status \notin {"DRAFT", "PLANNED"} \/ \E i \in Item : ops[i] # <<>>
  \/ batches # <<>> \/ completion.runs > 0

\* Only a start looks at what is provided: of orders that have begun, those stand
\* for all whose items are provided, to the letter if the plan stays.
Provisioned ==
  Begun => \A i \in Item :
    IF "late" \in history THEN provision[i].done \/ provision[i].qty = 0
    ELSE provision[i] = IF i \in Own THEN [done |-> TRUE, qty |-> planned[i]] ELSE NotProvided

\* One irregularity at a time; and what happens after a promise is lost is of no
\* interest.
Relevant ==
  /\ history \cap {"lost", "again", "bare"} = {} /\ Cardinality(history) <= 1
  /\ Provisioned
=============================================================================
