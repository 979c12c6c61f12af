\* Two documents, so that a request can be waiting on one of them while the
\* other goes on, and three requests, so that two can race on a document while
\* the third still holds what it read before.  No symmetry, as one of the
\* properties is a liveness property.
CONSTANTS
  Doc = {d1, d2}
  Req = {q1, q2, q3}
SPECIFICATION FairSpec
INVARIANTS
  LedgerInOrder
PROPERTIES
  ImplementsLedger
  EveryRequestEnds
