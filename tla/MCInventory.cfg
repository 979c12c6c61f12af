CONSTANTS
  i1 = i1
  o1 = o1
  o2 = o2
  Req = {q1, q2, q3}
  Income = {i1}
  Outcome = {o1, o2}
  Qty <- MCQty
  Opening <- MCOpening
  MaxBatch = 5
SPECIFICATION FairSpec
INVARIANTS
  StockAddsUp
  FifoOrder
PROPERTIES
  ImplementsStock
  EveryRequestEnds
