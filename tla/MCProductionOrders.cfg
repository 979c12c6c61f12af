CONSTANTS
  Client = {c1, c2}
  Item = {i1, i2}
  MaxQty = 2
  MaxOps = 2
  MaxBatches = 2
SYMMETRY Symmetry
CONSTRAINT Relevant
SPECIFICATION Spec
INVARIANTS
  StockAgrees
  OutputBacked
  PostingsStand
