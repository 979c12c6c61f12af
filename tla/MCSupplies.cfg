CONSTANTS
  Client = {c1, c2}
  Item = {i1, i2}
  MaxQty = 2
  MaxReceipts = 2
SYMMETRY Symmetry
CONSTRAINT Relevant
SPECIFICATION SupplySpec
INVARIANTS
  StockAgrees
  ReceivedIsComplete
  ReceiptStands
