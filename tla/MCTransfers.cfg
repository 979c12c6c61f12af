CONSTANTS
  Client = {c1, c2}
  Wallet = {w1}
  Bank = {b1, b2}
  OutCash = {o1}
  InCash = {i1}
  MaxTransfers = 1
  MaxRuns = 4
SYMMETRY Symmetry
SPECIFICATION TransferSpec
INVARIANTS
  CashAgrees
