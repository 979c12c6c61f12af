CONSTANTS
  Client = {c1, c2}
  Key = {k1, k2, k3}
  Cuts <- MCCuts
  Requests <- MCRequests
  MaxRuns = 4
  MaxReturns = 3
  s1 = s1
  s2 = s2
  s3 = s3
  s4 = s4
  Poster = {p1, p2, p3}
  Sheet = {s1, s2, s3, s4}
  MaxSku = 2
  Lists <- MCLists
  MaxRow = 2
SYMMETRY Symmetry
SPECIFICATION EitherSpec
INVARIANTS
  ReturnsAddUp
  SaleAddsUp
  NoCircle
