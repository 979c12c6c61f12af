CONSTANTS
  Client = {c1, c2}
  k1 = k1
  k2 = k2
  i1 = i1
  f1 = f1
  f2 = f2
  Key = {k1, k2}
  Id = {i1}
  File = {f1, f2}
  Part = {p1, p2}
  Money = {m1, m2}
  Content <- MCContent
SYMMETRY Symmetry
CONSTRAINT Relevant
SPECIFICATION Spec
INVARIANT LinesAddUp
PROPERTIES
  OnlyUnposted
  ReconciledStands
