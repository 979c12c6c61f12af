\* Two lines and the sales document; four runs let each line be posted,
\* voided and reposted, in either order.
CONSTANTS
  Caller = {c1, c2}
  FeeLine = {l1, l2}
  Sale = Sale
  MaxRuns = 4
SYMMETRY Symmetry
CONSTRAINT Relevant
SPECIFICATION FeeSpec
INVARIANTS
  PostedIffLinked
  FeeCountedOnce
  Reversible
PROPERTY ForeignLinkHeld
