\* Two calls at a time; four plans let a request be split and a part of it be
\* moved and reposted twice.
CONSTANTS
  Client = {c1, c2}
  Amount = {1, 2, 3}
  MaxPlans = 4
SYMMETRY Symmetry
CONSTRAINT Small
SPECIFICATION Spec
INVARIANTS
  PaysNoMore
  StatusFollowsExecutions
  ApprovedAmount
  RowsAgree
