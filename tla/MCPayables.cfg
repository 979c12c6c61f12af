CONSTANTS
  Client = {c1, c2}
  Month = {m1}
  Type = {t1, t2}
  AccrualType = t1
  MaxRuns = 3
  MaxJournals = 2
  MaxEdits = 2
  MaxPayments = 3
SYMMETRY Symmetry
CONSTRAINT Relevant
SPECIFICATION PayablesSpec
INVARIANTS
  RetriesAreSafe
  MonthOnce
PROPERTIES
  GuardsHold
