\* Two attempts, with two ends of the process: up to three workflows, and two
\* deliveries, of one report or of two.
CONSTANTS
  Attempts = 2
  Delivery = {d1, d2}
  MaxCrashes = 2
SPECIFICATION DispatchFairSpec
INVARIANTS
  PostsBounded
  FailureIsReported
  ReportOnce
PROPERTIES
  FinalIsKept
  LeavesQueue
