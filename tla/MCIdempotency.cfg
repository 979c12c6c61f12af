\* Three requests: an owner, one that races it and a later retry, each with one
\* of two bodies or none.  A request may look for the response of the owner
\* once, after any delay; more looks repeat the step.  No SYMMETRY, as one of
\* the properties is a liveness property: the initial states are thinned out
\* instead.
CONSTANTS
  q1 = q1
  q2 = q2
  q3 = q3
  b1 = b1
  b2 = b2
  Req = {q1, q2, q3}
  Body = {b1, b2}
  MaxPolls = 1
  None = None
SPECIFICATION MCSpec
INVARIANTS
  OneHandlerAtATime
  OnceIfSerial
  BodyChecked
PROPERTY EveryRequestEnds
