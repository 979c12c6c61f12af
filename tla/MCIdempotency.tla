--------------------------- MODULE MCIdempotency ---------------------------
(* Instances of Idempotency for TLC: the requests that share one key. *)
EXTENDS Idempotency

CONSTANTS q1, q2, q3, b1, b2

\* Neither the requests nor the bodies are told apart: one assignment of bodies
\* is tried of those that differ only by the names of either.
BodiesUpToNames ==
  <<body[q1], body[q2], body[q3]>> \in
    {<<b1, b1, b1>>, <<b1, b1, b2>>, <<b1, b1, None>>, <<b1, b2, None>>,
     <<b1, None, None>>, <<None, None, None>>}

MCInit == Init /\ BodiesUpToNames

\* FairSpec from these initial states
MCSpec == MCInit /\ [][Next]_vars /\ \A q \in Req : WF_vars(Step(q))
=============================================================================
