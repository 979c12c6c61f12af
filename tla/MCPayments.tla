----------------------------- MODULE MCPayments -----------------------------
(* Instances of Payments for TLC. *)
EXTENDS Payments, TLC

Symmetry == Permutations(Client)

\* Calls that overlap are followed on two plans, on a plan and its copy, or
\* before there is a plan; calls in turn, on all plans.
Small ==
  /\ "overlap" \in history => Len(plans) <= 2 /\ amount <= 2
  /\ Len(plans) > 3 => amount <= 2
=============================================================================
