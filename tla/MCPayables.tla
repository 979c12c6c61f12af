------------------------------ MODULE MCPayables ------------------------------
(* Instances of Payables, and of the Documents within, for TLC. *)
EXTENDS Payables, TLC

Symmetry == Permutations(Client)

OneCall == \A c \in Client : pc[c] = "idle" \/ step[c] = "idle"

\* What two journals of a type have to do with each other is seen of the type that
\* accruals make; of the others one beside it is enough, which overlapping accruals
\* leave alone.
Others == {j \in DOMAIN journals : journals[j].source # AccrualType}
OneOther == Cardinality(Others) <= 1 /\ (Others # {} => "accrual" \notin lap)

\* A journal does not know whether its document is paid, and payments kept by
\* hand touch nothing the others read: each is looked at without the rest.
Apart ==
  /\ kind # "spread" => journals = <<>>
  /\ kind = "spread" => execution = "none" /\ ~At("pay") /\ payments = 0 /\ past = {}
  /\ payments > 0 \/ "stale" \in past =>
       runs = <<>> /\ execution = "none" /\ twin = "none" /\ receipt = "standing"
       /\ \A c \in Client : pc[c] = "idle"

\* Of batches that have overlapped MonthOnce alone says something, and it needs no
\* accruals: journals are made by hand as well.
Relevant ==
  OneCall /\ OneOther /\ Apart /\ ("batch" \in lap => runs = <<>> /\ lap = {"batch"})
=============================================================================
