-------------------------- MODULE MCSalesDocuments --------------------------
(* Instances for TLC of SalesDocuments, which has a sale of one line, and  *)
(* of StockDocuments, which has the transactions that post sales and other *)
(* documents of several lines.                                             *)
EXTENDS SalesDocuments, StockDocuments, TLC

CONSTANTS s1, s2, s3, s4

\* Three are sold; they leave as one, or cut in two where a batch ends.
MCCuts == {<<3>>, <<1, 2>>, <<2, 1>>}

\* One line, or the line listed twice.
MCRequests == {<<1>>, <<2>>, <<3>>, <<1, 1>>, <<1, 2>>, <<2, 1>>}

\* Two items in order, against that order, one alone, and one twice
MCLists == s1 :> <<1, 2>> @@ s2 :> <<2, 1>> @@ s3 :> <<2>> @@ s4 :> <<1, 1>>

\* The two share no state, and what one does is the same whatever the other has done:
\* once either has begun, the other stays as it was at the start.
SaleAtStart ==
  history = {} /\ postings = <<>> /\ returns = <<>> /\ step = [c \in Client |-> "idle"]

SheetsAtStart == phase = [p \in Poster |-> "idle"] /\ sheet = [p \in Poster |-> s1]

EitherInit == SaleInit /\ SheetInit /\ (SaleAtStart \/ SheetsAtStart)

EitherNext ==
  \/ SheetsAtStart /\ SaleNext /\ UNCHANGED sheetVars
  \/ SaleAtStart /\ SheetNext /\ UNCHANGED saleVars

EitherSpec == EitherInit /\ [][EitherNext]_<<saleVars, sheetVars>>

Symmetry == Permutations(Client) \cup Permutations(Key)
=============================================================================
