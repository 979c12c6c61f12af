------------------------------- MODULE Payables -------------------------------
(***************************************************************************)
(* What surrounds the document of Documents: how it comes into being, the  *)
(* receipt it may be the invoice of, the payment of the document, and the  *)
(* payments that are kept by hand.  Three services guard each other here:  *)
(*                                                                         *)
(*   - a document is paid only if it is accrued                            *)
(*     (PaymentExecutionsService.executePlan);                             *)
(*   - its accrual is voided only if no payment of it was ever executed    *)
(*     (FinancialDocumentsService.voidAccrual);                            *)
(*   - a receipt is voided only if its invoice is neither accrued nor paid *)
(*     (ScmSuppliesService.voidSupplyReceipt).                             *)
(*                                                                         *)
(* Each guard is read before the write it guards, and none of them locks   *)
(* what it reads.  One plan stands for the plans of all requests for the   *)
(* document, and its execution and void for what Payments has in detail; a *)
(* receipt's void is the one of Supplies.  A client may be at one call     *)
(* here (step) and, at the same time, at one of Documents (pc).            *)
(***************************************************************************)
EXTENDS Documents

CONSTANT MaxPayments  \* bound: payments kept by hand

ASSUME MaxPaymentsAssumption == MaxPayments \in Nat

VARIABLES
  filed,       \* the document has been created
  twin,        \* a second invoice of the receipt: "none", "open" or "accrued"
  receipt,     \* ScmSupplyReceipt: "standing" or "voided"
  execution,   \* PaymentExecution.status of the plan, or "none"
  payments,    \* the number of FinancePayment rows, one unit each
  amountPaid,  \* FinancialDocument.amountPaid
  step,        \* what a call does next
  sum,         \* the sum of the payments it has read
  past         \* history: what has happened that a property excuses

standing == <<filed, twin, receipt, execution>>
kept == <<payments, amountPaid>>
payable == <<standing, kept, step, sum, past>>

PayablesInit ==
  /\ Init
  /\ filed = FALSE /\ twin = "none" /\ receipt = "standing" /\ execution = "none"
  /\ payments = 0 /\ amountPaid = 0
  /\ step = [c \in Client |-> "idle"] /\ sum = [c \in Client |-> 0]
  /\ past = {}

Turn(c, l) == step' = [step EXCEPT ![c] = l]

Done(c) == Turn(c, "idle") /\ sum' = [sum EXCEPT ![c] = 0]

At(l) == \E c \in Client : step[c] = l

Remember(S) == past' = past \cup S

----------------------------------------------------------------------------
(* create, createFromSupply, createFromProductionOrder: one insert           *)

Create ==
  /\ kind # "receipt" /\ ~filed
  /\ filed' = TRUE
  /\ UNCHANGED <<vars, twin, receipt, execution, kept, step, sum, past>>

(* createFromSupplyReceipt: "idempotency by link", which no key enforces     *)

ReadLink(c) ==
  /\ kind = "receipt" /\ ~filed
  /\ step[c] = "idle" /\ Turn(c, "file")
  /\ UNCHANGED <<vars, standing, kept, sum, past>>

\* Of two calls that have found no invoice, the second creates another one.
CreateInvoice(c) ==
  /\ step[c] = "file"
  /\ filed' = TRUE
  /\ twin' = IF filed THEN "open" ELSE twin
  /\ Done(c)
  /\ UNCHANGED <<vars, receipt, execution, kept, past>>

AccrueTwin ==
  /\ twin = "open" /\ twin' = "accrued"
  /\ UNCHANGED <<vars, filed, receipt, execution, kept, step, sum, past>>

----------------------------------------------------------------------------
(* The steps of Documents, and the guard of voidAccrual                      *)

\* An accrual may end while the void of the receipt has passed its guard.
DocumentStep ==
  /\ filed /\ Steps
  /\ Remember(IF accrued' /\ ~accrued /\ At("unreceive") THEN {"late"} ELSE {})
  /\ UNCHANGED <<standing, kept, step, sum>>

\* Fault: an execution that was canceled is forgotten.
UnpaidOrCanceled == execution # "EXECUTED"

\* An execution counts even if it was canceled.
Unpaid == execution = "none"

\* The guard is read before the transaction.
BeginVoid(c) ==
  /\ filed /\ Unpaid /\ ReadVoid(c)
  /\ Remember(IF At("pay") THEN {"crossed"} ELSE {})
  /\ UNCHANGED <<standing, kept, step, sum>>

----------------------------------------------------------------------------
(* executePlan and voidExecution                                             *)

Voiding == \E c \in Client : pc[c] \in {"void", "voiding"}

Crossing == IF Voiding THEN {"crossed"} ELSE {}

MayBePaid == execution = "none" /\ accrued

\* In its transaction the execution reads whether the document is accrued.
ReadPay(c) ==
  /\ filed /\ MayBePaid
  /\ step[c] = "idle" /\ Turn(c, "pay")
  /\ Remember(Crossing)
  /\ UNCHANGED <<vars, standing, kept, sum>>

\* The plan has one execution.
CommitPay(c) ==
  /\ step[c] = "pay"
  /\ execution' = IF execution = "none" THEN "EXECUTED" ELSE execution
  /\ Done(c)
  /\ Remember(Crossing)
  /\ UNCHANGED <<vars, filed, twin, receipt, kept>>

\* enablePaymentAccrualFallback: an expense is accrued in the transaction of its
\* payment.
PayAndAccrue(c) ==
  /\ filed /\ kind = "expense" /\ execution = "none" /\ step[c] = "idle"
  /\ AccrueAtOnce(c)
  /\ execution' = "EXECUTED"
  /\ Remember(Crossing)
  /\ UNCHANGED <<filed, twin, receipt, kept, step, sum>>

CancelPay ==
  /\ execution = "EXECUTED" /\ execution' = "CANCELED"
  /\ UNCHANGED <<vars, filed, twin, receipt, kept, step, sum, past>>

----------------------------------------------------------------------------
(* voidSupplyReceipt, as far as its invoice is concerned                     *)

\* Whether each invoice it may find lets it pass; it finds one of them.
Passes == (IF filed THEN {~accrued /\ Unpaid} ELSE {})
          \cup (IF twin # "none" THEN {twin = "open"} ELSE {})

\* Without an invoice it passes, too.
ReadUnreceive(c) ==
  /\ kind = "receipt" /\ receipt = "standing"
  /\ Passes = {} \/ TRUE \in Passes
  /\ step[c] = "idle" /\ Turn(c, "unreceive")
  /\ UNCHANGED <<vars, standing, kept, sum, past>>

CommitUnreceive(c) ==
  /\ step[c] = "unreceive"
  /\ receipt' = "voided"
  /\ Done(c)
  /\ UNCHANGED <<vars, filed, twin, execution, kept, past>>

----------------------------------------------------------------------------
(* addPayment: three statements; update, where amountPaid is given           *)

AddPayment(c) ==
  /\ filed /\ payments < MaxPayments
  /\ step[c] = "idle" /\ Turn(c, "sum")
  /\ payments' = payments + 1
  /\ Remember(IF At("sum") \/ At("paid") THEN {"together"} ELSE {})
  /\ UNCHANGED <<vars, standing, amountPaid, sum>>

SumPayments(c) ==
  /\ step[c] = "sum" /\ Turn(c, "paid")
  /\ sum' = [sum EXCEPT ![c] = payments]
  /\ UNCHANGED <<vars, standing, kept, past>>

\* Whatever the field has missed is in the sum.
WritePaid(c) ==
  /\ step[c] = "paid"
  /\ amountPaid' = sum[c]
  /\ Done(c)
  /\ past' = past \ {"stale"}
  /\ UNCHANGED <<vars, standing, payments>>

UpdatePaid ==
  /\ filed /\ Edit
  /\ \E n \in 0 .. MaxPayments : amountPaid' = n
  /\ Remember({"stale"})
  /\ UNCHANGED <<doc, recurring, pc, call, lap, standing, payments, step, sum>>

----------------------------------------------------------------------------
\* A call fails or loses its process; of a payment kept by hand the row remains.
Fail(c) ==
  /\ step[c] # "idle"
  /\ Done(c)
  /\ Remember(IF step[c] \in {"sum", "paid"} THEN {"stale"} ELSE {})
  /\ UNCHANGED <<vars, standing, kept>>

PayablesNext ==
  \/ Create \/ AccrueTwin \/ DocumentStep \/ CancelPay \/ UpdatePaid
  \/ \E c \in Client :
       \/ ReadLink(c) \/ CreateInvoice(c)
       \/ BeginVoid(c)
       \/ ReadPay(c) \/ CommitPay(c) \/ PayAndAccrue(c)
       \/ ReadUnreceive(c) \/ CommitUnreceive(c)
       \/ AddPayment(c) \/ SumPayments(c) \/ WritePaid(c)
       \/ Fail(c)

PayablesSpec == PayablesInit /\ [][PayablesNext]_<<vars, payable>>

----------------------------------------------------------------------------
PayablesTypeOK ==
  /\ filed \in BOOLEAN /\ twin \in {"none", "open", "accrued"}
  /\ receipt \in {"standing", "voided"}
  /\ execution \in {"none", "EXECUTED", "CANCELED"}
  /\ payments \in 0 .. MaxPayments /\ amountPaid \in 0 .. MaxPayments
  /\ step \in [Client -> {"idle", "file", "pay", "unreceive", "sum", "paid"}]
  /\ sum \in [Client -> 0 .. MaxPayments]
  /\ past \subseteq {"late", "crossed", "together", "stale"}

NeverVoided == \A k \in DOMAIN runs : runs[k].status = "POSTED"

\* What has been paid is accrued, whoever accrued it and however often the payment
\* was canceled, unless the payment crossed a void of the accrual.  If no
\* accrual was voided or overlapped another, the ledger has it, too.
PaidIsAccrued ==
  execution # "none" /\ "crossed" \notin past =>
    /\ accrued
    /\ kind # "receipt" /\ NeverVoided /\ "accrual" \notin lap => Sum = 1

\* amountPaid is the sum of the payments kept by hand after the last of them,
\* whatever was lost before, unless two of them came together.
PaidAddsUp ==
  past \cap {"stale", "together"} = {} /\ ~At("sum") /\ ~At("paid") =>
    amountPaid = payments

\* A receipt is not voided beneath an invoice that is accrued or paid, unless the
\* accrual came after the guard, the receipt has two invoices, or the payment
\* crossed a void of the accrual.
InvoiceHoldsReceipt ==
  past \cap {"late", "crossed"} = {} /\ twin = "none" =>
    ~accrued /\ execution = "none"

\* The guards of the three services hold for each other's documents.
GuardsHold ==
  /\ [](PayablesTypeOK /\ PaidIsAccrued /\ PaidAddsUp)
  /\ [][InvoiceHoldsReceipt]_receipt

----------------------------------------------------------------------------
(* Why they hold: the inductive invariant *)

\* A document that is not there is not accrued, paid or invoiced twice.
FiledFirst ==
  ~filed => ~accrued /\ execution = "none" /\ ~At("pay") /\ twin = "none"

\* What is paid, or about to be, is accrued, and nobody is about to void that.
PaidStands ==
  "crossed" \notin past /\ (execution # "none" \/ At("pay")) => accrued /\ ~Voiding

\* Who has passed the guard of a receipt's void goes on as if it had just done so.
PassedStands ==
  At("unreceive") =>
    /\ kind = "receipt"
    /\ past \cap {"late", "crossed"} = {} /\ twin = "none" => ~accrued /\ execution = "none"

\* A payment that comes alone is summed with all before it.
SummedStands ==
  "together" \notin past =>
    /\ \A c, d \in Client : step[c] \in {"sum", "paid"} /\ step[d] \in {"sum", "paid"} => c = d
    /\ \A c \in Client : step[c] = "paid" => sum[c] = payments
    /\ "stale" \notin past /\ ~At("sum") /\ ~At("paid") => amountPaid = payments

IInv ==
  /\ DocumentInv /\ PayablesTypeOK
  /\ FiledFirst /\ PaidStands /\ PassedStands /\ SummedStands

=============================================================================
