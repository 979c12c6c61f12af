------------------------------ MODULE Payments ------------------------------
(***************************************************************************)
(* One payment request on its way from draft to paid: its approval, the    *)
(* plans that split and reschedule it, the executions that move the money, *)
(* and their voids and reposts.  The services are PaymentRequestsService,  *)
(* PaymentPlansService and PaymentExecutionsService.                       *)
(*                                                                         *)
(* A call reads outside of any transaction, decides, and writes by id, so  *)
(* what it has read may be out of date.  Within a transaction (READ        *)
(* COMMITTED) the row of a plan stays locked once it is updated; what an   *)
(* open transaction has written appears with its last action, the commit.  *)
(*                                                                         *)
(* A plan has at most one execution (paymentPlanId is unique), which the   *)
(* model names by the plan.  Its posting runs are counted: run n + 1       *)
(* reverses run n, so the posting stands while their number is odd.        *)
(* Every refusal for a reason that is not modelled (account, currency,     *)
(* accrual of the document, approval policy, reconciled cash) is an Abort. *)
(***************************************************************************)
EXTENDS Integers, Sequences, FiniteSets, FiniteSetsExt, Functions

CONSTANTS
  Client,   \* calls at work at the same time
  Amount,   \* amounts of requests and plans
  MaxPlans  \* bound: rows of payment_plans

ASSUME AmountAssumption == Amount \subseteq Nat \ {0} /\ Amount # {}
ASSUME MaxPlansAssumption == MaxPlans \in Nat
ASSUME ClientAssumption == IsFiniteSet(Client)

Plan == 1 .. MaxPlans

VARIABLES
  request,   \* PaymentRequest.status
  amount,    \* PaymentRequest.amount
  approved,  \* history: the amount its approver has seen (0: none)
  plans,     \* PaymentPlan rows: plannedAmount, status, movedFromPlanId (0: none)
  exec,      \* PaymentExecution.status of a plan
  cash,      \* MoneyTransaction.status of its execution
  runs,      \* the number of posting runs of its execution
  pc,        \* what a call does next
  op,        \* the operation it carries out
  at,        \* the plan it works on
  read,      \* the amount of the request it has read, or is about to write
  next,      \* the status of the request it is about to write
  known,     \* voidExecution has found a VOIDED run
  history    \* history: what has happened so far

requestVars == <<request, amount, approved>>
paid == <<exec, cash, runs>>
local == <<op, at, read, next, known>>
vars == <<requestVars, plans, paid, pc, local, history>>

Status == {"DRAFT", "SUBMITTED", "APPROVED", "PARTIALLY_PAID", "PAID", "REJECTED",
           "CANCELED"}

Payable == {"APPROVED", "PARTIALLY_PAID"}

Row(n, from) == [amount |-> n, status |-> "PLANNED", from |-> from]

Init ==
  /\ request = "DRAFT" /\ amount \in Amount /\ approved = 0
  /\ plans = <<>>
  /\ exec = [p \in Plan |-> "none"]
  /\ cash = [p \in Plan |-> "none"]
  /\ runs = [p \in Plan |-> 0]
  /\ pc = [c \in Client |-> "idle"]
  /\ op = [c \in Client |-> "none"] /\ at = [c \in Client |-> 0]
  /\ read = [c \in Client |-> 0] /\ next = [c \in Client |-> "DRAFT"]
  /\ known = [c \in Client |-> FALSE]
  /\ history = {}

Goto(c, l) == pc' = [pc EXCEPT ![c] = l]

\* Once two calls have overlapped, only the overlap of two voids still matters.
Note(S) ==
  history' = IF "overlap" \in history \cup S
               THEN (history \cup S) \cap {"overlap", "voids"} ELSE history \cup S

\* A call starts with what it reads; it may find others at work.
Begin(c, o, p, n, l) ==
  /\ pc[c] = "idle" /\ Goto(c, l)
  /\ op' = [op EXCEPT ![c] = o]
  /\ at' = [at EXCEPT ![c] = p]
  /\ read' = [read EXCEPT ![c] = n]
  /\ Note(IF \E d \in Client : pc[d] # "idle" THEN {"overlap"} ELSE {})
  /\ UNCHANGED <<requestVars, plans, paid, next, known>>

\* The call returns, and what it has read is forgotten.
End(c) ==
  /\ Goto(c, "idle")
  /\ op' = [op EXCEPT ![c] = "none"] /\ at' = [at EXCEPT ![c] = 0]
  /\ read' = [read EXCEPT ![c] = 0] /\ next' = [next EXCEPT ![c] = "DRAFT"]
  /\ known' = [known EXCEPT ![c] = FALSE]

\* Another call has updated the plan, or inserted its execution, and is open.
Locked(c, p) ==
  \E d \in Client \ {c} : pc[d] \in {"executed", "voided"} /\ at[d] = p

----------------------------------------------------------------------------
(* The request: update, submit, approve, reject, cancel *)

\* Fault: update looks at no status.
FromUnlessPaid(o) ==
  CASE o = "update" -> Status \ {"PAID"}
    [] o = "submit" -> {"DRAFT"}
    [] o \in {"approve", "reject"} -> {"SUBMITTED"}
    [] o = "drop" -> {"DRAFT", "SUBMITTED"}

From(o) ==
  CASE o \in {"update", "submit"} -> {"DRAFT"}
    [] o \in {"approve", "reject"} -> {"SUBMITTED"}
    [] o = "drop" -> {"DRAFT", "SUBMITTED"}

To(o) ==
  CASE o = "submit" -> "SUBMITTED" [] o = "approve" -> "APPROVED"
    [] o = "reject" -> "REJECTED"  [] o = "drop" -> "CANCELED"

ReadRequest(c) ==
  \E o \in {"update", "submit", "approve", "reject", "drop"} :
    /\ request \in From(o)
    /\ \E n \in Amount :
         (o # "update" => n = amount) /\ Begin(c, o, 0, n, "request")

\* Written by id, whatever has become of the request.
WriteRequest(c) ==
  /\ pc[c] = "request"
  /\ IF op[c] = "update"
       THEN amount' = read[c] /\ UNCHANGED <<request, approved>>
       ELSE /\ request' = To(op[c])
            /\ approved' = IF op[c] = "approve" THEN read[c] ELSE approved
            /\ UNCHANGED amount
  /\ End(c)
  /\ UNCHANGED <<plans, paid, history>>

----------------------------------------------------------------------------
(* Plans: create, move, cancel *)

Rows == DOMAIN plans

Executed == {p \in Rows : exec[p] # "none"}
Live == {p \in Rows : exec[p] = "EXECUTED"}

SumOf(S) == SumFunctionOnSet([p \in S |-> plans[p].amount], S)

\* Executed plans are not counted.
Planned == SumOf({p \in Rows : plans[p].status = "PLANNED"})

\* at holds the amount of the plan to be.
ReadCreate(c) ==
  /\ request \in Payable
  /\ \E n \in Amount : Begin(c, "create", n, amount, "create")

CheckCover(c) ==
  /\ pc[c] = "create"
  /\ IF Planned + at[c] <= read[c]
       THEN Goto(c, "insert") /\ UNCHANGED local
       ELSE End(c)
  /\ UNCHANGED <<requestVars, plans, paid, history>>

InsertPlan(c) ==
  /\ pc[c] = "insert" /\ Len(plans) < MaxPlans
  /\ plans' = Append(plans, Row(at[c], 0))
  /\ Note(IF Executed # {} THEN {"late"} ELSE {})
  /\ End(c)
  /\ UNCHANGED <<requestVars, paid>>

Changeable(p) == plans[p].status = "PLANNED"

ReadChange(c) ==
  \E p \in Rows, l \in {"move", "cancel"} :
    Changeable(p) /\ Begin(c, l, p, 0, l)

\* The row is MOVED, and a copy of it PLANNED, in one transaction.
Replaced(p) ==
  Append([plans EXCEPT ![p].status = "MOVED"], Row(plans[p].amount, p))

WriteMove(c) ==
  /\ pc[c] = "move" /\ ~Locked(c, at[c]) /\ Len(plans) < MaxPlans
  /\ plans' = Replaced(at[c])
  /\ End(c)
  /\ UNCHANGED <<requestVars, paid, history>>

WriteCancel(c) ==
  /\ pc[c] = "cancel" /\ ~Locked(c, at[c])
  /\ plans' = [plans EXCEPT ![at[c]].status = "CANCELED"]
  /\ End(c)
  /\ UNCHANGED <<requestVars, paid, history>>

----------------------------------------------------------------------------
(* executePlan *)

Executable(p) ==
  plans[p].status = "PLANNED" /\ exec[p] = "none" /\ request \in Payable

ReadExecute(c) ==
  \E p \in Rows : Executable(p) /\ Begin(c, "execute", p, amount, "execute")

\* The status after an execution: canceled executions are counted as well.
AfterExecute(c) ==
  IF SumOf(Executed \cup {at[c]}) >= read[c] THEN "PAID" ELSE "PARTIALLY_PAID"

\* Execution, money transaction, posting run, entry and plan are written, and
\* the sum of the executions is read.  One execution of a plan only: the call
\* returns the one that is there, or fails on its key.
Execute(c) ==
  /\ pc[c] = "execute" /\ ~Locked(c, at[c])
  /\ IF exec[at[c]] # "none"
       THEN End(c)
       ELSE /\ Goto(c, "executed")
            /\ next' = [next EXCEPT ![c] = AfterExecute(c)]
            /\ UNCHANGED <<op, at, read, known>>
  /\ UNCHANGED <<requestVars, plans, paid, history>>

CommitExecute(c) ==
  /\ pc[c] = "executed"
  /\ exec' = [exec EXCEPT ![at[c]] = "EXECUTED"]
  /\ cash' = [cash EXCEPT ![at[c]] = "POSTED"]
  /\ runs' = [runs EXCEPT ![at[c]] = 1]
  /\ plans' = [plans EXCEPT ![at[c]].status = "EXECUTED"]
  /\ request' = next[c]
  /\ Note(IF Executed # Live THEN {"again"} ELSE {})
  /\ End(c)
  /\ UNCHANGED <<amount, approved>>

----------------------------------------------------------------------------
(* voidExecution *)

ReadVoid(c) ==
  \E p \in Rows, o \in {"void", "repost"} :
    exec[p] # "none" /\ Begin(c, o, p, 0, "void")

HasVoidedRun(p) == runs[p] >= 2

FindVoidedRun(c) ==
  /\ pc[c] = "void"
  /\ known' = [known EXCEPT ![c] = HasVoidedRun(at[c])]
  /\ Goto(c, "voiding")
  /\ Note(IF \E d \in Client \ {c} : pc[d] \in {"voiding", "voided"} /\ at[d] = at[c]
            THEN {"voids"} ELSE {})
  /\ UNCHANGED <<requestVars, plans, paid, op, at, read, next>>

\* Fault: a request without executions is not put back to APPROVED.
AfterVoidPartly(p) ==
  IF SumOf(Live \ {p}) >= amount THEN "PAID" ELSE "PARTIALLY_PAID"

\* The status after a void: canceled executions are not counted.
AfterVoid(p) ==
  LET left == SumOf(Live \ {p})
  IN  IF left >= amount THEN "PAID"
      ELSE IF left > 0 THEN "PARTIALLY_PAID" ELSE "APPROVED"

\* Money transaction, execution and plan are updated, once their rows are free.
Void(c) ==
  /\ pc[c] = "voiding" /\ ~Locked(c, at[c])
  /\ next' = [next EXCEPT ![c] = AfterVoid(at[c])]
  /\ Goto(c, "voided")
  /\ UNCHANGED <<requestVars, plans, paid, op, at, read, known, history>>

\* Fault: only the posting of a plan that is EXECUTED is reversed.
ReversedIfExecuted(c) ==
  IF known[c] \/ plans[at[c]].status # "EXECUTED"
    THEN runs ELSE [runs EXCEPT ![at[c]] = @ + 1]

\* getActivePostedRun and voidRun: the latest run is reversed by a new one.
Reversed(c) == IF known[c] THEN runs ELSE [runs EXCEPT ![at[c]] = @ + 1]

CommitVoid(c) ==
  /\ pc[c] = "voided"
  /\ exec' = [exec EXCEPT ![at[c]] = "CANCELED"]
  /\ cash' = [cash EXCEPT ![at[c]] = "VOIDED"]
  /\ runs' = Reversed(c)
  /\ plans' = [plans EXCEPT ![at[c]].status = "CANCELED"]
  /\ request' = next[c]
  /\ IF op[c] = "repost" THEN Goto(c, "replace") /\ UNCHANGED local ELSE End(c)
  /\ UNCHANGED <<amount, approved, history>>

----------------------------------------------------------------------------
(* repostExecution: a void, then a new plan, then its execution, each in a   *)
(* transaction of its own                                                    *)

Copies(p) == {q \in Rows : plans[q].from = p}

\* Fault: an execution that was reposted before is reposted again.
RepostedNever(p) == FALSE

Reposted(p) == Copies(p) # {} /\ exec[Max(Copies(p))] # "none"

FindCopy(c) ==
  /\ pc[c] = "replace"
  /\ IF Reposted(at[c]) THEN End(c) ELSE Goto(c, "replacing") /\ UNCHANGED local
  /\ UNCHANGED <<requestVars, plans, paid, history>>

WriteCopy(c) ==
  /\ pc[c] = "replacing" /\ ~Locked(c, at[c]) /\ Len(plans) < MaxPlans
  /\ plans' = Replaced(at[c])
  /\ at' = [at EXCEPT ![c] = Len(plans) + 1]
  /\ Goto(c, "reread")
  /\ UNCHANGED <<requestVars, paid, op, read, next, known, history>>

\* executePlan of the copy starts from the beginning, and may be refused.
ReadCopy(c) ==
  /\ pc[c] = "reread"
  /\ IF Executable(at[c])
       THEN /\ read' = [read EXCEPT ![c] = amount]
            /\ Goto(c, "execute")
            /\ UNCHANGED <<op, at, next, known, history>>
       ELSE End(c) /\ Note({"unfinished"})
  /\ UNCHANGED <<requestVars, plans, paid>>

\* The call fails, or its process ends; an open transaction is rolled back.
Abort(c) ==
  /\ pc[c] # "idle"
  /\ Note(IF op[c] = "repost" /\ pc[c] \in {"reread", "execute", "executed"}
            THEN {"unfinished"} ELSE {})
  /\ End(c)
  /\ UNCHANGED <<requestVars, plans, paid>>

\* Nobody calls.
Quiescent == (\A c \in Client : pc[c] = "idle") /\ UNCHANGED vars

Call(c) ==
  \/ ReadRequest(c) \/ WriteRequest(c)
  \/ ReadCreate(c) \/ CheckCover(c) \/ InsertPlan(c)
  \/ ReadChange(c) \/ WriteMove(c) \/ WriteCancel(c)
  \/ ReadExecute(c) \/ Execute(c) \/ CommitExecute(c)
  \/ ReadVoid(c) \/ FindVoidedRun(c) \/ Void(c) \/ CommitVoid(c)
  \/ FindCopy(c) \/ WriteCopy(c) \/ ReadCopy(c)
  \/ Abort(c)

Next == (\E c \in Client : Call(c)) \/ Quiescent

Spec == Init /\ [][Next]_vars

----------------------------------------------------------------------------
PC == {"idle", "request", "create", "insert", "move", "cancel", "execute",
       "executed", "void", "voiding", "voided", "replace", "replacing", "reread"}

Op == {"none", "update", "submit", "approve", "reject", "drop", "create", "move",
       "cancel", "execute", "void", "repost"}

TypeOK ==
  /\ request \in Status /\ amount \in Amount /\ approved \in Amount \cup {0}
  /\ plans \in Seq([amount : Amount, from : 0 .. MaxPlans,
                    status : {"PLANNED", "MOVED", "CANCELED", "EXECUTED"}])
  /\ Len(plans) <= MaxPlans
  /\ exec \in [Plan -> {"none", "EXECUTED", "CANCELED"}]
  /\ cash \in [Plan -> {"none", "POSTED", "VOIDED"}]
  /\ runs \in [Plan -> 0 .. 1 + Cardinality(Client)]
  /\ pc \in [Client -> PC] /\ op \in [Client -> Op]
  /\ at \in [Client -> Nat] /\ read \in [Client -> Amount \cup {0}]
  /\ next \in [Client -> Status] /\ known \in [Client -> BOOLEAN]

Serial == "overlap" \notin history

Standing(p) == runs[p] % 2 = 1

\* The money transaction and the ledger say of an execution what it says itself,
\* whatever is interleaved, as long as no two voids of it overlap.
MoneyFollowsExecution ==
  \A p \in Plan :
    /\ (exec[p] = "EXECUTED") <=> (cash[p] = "POSTED")
    /\ "voids" \notin history => ((exec[p] = "EXECUTED") <=> Standing(p))

\* A plan and its execution agree, call after call: what was paid is EXECUTED,
\* and nothing MOVED or CANCELED is paid.
PlanFollowsExecution ==
  Serial => \A p \in Rows : (plans[p].status = "EXECUTED") <=> (p \in Live)

\* The rows of a payment agree with each other.
RowsAgree == TypeOK /\ MoneyFollowsExecution /\ PlanFollowsExecution

\* The plan a plan was first moved or reposted from
Origin[p \in Rows] == IF plans[p].from = 0 THEN p ELSE Origin[plans[p].from]

\* However often a plan is moved, voided and reposted, its money leaves once,
\* unless a repost was cut short between its transactions.
PaidOnce ==
  Serial /\ "unfinished" \notin history =>
    \A p, q \in Live : Origin[p] = Origin[q] => p = q

\* What is paid and planned is covered by the request, if no plan was added
\* after the first payment.
NeverOverpaid ==
  Serial /\ history \cap {"late", "unfinished"} = {} =>
    SumOf(Live \cup {p \in Rows : plans[p].status = "PLANNED"}) <= amount

\* Money leaves once for what was asked, and never more than was asked.
PaysNoMore == PaidOnce /\ NeverOverpaid

\* The status of the request follows from its executions, as long as no
\* execution comes after a void: executePlan counts what was voided, too.
StatusFollowsExecutions ==
  Serial /\ "again" \notin history =>
    /\ (request = "PAID") <=> (SumOf(Live) >= amount)
    /\ (request = "PARTIALLY_PAID") <=> (SumOf(Live) \in 1 .. amount - 1)

\* What is planned and paid is what the approver has seen.
ApprovedAmount ==
  Serial /\ plans # <<>> =>
    approved = amount /\ request \in {"APPROVED", "PARTIALLY_PAID", "PAID"}

----------------------------------------------------------------------------
(* The inductive invariant behind the safety properties: what holds whatever *)
(* is interleaved, and what holds of one call after the other                *)

\* What a call works on is there, and was written before what it writes.
WorksOnRows ==
  \A c \in Client :
    /\ pc[c] = "request" => op[c] \in {"update", "submit", "approve", "reject", "drop"}
    /\ pc[c] \in {"request", "create", "insert"} => read[c] \in Amount
    /\ pc[c] \in {"create", "insert"} => at[c] \in Amount
    /\ pc[c] \in {"move", "cancel", "execute", "executed", "void", "voiding",
                  "voided", "replace", "replacing", "reread"} => at[c] \in Rows
    /\ pc[c] = "executed" => exec[at[c]] = "none"
    /\ pc[c] \in {"void", "voiding", "voided", "replace", "replacing"} =>
         exec[at[c]] # "none"

\* Two open transactions do not write to one plan.
RowsLocked ==
  \A c, d \in Client :
    /\ pc[c] \in {"executed", "voided"} /\ pc[d] \in {"executed", "voided"}
    /\ at[c] = at[d]
    => c = d

RowsInOrder ==
  /\ \A p \in Rows : plans[p].from < p
  /\ \A p \in Plan : exec[p] # "none" => p \in Rows
  /\ \A p \in Plan : (runs[p] = 0) <=> (exec[p] = "none")

\* Calls about to void the posting of a plan that they take to stand
Voiders(p) ==
  {c \in Client : pc[c] \in {"voiding", "voided"} /\ at[c] = p /\ ~known[c]}

RunsBounded ==
  \A p \in Plan :
    runs[p] >= 2 => runs[p] + Cardinality(Voiders(p)) <= 1 + Cardinality(Client)

\* Until voids of one execution overlap it has a posting and its reversal.
RunsFollow ==
  "voids" \notin history =>
    /\ \A p \in Plan : /\ (exec[p] = "EXECUTED") <=> (runs[p] = 1)
                       /\ (exec[p] = "CANCELED") <=> (runs[p] = 2)
    /\ \A c \in Client : pc[c] \in {"voiding", "voided"} => known[c] = HasVoidedRun(at[c])
    /\ \A c, d \in Client :
         /\ pc[c] \in {"voiding", "voided"} /\ pc[d] \in {"voiding", "voided"}
         /\ at[c] = at[d]
         => c = d

Alone ==
  Serial => \A c, d \in Client : pc[c] # "idle" /\ pc[d] # "idle" => c = d

\* What a call has read still holds when it writes.
StillHolds ==
  Serial => \A c \in Client :
    /\ pc[c] = "request" =>
         request \in From(op[c]) /\ (op[c] # "update" => read[c] = amount)
    /\ pc[c] \in {"create", "insert"} => request \in Payable /\ read[c] = amount
    /\ pc[c] = "insert" => Planned + at[c] <= amount
    /\ pc[c] \in {"move", "cancel"} => Changeable(at[c])
    /\ pc[c] \in {"execute", "executed"} => Executable(at[c]) /\ read[c] = amount
    /\ pc[c] = "executed" => next[c] = AfterExecute(c)
    /\ pc[c] = "voided" => next[c] = AfterVoid(at[c])
    /\ pc[c] \in {"replace", "replacing"} => exec[at[c]] = "CANCELED" /\ op[c] = "repost"
    /\ pc[c] = "replacing" => "unfinished" \in history \/ Copies(at[c]) = {}
    /\ pc[c] = "reread" =>
         Changeable(at[c]) /\ exec[at[c]] = "none" /\ op[c] = "repost"

\* A plan is moved when it is copied, and only if it is not executed.
CopiesFollow ==
  Serial => \A p \in Rows :
    /\ plans[p].status = "PLANNED" => exec[p] = "none"
    /\ plans[p].status \in {"PLANNED", "EXECUTED"} => Copies(p) = {}
    /\ plans[p].status = "MOVED" => Copies(p) # {}

\* The copy of an execution is executed, or is about to be.
CopiesPaid ==
  Serial /\ "unfinished" \notin history => \A q, r \in Rows :
    /\ plans[q].from # 0 /\ plans[q].from = plans[r].from => q = r
    /\ plans[q].from # 0 /\ exec[plans[q].from] # "none" /\ exec[q] = "none" =>
         \E c \in Client : /\ pc[c] \in {"reread", "execute", "executed"}
                           /\ op[c] = "repost" /\ at[c] = q

Approved ==
  Serial =>
    /\ request \in {"APPROVED", "PARTIALLY_PAID", "PAID"} => approved = amount
    /\ plans # <<>> => request \in {"APPROVED", "PARTIALLY_PAID", "PAID"}

\* The plans that are paid, will be, or may be paid again
Claims == {p \in Rows : Copies(p) = {} /\ ~(exec[p] = "none" /\ plans[p].status = "CANCELED")}

ClaimsCovered ==
  Serial /\ history \cap {"late", "unfinished"} = {} => SumOf(Claims) <= amount

\* Of a plan and what was made of it, one row is the last.
OneLeaf ==
  Serial /\ "unfinished" \notin history =>
    \A p, q \in Rows : Copies(p) = {} /\ Copies(q) = {} /\ Origin[p] = Origin[q] => p = q

OriginUnfolds ==
  Origin = [p \in Rows |-> IF plans[p].from = 0 THEN p ELSE Origin[plans[p].from]]

IInv ==
  /\ TypeOK /\ WorksOnRows /\ RowsLocked /\ RowsInOrder /\ RunsBounded
  /\ RunsFollow /\ MoneyFollowsExecution /\ OriginUnfolds
  /\ Alone /\ StillHolds /\ PlanFollowsExecution /\ CopiesFollow /\ CopiesPaid
  /\ Approved /\ ClaimsCovered /\ OneLeaf /\ StatusFollowsExecutions

=============================================================================
