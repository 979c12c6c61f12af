--------------------------- MODULE ProductionOrders ---------------------------
(***************************************************************************)
(* One production order: its components are provisioned and taken from     *)
(* stock, the product is taken into stock, and both are posted.  The       *)
(* services are ProductionOrdersService and ProductionConsumptionService.  *)
(*                                                                         *)
(* A consumption is a transaction that reads the quantity consumed so far, *)
(* takes the stock, posts it and writes the new quantity.  A start is one  *)
(* too: it checks the order before, takes its row, and consumes all that   *)
(* is missing of the components in own stock.  Completion is a sequence    *)
(* of statements that are committed one by one.                            *)
(*                                                                         *)
(* A transaction that voids or posts again is a single step here: how such *)
(* transactions interleave is the subject of PostingRuns and Supplies.     *)
(* The runs of a posting are counted: 1 is the posting, 2 its reversal,    *)
(* 3 the posting made again; a third repost fails on the unique key of the *)
(* run it replaces.                                                        *)
(*                                                                         *)
(* An item is there while something of it is planned, and each is of a     *)
(* good of its own.  Components that come by transfer or straight to the   *)
(* manufacturer are not here: generateProcurementForComponents cannot      *)
(* create their documents, as it writes fields the schema does not have,   *)
(* and completion refuses an order without them.  What is not in own stock *)
(* is bought or with a third party.                                        *)
(***************************************************************************)
EXTENDS Integers, Sequences, FiniteSets, Functions

CONSTANTS
  Client,     \* calls at work at the same time
  Item,       \* components of the order
  MaxQty,     \* bound: what is planned of a component
  MaxOps,     \* bound: consumptions
  MaxBatches  \* bound: attempts to complete the order

ASSUME MaxQtyAssumption == MaxQty \in Nat \ {0}

VARIABLES
  status,      \* ProductionOrder.status
  planned,     \* ProductionOrderItem.quantityPlanned; 0 for an item there is not
  inStock,     \* the items with sourceType OWN_STOCK
  provision,   \* provisionStatus and provisionedQty of the items
  consumed,    \* ProductionOrderItem.consumedQty
  isConsumed,  \* ProductionOrderItem.isConsumed
  ops,         \* consumptions of the items: their stock movements and postings
  batches,     \* ProductionBatche rows; TRUE once the product is in stock
  completion,  \* the posting of the completion
  pc,          \* what a call does next
  seen,        \* the consumed quantities it has read
  want,        \* the quantities it is to consume, or to plan
  at,          \* the batch it has made
  missing,     \* it has found no line of the completion
  history      \* history: what has happened so far

plan == <<planned, inStock>>
order == <<status, plan, provision>>
taken == <<consumed, isConsumed, ops>>
output == <<batches, completion>>
local == <<seen, want, at, missing>>
vars == <<order, taken, output, pc, local, history>>

Status == {"DRAFT", "PLANNED", "IN_PROGRESS", "COMPLETED", "CANCELLED"}

Nothing == [i \in Item |-> 0]

NotProvided == [done |-> FALSE, qty |-> 0]

\* An order begins with what its bill of material names, in own stock.
Init ==
  /\ status \in {"DRAFT", "PLANNED"}
  /\ planned \in [Item -> 0 .. MaxQty] /\ inStock = Item
  /\ provision = [i \in Item |-> NotProvided]
  /\ consumed = Nothing /\ isConsumed = [i \in Item |-> FALSE] /\ ops = [i \in Item |-> <<>>]
  /\ batches = <<>>
  /\ completion = [runs |-> 0, lines |-> 0, standing |-> 0, voided |-> FALSE]
  /\ pc = [c \in Client |-> "idle"]
  /\ seen = [c \in Client |-> Nothing] /\ want = [c \in Client |-> Nothing]
  /\ at = [c \in Client |-> 0] /\ missing = [c \in Client |-> FALSE]
  /\ history = {}

Only(i, n) == [Nothing EXCEPT ![i] = n]

Goto(c, l) == pc' = [pc EXCEPT ![c] = l]

Note(S) == history' = history \cup S

Flag(cond, f) == IF cond THEN {f} ELSE {}

AtWork(l) == {d \in Client : pc[d] \in l}

Completing == {"check", "batch", "income", "run", "line", "finish"}

End(c) ==
  /\ Goto(c, "idle")
  /\ seen' = [seen EXCEPT ![c] = Nothing]
  /\ want' = [want EXCEPT ![c] = Nothing]
  /\ at' = [at EXCEPT ![c] = 0] /\ missing' = [missing EXCEPT ![c] = FALSE]

\* Another call has updated the order and is open.
Locked(c) == AtWork({"started"}) \ {c} # {}

Present == {i \in Item : planned[i] > 0}

Own == Present \cap inStock

Remaining(i) == planned[i] - consumed[i]

Missing == [i \in Item |-> IF i \in Own /\ Remaining(i) > 0 THEN Remaining(i) ELSE 0]

Moved(i) == SumFunctionOnSet([k \in DOMAIN ops[i] |-> ops[i][k].qty], DOMAIN ops[i])

----------------------------------------------------------------------------
(* provisionItem, unprovisionItem *)

\* Any amount will do, in any status; it provides for the item if nothing more
\* is missing.
Provision(c) ==
  \E i \in Own, n \in 1 .. MaxQty :
    /\ pc[c] = "idle" /\ ~provision[i].done
    /\ provision' = [provision EXCEPT ![i] = [done |-> n >= Remaining(i), qty |-> n]]
    /\ UNCHANGED <<status, plan, taken, output, pc, local, history>>

Unprovision(c) ==
  \E i \in Present :
    /\ pc[c] = "idle" /\ status \notin {"IN_PROGRESS", "COMPLETED"}
    /\ ops[i] = <<>>
    /\ provision' = [provision EXCEPT ![i] = NotProvided]
    /\ UNCHANGED <<status, plan, taken, output, pc, local, history>>

----------------------------------------------------------------------------
(* createItem, updateItem, deleteItem, updateComponentSource, update *)

\* ensureOrderEditable; the item is written afterwards.
Editable == status = "DRAFT"

BeginEdit(c, i, n, l) ==
  /\ pc[c] = "idle" /\ Editable
  /\ Goto(c, l)
  /\ want' = [want EXCEPT ![c] = Only(i, n)]
  /\ UNCHANGED <<order, taken, output, seen, at, missing, history>>

\* The item a call is about to write
Edited(c) == CHOOSE i \in Item : want[c][i] > 0

\* A plan that changes once the order is on its way
Late ==
  Note(Flag(\/ status # "DRAFT" \/ \E i \in Item : ops[i] # <<>>
            \/ AtWork({"start", "started", "consume"}) # {}, "late"))

\* A new row has a name that nothing refers to any more.
Unused(i) ==
  /\ i \notin Present /\ ops[i] = <<>>
  /\ \A c \in Client : want[c][i] = 0

ReadCreate(c) ==
  \E i \in Item, n \in 1 .. MaxQty : Unused(i) /\ BeginEdit(c, i, n, "create")

ReadEdit(c) ==
  \E i \in Present, n \in 1 .. MaxQty : n # planned[i] /\ BeginEdit(c, i, n, "edit")

ReadDelete(c) == \E i \in Present : BeginEdit(c, i, 1, "delete")

WriteCreate(c) ==
  /\ pc[c] = "create"
  /\ planned' = [planned EXCEPT ![Edited(c)] = want[c][Edited(c)]]
  /\ Late
  /\ End(c)
  /\ UNCHANGED <<status, inStock, provision, taken, output>>

\* An item that is gone cannot be updated.
WriteEdit(c) ==
  /\ pc[c] = "edit" /\ Edited(c) \in Present
  /\ planned' = [planned EXCEPT ![Edited(c)] = want[c][Edited(c)]]
  /\ Late
  /\ End(c)
  /\ UNCHANGED <<status, inStock, provision, taken, output>>

\* Its consumptions go with the item; their movements and postings stay.
WriteDelete(c) ==
  LET i == Edited(c)
  IN  /\ pc[c] = "delete" /\ i \in Present
      /\ planned' = [planned EXCEPT ![i] = 0] /\ inStock' = inStock \cup {i}
      /\ provision' = [provision EXCEPT ![i] = NotProvided]
      /\ consumed' = [consumed EXCEPT ![i] = 0]
      /\ isConsumed' = [isConsumed EXCEPT ![i] = FALSE]
      /\ ops' = [ops EXCEPT ![i] = <<>>]
      /\ Late
      /\ End(c)
      /\ UNCHANGED <<status, output>>

\* ensureCanChangeSourceType: a source changes only before the first consumption.
ReadSource(c) ==
  \E i \in Present, l \in {"toStock", "elsewhere"} :
    /\ (l = "toStock" <=> i \in inStock) \/ ops[i] = <<>>
    /\ BeginEdit(c, i, 1, l)

WriteSource(c) ==
  /\ pc[c] \in {"toStock", "elsewhere"} /\ Edited(c) \in Present
  /\ inStock' = IF pc[c] = "toStock" THEN inStock \cup {Edited(c)} ELSE inStock \ {Edited(c)}
  /\ Late
  /\ Goto(c, "recalc")
  /\ UNCHANGED <<status, planned, provision, taken, output, local>>

\* All that is in own stock counts as provided.
AllProvided ==
  [i \in Item |-> IF i \in Own THEN [done |-> TRUE, qty |-> planned[i]] ELSE provision[i]]

\* recalcForProductionOrder, after the answer
Recalc(c) ==
  /\ pc[c] = "recalc"
  /\ provision' = AllProvided
  /\ End(c)
  /\ UNCHANGED <<status, plan, taken, output, history>>

\* update writes any status.
SetStatus(c) ==
  \E s \in Status \ {status} :
    /\ pc[c] = "idle" /\ ~Locked(c)
    /\ status' = s
    /\ Note({"byhand"})
    /\ UNCHANGED <<plan, provision, taken, output, pc, local>>

----------------------------------------------------------------------------
(* startProduction *)

Provided(i) == provision[i].done /\ provision[i].qty >= Remaining(i)

\* The order is checked outside of the transaction.
ReadStart(c) ==
  /\ pc[c] = "idle" /\ status \in {"DRAFT", "PLANNED"}
  /\ \A i \in Own : Remaining(i) > 0 => Provided(i)
  /\ want' = [want EXCEPT ![c] = Missing]
  /\ Goto(c, "start")
  /\ UNCHANGED <<order, taken, output, seen, at, missing, history>>

\* Fault: the quantity is not compared with what has been consumed.
EnoughAlways(c) == TRUE

Enough(c) == \A i \in Item : want[c][i] > 0 => want[c][i] <= Remaining(i)

Overlaps(w) ==
  \E d \in AtWork({"consume", "started"}), i \in Item : want[d][i] > 0 /\ w[i] > 0

\* It waits for the row of the order and reads the items for their consumption.
EnterStart(c) ==
  /\ pc[c] = "start" /\ ~Locked(c)
  /\ IF Enough(c)
       THEN /\ seen' = [seen EXCEPT ![c] = consumed]
            /\ Goto(c, "started")
            /\ Note(Flag(Overlaps(want[c]), "lost"))
            /\ UNCHANGED <<want, at, missing>>
       ELSE End(c) /\ UNCHANGED history
  /\ UNCHANGED <<order, taken, output>>

----------------------------------------------------------------------------
(* consume, consumeComponents, autoConsumeRemaining *)

\* Part of what is missing of one item, or all that is missing in own stock
Wants == {Only(i, n) : i \in Present, n \in 1 .. MaxQty} \cup {Missing}

ReadConsume(c) ==
  /\ pc[c] = "idle" /\ status = "IN_PROGRESS"
  /\ \E w \in Wants :
       /\ w # Nothing /\ \A i \in Item : w[i] > 0 => w[i] <= Remaining(i)
       /\ want' = [want EXCEPT ![c] = w]
       /\ Note(Flag(Overlaps(w), "lost"))
  /\ seen' = [seen EXCEPT ![c] = consumed]
  /\ Goto(c, "consume")
  /\ UNCHANGED <<order, taken, output, at, missing>>

\* consumedQty is written from the value read.
Consumed(c, i) == seen[c][i] + want[c][i]

Operation(n) == [qty |-> n, runs |-> 1, voided |-> FALSE]

\* The items it has read are still there.
Found(c) == \A i \in Item : want[c][i] > 0 => i \in Present

Consume(c) ==
  /\ ops' = [i \in Item |->
       IF want[c][i] > 0 THEN Append(ops[i], Operation(want[c][i])) ELSE ops[i]]
  /\ SumFunctionOnSet([i \in Item |-> Len(ops'[i])], Item) <= MaxOps
  /\ consumed' = [i \in Item |-> IF want[c][i] > 0 THEN Consumed(c, i) ELSE consumed[i]]
  /\ isConsumed' = [i \in Item |->
       IF want[c][i] > 0 THEN consumed'[i] = planned[i] ELSE isConsumed[i]]

CommitConsume(c) ==
  /\ pc[c] = "consume" /\ Found(c)
  /\ Consume(c)
  /\ End(c)
  /\ UNCHANGED <<order, output, history>>

CommitStart(c) ==
  /\ pc[c] = "started" /\ Found(c)
  /\ status' = "IN_PROGRESS"
  /\ Consume(c)
  /\ Note(Flag(status = "COMPLETED", "revived"))
  /\ End(c)
  /\ UNCHANGED <<plan, provision, output>>

----------------------------------------------------------------------------
(* completeProductionOrder and calculateAndApplyProductionCost *)

Completable == status = "IN_PROGRESS"

\* Fault: only what comes from own stock is looked at.
OwnConsumed == \A i \in Own : Remaining(i) <= 0

AllConsumed == \A i \in Present : Remaining(i) <= 0

CheckComplete(c) ==
  /\ pc[c] = "idle" /\ Completable /\ AllConsumed
  /\ Goto(c, "check")
  /\ Note(Flag(AtWork(Completing) # {}, "beside"))
  /\ UNCHANGED <<order, taken, output, local>>

Backed(i) == isConsumed[i] /\ consumed[i] >= planned[i] /\ Moved(i) >= planned[i]

\* recalcForProductionOrder; the items in own stock are checked again.
Recheck(c) ==
  /\ pc[c] = "check"
  /\ provision' = AllProvided
  /\ IF \A i \in Own : Backed(i)
       THEN Goto(c, "batch") /\ UNCHANGED local
       ELSE End(c)
  /\ UNCHANGED <<status, plan, taken, output, history>>

\* The costs of the order are written, and a new batch is made.
MakeBatch(c) ==
  /\ pc[c] = "batch" /\ ~Locked(c) /\ Len(batches) < MaxBatches
  /\ batches' = Append(batches, FALSE)
  /\ at' = [at EXCEPT ![c] = Len(batches) + 1]
  /\ Goto(c, "income")
  /\ UNCHANGED <<order, taken, completion, seen, want, missing, history>>

\* The product is taken into stock under the key of the batch.
RecordIncome(c) ==
  /\ pc[c] = "income"
  /\ batches' = [batches EXCEPT ![at[c]] = TRUE]
  /\ Goto(c, "run")
  /\ UNCHANGED <<order, taken, completion, local, history>>

\* The active run, be it a reversal, has no line, and there is none to reuse.
NoLine == completion.lines = 0 /\ completion.runs < 3

\* getOrCreatePostedRun, and the look for its line
FindRun(c) ==
  /\ pc[c] = "run"
  /\ completion' = [completion EXCEPT !.runs = IF @ = 0 THEN 1 ELSE @]
  /\ missing' = [missing EXCEPT ![c] = NoLine]
  /\ Goto(c, "line")
  /\ UNCHANGED <<order, taken, batches, seen, want, at, history>>

PostLine(c) ==
  /\ pc[c] = "line"
  /\ completion' = IF missing[c]
                     THEN [runs |-> completion.runs, lines |-> completion.lines + 1,
                           standing |-> completion.standing + 1, voided |-> completion.voided]
                     ELSE completion
  /\ Goto(c, "finish")
  /\ UNCHANGED <<order, taken, batches, local, history>>

Finish(c) ==
  /\ pc[c] = "finish" /\ ~Locked(c)
  /\ status' = "COMPLETED"
  /\ End(c)
  /\ UNCHANGED <<plan, provision, taken, output, history>>

----------------------------------------------------------------------------
(* voidConsumptionPosting, repostConsumptionPosting *)

\* Neither completed nor about to be
Voidable == status # "COMPLETED" /\ completion.lines = 0 /\ completion.runs < 3

TakenBack(o) ==
  [qty |-> o.qty, runs |-> IF o.runs = 1 THEN 2 ELSE o.runs, voided |-> TRUE]

VoidConsumption(c) ==
  \E i \in Item : \E k \in DOMAIN ops[i] :
    /\ pc[c] = "idle" /\ Voidable
    /\ ops' = [ops EXCEPT ![i][k] = TakenBack(@)]
    /\ Note(Flag(ops[i][k].runs = 3, "again"))
    /\ UNCHANGED <<order, consumed, isConsumed, output, pc, local>>

PostedAgain(o) == [qty |-> o.qty, runs |-> 3, voided |-> FALSE]

RepostConsumption(c) ==
  \E i \in Item : \E k \in DOMAIN ops[i] :
    /\ pc[c] = "idle" /\ status # "COMPLETED" /\ ops[i][k].runs < 3
    /\ ops' = [ops EXCEPT ![i][k] = PostedAgain(@)]
    /\ UNCHANGED <<order, consumed, isConsumed, output, pc, local, history>>

----------------------------------------------------------------------------
(* voidCompletionPosting, repostCompletionPosting: in any status *)

\* What is left standing once run 1 has been reversed
Reversed == IF completion.runs = 1 THEN completion.standing - completion.lines
            ELSE completion.standing

Bare == completion.runs = 1 /\ completion.lines = 0

VoidCompletion(c) ==
  /\ pc[c] = "idle" /\ ~Locked(c) /\ completion.runs > 0
  /\ completion' = [runs |-> IF completion.runs = 1 THEN 2 ELSE completion.runs,
                     lines |-> completion.lines, standing |-> Reversed, voided |-> TRUE]
  /\ Note(Flag(completion.runs = 3, "again") \cup Flag(Bare, "bare"))
  /\ UNCHANGED <<order, taken, batches, pc, local>>

\* Fault: the order keeps its mark.
UnvoidedNot == completion.voided

Unvoided == FALSE

\* Without a run yet it posts version 1, if the cost of the order is known.
RepostCompletion(c) ==
  /\ pc[c] = "idle" /\ ~Locked(c) /\ completion.runs < 3 /\ batches # <<>>
  /\ completion' =
       IF completion.runs = 0
         THEN [runs |-> 1, lines |-> 1, standing |-> 1, voided |-> Unvoided]
         ELSE [runs |-> 3, lines |-> completion.lines, standing |-> Reversed + 1,
               voided |-> Unvoided]
  /\ Note(Flag(Bare, "bare"))
  /\ UNCHANGED <<order, taken, batches, pc, local>>

----------------------------------------------------------------------------
\* The call fails, or its process ends; an open transaction is rolled back, but
\* what a completion has written stays.
Abort(c) ==
  /\ pc[c] # "idle"
  /\ Note(Flag(at[c] > 0, "cut"))
  /\ End(c)
  /\ UNCHANGED <<order, taken, output>>

Quiescent == (\A c \in Client : pc[c] = "idle") /\ UNCHANGED vars

Call(c) ==
  \/ Provision(c) \/ Unprovision(c)
  \/ ReadCreate(c) \/ WriteCreate(c) \/ ReadEdit(c) \/ WriteEdit(c)
  \/ ReadDelete(c) \/ WriteDelete(c)
  \/ ReadSource(c) \/ WriteSource(c) \/ Recalc(c) \/ SetStatus(c)
  \/ ReadStart(c) \/ EnterStart(c) \/ CommitStart(c)
  \/ ReadConsume(c) \/ CommitConsume(c)
  \/ CheckComplete(c) \/ Recheck(c) \/ MakeBatch(c) \/ RecordIncome(c)
  \/ FindRun(c) \/ PostLine(c) \/ Finish(c)
  \/ VoidConsumption(c) \/ RepostConsumption(c)
  \/ VoidCompletion(c) \/ RepostCompletion(c)
  \/ Abort(c)

Next == (\E c \in Client : Call(c)) \/ Quiescent

Spec == Init /\ [][Next]_vars

----------------------------------------------------------------------------
Operations == [qty : 1 .. MaxQty, runs : 1 .. 3, voided : BOOLEAN]

TypeOK ==
  /\ status \in Status
  /\ planned \in [Item -> 0 .. MaxQty] /\ inStock \subseteq Item
  /\ provision \in [Item -> [done : BOOLEAN, qty : 0 .. MaxQty]]
  /\ consumed \in [Item -> 0 .. MaxQty] /\ isConsumed \in [Item -> BOOLEAN]
  /\ ops \in [Item -> Seq(Operations)]
  /\ batches \in Seq(BOOLEAN)
  /\ completion \in [runs : 0 .. 3, lines : Nat, standing : Int, voided : BOOLEAN]
  /\ pc \in [Client -> {"idle", "create", "edit", "delete", "toStock", "elsewhere", "recalc",
                        "start", "started", "consume"} \cup Completing]
  /\ seen \in [Client -> [Item -> 0 .. MaxQty]]
  /\ want \in [Client -> [Item -> 0 .. MaxQty]]
  /\ at \in [Client -> 0 .. Len(batches)] /\ missing \in [Client -> BOOLEAN]

Never(S) == history \cap S = {}

Outputs == Cardinality({b \in DOMAIN batches : batches[b]})

\* What an item counts as consumed is what was moved out of stock for it, and
\* not more than is planned, even if two starts overlap, unless two
\* consumptions of the item do; an edit after the start may lower the plan.
ConsumedIsMoved ==
  Never({"lost"}) =>
    \A i \in Item :
      consumed[i] = Moved(i) /\ (Never({"late"}) => consumed[i] <= planned[i])

\* The quantities of items, consumptions and stock agree.
StockAgrees == TypeOK /\ ConsumedIsMoved

\* A completed order nobody has set to a status is backed by stock: all its
\* components have been moved out, its product is in, and its completion has
\* been posted, whatever has overlapped or failed before.
CompletedIsBacked ==
  status = "COMPLETED" /\ Never({"byhand", "late"}) =>
    /\ \A i \in Item : Moved(i) >= planned[i]
    /\ Outputs > 0 /\ completion.runs > 0

\* A completion that is cut short may be sent again: it posts no second line.
\* The product comes into stock once, unless a completion was cut short, or the
\* order was set to IN_PROGRESS again, by hand or by a start that overlapped the
\* whole of another and had nothing to consume.
OutputOnce ==
  Never({"beside"}) =>
    /\ completion.lines <= 1
    /\ Never({"cut", "byhand", "revived"}) => Outputs <= 1

\* What an order puts out is in stock once, and made from what stock gave.
OutputBacked == CompletedIsBacked /\ OutputOnce

\* A posting stands until it is marked void and never longer, and once it is
\* posted again it stands once.
PostingsStand ==
  Never({"again", "bare", "beside"}) =>
    /\ \A i \in Item : \A k \in DOMAIN ops[i] : ops[i][k].voided <=> ops[i][k].runs = 2
    /\ completion.lines > 0 =>
         completion.standing = IF completion.voided THEN 0 ELSE 1

----------------------------------------------------------------------------
(* Why they hold: the inductive invariant *)

Consuming == {"consume", "started"}

Editing == {"create", "edit", "delete", "toStock", "elsewhere"}

\* A completion that has made its batch
Making == {"income", "run", "line", "finish"}

\* A call that writes an item knows which; the name of a new one is its own.
ItemsNamed ==
  \A c \in Client :
    /\ pc[c] \in Editing => \E i \in Item : want[c][i] > 0
    /\ pc[c] = "create" =>
         \A i \in Item : want[c][i] > 0 =>
           i \notin Present /\ \A d \in Client \ {c} : want[d][i] = 0

ConsumptionFits ==
  \A c \in Client, i \in Item :
    pc[c] \in Consuming /\ want[c][i] > 0 => seen[c][i] + want[c][i] <= MaxQty

\* What a consumption has read of an item still holds when it writes.
ReadStands ==
  /\ \A c, d \in Client, i \in Item :
       pc[c] \in Consuming /\ pc[d] \in Consuming /\ want[c][i] > 0 /\ want[d][i] > 0 => c = d
  /\ \A c \in Client, i \in Item :
       pc[c] \in Consuming /\ want[c][i] > 0 /\ i \in Present => seen[c][i] = consumed[i]

\* A plan that stays is not exceeded, and no item counts more than was moved.
PlanStands ==
  \A i \in Item :
    /\ consumed[i] <= Moved(i)
    /\ \A c \in Client : pc[c] \in Consuming /\ want[c][i] > 0 =>
         seen[c][i] <= Moved(i) /\ seen[c][i] + want[c][i] <= planned[i]

\* What a completion has checked stays so, and what it has written is there.
CompletionStands ==
  /\ status = "COMPLETED" \/ AtWork(Completing) # {} =>
       /\ status \in {"IN_PROGRESS", "COMPLETED"}
       /\ \A i \in Item : Moved(i) >= planned[i]

Written ==
  \A c \in Client :
    /\ pc[c] \in Making => at[c] > 0
    /\ pc[c] \in {"run", "line", "finish"} => \E b \in DOMAIN batches : batches[b]
    /\ pc[c] \in {"line", "finish"} => completion.runs > 0

\* One completion at a time writes a line only if there is none.
LineStands ==
  /\ \A c, d \in Client : pc[c] \in Completing /\ pc[d] \in Completing => c = d
  /\ completion.lines <= 1
  /\ \A c \in Client : pc[c] = "line" /\ missing[c] => completion.lines = 0

\* The one batch is followed by the status.
BatchStands ==
  /\ Len(batches) <= 1
  /\ \A c \in Client : pc[c] \in {"check", "batch"} => batches = <<>>
  /\ batches # <<>> => status = "COMPLETED" \/ AtWork(Making) # {}

\* What the runs of a completion say of its line, and what follows for the sum.
RunsTell ==
  /\ completion.runs = 0 => completion.lines = 0
  /\ completion.runs > 1 => completion.lines = 1
  /\ completion.standing = CASE completion.runs = 1 -> completion.lines
                            [] completion.runs = 3 -> 1
                            [] OTHER -> 0
  /\ completion.voided <=> completion.runs = 2

ConsumptionsTell ==
  \A i \in Item : \A k \in DOMAIN ops[i] : ops[i][k].voided <=> ops[i][k].runs = 2

IInv ==
  /\ TypeOK /\ ItemsNamed /\ ConsumptionFits /\ Written
  /\ Never({"lost"}) => ReadStands /\ \A i \in Item : consumed[i] = Moved(i)
  /\ Never({"late"}) => PlanStands
  /\ Never({"lost", "late"}) => \A i \in Item : consumed[i] <= planned[i]
  /\ Never({"byhand", "late"}) => CompletionStands
  /\ status = "COMPLETED" /\ Never({"byhand", "late"}) =>
       completion.runs > 0 /\ \E b \in DOMAIN batches : batches[b]
  /\ Never({"beside"}) => LineStands
  /\ Never({"beside", "cut", "byhand", "revived"}) => BatchStands
  /\ Never({"again"}) => ConsumptionsTell
  /\ Never({"again", "bare", "beside"}) => RunsTell
=============================================================================
