----------------------------- MODULE Inventory -----------------------------
(***************************************************************************)
(* The stock of one item in one warehouse, written by the only two paths   *)
(* there are: recordIncome and recordOutcome of InventoryOrchestrator-     *)
(* Service, with the FIFO service below them.  A request runs one of them  *)
(* for the line of a document that moves the item; the line is the         *)
(* idempotency key of everything it inserts.                               *)
(*                                                                         *)
(* The transaction of a document may have lines of other items as well.    *)
(* They touch no row of this item: those before the line come before its   *)
(* look-up, those after it prolong "commit", and where one of them fails,  *)
(* or is given up for another transaction, this line is rolled back with   *)
(* it.  Who waits for whom when transactions hold rows of several items is *)
(* the subject of StockDocuments.  A document that lists the item twice in *)
(* this warehouse is left out here.                                        *)
(*                                                                         *)
(* Transactions are PostgreSQL's at READ COMMITTED.  Each statement sees   *)
(* what has been committed when it starts.  A row that is updated stays    *)
(* locked until the transaction ends.  An insert of a key that another     *)
(* transaction has inserted waits for that transaction's end, and is a     *)
(* unique violation (P2002) if it commits.  After a violation nothing but  *)
(* ROLLBACK is accepted, so the code that catches P2002 and reads again    *)
(* fails as well, and with it the request.                                 *)
(*                                                                         *)
(* A batch is named by its place in the order of createdAt and id.         *)
(***************************************************************************)
EXTENDS Integers, Sequences, FiniteSets, FiniteSetsExt, Functions

CONSTANTS
  Req,       \* requests; a retry of a line is another request
  Income,    \* lines that bring stock in
  Outcome,   \* lines that take stock out
  Qty,       \* quantity of a line
  Opening,   \* quantities of the batches there are at first, oldest first
  MaxBatch   \* bound: batches

Line == Income \cup Outcome
Batch == 1 .. MaxBatch

ASSUME LineAssumption == Income \cap Outcome = {}
ASSUME QtyAssumption == Qty \in [Line -> Nat \ {0}]
ASSUME OpeningAssumption == Opening \in Seq(Nat) /\ Len(Opening) <= MaxBatch
ASSUME MaxBatchAssumption == MaxBatch \in Nat

VARIABLES
  stock,      \* StockBatch.quantity; 0 for a batch there is not
  moves,      \* StockMovement rows
  txns,       \* lines with an InventoryTransaction
  balance,    \* InventoryBalance.quantity
  created,    \* batches created so far, committed or not
  pc,         \* next statement of a request
  line,       \* the line it works on
  rows,       \* the batches it has read and not gone through yet
  need,       \* what is still to be taken out
  part,       \* index of the next movement
  put,        \* uncommitted: quantities of the batches it has written
  took,       \* uncommitted: movements
  overlap     \* history: what has been at work together with something else

stored == <<stock, moves, txns, balance>>
local == <<line, rows, need, part, put, took>>
vars == <<stored, created, pc, local, overlap>>

Open == {"lookup", "read", "check", "take", "insert", "txn", "balance", "commit",
         "failing"}

PC == {"idle"} \cup Open \cup {"done", "failed"}

\* A batch that is not written
Unwritten == -1

NoWrites == [b \in Batch |-> Unwritten]

NoRows == [b \in Batch |-> 0]

OpeningBalance == SumFunctionOnSet(Opening, DOMAIN Opening)

Init ==
  /\ stock = [b \in Batch |-> IF b <= Len(Opening) THEN Opening[b] ELSE 0]
  /\ moves = {} /\ txns = {}
  /\ balance = OpeningBalance
  /\ created = Len(Opening)
  /\ pc = [q \in Req |-> "idle"]
  /\ line \in [Req -> Line]
  /\ rows = [q \in Req |-> NoRows]
  /\ need = [q \in Req |-> 0] /\ part = [q \in Req |-> 0]
  /\ put = [q \in Req |-> NoWrites] /\ took = [q \in Req |-> {}]
  /\ overlap = {}

Goto(q, l) == pc' = [pc EXCEPT ![q] = l]

\* A movement of batch b; by is history.
Movement(q, b, n) ==
  [by |-> q, line |-> line[q], batch |-> b, part |-> part[q], qty |-> n]

\* The request holds the lock of the row.
Writes(q, b) == put[q][b] # Unwritten

----------------------------------------------------------------------------
Begin(q) ==
  /\ pc[q] = "idle"
  /\ Goto(q, "lookup")
  /\ LET others == {r \in Req : pc[r] \in Open}
         lines == {line[r] : r \in others}
     IN  overlap' = overlap
           \cup (IF lines # {} /\ (lines \cup {line[q]}) \cap Income # {}
                  THEN {"income"} ELSE {})
           \cup (IF lines \cap Outcome # {} /\ line[q] \in Outcome
                  THEN {"outcomes"} ELSE {})
  /\ UNCHANGED <<stored, created, local>>

Known(l) == l \in txns

\* A line that has its transaction is answered with the stored movements.
Lookup(q) ==
  /\ pc[q] = "lookup"
  /\ Goto(q, IF Known(line[q]) THEN "done"
             ELSE IF line[q] \in Income THEN "insert" ELSE "read")
  /\ UNCHANGED <<stored, created, local, overlap>>

----------------------------------------------------------------------------
(* recordIncome *)

\* Another request has inserted a movement of the line and is still open.
MovementPending(q) ==
  \E r \in Req \ {q} : line[r] = line[q] /\ took[r] # {}

\* A movement of the line in the table: whether it is found before the batch
\* is created or by its key afterwards, the transaction row of the same line
\* is there too, and the request fails on one of the two.
InsertIncome(q) ==
  /\ pc[q] = "insert" /\ ~MovementPending(q)
  /\ IF \E m \in moves : m.line = line[q]
       THEN Goto(q, "failing") /\ UNCHANGED <<created, put, took>>
       ELSE /\ created < MaxBatch
            /\ created' = created + 1
            /\ put' = [put EXCEPT ![q][created'] = Qty[line[q]]]
            /\ took' = [took EXCEPT ![q] = {Movement(q, created', Qty[line[q]])}]
            /\ Goto(q, "txn")
  /\ UNCHANGED <<stored, line, rows, need, part, overlap>>

----------------------------------------------------------------------------
(* recordOutcome of the FIFO service *)

ReadRows(q) ==
  /\ pc[q] = "read"
  /\ rows' = [rows EXCEPT ![q] = stock]
  /\ need' = [need EXCEPT ![q] = Qty[line[q]]]
  /\ Goto(q, "check")
  /\ UNCHANGED <<stored, created, line, part, put, took, overlap>>

\* Fault: batches in any order.
NextRowUnordered(q, b) == rows[q][b] > 0

\* Batches are gone through in the order they were created in.
NextRow(q, b) ==
  rows[q][b] > 0 /\ \A c \in Batch : rows[q][c] > 0 => b <= c

\* The loop goes on with the next batch and the next part.
Advance(q, b, n) ==
  /\ rows' = [rows EXCEPT ![q][b] = 0]
  /\ need' = [need EXCEPT ![q] = @ - n]
  /\ part' = [part EXCEPT ![q] = @ + 1]

SameMovement(q, b, m) == m.line = line[q] /\ m.batch = b /\ m.part = part[q]

\* Nothing left to take, nothing left to take it from (InsufficientStock), or
\* a batch: a movement that is there already counts as taken.
Check(q) ==
  /\ pc[q] = "check"
  /\ \/ need[q] <= 0 /\ Goto(q, "txn") /\ UNCHANGED <<rows, need, part>>
     \/ /\ need[q] > 0 /\ rows[q] = NoRows
        /\ Goto(q, "failing") /\ UNCHANGED <<rows, need, part>>
     \/ /\ need[q] > 0
        /\ \E b \in Batch :
             /\ NextRow(q, b)
             /\ \/ \E m \in moves :
                     SameMovement(q, b, m) /\ Advance(q, b, m.qty) /\ UNCHANGED pc
                \/ /\ ~ \E m \in moves : SameMovement(q, b, m)
                   /\ Goto(q, "take") /\ UNCHANGED <<rows, need, part>>
  /\ UNCHANGED <<stored, created, line, put, took, overlap>>

Locked(q, b) == \E r \in Req \ {q} : Writes(r, b)

Taken(q, b) == Min({rows[q][b], need[q]})

\* Fault: one less is written off than is taken.
LeftTooMuch(q, b) == rows[q][b] - Taken(q, b) + 1

\* What the update writes is computed from what was READ.
Left(q, b) == rows[q][b] - Taken(q, b)

Consume(q, b) ==
  /\ put' = [put EXCEPT ![q][b] = Left(q, b)]
  /\ took' = [took EXCEPT ![q] = @ \cup {Movement(q, b, Taken(q, b))}]
  /\ Advance(q, b, Taken(q, b))
  /\ Goto(q, "check")

\* The batch is updated, as soon as its row is free, and the movement inserted.
Take(q) ==
  /\ pc[q] = "take"
  /\ \E b \in Batch :
       /\ NextRow(q, b) /\ ~Locked(q, b)
       /\ IF \E m \in moves : SameMovement(q, b, m)
            THEN Goto(q, "failing") /\ UNCHANGED <<rows, need, part, put, took>>
            ELSE Consume(q, b)
  /\ UNCHANGED <<stored, created, line, overlap>>

----------------------------------------------------------------------------
(* The end of both: transaction row, balance, commit *)

\* Fault: waits for the key of a committed row as well.
KeyPendingForever(q) ==
  \/ line[q] \in txns
  \/ \E r \in Req \ {q} : line[r] = line[q] /\ pc[r] \in {"balance", "commit"}

KeyPending(q) ==
  \E r \in Req \ {q} : line[r] = line[q] /\ pc[r] \in {"balance", "commit"}

\* Fault: idempotencyKey is not unique.
KeyTakenNever(q) == FALSE

KeyTaken(q) == line[q] \in txns

InsertTxn(q) ==
  /\ pc[q] = "txn" /\ ~KeyPending(q)
  /\ Goto(q, IF KeyTaken(q) THEN "failing" ELSE "balance")
  /\ UNCHANGED <<stored, created, local, overlap>>

\* The upsert of the balance waits for the row, which is held from here on until
\* the transaction ends, however many lines of other items it still has.
LockBalance(q) ==
  /\ pc[q] = "balance"
  /\ ~ \E r \in Req : pc[r] = "commit"
  /\ Goto(q, "commit")
  /\ UNCHANGED <<stored, created, local, overlap>>

\* quantityDelta, added by the database to the quantity it finds
Delta(q) == IF line[q] \in Income THEN Qty[line[q]] ELSE -Qty[line[q]]

\* What a request has in the database, and in memory, is gone when it ends.
Forget(q) ==
  /\ rows' = [rows EXCEPT ![q] = NoRows]
  /\ need' = [need EXCEPT ![q] = 0] /\ part' = [part EXCEPT ![q] = 0]
  /\ put' = [put EXCEPT ![q] = NoWrites] /\ took' = [took EXCEPT ![q] = {}]
  /\ UNCHANGED line

Commit(q) ==
  /\ pc[q] = "commit"
  /\ stock' = [b \in Batch |-> IF Writes(q, b) THEN put[q][b] ELSE stock[b]]
  /\ moves' = moves \cup took[q]
  /\ txns' = txns \cup {line[q]}
  /\ balance' = balance + Delta(q)
  /\ Goto(q, "done") /\ Forget(q)
  /\ UNCHANGED <<created, overlap>>

\* The request is failing, or the transaction ends for a reason of its caller:
\* what follows in it fails, it times out, the process goes down.
Rollback(q) ==
  /\ pc[q] \in Open
  /\ Goto(q, "failed") /\ Forget(q)
  /\ UNCHANGED <<stored, created, overlap>>

Step(q) ==
  \/ Lookup(q) \/ InsertIncome(q) \/ ReadRows(q) \/ Check(q) \/ Take(q)
  \/ InsertTxn(q) \/ LockBalance(q) \/ Commit(q)

Ended(q) == pc[q] \in {"done", "failed"}

\* Every request has ended; the server waits for more.
Quiescent == (\A q \in Req : Ended(q)) /\ UNCHANGED vars

Next == (\E q \in Req : Begin(q) \/ Step(q) \/ Rollback(q)) \/ Quiescent

Spec == Init /\ [][Next]_vars

\* A statement that can be executed is, and an aborted transaction is rolled
\* back.  A commit that is put off for the document's other lines comes, or the
\* transaction is rolled back.
FairSpec ==
  Spec /\ \A q \in Req :
    WF_vars(Step(q)) /\ WF_vars(pc[q] = "failing" /\ Rollback(q))

----------------------------------------------------------------------------
\* Quantities of a set of movements
Sum(S) == SumFunctionOnSet([m \in S |-> m.qty], S)

InStock == SumFunctionOnSet(stock, Batch)

TypeOK ==
  /\ stock \in [Batch -> Nat]
  /\ moves \subseteq [by : Req, line : Line, batch : Batch, part : Nat, qty : Nat]
  /\ txns \subseteq Line
  /\ created \in 0 .. MaxBatch
  /\ pc \in [Req -> PC] /\ line \in [Req -> Line]
  /\ rows \in [Req -> [Batch -> Nat]]
  /\ need \in [Req -> Int] /\ part \in [Req -> Nat]
  /\ put \in [Req -> [Batch -> Nat \cup {Unwritten}]]
  /\ took \in [Req -> SUBSET [by : Req, line : Line, batch : Batch,
                              part : Nat, qty : Nat]]
  /\ overlap \subseteq {"income", "outcomes"}

\* The movements of a line are those of one request, and there are none of a
\* line without its transaction: retries and duplicates never add up, whichever
\* of the checks they get past.
OneWriter ==
  \A m \in moves :
    m.line \in txns /\ \A n \in moves : n.line = m.line => n.by = m.by

MovesOf(l) == {m \in moves : m.line = l}

\* A line moves exactly its quantity, in however many parts, or nothing.
WholeOrNothing ==
  \A l \in Line : Sum(MovesOf(l)) = IF l \in txns THEN Qty[l] ELSE 0

\* The balance is the sum of the movements, whatever runs at the same time.
BalanceIsMovements ==
  balance = OpeningBalance
              + Sum({m \in moves : m.line \in Income})
              - Sum({m \in moves : m.line \in Outcome})

\* The batches hold what the balance says as long as no two outcomes overlap,
\* so that no outcome writes what it has read before another one's commit.
BatchesAgree ==
  "outcomes" \notin overlap =>
    InStock = balance

\* What moved, what the batches hold and what the balance says add up.
StockAddsUp == OneWriter /\ WholeOrNothing /\ BalanceIsMovements /\ BatchesAgree

\* No request began while another one was at work.
Serial == overlap = {}

InOrder ==
  \A m \in moves : m.line \in Outcome =>
    \A b \in Batch : b < m.batch => stock[b] = 0

\* First in, first out, when requests run one after the other: nothing has been
\* taken from a batch while an older one has something left.
FifoOrder == Serial => InOrder

\* Requests of all lines at once, their retries, and aborts anywhere: what has
\* been committed reads as if every line had been carried out in one step, and
\* once.
Shelf == INSTANCE Stock WITH
  moved <- [l \in Line |-> Sum(MovesOf(l))], Initially <- OpeningBalance

ImplementsStock == Shelf!Spec

\* The row locks and unique keys of an item are waited for, but in the end they
\* are given up.
EveryRequestEnds == \A q \in Req : pc[q] = "lookup" ~> Ended(q)

----------------------------------------------------------------------------
(* The inductive invariant behind the safety properties *)

\* Nobody has read, written or moved a batch that has not been created.
WithinCreated ==
  \A b \in Batch : b > created =>
    stock[b] = 0 /\ \A q \in Req : rows[q][b] = 0 /\ ~Writes(q, b)

MovedWithinCreated ==
  /\ \A m \in moves : m.batch <= created
  /\ \A q \in Req : \A m \in took[q] : m.batch <= created

OwnMovements == \A q \in Req : \A m \in took[q] : m.by = q /\ m.line = line[q]

TakesSomething == \A q \in Req : pc[q] = "take" => need[q] > 0

InsertsIncome == \A q \in Req : pc[q] = "insert" => line[q] \in Income

\* Past the insert of its transaction, a request is the only one of its line.
OneTransaction ==
  \A q \in Req : pc[q] \in {"balance", "commit"} =>
    /\ line[q] \notin txns
    /\ \A r \in Req \ {q} : pc[r] \in {"balance", "commit"} => line[r] # line[q]

\* Before its first statement that writes, and after its end, a request has
\* nothing in the database.
Clean ==
  \A q \in Req : pc[q] \notin Open \/ pc[q] \in {"lookup", "insert", "read"} =>
    put[q] = NoWrites /\ took[q] = {}

\* The rest is about requests that run one after the other.
Solo == \A q, r \in Req : pc[q] \in Open /\ pc[r] \in Open => q = r

\* The batch as the request would find it
Current(q, b) == IF Writes(q, b) THEN put[q][b] ELSE stock[b]

NotYetMoved ==
  \A q \in Req : pc[q] \in Open \ {"lookup", "failing"} => line[q] \notin txns

\* A batch that is not in the rows any more is empty, or nothing is needed.
GoneThrough ==
  \A q \in Req : pc[q] \in {"check", "take"} =>
    \A b \in Batch :
      /\ rows[q][b] > 0 => ~Writes(q, b) /\ rows[q][b] = stock[b]
      /\ rows[q][b] = 0 /\ need[q] > 0 => Current(q, b) = 0

\* A batch is written if it has something left, or is the newest.
WrittenInOrder ==
  \A q \in Req, b \in Batch : Writes(q, b) =>
    stock[b] > 0 \/ \A m \in moves : m.batch < b

TakenInOrder ==
  \A q \in Req : line[q] \in Outcome => \A m \in took[q] :
    \A b \in Batch : b < m.batch => Current(q, b) = 0

OneAfterAnother ==
  Serial => /\ Solo /\ NotYetMoved /\ GoneThrough
            /\ WrittenInOrder /\ TakenInOrder /\ InOrder

IInv ==
  /\ TypeOK /\ OneWriter /\ WithinCreated /\ MovedWithinCreated /\ OwnMovements
  /\ TakesSomething /\ InsertsIncome /\ OneTransaction /\ Clean
  /\ OneAfterAnother

----------------------------------------------------------------------------
(* What IInv needs besides for StockAddsUp: a request accounts for what it *)
(* has written and not committed.                                          *)

FinitelyMany == IsFiniteSet(moves) /\ \A q \in Req : IsFiniteSet(took[q])

TakesOutcome ==
  \A q \in Req : pc[q] \in {"read", "check", "take"} => line[q] \in Outcome

\* The next movement of an outcome is not one it has inserted.
PartsInOrder ==
  \A q \in Req : pc[q] \in {"check", "take"} =>
    \A m \in took[q] : m.part < part[q]

\* What a line moves and what is still needed is its quantity.
TakenSoFar ==
  \A q \in Req : pc[q] \in {"check", "take", "txn", "balance", "commit"} =>
    /\ line[q] \in Outcome /\ line[q] \notin txns =>
         /\ need[q] >= 0 /\ Sum(took[q]) = Qty[line[q]] - need[q]
         /\ pc[q] \notin {"check", "take"} => need[q] = 0
    /\ line[q] \in Income => Sum(took[q]) = Qty[line[q]]

\* The lock of a row is held by one request at a time.
OneHolder ==
  \A q, r \in Req : q # r => \A b \in Batch : ~(Writes(q, b) /\ Writes(r, b))

\* Nobody has read a batch that an income brings in.
BroughtInUnread ==
  \A q \in Req : line[q] \in Income => \A b \in Batch : Writes(q, b) =>
    stock[b] = 0 /\ \A r \in Req \ {q} : rows[r][b] = 0

\* The rest is about outcomes that run one after the other.
OutcomesAlone ==
  \A q, r \in Req :
    pc[q] \in Open /\ pc[r] \in Open /\ {line[q], line[r]} \subseteq Outcome => q = r

\* What has been read and not gone through is still so.
ReadIsCurrent ==
  \A q \in Req : pc[q] \in {"check", "take"} =>
    \A b \in Batch : rows[q][b] > 0 => ~Writes(q, b) /\ rows[q][b] = stock[b]

\* What the commit of a request will add to each batch
Change(q) == [b \in Batch |-> IF Writes(q, b) THEN put[q][b] - stock[b] ELSE 0]

\* A request changes the batches by what it moves.
ChangesAreMovements ==
  \A q \in Req :
    SumFunctionOnSet(Change(q), Batch)
      = IF line[q] \in Income THEN Sum(took[q]) ELSE -Sum(took[q])

OneOutcomeAtATime ==
  "outcomes" \notin overlap => OutcomesAlone /\ ReadIsCurrent /\ ChangesAreMovements

SumInv ==
  /\ FinitelyMany /\ TakesOutcome /\ PartsInOrder /\ TakenSoFar
  /\ OneHolder /\ BroughtInUnread /\ OneOutcomeAtATime
  /\ WholeOrNothing /\ BalanceIsMovements /\ BatchesAgree

=============================================================================
