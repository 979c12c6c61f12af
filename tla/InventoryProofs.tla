-------------------------- MODULE InventoryProofs --------------------------
(***************************************************************************)
(* Proofs about Inventory, for any number of requests, lines and batches   *)
(* and any quantities: every conjunct of IInv is kept by every action, the *)
(* row locks because no request has written a batch before it is created,  *)
(* OneWriter because a line's transaction row is inserted once.            *)
(*                                                                         *)
(* The second part is about Supplies, for any number of calls, items and   *)
(* receipts and any quantities: every conjunct of SupplyIInv is kept by    *)
(* every action, because who delivers an item or changes the status waits  *)
(* for the others as long as no quantity is noted as lost.                 *)
(*                                                                         *)
(* The last part is about StockDocuments, for any number of transactions,  *)
(* documents, items and rows: where a document lists its items in          *)
(* ascending order, every row held comes before every row still ahead.     *)
(***************************************************************************)
EXTENDS Inventory, Supplies, StockDocuments, SumLemmas, TLAPS

USE DEF Line, Batch

LEMMA MinOfTwo ==
  ASSUME NEW m \in Int, NEW n \in Int
  PROVE  /\ Min({m, n}) \in {m, n}
         /\ Min({m, n}) <= m /\ Min({m, n}) <= n
<1>1. \E x \in {m, n} : \A y \in {m, n} : x <= y
  <2>1. CASE m <= n
    BY <2>1
  <2>2. CASE n <= m
    BY <2>2
  <2> QED BY <2>1, <2>2
<1> QED BY <1>1 DEF Min

THEOREM Initial == Init => IInv
<1> SUFFICES ASSUME Init PROVE IInv
  OBVIOUS
<1> USE OpeningAssumption, MaxBatchAssumption DEF Init
<1>1. TypeOK
  <2>1. stock \in [Batch -> Nat]
    OBVIOUS
  <2>2. created \in 0 .. MaxBatch
    OBVIOUS
  <2> QED BY <2>1, <2>2 DEF TypeOK, PC, NoRows, NoWrites
<1>3. WithinCreated
  BY DEF WithinCreated, Writes, NoWrites, NoRows
<1>4. OneWriter /\ OwnMovements /\ TakesSomething /\ OneTransaction
  BY DEF OneWriter, OwnMovements, TakesSomething, OneTransaction
<1>5. MovedWithinCreated /\ Clean /\ InsertsIncome
  BY DEF MovedWithinCreated, Clean, InsertsIncome
<1>6. OneAfterAnother
  BY DEF OneAfterAnother, Solo, NotYetMoved, GoneThrough, WrittenInOrder,
         TakenInOrder, InOrder, Open, Writes, NoWrites
<1> QED BY <1>1, <1>3, <1>4, <1>5, <1>6 DEF IInv

\* What a request has read of a batch and what it still needs are numbers.
LEMMA RowType ==
  ASSUME TypeOK, NEW q \in Req, NEW b \in Batch
  PROVE  rows[q][b] \in Nat /\ need[q] \in Int
<1>1. rows \in [Req -> [Batch -> Nat]] /\ need \in [Req -> Int]
  BY DEF TypeOK
<1>2. rows[q] \in [Batch -> Nat]
  BY <1>1
<1> QED BY <1>1, <1>2

\* What is taken from a batch is at most what was read, and something is left.
LEMMA TakenFits ==
  ASSUME TypeOK, NEW q \in Req, NEW b \in Batch, need[q] > 0
  PROVE  Taken(q, b) \in Nat /\ Left(q, b) \in Nat
<1>1. rows[q][b] \in Nat
  BY RowType
<1>2. need[q] \in Int
  BY RowType
<1> DEFINE m == rows[q][b]
           n == need[q]
<1>3. m \in Int /\ n \in Int /\ m >= 0 /\ n > 0
  BY <1>1, <1>2
<1> HIDE DEF m, n
<1>4. Min({m, n}) \in {m, n} /\ Min({m, n}) <= m
  BY <1>3, MinOfTwo
<1>5. Min({m, n}) \in Nat /\ m - Min({m, n}) \in Nat
  BY <1>3, <1>4
<1> QED BY <1>5 DEF Taken, Left, m, n

LEMMA TypeStep ==
  ASSUME TypeOK, TakesSomething, [Next]_vars
  PROVE  TypeOK'
<1> USE DEF TypeOK, Goto, PC, Open, stored, local
<1>1. ASSUME NEW q \in Req, Begin(q) PROVE TypeOK'
  BY <1>1 DEF Begin
<1>2. ASSUME NEW q \in Req, Lookup(q) PROVE TypeOK'
  BY <1>2 DEF Lookup
<1>3. ASSUME NEW q \in Req, InsertIncome(q) PROVE TypeOK'
  <2>1. Qty[line[q]] \in Nat
    BY QtyAssumption DEF TypeOK
  <2>2. CASE \E m \in moves : m.line = line[q]
    BY <1>3, <2>2 DEF InsertIncome
  <2>3. CASE ~ \E m \in moves : m.line = line[q]
    <3> DEFINE b == created + 1
    <3>1. b \in Batch /\ created' = b
      BY <1>3, <2>3, MaxBatchAssumption DEF InsertIncome
    <3>2. /\ put' = [put EXCEPT ![q][b] = Qty[line[q]]]
          /\ took' = [took EXCEPT ![q] = {Movement(q, b, Qty[line[q]])}]
          /\ pc' = [pc EXCEPT ![q] = "txn"]
      BY <1>3, <2>3, <3>1 DEF InsertIncome
    <3>3. Movement(q, b, Qty[line[q]]) \in
            [by : Req, line : Line, batch : Batch, part : Nat, qty : Nat]
      BY <2>1, <3>1 DEF Movement
    <3> HIDE DEF b
    <3>4. put' \in [Req -> [Batch -> Nat \cup {Unwritten}]]
      BY <2>1, <3>1, <3>2
    <3>5. took' \in [Req -> SUBSET
            [by : Req, line : Line, batch : Batch, part : Nat, qty : Nat]]
      BY <3>2, <3>3
    <3>6. created' \in 0 .. MaxBatch /\ pc' \in [Req -> PC]
      BY <3>1, <3>2
    <3> QED BY <1>3, <3>4, <3>5, <3>6 DEF InsertIncome
  <2> QED BY <2>2, <2>3
<1>4. ASSUME NEW q \in Req, ReadRows(q) PROVE TypeOK'
  <2>1. Qty[line[q]] \in Int
    BY QtyAssumption DEF TypeOK
  <2> QED BY <1>4, <2>1 DEF ReadRows
<1>5. ASSUME NEW q \in Req, Check(q) PROVE TypeOK'
  <2>1. CASE UNCHANGED <<rows, need, part>>
    BY <1>5, <2>1 DEF Check
  <2>2. CASE \E b \in Batch, m \in moves : Advance(q, b, m.qty) /\ UNCHANGED pc
    <3>1. PICK b \in Batch, m \in moves : Advance(q, b, m.qty) /\ UNCHANGED pc
      BY <2>2
    <3>2. m.qty \in Nat
      OBVIOUS
    <3>3. rows' \in [Req -> [Batch -> Nat]]
      BY <3>1 DEF Advance
    <3>4. need' \in [Req -> Int] /\ part' \in [Req -> Nat]
      <4>1. need[q] - m.qty \in Int /\ part[q] + 1 \in Nat
        BY <3>2
      <4> HIDE DEF TypeOK
      <4>2. need \in [Req -> Int] /\ part \in [Req -> Nat]
        BY DEF TypeOK
      <4> QED BY <3>1, <4>1, <4>2 DEF Advance
    <3> QED BY <1>5, <3>1, <3>3, <3>4 DEF Check
  <2> QED BY <1>5, <2>1, <2>2 DEF Check
<1>6. ASSUME NEW q \in Req, Take(q) PROVE TypeOK'
  <2>1. need[q] > 0
    BY <1>6 DEF Take, TakesSomething
  <2>2. CASE UNCHANGED <<rows, need, part, put, took>> /\ Goto(q, "failing")
    BY <1>6, <2>2 DEF Take
  <2>3. CASE \E b \in Batch : Consume(q, b)
    <3>1. PICK b \in Batch : Consume(q, b)
      BY <2>3
    <3>2. Taken(q, b) \in Nat /\ Left(q, b) \in Nat
      BY <2>1, TakenFits
    <3>3. Movement(q, b, Taken(q, b)) \in
            [by : Req, line : Line, batch : Batch, part : Nat, qty : Nat]
      BY <3>2 DEF Movement
    <3>4. put' \in [Req -> [Batch -> Nat \cup {Unwritten}]]
      BY <3>1, <3>2 DEF Consume
    <3>5. took' \in [Req -> SUBSET
            [by : Req, line : Line, batch : Batch, part : Nat, qty : Nat]]
      BY <3>1, <3>3 DEF Consume
    <3>6. rows' \in [Req -> [Batch -> Nat]]
      BY <3>1 DEF Consume, Advance
    <3>7. need' \in [Req -> Int] /\ part' \in [Req -> Nat]
      BY <3>1, <3>2 DEF Consume, Advance
    <3>8. pc' \in [Req -> PC]
      BY <3>1 DEF Consume
    <3> QED BY <1>6, <3>4, <3>5, <3>6, <3>7, <3>8 DEF Take
  <2> QED BY <1>6, <2>2, <2>3 DEF Take, Consume
<1>7. ASSUME NEW q \in Req, InsertTxn(q) PROVE TypeOK'
  BY <1>7 DEF InsertTxn
<1>8. ASSUME NEW q \in Req, LockBalance(q) PROVE TypeOK'
  BY <1>8 DEF LockBalance
<1>9. ASSUME NEW q \in Req, Commit(q) PROVE TypeOK'
  <2>1. \A b \in Batch : Writes(q, b) => put[q][b] \in Nat
    <3>1. put[q] \in [Batch -> Nat \cup {Unwritten}]
      OBVIOUS
    <3> QED BY <3>1 DEF Writes
  <2>a. stock' \in [Batch -> Nat]
    BY <1>9, <2>1 DEF Commit
  <2>2. moves' \subseteq
          [by : Req, line : Line, batch : Batch, part : Nat, qty : Nat]
    BY <1>9 DEF Commit
  <2>3. txns' \subseteq Line
    BY <1>9 DEF Commit
  <2>4. /\ rows' \in [Req -> [Batch -> Nat]]
        /\ need' \in [Req -> Int] /\ part' \in [Req -> Nat]
        /\ put' \in [Req -> [Batch -> Nat \cup {Unwritten}]]
        /\ took' \in [Req -> SUBSET
             [by : Req, line : Line, batch : Batch, part : Nat, qty : Nat]]
    BY <1>9 DEF Commit, Forget, NoRows, NoWrites
  <2> QED BY <1>9, <2>a, <2>2, <2>3, <2>4 DEF Commit, Forget
<1>10. ASSUME NEW q \in Req, Rollback(q) PROVE TypeOK'
  BY <1>10 DEF Rollback, Forget, NoRows, NoWrites
<1>11. ASSUME UNCHANGED vars PROVE TypeOK'
  BY <1>11 DEF vars
<1> QED
  BY <1>1, <1>2, <1>3, <1>4, <1>5, <1>6, <1>7, <1>8, <1>9, <1>10, <1>11 DEF Next, Step, Quiescent

\* A transaction that has ended holds nothing.
LEMMA Forgotten ==
  ASSUME TypeOK, NEW q \in Req, Forget(q)
  PROVE  \A r \in Req, b \in Batch :
           rows'[r][b] \in {0, rows[r][b]} /\ put'[r][b] \in {Unwritten, put[r][b]}
<1> SUFFICES ASSUME NEW r \in Req, NEW b \in Batch
             PROVE  /\ rows'[r][b] \in {0, rows[r][b]}
                    /\ put'[r][b] \in {Unwritten, put[r][b]}
  OBVIOUS
<1>1. rows'[r] = IF r = q THEN NoRows ELSE rows[r]
  BY DEF Forget, TypeOK
<1>2. put'[r] = IF r = q THEN NoWrites ELSE put[r]
  BY DEF Forget, TypeOK
<1>3. NoRows[b] = 0 /\ NoWrites[b] = Unwritten
  BY DEF NoRows, NoWrites
<1> QED BY <1>1, <1>2, <1>3

LEMMA CreatedStep ==
  ASSUME TypeOK, WithinCreated, [Next]_vars
  PROVE  WithinCreated'
<1> USE DEF WithinCreated, Writes, stored, local
<1>1. ASSUME NEW q \in Req, Begin(q) PROVE WithinCreated'
  BY <1>1 DEF Begin
<1>2. ASSUME NEW q \in Req, Lookup(q) PROVE WithinCreated'
  BY <1>2 DEF Lookup
<1>3. ASSUME NEW q \in Req, InsertIncome(q) PROVE WithinCreated'
  <2>1. CASE \E m \in moves : m.line = line[q]
    BY <1>3, <2>1 DEF InsertIncome
  <2>2. CASE ~ \E m \in moves : m.line = line[q]
    <3> DEFINE c == created + 1
    <3>1. created' = c /\ c > created /\ put' = [put EXCEPT ![q][c] = Qty[line[q]]]
      BY <1>3, <2>2 DEF InsertIncome, TypeOK
    <3>2. put \in [Req -> [Batch -> Nat \cup {Unwritten}]]
      BY DEF TypeOK
    <3>3. ASSUME NEW b \in Batch, b > c
          PROVE  b > created /\ \A r \in Req : put'[r][b] = put[r][b]
      BY <3>1, <3>2, <3>3 DEF TypeOK
    <3> QED BY <1>3, <3>1, <3>3 DEF InsertIncome
  <2> QED BY <2>1, <2>2
<1>4. ASSUME NEW q \in Req, ReadRows(q) PROVE WithinCreated'
  BY <1>4 DEF ReadRows, TypeOK
<1>5. ASSUME NEW q \in Req, Check(q) PROVE WithinCreated'
  <2>1. created' = created /\ stock' = stock /\ put' = put
    BY <1>5 DEF Check
  <2>2. CASE UNCHANGED rows
    BY <2>1, <2>2
  <2>3. CASE \E b \in Batch, m \in moves : Advance(q, b, m.qty)
    <3>1. rows \in [Req -> [Batch -> Nat]]
      BY DEF TypeOK
    <3>2. \A r \in Req, b \in Batch : rows'[r][b] \in {0, rows[r][b]}
      BY <2>3, <3>1 DEF Advance
    <3> QED BY <2>1, <3>1, <3>2
  <2> QED BY <1>5, <2>2, <2>3 DEF Check
<1>6. ASSUME NEW q \in Req, Take(q) PROVE WithinCreated'
  <2>1. CASE UNCHANGED <<rows, need, part, put, took>>
    BY <1>6, <2>1 DEF Take
  <2>2. CASE \E b \in Batch : NextRow(q, b) /\ Consume(q, b)
    <3>1. PICK b \in Batch : NextRow(q, b) /\ Consume(q, b)
      BY <2>2
    <3>2. rows[q][b] \in Nat /\ rows[q][b] > 0
      BY <3>1 DEF NextRow, TypeOK
    <3>3. ~(b > created)
      BY <3>2
    <3>4. \A c \in Batch : c > created =>
            \A r \in Req : put'[r][c] = put[r][c] /\ rows'[r][c] = rows[r][c]
      BY <3>1, <3>3 DEF Consume, Advance, TypeOK
    <3> QED BY <1>6, <3>4 DEF Take
  <2> QED BY <1>6, <2>1, <2>2 DEF Take
<1>7. ASSUME NEW q \in Req, InsertTxn(q) PROVE WithinCreated'
  BY <1>7 DEF InsertTxn
<1>8. ASSUME NEW q \in Req, LockBalance(q) PROVE WithinCreated'
  BY <1>8 DEF LockBalance
<1>9. ASSUME NEW q \in Req, Commit(q) PROVE WithinCreated'
  <2>1. created' = created /\ \A b \in Batch : b > created => stock'[b] = stock[b]
    BY <1>9 DEF Commit
  <2>2. Forget(q)
    BY <1>9 DEF Commit
  <2> QED BY <2>1, <2>2, Forgotten
<1>10. ASSUME NEW q \in Req, Rollback(q) PROVE WithinCreated'
  <2>1. created' = created /\ stock' = stock
    BY <1>10 DEF Rollback
  <2>2. Forget(q)
    BY <1>10 DEF Rollback
  <2> QED BY <2>1, <2>2, Forgotten
<1>11. ASSUME UNCHANGED vars PROVE WithinCreated'
  BY <1>11 DEF vars
<1> QED
  BY <1>1, <1>2, <1>3, <1>4, <1>5, <1>6, <1>7, <1>8, <1>9, <1>10, <1>11 DEF Next, Step, Quiescent

\* A step is one request's: nothing of another one changes.
LEMMA Frame ==
  ASSUME TypeOK, NEW q \in Req, Begin(q) \/ Step(q) \/ Rollback(q)
  PROVE  /\ line' = line
         /\ \A r \in Req \ {q} :
              /\ pc'[r] = pc[r] /\ rows'[r] = rows[r] /\ need'[r] = need[r]
              /\ put'[r] = put[r] /\ took'[r] = took[r]
<1> USE DEF TypeOK, Goto, Forget, local
<1>1. CASE Begin(q)
  BY <1>1 DEF Begin
<1>2. CASE Lookup(q)
  BY <1>2 DEF Lookup
<1>3. CASE InsertIncome(q)
  BY <1>3 DEF InsertIncome
<1>4. CASE ReadRows(q)
  BY <1>4 DEF ReadRows
<1>5. CASE Check(q)
  BY <1>5 DEF Check, Advance
<1>6. CASE Take(q)
  BY <1>6 DEF Take, Consume, Advance
<1>7. CASE InsertTxn(q)
  BY <1>7 DEF InsertTxn
<1>8. CASE LockBalance(q)
  BY <1>8 DEF LockBalance
<1>9. CASE Commit(q)
  BY <1>9 DEF Commit
<1>10. CASE Rollback(q)
  BY <1>10 DEF Rollback
<1> QED
  BY <1>1, <1>2, <1>3, <1>4, <1>5, <1>6, <1>7, <1>8, <1>9, <1>10 DEF Step

\* What a request has moved was there before, or is a movement of its own.
LEMMA NewMovement ==
  ASSUME TypeOK, WithinCreated, NEW q \in Req,
         Begin(q) \/ Step(q) \/ Rollback(q)
  PROVE  /\ created' >= created
         /\ \A m \in took'[q] :
              \/ m \in took[q]
              \/ m.by = q /\ m.line = line[q] /\ m.batch <= created'
<1> USE DEF stored, local
<1>0. created \in Int
  BY DEF TypeOK
<1>1. CASE Begin(q)
  BY <1>0, <1>1 DEF Begin
<1>2. CASE Lookup(q)
  BY <1>0, <1>2 DEF Lookup
<1>3. CASE InsertIncome(q)
  <2>1. CASE UNCHANGED <<created, put, took>>
    BY <1>0, <2>1
  <2>2. CASE /\ created' = created + 1
             /\ took' = [took EXCEPT ![q] = {Movement(q, created', Qty[line[q]])}]
    <3>1. took'[q] = {Movement(q, created', Qty[line[q]])}
      BY <2>2 DEF TypeOK
    <3> QED BY <1>0, <2>2, <3>1 DEF Movement
  <2> QED BY <1>3, <2>1, <2>2 DEF InsertIncome
<1>4. CASE ReadRows(q)
  BY <1>0, <1>4 DEF ReadRows
<1>5. CASE Check(q)
  BY <1>0, <1>5 DEF Check
<1>6. CASE Take(q)
  <2>1. CASE UNCHANGED took
    BY <1>0, <1>6, <2>1 DEF Take
  <2>2. CASE \E b \in Batch : NextRow(q, b) /\ Consume(q, b)
    <3>1. PICK b \in Batch : NextRow(q, b) /\ Consume(q, b)
      BY <2>2
    <3>2. rows[q][b] > 0 /\ rows[q][b] \in Nat /\ b \in Int
      BY <3>1, MaxBatchAssumption DEF NextRow, TypeOK
    <3>3. b <= created
      BY <1>0, <3>2 DEF WithinCreated
    <3>4. took'[q] = took[q] \cup {Movement(q, b, Taken(q, b))}
      BY <3>1 DEF Consume, TypeOK
    <3>5. created' = created
      BY <1>6 DEF Take
    <3> QED BY <1>0, <3>3, <3>4, <3>5 DEF Movement
  <2> QED BY <1>6, <2>1, <2>2 DEF Take
<1>7. CASE InsertTxn(q)
  BY <1>0, <1>7 DEF InsertTxn
<1>8. CASE LockBalance(q)
  BY <1>0, <1>8 DEF LockBalance
<1>9. CASE Commit(q)
  BY <1>0, <1>9 DEF Commit, Forget, TypeOK
<1>10. CASE Rollback(q)
  BY <1>0, <1>10 DEF Rollback, Forget, TypeOK
<1> QED
  BY <1>1, <1>2, <1>3, <1>4, <1>5, <1>6, <1>7, <1>8, <1>9, <1>10 DEF Step

\* Only Commit writes what others read.
LEMMA StoredByCommit ==
  ASSUME NEW q \in Req, Begin(q) \/ Step(q) \/ Rollback(q), ~Commit(q)
  PROVE  stock' = stock /\ moves' = moves /\ txns' = txns
BY DEF Begin, Step, Lookup, InsertIncome, ReadRows, Check, Take, InsertTxn,
       LockBalance, Rollback, stored

LEMMA MovementsStep ==
  ASSUME TypeOK, WithinCreated, MovedWithinCreated, OwnMovements, [Next]_vars
  PROVE  MovedWithinCreated' /\ OwnMovements'
<1> USE DEF MovedWithinCreated, OwnMovements
<1>1. ASSUME NEW q \in Req, Begin(q) \/ Step(q) \/ Rollback(q)
      PROVE  MovedWithinCreated' /\ OwnMovements'
  <2> USE <1>1
  <2>1. /\ created \in Int /\ created' \in Int /\ created' >= created
        /\ \A m \in moves : m.batch \in Int
        /\ \A r \in Req : \A m \in took[r] : m.batch \in Int
    <3>1. created' = created \/ created' = created + 1
      BY DEF Begin, Step, Lookup, InsertIncome, ReadRows, Check, Take,
             InsertTxn, LockBalance, Commit, Rollback
    <3> QED BY <3>1 DEF TypeOK
  <2>2. \A r \in Req : \A m \in took'[r] :
          \/ m \in took[r]
          \/ m.by = r /\ m.line = line[r] /\ m.batch <= created'
    BY Frame, NewMovement
  <2>3. line' = line
    BY Frame
  <2>4. moves' \subseteq moves \cup took[q]
    BY StoredByCommit DEF Commit
  <2>5. OwnMovements'
    BY <2>2, <2>3
  <2>6. MovedWithinCreated'
    BY <2>1, <2>2, <2>4
  <2> QED BY <2>5, <2>6
<1>2. CASE UNCHANGED vars
  BY <1>2 DEF vars, stored, local
<1> QED BY <1>1, <1>2 DEF Next, Quiescent

LEMMA TakesStep ==
  ASSUME TypeOK, TakesSomething, InsertsIncome, [Next]_vars
  PROVE  TakesSomething' /\ InsertsIncome'
<1> USE DEF TakesSomething, InsertsIncome
<1>1. ASSUME NEW q \in Req, Begin(q) \/ Step(q) \/ Rollback(q)
      PROVE  TakesSomething' /\ InsertsIncome'
  <2> USE <1>1
  <2>1. pc'[q] = "take" => need'[q] > 0
    BY DEF Begin, Step, Lookup, InsertIncome, ReadRows, Check, Take, Consume,
           InsertTxn, LockBalance, Commit, Rollback, Goto, TypeOK
  <2>2. pc'[q] = "insert" => line[q] \in Income
    BY DEF Begin, Step, Lookup, InsertIncome, ReadRows, Check, Take, Consume,
           InsertTxn, LockBalance, Commit, Rollback, Goto, TypeOK
  <2> QED BY <2>1, <2>2, Frame
<1>2. CASE UNCHANGED vars
  BY <1>2 DEF vars, local
<1> QED BY <1>1, <1>2 DEF Next, Quiescent

\* The key of the transaction row lets one request of a line through.
LEMMA TransactionStep ==
  ASSUME TypeOK, OneTransaction, [Next]_vars
  PROVE  OneTransaction'
<1> USE DEF OneTransaction
<1>1. ASSUME NEW q \in Req, Begin(q) \/ Step(q) \/ Rollback(q)
      PROVE  OneTransaction'
  <2> USE <1>1
  <2>1. CASE Commit(q)
    <3>1. pc'[q] = "done" /\ txns' = txns \cup {line[q]} /\ pc[q] = "commit"
      BY <2>1 DEF Commit, Goto, TypeOK
    <3> QED BY <3>1, Frame
  <2>2. CASE InsertTxn(q)
    <3>1. /\ txns' = txns
          /\ pc'[q] = "balance" => line[q] \notin txns /\ ~KeyPending(q)
          /\ pc'[q] # "commit"
      BY <2>2 DEF InsertTxn, Goto, KeyTaken, TypeOK, stored
    <3> QED BY <3>1, Frame DEF KeyPending
  <2>3. CASE ~Commit(q) /\ ~InsertTxn(q)
    <3>1. txns' = txns
      BY <2>3, StoredByCommit
    <3>2. pc'[q] \in {"balance", "commit"} => pc[q] \in {"balance", "commit"}
      BY <2>3 DEF Begin, Step, Lookup, InsertIncome, ReadRows, Check, Take,
                  Consume, LockBalance, Rollback, Goto, TypeOK
    <3> QED BY <3>1, <3>2, Frame
  <2> QED BY <2>1, <2>2, <2>3
<1>2. CASE UNCHANGED vars
  BY <1>2 DEF vars, stored, local
<1> QED BY <1>1, <1>2 DEF Next, Quiescent

LEMMA WriterStep ==
  ASSUME TypeOK, OneWriter, OneTransaction, OwnMovements, [Next]_vars
  PROVE  OneWriter'
<1> USE DEF OneWriter
<1>1. ASSUME NEW q \in Req, Begin(q) \/ Step(q) \/ Rollback(q) PROVE OneWriter'
  <2>1. CASE Commit(q)
    <3>1. moves' = moves \cup took[q] /\ txns' = txns \cup {line[q]}
      BY <2>1 DEF Commit
    <3>2. line[q] \notin txns
      BY <2>1 DEF Commit, OneTransaction
    <3> QED BY <3>1, <3>2 DEF OwnMovements
  <2>2. CASE ~Commit(q)
    BY <1>1, <2>2, StoredByCommit
  <2> QED BY <2>1, <2>2
<1>2. CASE UNCHANGED vars
  BY <1>2 DEF vars, stored
<1> QED BY <1>1, <1>2 DEF Next, Quiescent

LEMMA CleanStep ==
  ASSUME TypeOK, Clean, [Next]_vars
  PROVE  Clean'
<1> USE DEF Clean
<1>1. ASSUME NEW q \in Req, Begin(q) \/ Step(q) \/ Rollback(q) PROVE Clean'
  <2> USE <1>1
  <2>1. CASE Begin(q) \/ Lookup(q)
    <3>1. put' = put /\ took' = took
      BY <2>1 DEF Begin, Lookup, local
    <3>2. pc[q] \in {"idle", "lookup"}
      BY <2>1 DEF Begin, Lookup
    <3> QED BY <3>1, <3>2, Frame DEF Open
  <2>2. CASE Commit(q) \/ Rollback(q)
    <3>1. put'[q] = NoWrites /\ took'[q] = {}
      BY <2>2 DEF Commit, Rollback, Forget, TypeOK
    <3> QED BY <3>1, Frame
  <2>3. CASE ~(Begin(q) \/ Lookup(q) \/ Commit(q) \/ Rollback(q))
    <3>1. pc'[q] \in Open \ {"lookup", "insert", "read"}
      BY <2>3 DEF Step, InsertIncome, ReadRows, Check, Take, Consume, InsertTxn,
                  LockBalance, Goto, Open, TypeOK
    <3> QED BY <3>1, Frame
  <2> QED BY <2>1, <2>2, <2>3
<1>2. CASE UNCHANGED vars
  BY <1>2 DEF vars, local
<1> QED BY <1>1, <1>2 DEF Next, Quiescent

----------------------------------------------------------------------------
(* Requests one after the other *)

\* As long as nothing overlaps, all but the request that moves are at rest.
LEMMA Alone ==
  ASSUME IInv, NEW q \in Req, Begin(q) \/ Step(q) \/ Rollback(q), Serial'
  PROVE  /\ Serial
         /\ \A r \in Req \ {q} :
              /\ pc[r] \notin Open /\ pc'[r] \notin Open
              /\ put'[r] = NoWrites /\ took'[r] = {}
<1> USE DEF IInv
<1>1. overlap \subseteq overlap'
  BY DEF Begin, Step, Lookup, InsertIncome, ReadRows, Check, Take, InsertTxn,
         LockBalance, Commit, Rollback
<1>2. Serial
  BY <1>1 DEF Serial
<1>3. ASSUME NEW r \in Req \ {q} PROVE pc[r] \notin Open
  <2>1. CASE Begin(q)
    <3> DEFINE others == {t \in Req : pc[t] \in Open}
               lines == {line[t] : t \in others}
    <3>1. /\ ~(lines # {} /\ (lines \cup {line[q]}) \cap Income # {})
          /\ ~(lines \cap Outcome # {} /\ line[q] \in Outcome)
      BY <2>1 DEF Begin, Serial
    <3>2. lines \subseteq Income \cup Outcome /\ line[q] \in Income \cup Outcome
      BY DEF TypeOK
    <3>3. lines = {}
      BY <3>1, <3>2
    <3> QED BY <3>3
  <2>2. CASE ~Begin(q)
    <3>1. pc[q] \in Open
      BY <2>2 DEF Step, Lookup, InsertIncome, ReadRows, Check, Take, InsertTxn,
                  LockBalance, Commit, Rollback, Open
    <3> QED BY <1>2, <3>1 DEF OneAfterAnother, Solo
  <2> QED BY <2>1, <2>2
<1> QED BY <1>2, <1>3, Frame DEF Clean

\* A movement of the request's own line is there only if its transaction is.
LEMMA NothingMovedBefore ==
  ASSUME IInv, Serial, NEW q \in Req, pc[q] \in Open \ {"lookup", "failing"}
  PROVE  \A m \in moves : m.line # line[q]
BY DEF IInv, OneAfterAnother, NotYetMoved, OneWriter

\* What the next batch of a serial outcome is like, and what is left of it.
LEMMA SerialTake ==
  ASSUME IInv, Serial, NEW q \in Req, Take(q)
  PROVE  \E b \in Batch :
           /\ stock[b] > 0 /\ ~Writes(q, b)
           /\ \A c \in Batch : c < b => Current(q, c) = 0
           /\ Consume(q, b)
           /\ \A c \in Batch \ {b} :
                put'[q][c] = put[q][c] /\ rows'[q][c] = rows[q][c]
           /\ rows'[q][b] = 0 /\ put'[q][b] \in Nat
           /\ need'[q] > 0 => put'[q][b] = 0 /\ need[q] > 0
<1> USE DEF IInv
<1>1. pc[q] = "take" /\ need[q] > 0
  BY DEF Take, TakesSomething
<1>2. PICK b \in Batch : NextRow(q, b) /\ Consume(q, b)
  <2>1. \A m \in moves : m.line # line[q]
    BY <1>1, NothingMovedBefore DEF Open
  <2> QED BY <2>1 DEF Take, SameMovement
<1>3. /\ \A c \in Batch : rows[q][c] \in Nat /\ c \in Int
      /\ need[q] \in Int
  BY MaxBatchAssumption DEF TypeOK
<1>4. stock[b] > 0 /\ ~Writes(q, b)
  BY <1>1, <1>2 DEF NextRow, OneAfterAnother, GoneThrough
<1>5. ASSUME NEW c \in Batch, c < b PROVE Current(q, c) = 0
  <2>1. rows[q][c] = 0
    BY <1>2, <1>3, <1>5 DEF NextRow
  <2> QED BY <1>1, <2>1 DEF OneAfterAnother, GoneThrough
<1>6. /\ put'[q] = [put[q] EXCEPT ![b] = Left(q, b)]
      /\ rows'[q] = [rows[q] EXCEPT ![b] = 0]
      /\ need'[q] = need[q] - Taken(q, b)
  BY <1>2 DEF Consume, Advance, TypeOK
<1>7. put[q] \in [Batch -> Nat \cup {Unwritten}] /\ rows[q] \in [Batch -> Nat]
  BY DEF TypeOK
<1>8. Taken(q, b) \in Nat /\ Left(q, b) \in Nat
  BY <1>1, TakenFits
<1>9. need'[q] > 0 => Left(q, b) = 0
  <2>1. rows[q][b] \in Int /\ need[q] \in Int
    BY <1>3
  <2>2. Taken(q, b) \in {rows[q][b], need[q]}
    BY <2>1, MinOfTwo DEF Taken
  <2> QED BY <1>6, <2>1, <2>2 DEF Left
<1> QED BY <1>1, <1>2, <1>4, <1>5, <1>6, <1>7, <1>8, <1>9

LEMMA OrderStep ==
  ASSUME IInv, NEW q \in Req, Begin(q) \/ Step(q) \/ Rollback(q), Serial'
  PROVE  /\ Solo' /\ NotYetMoved' /\ GoneThrough'
         /\ WrittenInOrder' /\ TakenInOrder' /\ InOrder'
<1>1. Serial /\ line' = line
  BY Alone, Frame DEF IInv
<1>2. \A r \in Req \ {q} :
        pc'[r] \notin Open /\ put'[r] = NoWrites /\ took'[r] = {}
  BY Alone
<1>3. /\ Solo /\ NotYetMoved /\ GoneThrough
      /\ WrittenInOrder /\ TakenInOrder /\ InOrder
  BY <1>1 DEF IInv, OneAfterAnother
<1>4. TypeOK /\ Clean /\ OneWriter /\ MovedWithinCreated
  BY DEF IInv
<1>5. Solo'
  BY <1>2 DEF Solo
<1>6. NotYetMoved'
  <2>1. ASSUME pc'[q] \in Open \ {"lookup", "failing"} PROVE line[q] \notin txns'
    <3>1. ~Commit(q)
      BY <1>4, <2>1 DEF Commit, Goto, Open, TypeOK
    <3>2. txns' = txns
      BY <3>1, StoredByCommit
    <3>3. CASE Lookup(q)
      BY <1>4, <2>1, <3>2, <3>3 DEF Lookup, Known, Goto, TypeOK, Open
    <3>4. CASE ~Lookup(q)
      <4>1. pc[q] \in Open \ {"lookup", "failing"}
        BY <1>4, <2>1, <3>1, <3>4
           DEF Begin, Step, InsertIncome, ReadRows, Check, Take, Consume,
               InsertTxn, LockBalance, Rollback, Goto, Open, TypeOK
      <4> QED BY <1>3, <3>2, <4>1 DEF NotYetMoved
    <3> QED BY <3>3, <3>4
  <2> QED BY <1>1, <1>2, <2>1 DEF NotYetMoved
<1>7. GoneThrough'
  <2> DEFINE Gone ==
        \A b \in Batch :
          /\ rows[q][b] > 0 => ~Writes(q, b) /\ rows[q][b] = stock[b]
          /\ rows[q][b] = 0 /\ need[q] > 0 => Current(q, b) = 0
  <2>1. ASSUME pc'[q] \in {"check", "take"} PROVE Gone'
    <3>1. CASE ReadRows(q)
      <4>1. rows'[q] = stock /\ put'[q] = NoWrites /\ stock' = stock
        BY <1>4, <3>1 DEF ReadRows, TypeOK, Clean, stored
      <4>2. \A b \in Batch : ~Writes(q, b)'
        BY <4>1 DEF Writes, NoWrites
      <4> QED BY <4>1, <4>2 DEF Current
    <3>2. CASE Check(q)
      <4>1. pc[q] = "check" /\ \A m \in moves : m.line # line[q]
        BY <1>1, <3>2, NothingMovedBefore DEF Check, Open
      <4>2. UNCHANGED <<rows, need, put, stock>>
        BY <3>2, <4>1 DEF Check, SameMovement, stored
      <4>3. Gone
        BY <1>3, <4>1 DEF GoneThrough
      <4> QED BY <4>2, <4>3 DEF Current, Writes
    <3>3. CASE Take(q)
      <4>1. PICK b \in Batch :
              /\ \A c \in Batch \ {b} :
                   put'[q][c] = put[q][c] /\ rows'[q][c] = rows[q][c]
              /\ rows'[q][b] = 0 /\ put'[q][b] \in Nat
              /\ need'[q] > 0 => put'[q][b] = 0 /\ need[q] > 0
        BY <1>1, <3>3, SerialTake
      <4>2. Gone /\ stock' = stock
        BY <1>3, <3>3 DEF GoneThrough, Take, stored
      <4> QED BY <4>1, <4>2 DEF Current, Writes, Unwritten
    <3>4. ReadRows(q) \/ Check(q) \/ Take(q)
      BY <1>4, <2>1 DEF Begin, Step, Lookup, InsertIncome, InsertTxn, LockBalance,
                        Commit, Rollback, Goto, TypeOK
    <3> QED BY <3>1, <3>2, <3>3, <3>4
  <2> QED BY <1>2, <2>1 DEF GoneThrough, Open
<1>8. WrittenInOrder'
  <2>1. ASSUME NEW b \in Batch, Writes(q, b)'
        PROVE  stock'[b] > 0 \/ \A m \in moves' : m.batch < b
    <3>1. ~Commit(q) /\ ~Rollback(q)
      <4>1. Commit(q) \/ Rollback(q) => put'[q] = NoWrites
        BY <1>4 DEF Commit, Rollback, Forget, TypeOK
      <4>2. put'[q] # NoWrites
        BY <2>1 DEF Writes, NoWrites
      <4> QED BY <4>1, <4>2
    <3>2. stock' = stock /\ moves' = moves
      BY <3>1, StoredByCommit
    <3>3. CASE Writes(q, b)
      BY <1>3, <3>2, <3>3 DEF WrittenInOrder
    <3>4. CASE InsertIncome(q) /\ ~Writes(q, b)
      <4>1. b = created + 1
        <5>1. put'[q][b] # put[q][b]
          BY <2>1, <3>4 DEF Writes
        <5>2. /\ created' = created + 1
              /\ put' = [put EXCEPT ![q][created'] = Qty[line[q]]]
          BY <3>4, <5>1 DEF InsertIncome
        <5>3. put'[q] = [put[q] EXCEPT ![created + 1] = Qty[line[q]]]
          BY <1>4, <5>2 DEF TypeOK
        <5>4. put[q] \in [Batch -> Nat \cup {Unwritten}]
          BY <1>4 DEF TypeOK
        <5> QED BY <5>1, <5>3, <5>4
      <4>2. \A m \in moves : m.batch \in Int /\ m.batch <= created
        BY <1>4, MaxBatchAssumption DEF MovedWithinCreated, TypeOK
      <4>3. created \in Int
        BY <1>4 DEF TypeOK
      <4> QED BY <3>2, <4>1, <4>2, <4>3
    <3>5. CASE Take(q) /\ ~Writes(q, b)
      BY <1>1, <2>1, <3>2, <3>5, SerialTake DEF Writes
    <3>6. CASE ~InsertIncome(q) /\ ~Take(q)
      <4>1. put' = put
        BY <3>1, <3>6 DEF Begin, Step, Lookup, ReadRows, Check, InsertTxn,
                          LockBalance, local
      <4> QED BY <1>3, <2>1, <3>2, <4>1 DEF WrittenInOrder, Writes
    <3> QED BY <3>3, <3>4, <3>5, <3>6
  <2> QED BY <1>2, <2>1 DEF WrittenInOrder, Writes, NoWrites
<1>9. TakenInOrder'
  <2>1. ASSUME line[q] \in Outcome, NEW m \in took'[q], NEW b \in Batch,
               b < m.batch
        PROVE  Current(q, b)' = 0
    <3>1. ~Commit(q) /\ ~Rollback(q)
      BY <1>4, <2>1 DEF Commit, Rollback, Forget, TypeOK
    <3>2. stock' = stock
      BY <3>1, StoredByCommit
    <3>3. CASE Take(q)
      <4>1. PICK c \in Batch :
              /\ stock[c] > 0 /\ ~Writes(q, c)
              /\ \A d \in Batch : d < c => Current(q, d) = 0
              /\ Consume(q, c)
              /\ \A d \in Batch \ {c} : put'[q][d] = put[q][d]
        BY <1>1, <3>3, SerialTake
      <4>2. took'[q] = took[q] \cup {Movement(q, c, Taken(q, c))}
        BY <1>4, <4>1 DEF Consume, TypeOK
      <4>3. Current(q, b) = 0
        BY <1>3, <2>1, <4>1, <4>2 DEF TakenInOrder, Movement
      <4>4. b # c
        BY <1>4, <4>1, <4>3 DEF Current, TypeOK
      <4> QED BY <3>2, <4>1, <4>3, <4>4 DEF Current, Writes
    <3>4. CASE ~Take(q)
      <4>1. UNCHANGED <<put, took>>
        BY <2>1, <3>1, <3>4, LineAssumption
           DEF Begin, Step, Lookup, InsertIncome, ReadRows, Check, InsertTxn,
               LockBalance, local, IInv, InsertsIncome
      <4> QED BY <1>3, <2>1, <3>2, <4>1 DEF TakenInOrder, Current, Writes
    <3> QED BY <3>3, <3>4
  <2> QED BY <1>1, <1>2, <2>1 DEF TakenInOrder
<1>10. InOrder'
  <2>1. CASE Commit(q)
    <3>1. /\ moves' = moves \cup took[q]
          /\ \A b \in Batch : stock'[b] = Current(q, b)
      BY <2>1 DEF Commit, Current
    <3>2. ASSUME NEW m \in took[q], m.line \in Outcome, NEW b \in Batch,
                 b < m.batch
          PROVE  stock'[b] = 0
      BY <1>3, <3>1, <3>2 DEF TakenInOrder, IInv, OwnMovements
    <3>3. ASSUME NEW m \in moves, m.line \in Outcome, NEW b \in Batch,
                 b < m.batch
          PROVE  stock'[b] = 0
      <4>1. stock[b] = 0
        BY <1>3, <3>3 DEF InOrder
      <4>2. m.batch \in Int /\ b \in Int
        BY <1>4, MaxBatchAssumption DEF TypeOK
      <4>3. ~Writes(q, b)
        BY <1>3, <3>3, <4>1, <4>2 DEF WrittenInOrder
      <4> QED BY <3>1, <4>1, <4>3 DEF Current
    <3> QED BY <3>1, <3>2, <3>3 DEF InOrder
  <2>2. CASE ~Commit(q)
    BY <1>3, <2>2, StoredByCommit DEF InOrder
  <2> QED BY <2>1, <2>2
<1> QED BY <1>5, <1>6, <1>7, <1>8, <1>9, <1>10

LEMMA InvariantStep ==
  ASSUME IInv, [Next]_vars
  PROVE  IInv'
<1>1. OneAfterAnother'
  <2>1. CASE \E q \in Req : Begin(q) \/ Step(q) \/ Rollback(q)
    BY <2>1, OrderStep DEF OneAfterAnother
  <2>2. CASE UNCHANGED vars
    BY <2>2 DEF IInv, OneAfterAnother, Serial, Solo, NotYetMoved, GoneThrough,
                WrittenInOrder, TakenInOrder, InOrder, Current, Writes, vars,
                stored, local
  <2> QED BY <2>1, <2>2 DEF Next, Quiescent
<1> QED
  BY <1>1, TypeStep, CreatedStep, MovementsStep, TakesStep, TransactionStep,
     WriterStep, CleanStep DEF IInv

----------------------------------------------------------------------------
\* The inductive invariant holds of every behaviour.
THEOREM Invariance == Spec => []IInv
BY Initial, InvariantStep, PTL DEF Spec

\* Every reachable state is well typed; no batch is ever negative.
THEOREM TypeCorrect == Spec => []TypeOK
<1>1. IInv => TypeOK
  BY DEF IInv
<1> QED BY <1>1, Invariance, PTL

\* The unique keys of transaction and movements let exactly one request write
\* the movements of a line, whatever is retried or duplicated.
THEOREM OneWriterPerLine == Spec => []OneWriter
<1>1. IInv => OneWriter
  BY DEF IInv
<1> QED BY <1>1, Invariance, PTL

\* recordOutcome is first in, first out as long as requests do not overlap.
THEOREM FirstInFirstOut == Spec => []FifoOrder
<1>1. IInv => FifoOrder
  BY DEF IInv, OneAfterAnother, FifoOrder
<1> QED BY <1>1, Invariance, PTL

----------------------------------------------------------------------------
(* Sums of movements *)

LEMMA BatchesAreFinite == IsFiniteSet(Batch)
BY MaxBatchAssumption, FS_Interval

LEMMA SumOfNone == Sum({}) = 0
BY SumEmpty DEF Sum

LEMMA SumOfUnion ==
  ASSUME NEW S, IsFiniteSet(S), NEW T, IsFiniteSet(T), S \cap T = {},
         \A m \in S \cup T : m.qty \in Int
  PROVE  Sum(S) \in Int /\ Sum(T) \in Int /\ Sum(S \cup T) = Sum(S) + Sum(T)
<1> DEFINE f == [m \in S |-> m.qty]
           g == [m \in T |-> m.qty]
           h == [m \in S \cup T |-> m.qty]
<1>1. /\ \A m \in S : h[m] \in Int /\ f[m] = h[m]
      /\ \A m \in T : h[m] \in Int /\ g[m] = h[m]
      /\ \A m \in S \cup T : h[m] \in Int
  OBVIOUS
<1>2. Sum(S) = SumFunctionOnSet(f, S) /\ Sum(T) = SumFunctionOnSet(g, T)
      /\ Sum(S \cup T) = SumFunctionOnSet(h, S \cup T)
  BY DEF Sum
<1> HIDE DEF f, g, h
<1>3. SumFunctionOnSet(f, S) = SumFunctionOnSet(h, S)
  BY <1>1, SumSame
<1>4. SumFunctionOnSet(g, T) = SumFunctionOnSet(h, T)
  BY <1>1, SumSame
<1>5. SumFunctionOnSet(h, S) \in Int /\ SumFunctionOnSet(h, T) \in Int
  BY <1>1, SumInt
<1>6. SumFunctionOnSet(h, S \cup T)
        = SumFunctionOnSet(h, S) + SumFunctionOnSet(h, T)
  BY <1>1, SumUnion
<1> QED BY <1>2, <1>3, <1>4, <1>5, <1>6

LEMMA SumOfOne ==
  ASSUME NEW m, m.qty \in Int
  PROVE  Sum({m}) = m.qty
<1> DEFINE f == [x \in {m} |-> x.qty]
<1>1. f[m] = m.qty /\ Sum({m}) = SumFunctionOnSet(f, {m})
  BY DEF Sum
<1> HIDE DEF f
<1>2. \A x \in {} \cup {m} : f[x] \in Int
  BY <1>1
<1>3. IsFiniteSet({}) /\ m \notin {} /\ {} \cup {m} = {m}
  BY FS_EmptySet
<1>4. SumFunctionOnSet(f, {} \cup {m}) = SumFunctionOnSet(f, {}) + f[m]
  BY <1>2, <1>3, SumAdd
<1>5. SumFunctionOnSet(f, {m}) = f[m]
  BY <1>1, <1>3, <1>4, SumEmpty
<1> QED BY <1>1, <1>5

LEMMA SumOfNext ==
  ASSUME NEW S, IsFiniteSet(S), NEW m, m \notin S, m.qty \in Int,
         \A n \in S : n.qty \in Int
  PROVE  IsFiniteSet(S \cup {m}) /\ Sum(S) \in Int /\ Sum(S \cup {m}) = Sum(S) + m.qty
<1>1. IsFiniteSet({m}) /\ IsFiniteSet(S \cup {m})
  BY FS_Singleton, FS_AddElement
<1>2. Sum(S) \in Int /\ Sum(S \cup {m}) = Sum(S) + Sum({m})
  BY <1>1, SumOfUnion
<1> QED BY <1>1, <1>2, SumOfOne

----------------------------------------------------------------------------
(* What each step writes *)

\* A step that writes the database inserts an income's batch and movement,
\* takes from a batch, or ends the transaction.
LEMMA Kinds ==
  ASSUME TypeOK, NEW q \in Req, Begin(q) \/ Step(q) \/ Rollback(q)
  PROVE  \/ put' = put /\ took' = took /\ ~Commit(q)
         \/ /\ pc[q] = "insert" /\ pc' = [pc EXCEPT ![q] = "txn"]
            /\ created + 1 \in Batch
            /\ put' = [put EXCEPT ![q] = [@ EXCEPT ![created + 1] = Qty[line[q]]]]
            /\ took' = [took EXCEPT ![q] =
                          {Movement(q, created + 1, Qty[line[q]])}]
            /\ rows' = rows /\ ~Commit(q) /\ ~Rollback(q)
         \/ /\ pc[q] = "take" /\ ~Commit(q) /\ ~Rollback(q)
            /\ \E b \in Batch : NextRow(q, b) /\ ~Locked(q, b) /\ Consume(q, b)
         \/ (Commit(q) \/ Rollback(q)) /\ Forget(q)
<1>1. CASE Begin(q)
  BY <1>1 DEF Begin, Commit, local
<1>2. CASE Lookup(q)
  BY <1>2 DEF Lookup, Commit, local
<1>3. CASE InsertIncome(q)
  <2>1. CASE \E m \in moves : m.line = line[q]
    BY <1>3, <2>1 DEF InsertIncome, Commit
  <2>2. CASE ~ \E m \in moves : m.line = line[q]
    <3>1. /\ created' = created + 1 /\ created + 1 \in Batch
          /\ created < MaxBatch
      BY <1>3, <2>2, MaxBatchAssumption DEF InsertIncome, TypeOK
    <3>2. pc[q] = "insert" /\ pc' = [pc EXCEPT ![q] = "txn"] /\ rows' = rows
      BY <1>3, <2>2 DEF InsertIncome, Goto
    <3>3. /\ put' = [put EXCEPT ![q] = [@ EXCEPT ![created + 1] = Qty[line[q]]]]
          /\ took' = [took EXCEPT ![q] = {Movement(q, created + 1, Qty[line[q]])}]
      BY <1>3, <2>2, <3>1 DEF InsertIncome
    <3>4. ~Commit(q) /\ ~Rollback(q)
      <4>1. pc'[q] = "txn"
        BY <3>2 DEF TypeOK
      <4> QED BY <3>2, <4>1 DEF Commit, Rollback, Goto, TypeOK
    <3> QED BY <3>1, <3>2, <3>3, <3>4
  <2> QED BY <2>1, <2>2
<1>4. CASE ReadRows(q)
  BY <1>4 DEF ReadRows, Commit
<1>5. CASE Check(q)
  BY <1>5 DEF Check, Commit
<1>6. CASE Take(q)
  <2>1. pc[q] = "take" /\ ~Commit(q)
    BY <1>6 DEF Take, Commit
  <2>2. CASE UNCHANGED <<put, took>>
    BY <2>1, <2>2
  <2>3. CASE \E b \in Batch : NextRow(q, b) /\ ~Locked(q, b) /\ Consume(q, b)
    <3>1. pc'[q] = "check"
      BY <2>3 DEF Consume, Goto, TypeOK
    <3>2. ~Rollback(q)
      BY <3>1 DEF Rollback, Goto, TypeOK
    <3> QED BY <2>1, <2>3, <3>2
  <2> QED BY <1>6, <2>2, <2>3 DEF Take
<1>7. CASE InsertTxn(q)
  BY <1>7 DEF InsertTxn, Commit, local
<1>8. CASE LockBalance(q)
  BY <1>8 DEF LockBalance, Commit, local
<1>9. CASE Commit(q)
  BY <1>9 DEF Commit
<1>10. CASE Rollback(q)
  BY <1>10 DEF Rollback
<1> QED
  BY <1>1, <1>2, <1>3, <1>4, <1>5, <1>6, <1>7, <1>8, <1>9, <1>10 DEF Step

\* What taking from a batch does to the request
LEMMA Consuming ==
  ASSUME TypeOK, TakesSomething, NEW q \in Req, pc[q] = "take", NEW b \in Batch,
         NextRow(q, b), Consume(q, b)
  PROVE  /\ Taken(q, b) \in Nat /\ Taken(q, b) <= need[q]
         /\ rows[q][b] > 0 /\ Left(q, b) \in Nat
         /\ put'[q] = [put[q] EXCEPT ![b] = Left(q, b)]
         /\ rows'[q] = [rows[q] EXCEPT ![b] = 0]
         /\ took'[q] = took[q] \cup {Movement(q, b, Taken(q, b))}
         /\ need'[q] = need[q] - Taken(q, b)
         /\ part'[q] = part[q] + 1 /\ part[q] \in Nat
         /\ pc'[q] = "check"
<1>1. need[q] > 0 /\ rows[q][b] > 0 /\ need[q] \in Int /\ rows[q][b] \in Nat
  <2>1. need[q] \in Int /\ rows[q][b] \in Nat
    BY RowType
  <2>2. need[q] > 0 /\ rows[q][b] > 0
    BY DEF TakesSomething, NextRow
  <2> QED BY <2>1, <2>2
<1>2. Taken(q, b) \in Nat /\ Left(q, b) \in Nat
  BY <1>1, TakenFits
<1>3. Taken(q, b) <= need[q]
  <2> DEFINE m == rows[q][b]
             n == need[q]
  <2>1. m \in Int /\ n \in Int
    BY <1>1
  <2> HIDE DEF m, n
  <2>2. Min({m, n}) <= n
    BY <2>1, MinOfTwo
  <2> QED BY <2>2 DEF Taken, m, n
<1>4. /\ put'[q] = [put[q] EXCEPT ![b] = Left(q, b)]
      /\ took'[q] = took[q] \cup {Movement(q, b, Taken(q, b))}
  BY DEF Consume, TypeOK
<1>5. /\ rows'[q] = [rows[q] EXCEPT ![b] = 0]
      /\ need'[q] = need[q] - Taken(q, b)
      /\ part'[q] = part[q] + 1 /\ part[q] \in Nat
      /\ pc'[q] = "check"
  BY DEF Consume, Advance, Goto, TypeOK
<1> QED BY <1>1, <1>2, <1>3, <1>4, <1>5

LEMMA MovesAreTyped ==
  ASSUME TypeOK
  PROVE  /\ \A m \in moves : m.qty \in Nat /\ m.line \in Line
         /\ \A q \in Req : \A m \in took[q] :
              m.qty \in Nat /\ m.line \in Line /\ m.part \in Nat
BY DEF TypeOK

----------------------------------------------------------------------------
(* A request accounts for what it has written *)

LEMMA FiniteStep ==
  ASSUME IInv, FinitelyMany, NEW q \in Req, Begin(q) \/ Step(q) \/ Rollback(q)
  PROVE  FinitelyMany'
<1> USE DEF FinitelyMany
<1>1. TypeOK /\ TakesSomething
  BY DEF IInv
<1>2. IsFiniteSet(took'[q])
  <2>1. CASE took' = took
    BY <2>1
  <2>2. CASE took' = [took EXCEPT ![q] = {Movement(q, created + 1, Qty[line[q]])}]
    <3>1. took'[q] = {Movement(q, created + 1, Qty[line[q]])}
      BY <1>1, <2>2 DEF TypeOK
    <3> DEFINE m == Movement(q, created + 1, Qty[line[q]])
    <3>2. took'[q] = {m}
      BY <3>1
    <3>3. IsFiniteSet({m})
      BY FS_Singleton
    <3> HIDE DEF m
    <3> QED BY <3>2, <3>3
  <2>3. CASE /\ pc[q] = "take"
             /\ \E b \in Batch : NextRow(q, b) /\ ~Locked(q, b) /\ Consume(q, b)
    <3>1. PICK b \in Batch : NextRow(q, b) /\ Consume(q, b)
      BY <2>3
    <3>2. took'[q] = took[q] \cup {Movement(q, b, Taken(q, b))}
      BY <1>1, <2>3, <3>1, Consuming
    <3> QED BY <3>2, FS_AddElement
  <2>4. CASE Forget(q)
    <3>1. took'[q] = {}
      BY <1>1, <2>4 DEF Forget, TypeOK
    <3> QED BY <3>1, FS_EmptySet
  <2> QED BY <1>1, <2>1, <2>2, <2>3, <2>4, Kinds
<1>3. IsFiniteSet(moves')
  <2>1. CASE Commit(q)
    BY <2>1, FS_Union DEF Commit
  <2>2. CASE ~Commit(q)
    BY <2>2, StoredByCommit
  <2> QED BY <2>1, <2>2
<1> QED BY <1>1, <1>2, <1>3, Frame

LEMMA PathStep ==
  ASSUME TypeOK, TakesOutcome, NEW q \in Req, Begin(q) \/ Step(q) \/ Rollback(q)
  PROVE  TakesOutcome'
<1> USE DEF TakesOutcome
<1>1. pc'[q] \in {"read", "check", "take"} => line[q] \in Outcome
  <2>1. CASE Lookup(q)
    <3>1. pc'[q] = "read" => line[q] \notin Income
      BY <2>1 DEF Lookup, Goto, TypeOK
    <3>2. pc'[q] \notin {"check", "take"}
      BY <2>1 DEF Lookup, Goto, TypeOK
    <3> QED BY <3>1, <3>2 DEF TypeOK
  <2>2. CASE ~Lookup(q)
    <3>1. pc'[q] \in {"read", "check", "take"} => pc[q] \in {"read", "check", "take"}
      BY <2>2 DEF Begin, Step, InsertIncome, ReadRows, Check, Take, Consume,
                  InsertTxn, LockBalance, Commit, Rollback, Goto, TypeOK
    <3> QED BY <3>1
  <2> QED BY <2>1, <2>2
<1> QED BY <1>1, Frame

LEMMA PartStep ==
  ASSUME IInv, PartsInOrder, NEW q \in Req, Begin(q) \/ Step(q) \/ Rollback(q)
  PROVE  PartsInOrder'
<1> USE DEF PartsInOrder
<1>1. TypeOK /\ TakesSomething /\ Clean
  BY DEF IInv
<1>2. \A r \in Req \ {q} : part'[r] = part[r]
  BY <1>1 DEF Begin, Step, Lookup, InsertIncome, ReadRows, Check, Advance, Take,
              Consume, InsertTxn, LockBalance, Commit, Rollback, Forget, local, TypeOK
<1>3. ASSUME pc'[q] \in {"check", "take"}, NEW m \in took'[q]
      PROVE  m.part < part'[q]
  <2>1. ReadRows(q) \/ Check(q) \/ Take(q)
    BY <1>1, <1>3 DEF Begin, Step, Lookup, InsertIncome, InsertTxn, LockBalance,
                      Commit, Rollback, Goto, TypeOK
  <2>2. ~ReadRows(q)
    BY <1>1, <1>3 DEF ReadRows, Clean
  <2>3. CASE Check(q)
    <3>1. m \in took[q] /\ pc[q] = "check"
      BY <1>3, <2>3 DEF Check
    <3>2. m.part < part[q] /\ m.part \in Nat /\ part[q] \in Nat
      BY <1>1, <3>1 DEF TypeOK
    <3>3. part'[q] = part[q] \/ part'[q] = part[q] + 1
      BY <1>1, <2>3 DEF Check, Advance, TypeOK
    <3> QED BY <3>2, <3>3
  <2>4. CASE Take(q)
    <3>1. PICK b \in Batch : NextRow(q, b) /\ Consume(q, b)
      <4>1. pc'[q] # "failing"
        BY <1>3
      <4> QED BY <1>1, <2>4, <4>1 DEF Take, Goto, TypeOK
    <3>2. pc[q] = "take"
      BY <2>4 DEF Take
    <3>3. /\ took'[q] = took[q] \cup {Movement(q, b, Taken(q, b))}
          /\ part'[q] = part[q] + 1 /\ part[q] \in Nat
      BY <1>1, <3>1, <3>2, Consuming
    <3>4. m \in took[q] => m.part < part[q] /\ m.part \in Nat
      BY <1>1, <3>2, MovesAreTyped
    <3> QED BY <1>3, <3>3, <3>4 DEF Movement
  <2> QED BY <2>1, <2>2, <2>3, <2>4
<1> QED BY <1>2, <1>3, Frame, <1>1

\* The next movement is a new one, and adds what is taken.
LEMMA NextMovement ==
  ASSUME IInv, FinitelyMany, PartsInOrder, NEW q \in Req, pc[q] = "take",
         NEW b \in Batch, NextRow(q, b), Consume(q, b)
  PROVE  /\ Sum(took[q]) \in Int /\ Taken(q, b) \in Nat
         /\ Sum(took'[q]) = Sum(took[q]) + Taken(q, b)
<1> DEFINE m == Movement(q, b, Taken(q, b))
<1>1. TypeOK /\ TakesSomething
  BY DEF IInv
<1>2. took'[q] = took[q] \cup {m} /\ Taken(q, b) \in Nat /\ part[q] \in Nat
  BY <1>1, Consuming
<1>3. m.qty = Taken(q, b) /\ m.part = part[q]
  BY DEF Movement
<1>4. m \notin took[q]
  BY <1>2, <1>3 DEF PartsInOrder
<1>5. IsFiniteSet(took[q]) /\ \A n \in took[q] : n.qty \in Int
  BY <1>1, MovesAreTyped DEF FinitelyMany
<1> HIDE DEF m
<1>6. Sum(took[q]) \in Int /\ Sum(took[q] \cup {m}) = Sum(took[q]) + m.qty
  BY <1>2, <1>3, <1>4, <1>5, SumOfNext
<1> QED BY <1>2, <1>3, <1>6

LEMMA TakenStep ==
  ASSUME IInv, FinitelyMany, TakesOutcome, PartsInOrder, TakenSoFar, NEW q \in Req,
         Begin(q) \/ Step(q) \/ Rollback(q)
  PROVE  TakenSoFar'
<1>1. /\ TypeOK /\ TakesSomething /\ InsertsIncome /\ OneWriter /\ Clean
      /\ line' = line /\ Qty[line[q]] \in Nat
  BY Frame, QtyAssumption DEF IInv, TypeOK
<1>2. txns \subseteq txns'
  BY StoredByCommit DEF Commit
<1> DEFINE Mid == {"check", "take", "txn", "balance", "commit"}
           So(r) ==
             /\ line[r] \in Outcome /\ line[r] \notin txns =>
                  /\ need[r] >= 0 /\ Sum(took[r]) = Qty[line[r]] - need[r]
                  /\ pc[r] \notin {"check", "take"} => need[r] = 0
             /\ line[r] \in Income => Sum(took[r]) = Qty[line[r]]
<1>3. ASSUME NEW r \in Req \ {q}, pc'[r] \in Mid
      PROVE  So(r)'
  <2>1. /\ pc'[r] = pc[r] /\ need'[r] = need[r] /\ took'[r] = took[r]
        /\ line'[r] = line[r]
    BY <1>1, <1>3, Frame
  <2>2. So(r)
    BY <1>3, <2>1 DEF TakenSoFar
  <2>3. line[r] \notin txns' => line[r] \notin txns
    BY <1>2
  <2> QED BY <2>1, <2>2, <2>3
<1>4. ASSUME pc'[q] \in Mid, InsertIncome(q)
      PROVE  So(q)'
  <2>1. took'[q] = {Movement(q, created + 1, Qty[line[q]])} /\ line[q] \in Income
    <3>1. pc[q] = "insert" /\ pc'[q] = "txn"
      BY <1>1, <1>4 DEF InsertIncome, Goto, TypeOK
    <3>2. took' = [took EXCEPT ![q] = {Movement(q, created', Qty[line[q]])}]
          /\ created' = created + 1
      BY <1>1, <1>4, <3>1 DEF InsertIncome, Goto, TypeOK
    <3> QED BY <1>1, <3>1, <3>2 DEF InsertsIncome, TypeOK
  <2>2. Movement(q, created + 1, Qty[line[q]]).qty = Qty[line[q]]
    BY DEF Movement
  <2>3. Sum(took'[q]) = Qty[line[q]]
    BY <1>1, <2>1, <2>2, SumOfOne
  <2> QED BY <1>1, <2>1, <2>3, LineAssumption
<1>5. ASSUME pc'[q] \in Mid, ReadRows(q)
      PROVE  So(q)'
  <2>1. took'[q] = {} /\ need'[q] = Qty[line[q]] /\ pc'[q] = "check"
    BY <1>1, <1>5 DEF ReadRows, Clean, Goto, TypeOK
  <2>2. line[q] \in Outcome /\ line[q] \notin Income
    BY <1>5, LineAssumption DEF ReadRows, TakesOutcome
  <2>3. Sum(took'[q]) = 0
    BY <2>1, SumOfNone
  <2> QED BY <1>1, <2>1, <2>2, <2>3
<1>6. ASSUME pc'[q] \in Mid, Check(q)
      PROVE  So(q)'
  <2>1. pc[q] = "check" /\ So(q) /\ txns' = txns /\ took' = took
    BY <1>6 DEF Check, TakenSoFar, stored
  <2>2. CASE line[q] \in txns
    BY <1>1, <2>1, <2>2
  <2>3. CASE line[q] \notin txns
    <3>1. \A m \in moves : m.line # line[q]
      BY <1>1, <2>3 DEF OneWriter
    <3>2. need' = need
      BY <1>6, <3>1 DEF Check, SameMovement
    <3>3. pc'[q] \notin {"check", "take"} => need[q] <= 0
      BY <1>1, <1>6, <3>1 DEF Check, SameMovement, Goto, TypeOK
    <3>4. need[q] \in Int
      BY <1>1 DEF TypeOK
    <3> QED BY <1>1, <2>1, <3>2, <3>3, <3>4
  <2> QED BY <2>2, <2>3
<1>7. ASSUME pc'[q] \in Mid, Take(q)
      PROVE  So(q)'
  <2>1. pc[q] = "take" /\ So(q) /\ txns' = txns
    BY <1>7 DEF Take, TakenSoFar, stored
  <2>2. PICK b \in Batch : NextRow(q, b) /\ Consume(q, b)
    <3>1. pc'[q] # "failing"
      BY <1>7
    <3> QED BY <1>1, <1>7, <3>1 DEF Take, Goto, TypeOK
  <2>3. /\ need'[q] = need[q] - Taken(q, b) /\ Taken(q, b) <= need[q]
        /\ pc'[q] = "check"
    BY <1>1, <2>1, <2>2, Consuming
  <2>4. /\ Sum(took[q]) \in Int /\ Taken(q, b) \in Nat
        /\ Sum(took'[q]) = Sum(took[q]) + Taken(q, b)
    BY <2>1, <2>2, NextMovement
  <2>5. need[q] \in Int
    BY <1>1 DEF TypeOK
  <2>6. line[q] \in Outcome /\ line[q] \notin Income
    BY <2>1, LineAssumption DEF TakesOutcome
  <2> QED BY <1>1, <2>1, <2>3, <2>4, <2>5, <2>6
<1>8. ASSUME pc'[q] \in Mid, InsertTxn(q) \/ LockBalance(q)
      PROVE  So(q)'
  <2>1. /\ pc[q] \in {"txn", "balance"} /\ pc'[q] \notin {"check", "take"}
        /\ txns' = txns /\ took' = took /\ need' = need
    BY <1>1, <1>8 DEF InsertTxn, LockBalance, stored, local, Goto, TypeOK
  <2>2. So(q)
    BY <2>1 DEF TakenSoFar
  <2> QED BY <1>1, <2>1, <2>2
<1>9. ASSUME pc'[q] \in Mid
      PROVE  So(q)'
  <2>1. ~(Begin(q) \/ Lookup(q) \/ Commit(q) \/ Rollback(q))
    BY <1>1, <1>9 DEF Begin, Lookup, Commit, Rollback, Goto, TypeOK
  <2> QED BY <1>4, <1>5, <1>6, <1>7, <1>8, <1>9, <2>1 DEF Step
<1>10. \A r \in Req : pc'[r] \in Mid => So(r)'
  BY <1>3, <1>9
<1> QED BY <1>10 DEF TakenSoFar

\* Whoever writes a batch has just created it, or has waited for its row.
LEMMA HolderStep ==
  ASSUME IInv, OneHolder, NEW q \in Req, Begin(q) \/ Step(q) \/ Rollback(q)
  PROVE  OneHolder'
<1>1. TypeOK /\ TakesSomething /\ WithinCreated /\ created \in Int
  BY DEF IInv, TypeOK
<1>2. \A r \in Req \ {q} : put'[r] = put[r]
  BY <1>1, Frame
<1>3. ASSUME NEW r \in Req \ {q}, NEW b \in Batch, put'[q][b] # Unwritten, Writes(r, b)
      PROVE  FALSE
  <2>1. ~Writes(q, b)
    BY <1>3 DEF OneHolder
  <2>2. CASE put' = put
    BY <1>3, <2>1, <2>2 DEF Writes
  <2>3. CASE /\ created + 1 \in Batch
             /\ put' = [put EXCEPT ![q] = [@ EXCEPT ![created + 1] = Qty[line[q]]]]
    <3>1. put'[q] = [put[q] EXCEPT ![created + 1] = Qty[line[q]]]
      BY <1>1, <2>3 DEF TypeOK
    <3>2. b = created + 1
      BY <1>1, <1>3, <2>1, <3>1 DEF Writes, TypeOK
    <3> QED BY <1>1, <1>3, <3>2 DEF WithinCreated
  <2>4. CASE /\ pc[q] = "take"
             /\ \E c \in Batch : NextRow(q, c) /\ ~Locked(q, c) /\ Consume(q, c)
    <3>1. PICK c \in Batch : NextRow(q, c) /\ ~Locked(q, c) /\ Consume(q, c)
      BY <2>4
    <3>2. put'[q] = [put[q] EXCEPT ![c] = Left(q, c)]
      BY <1>1, <2>4, <3>1, Consuming
    <3>3. b = c
      BY <1>1, <1>3, <2>1, <3>2 DEF Writes, TypeOK
    <3> QED BY <1>3, <3>1, <3>3 DEF Locked
  <2>5. CASE Forget(q)
    BY <1>1, <1>3, <2>5 DEF Forget, NoWrites, TypeOK
  <2> QED BY <1>1, <2>2, <2>3, <2>4, <2>5, Kinds
<1> QED BY <1>2, <1>3 DEF OneHolder, Writes

\* A row is only written by the request that holds its lock.
LEMMA HeldRowsStand ==
  ASSUME IInv, OneHolder, NEW q \in Req, Begin(q) \/ Step(q) \/ Rollback(q),
         NEW r \in Req \ {q}, NEW b \in Batch, Writes(r, b)
  PROVE  stock'[b] = stock[b]
<1>1. ~Writes(q, b)
  BY DEF OneHolder
<1>2. CASE Commit(q)
  BY <1>1, <1>2 DEF Commit
<1>3. CASE ~Commit(q)
  BY <1>3, StoredByCommit
<1> QED BY <1>2, <1>3

\* A request that goes on with the next batch has left one behind.
LEMMA Advancing ==
  ASSUME TypeOK, NEW q \in Req, Check(q) \/ Take(q)
  PROVE  \A b \in Batch : rows'[q][b] \in {0, rows[q][b]}
<1>1. rows \in [Req -> [Batch -> Nat]]
  BY DEF TypeOK
<1>2. CASE rows' = rows
  BY <1>2
<1>3. CASE \E b \in Batch : rows' = [rows EXCEPT ![q][b] = 0]
  <2>1. PICK b \in Batch : rows' = [rows EXCEPT ![q][b] = 0]
    BY <1>3
  <2>2. rows'[q] = [rows[q] EXCEPT ![b] = 0]
    BY <1>1, <2>1
  <2> QED BY <1>1, <2>2
<1> QED BY <1>2, <1>3 DEF Check, Take, Consume, Advance

\* What a step reads of a batch it reads from the table.
LEMMA RowsRead ==
  ASSUME TypeOK, NEW q \in Req, Begin(q) \/ Step(q) \/ Rollback(q)
  PROVE  \A b \in Batch : rows'[q][b] \in {0, rows[q][b], stock[b]}
<1>1. CASE ReadRows(q)
  BY <1>1 DEF ReadRows, TypeOK
<1>2. CASE Check(q)
  BY <1>2, Advancing
<1>3. CASE Take(q)
  BY <1>3, Advancing
<1>4. CASE Commit(q) \/ Rollback(q)
  BY <1>4, Forgotten DEF Commit, Rollback
<1>5. CASE ~(ReadRows(q) \/ Check(q) \/ Take(q) \/ Commit(q) \/ Rollback(q))
  <2>1. rows' = rows
    BY <1>5 DEF Begin, Step, Lookup, InsertIncome, InsertTxn, LockBalance, local
  <2> QED BY <2>1
<1> QED BY <1>1, <1>2, <1>3, <1>4, <1>5

LEMMA BroughtInStep ==
  ASSUME IInv, TakesOutcome, OneHolder, BroughtInUnread, NEW q \in Req,
         Begin(q) \/ Step(q) \/ Rollback(q)
  PROVE  BroughtInUnread'
<1>1. /\ TypeOK /\ WithinCreated /\ Clean /\ created \in Int /\ line' = line
      /\ TakesSomething
  <2>1. TypeOK /\ WithinCreated /\ Clean /\ TakesSomething
    BY DEF IInv
  <2>2. created \in Int
    BY <2>1 DEF TypeOK
  <2> QED BY <2>1, <2>2, Frame
<1>2. \A r \in Req \ {q} : put'[r] = put[r] /\ rows'[r] = rows[r]
  BY <1>1, Frame
<1>3. ASSUME NEW r \in Req \ {q}, line[r] \in Income, NEW b \in Batch, Writes(r, b)
      PROVE  stock'[b] = 0 /\ \A t \in Req \ {r} : rows'[t][b] = 0
  <2>1. stock[b] = 0 /\ \A t \in Req \ {r} : rows[t][b] = 0
    BY <1>3 DEF BroughtInUnread
  <2>2. stock'[b] = 0
    BY <1>3, <2>1, HeldRowsStand
  <2>3. rows'[q][b] = 0
    BY <1>1, <1>3, <2>1, RowsRead
  <2> QED BY <1>2, <2>1, <2>2, <2>3
<1>4. ASSUME line[q] \in Income, NEW b \in Batch, put'[q][b] # Unwritten
      PROVE  stock'[b] = 0 /\ \A t \in Req \ {q} : rows'[t][b] = 0
  <2>1. ~Forget(q) /\ pc[q] # "take"
    <3>1. Forget(q) => put'[q] = NoWrites
      BY <1>1 DEF Forget, TypeOK
    <3>2. NoWrites[b] = Unwritten
      BY DEF NoWrites
    <3>3. pc[q] = "take" => line[q] \in Outcome
      BY DEF TakesOutcome
    <3> QED BY <1>4, <3>1, <3>2, <3>3, LineAssumption
  <2>2. stock' = stock
    BY <2>1, StoredByCommit DEF Commit
  <2>3. CASE put' = put
    BY <1>2, <1>4, <2>2, <2>3 DEF BroughtInUnread, Writes
  <2>4. CASE /\ pc[q] = "insert"
             /\ created + 1 \in Batch
             /\ put' = [put EXCEPT ![q] = [@ EXCEPT ![created + 1] = Qty[line[q]]]]
    <3>1. put'[q] = [put[q] EXCEPT ![created + 1] = Qty[line[q]]]
      BY <1>1, <2>4 DEF TypeOK
    <3>2. put[q] = NoWrites
      BY <1>1, <2>4 DEF Clean
    <3>3. b = created + 1
      BY <1>4, <3>1, <3>2 DEF NoWrites
    <3> QED BY <1>1, <1>2, <2>2, <3>3 DEF WithinCreated
  <2> QED BY <1>1, <2>1, <2>3, <2>4, Kinds
<1> QED BY <1>1, <1>2, <1>3, <1>4 DEF BroughtInUnread, Writes

----------------------------------------------------------------------------
(* Outcomes one after the other *)

\* As long as no outcomes overlap, all but the outcome that moves are at rest.
LEMMA OutcomeAlone ==
  ASSUME IInv, OneOutcomeAtATime, NEW q \in Req, Begin(q) \/ Step(q) \/ Rollback(q),
         "outcomes" \notin overlap'
  PROVE  /\ "outcomes" \notin overlap
         /\ OutcomesAlone'
         /\ line[q] \in Outcome =>
              \A r \in Req \ {q} : line[r] \in Outcome => pc[r] \notin Open
<1>1. TypeOK /\ line' = line
  BY Frame DEF IInv
<1>2. "outcomes" \notin overlap
  BY DEF Begin, Step, Lookup, InsertIncome, ReadRows, Check, Take, InsertTxn,
         LockBalance, Commit, Rollback
<1>3. OutcomesAlone
  BY <1>2 DEF OneOutcomeAtATime
<1>4. ASSUME NEW r \in Req \ {q}, line[q] \in Outcome, line[r] \in Outcome
      PROVE  pc[r] \notin Open
  <2>1. CASE Begin(q)
    <3> DEFINE others == {t \in Req : pc[t] \in Open}
               lines == {line[t] : t \in others}
    <3>1. ~(lines \cap Outcome # {} /\ line[q] \in Outcome)
      BY <2>1 DEF Begin
    <3>2. line[r] \notin lines
      BY <1>4, <3>1
    <3> QED BY <3>2
  <2>2. CASE ~Begin(q)
    <3>1. pc[q] \in Open
      BY <2>2 DEF Step, Lookup, InsertIncome, ReadRows, Check, Take, InsertTxn,
                  LockBalance, Commit, Rollback, Open
    <3> QED BY <1>3, <1>4, <3>1 DEF OutcomesAlone
  <2> QED BY <2>1, <2>2
<1>5. OutcomesAlone'
  <2>1. \A r \in Req \ {q} : pc'[r] = pc[r]
    BY <1>1, Frame
  <2> QED BY <1>1, <1>3, <1>4, <2>1 DEF OutcomesAlone
<1> QED BY <1>2, <1>4, <1>5

LEMMA CurrentStep ==
  ASSUME IInv, SumInv, NEW q \in Req, Begin(q) \/ Step(q) \/ Rollback(q),
         "outcomes" \notin overlap'
  PROVE  ReadIsCurrent'
<1>1. /\ TypeOK /\ Clean /\ TakesSomething /\ line' = line
      /\ TakesOutcome /\ OneHolder /\ BroughtInUnread
  BY Frame DEF IInv, SumInv
<1>2. /\ OutcomesAlone /\ ReadIsCurrent
      /\ line[q] \in Outcome =>
           \A r \in Req \ {q} : line[r] \in Outcome => pc[r] \notin Open
  BY OutcomeAlone DEF SumInv, OneOutcomeAtATime
<1>3. ASSUME NEW r \in Req \ {q}, pc'[r] \in {"check", "take"}, NEW b \in Batch,
             rows'[r][b] > 0
      PROVE  ~Writes(r, b)' /\ rows'[r][b] = stock'[b]
  <2>1. pc[r] = pc'[r] /\ rows'[r] = rows[r] /\ put'[r] = put[r]
    BY <1>1, Frame
  <2>2. ~Writes(r, b) /\ rows[r][b] = stock[b] /\ rows[r][b] > 0
    BY <1>2, <1>3, <2>1 DEF ReadIsCurrent
  <2>3. stock'[b] = stock[b]
    <3>1. CASE Commit(q)
      <4>1. line[q] \in Income
        <5>1. line[r] \in Outcome /\ pc[r] \in Open
          BY <1>1, <1>3, <2>1 DEF TakesOutcome, Open
        <5> QED BY <1>1, <1>2, <5>1 DEF TypeOK
      <4>2. ~Writes(q, b)
        BY <1>1, <2>2, <4>1 DEF BroughtInUnread
      <4> QED BY <3>1, <4>2 DEF Commit
    <3>2. CASE ~Commit(q)
      BY <3>2, StoredByCommit
    <3> QED BY <3>1, <3>2
  <2> QED BY <2>1, <2>2, <2>3 DEF Writes
<1>4. ASSUME pc'[q] \in {"check", "take"}, NEW b \in Batch, rows'[q][b] > 0
      PROVE  put'[q][b] = Unwritten /\ rows'[q][b] = stock'[b]
  <2>1. stock' = stock
    <3>1. ~Commit(q)
      BY <1>1, <1>4 DEF Commit, Goto, TypeOK
    <3> QED BY <3>1, StoredByCommit
  <2>2. CASE ReadRows(q)
    BY <1>1, <2>1, <2>2 DEF ReadRows, Clean, NoWrites, TypeOK
  <2>3. CASE Check(q)
    <3>1. pc[q] = "check" /\ put' = put
      BY <2>3 DEF Check
    <3>2. rows'[q][b] \in {0, rows[q][b]}
      BY <1>1, <2>3, Advancing
    <3>3. rows'[q][b] = rows[q][b]
      BY <1>4, <3>2
    <3> QED BY <1>2, <1>4, <2>1, <3>1, <3>3 DEF ReadIsCurrent, Writes
  <2>4. CASE Take(q)
    <3>1. pc[q] = "take" /\ pc'[q] # "failing"
      BY <1>4, <2>4 DEF Take
    <3>2. PICK c \in Batch : NextRow(q, c) /\ Consume(q, c)
      BY <1>1, <2>4, <3>1 DEF Take, Goto, TypeOK
    <3>3. /\ put'[q] = [put[q] EXCEPT ![c] = Left(q, c)]
          /\ rows'[q] = [rows[q] EXCEPT ![c] = 0]
      BY <1>1, <3>1, <3>2, Consuming
    <3>4. b # c
      <4>1. rows[q] \in [Batch -> Nat]
        BY <1>1 DEF TypeOK
      <4>2. b = c => rows'[q][b] = 0
        BY <3>3, <4>1
      <4> QED BY <1>4, <4>2
    <3>5. put'[q][b] = put[q][b] /\ rows'[q][b] = rows[q][b]
      BY <1>1, <3>3, <3>4 DEF TypeOK
    <3> QED BY <1>2, <1>4, <2>1, <3>1, <3>5 DEF ReadIsCurrent, Writes
  <2>5. ReadRows(q) \/ Check(q) \/ Take(q)
    BY <1>1, <1>4 DEF Begin, Step, Lookup, InsertIncome, InsertTxn, LockBalance,
                      Commit, Rollback, Goto, TypeOK
  <2> QED BY <2>2, <2>3, <2>4, <2>5
<1> QED BY <1>3, <1>4 DEF ReadIsCurrent, Writes

LEMMA ChangeIsTyped ==
  ASSUME TypeOK, NEW q \in Req
  PROVE  \A b \in Batch : Change(q)[b] \in Int
<1> SUFFICES ASSUME NEW b \in Batch PROVE Change(q)[b] \in Int
  OBVIOUS
<1>1. stock[b] \in Nat /\ put[q][b] \in Nat \cup {Unwritten}
  <2>1. stock \in [Batch -> Nat] /\ put[q] \in [Batch -> Nat \cup {Unwritten}]
    BY DEF TypeOK
  <2> QED BY <2>1
<1>2. CASE Writes(q, b)
  <2>1. put[q][b] \in Nat
    BY <1>1, <1>2 DEF Writes
  <2>2. put[q][b] - stock[b] \in Int
    BY <1>1, <2>1
  <2> QED BY <1>2, <2>2 DEF Change
<1>3. CASE ~Writes(q, b)
  BY <1>3 DEF Change
<1> QED BY <1>2, <1>3

LEMMA NoChange ==
  ASSUME NEW q \in Req, put[q] = NoWrites
  PROVE  SumFunctionOnSet(Change(q), Batch) = 0
<1> DEFINE f == Change(q)
<1>1. \A b \in Batch : f[b] = 0
  BY DEF Change, Writes, NoWrites
<1> HIDE DEF f
<1>2. SumFunctionOnSet(f, Batch) = 0
  BY <1>1, BatchesAreFinite, SumZero
<1> QED BY <1>2 DEF f

LEMMA ChangeOfOne ==
  ASSUME NEW b \in Batch, NEW f, NEW h,
         \A x \in Batch : f[x] \in Int /\ h[x] \in Int,
         \A x \in Batch \ {b} : h[x] = f[x]
  PROVE  SumFunctionOnSet(h, Batch) = SumFunctionOnSet(f, Batch) - f[b] + h[b]
<1> DEFINE D == Batch
<1>1. IsFiniteSet(D) /\ b \in D
  BY BatchesAreFinite
<1>2. \A x \in D : f[x] \in Int /\ h[x] \in Int
  OBVIOUS
<1>3. \A x \in D \ {b} : h[x] = f[x]
  OBVIOUS
<1> HIDE DEF D
<1>4. /\ SumFunctionOnSet(f, D) = f[b] + SumFunctionOnSet(f, D \ {b})
      /\ SumFunctionOnSet(h, D) = h[b] + SumFunctionOnSet(h, D \ {b})
  BY <1>1, <1>2, SumRemove
<1>5. IsFiniteSet(D \ {b}) /\ \A x \in D \ {b} : f[x] \in Int /\ h[x] \in Int
  BY <1>1, <1>2, FS_RemoveElement
<1>6. SumFunctionOnSet(h, D \ {b}) = SumFunctionOnSet(f, D \ {b})
  BY <1>3, <1>5, SumSame
<1>7. SumFunctionOnSet(f, D \ {b}) \in Int
  BY <1>5, SumInt
<1>8. SumFunctionOnSet(h, D) = SumFunctionOnSet(f, D) - f[b] + h[b]
  BY <1>1, <1>2, <1>4, <1>6, <1>7
<1> QED BY <1>8 DEF D

LEMMA ChangesStep ==
  ASSUME IInv, SumInv, IInv', NEW q \in Req, Begin(q) \/ Step(q) \/ Rollback(q),
         "outcomes" \notin overlap'
  PROVE  ChangesAreMovements'
<1>1. /\ TypeOK /\ TypeOK' /\ Clean /\ TakesSomething /\ line' = line /\ WithinCreated
      /\ InsertsIncome
  BY Frame DEF IInv
<1>2. /\ TakesOutcome /\ OneHolder /\ FinitelyMany /\ PartsInOrder
      /\ ReadIsCurrent /\ ChangesAreMovements
  BY OutcomeAlone DEF SumInv, OneOutcomeAtATime
<1> DEFINE Adds(r) == SumFunctionOnSet(Change(r), Batch)
                        = IF line[r] \in Income THEN Sum(took[r]) ELSE -Sum(took[r])
           New(r) == [b \in Batch |->
                        IF put'[r][b] # Unwritten THEN put'[r][b] - stock'[b] ELSE 0]
<1>3. \A r \in Req : Change(r)' = New(r) /\ Adds(r)
  BY <1>2 DEF Change, Writes, ChangesAreMovements
<1>4. ASSUME NEW r \in Req, put'[r] = put[r], took'[r] = took[r],
             \A b \in Batch : Writes(r, b) => stock'[b] = stock[b]
      PROVE  Adds(r)'
  <2>1. New(r) = Change(r)
    BY <1>4 DEF Change, Writes
  <2>2. Change(r)' = Change(r)
    BY <1>3, <2>1
  <2>3. Sum(took[r])' = Sum(took[r])
    BY <1>4 DEF Sum
  <2> HIDE DEF New
  <2> QED BY <1>1, <1>3, <2>2, <2>3
<1>5. ASSUME NEW r \in Req \ {q}
      PROVE  Adds(r)'
  <2>1. put'[r] = put[r] /\ took'[r] = took[r]
    BY <1>1, Frame
  <2>2. \A b \in Batch : Writes(r, b) => stock'[b] = stock[b]
    BY <1>2, HeldRowsStand
  <2> HIDE DEF Adds
  <2> QED BY <1>4, <2>1, <2>2
<1>6. CASE put' = put /\ took' = took /\ ~Commit(q)
  <2>1. stock' = stock
    BY <1>6, StoredByCommit
  <2> HIDE DEF Adds
  <2>2. Adds(q)'
    BY <1>4, <1>6, <2>1
  <2> QED BY <1>5, <2>2 DEF ChangesAreMovements, Adds
<1>7. CASE /\ pc[q] = "insert" /\ ~Commit(q)
           /\ created + 1 \in Batch
           /\ put' = [put EXCEPT ![q] = [@ EXCEPT ![created + 1] = Qty[line[q]]]]
           /\ took' = [took EXCEPT ![q] = {Movement(q, created + 1, Qty[line[q]])}]
  <2> DEFINE f == Change(q)
             h == Change(q)'
             b == created + 1
             n == Qty[line[q]]
  <2>1. line[q] \in Income /\ n \in Nat /\ put[q] = NoWrites
    BY <1>1, <1>7, QtyAssumption DEF InsertsIncome, TypeOK, Clean
  <2>2. took'[q] = {Movement(q, b, n)} /\ put'[q] = [put[q] EXCEPT ![b] = n]
    BY <1>1, <1>7 DEF TypeOK
  <2>3. Sum(took'[q]) = n
    <3>1. Movement(q, b, n).qty = n
      BY DEF Movement
    <3>2. n \in Int
      BY <2>1
    <3> HIDE DEF n, b
    <3>3. Sum({Movement(q, b, n)}) = n
      BY <3>1, <3>2, SumOfOne
    <3> QED BY <2>2, <3>3
  <2>4. stock[b] = 0 /\ stock' = stock
    <3>1. b > created
      BY <1>1 DEF TypeOK
    <3> QED BY <1>1, <1>7, <3>1, StoredByCommit DEF WithinCreated
  <2>5. /\ f[b] = 0 /\ h[b] = n
        /\ \A x \in Batch \ {b} : h[x] = f[x]
    <3>1. put'[q][b] = n /\ put[q][b] = Unwritten /\ b \in Batch
      <4>1. b \in Batch /\ put[q][b] = Unwritten
        BY <1>7, <2>1 DEF NoWrites
      <4>2. put[q] \in [Batch -> Nat \cup {Unwritten}]
        BY <1>1 DEF TypeOK
      <4> QED BY <2>2, <4>1, <4>2
    <3>2. h = New(q)
      BY <1>3
    <3>3. h[b] = n
      <4>1. n # Unwritten /\ n - 0 = n
        BY <2>1 DEF Unwritten
      <4> QED BY <2>4, <3>1, <3>2, <4>1
    <3>4. f[b] = 0
      BY <3>1 DEF Change, Writes
    <3>5. \A x \in Batch \ {b} : put'[q][x] = put[q][x]
      BY <1>1, <2>2 DEF TypeOK
    <3> QED BY <2>4, <3>2, <3>3, <3>4, <3>5 DEF Change, Writes
  <2>6. \A x \in Batch : f[x] \in Int /\ h[x] \in Int
    <3>1. \A x \in Batch : f[x] \in Int
      BY <1>1, ChangeIsTyped
    <3> QED BY <2>1, <2>5, <3>1
  <2>7. SumFunctionOnSet(f, Batch) = 0
    BY <2>1, NoChange
  <2>8. b \in Batch
    BY <1>7
  <2> HIDE DEF f, h, b
  <2>9. SumFunctionOnSet(h, Batch) = SumFunctionOnSet(f, Batch) - f[b] + h[b]
    BY <2>5, <2>6, <2>8, ChangeOfOne
  <2>10. SumFunctionOnSet(h, Batch) = n
    BY <2>1, <2>5, <2>7, <2>9
  <2>11. Adds(q)'
    <3>1. SumFunctionOnSet(Change(q), Batch)' = n
      BY <2>10 DEF h
    <3>2. Sum(took[q])' = n
      BY <2>3 DEF Sum
    <3> QED BY <1>1, <2>1, <3>1, <3>2
  <2> QED BY <1>5, <2>11 DEF ChangesAreMovements
<1>8. CASE /\ pc[q] = "take" /\ ~Commit(q)
           /\ \E b \in Batch : NextRow(q, b) /\ ~Locked(q, b) /\ Consume(q, b)
  <2>1. PICK b \in Batch : NextRow(q, b) /\ Consume(q, b)
    BY <1>8
  <2> DEFINE f == Change(q)
             h == Change(q)'
             n == Taken(q, b)
  <2>2. /\ n \in Nat /\ Left(q, b) \in Nat /\ rows[q][b] > 0
        /\ put'[q] = [put[q] EXCEPT ![b] = Left(q, b)]
    BY <1>1, <1>8, <2>1, Consuming
  <2>3. /\ Sum(took[q]) \in Int
        /\ Sum(took'[q]) = Sum(took[q]) + n
    BY <1>2, <1>8, <2>1, NextMovement
  <2>4. ~Writes(q, b) /\ rows[q][b] = stock[b]
    BY <1>2, <1>8, <2>2 DEF ReadIsCurrent
  <2>5. stock' = stock /\ stock[b] \in Nat
    BY <1>1, <1>8, StoredByCommit DEF TypeOK
  <2>6. line[q] \notin Income
    BY <1>2, <1>8, LineAssumption DEF TakesOutcome
  <2>7. /\ f[b] = 0 /\ h[b] = -n
        /\ \A x \in Batch \ {b} : h[x] = f[x]
    <3>1. put'[q][b] = Left(q, b)
      BY <1>1, <2>2 DEF TypeOK
    <3>2. h = New(q)
      BY <1>3
    <3>3. h[b] = Left(q, b) - stock[b]
      BY <2>2, <2>5, <3>1, <3>2 DEF Unwritten
    <3>4. Left(q, b) = stock[b] - n
      BY <2>4 DEF Left
    <3>5. h[b] = -n
      <4> HIDE DEF n, h
      <4> QED BY <2>2, <2>5, <3>3, <3>4
    <3>6. f[b] = 0
      BY <2>4 DEF Change
    <3>7. \A x \in Batch \ {b} : put'[q][x] = put[q][x]
      BY <1>1, <2>2 DEF TypeOK
    <3> QED BY <2>5, <3>2, <3>5, <3>6, <3>7 DEF Change, Writes
  <2>8. \A x \in Batch : f[x] \in Int /\ h[x] \in Int
    <3>1. \A x \in Batch : f[x] \in Int
      BY <1>1, ChangeIsTyped
    <3>2. -n \in Int
      BY <2>2
    <3> HIDE DEF f, h, n
    <3> QED BY <2>7, <3>1, <3>2
  <2> HIDE DEF f, h
  <2>9. SumFunctionOnSet(h, Batch) = SumFunctionOnSet(f, Batch) - f[b] + h[b]
    BY <2>7, <2>8, ChangeOfOne
  <2>10. SumFunctionOnSet(f, Batch) = -Sum(took[q])
    BY <1>3, <2>6 DEF f
  <2>11. SumFunctionOnSet(h, Batch) = -Sum(took'[q])
    <3> HIDE DEF n
    <3> QED BY <2>2, <2>3, <2>7, <2>9, <2>10
  <2>12. Adds(q)'
    <3>1. SumFunctionOnSet(Change(q), Batch)' = -Sum(took'[q])
      BY <2>11 DEF h
    <3>2. Sum(took[q])' = Sum(took'[q])
      BY DEF Sum
    <3> QED BY <1>1, <2>6, <3>1, <3>2
  <2> QED BY <1>5, <2>12 DEF ChangesAreMovements
<1>9. CASE Forget(q)
  <2>1. put'[q] = NoWrites /\ took'[q] = {}
    BY <1>1, <1>9 DEF Forget, TypeOK
  <2>2. SumFunctionOnSet(Change(q), Batch)' = 0
    <3> DEFINE h == Change(q)'
    <3>1. h = New(q)
      BY <1>3
    <3>2. \A b \in Batch : h[b] = 0
      BY <2>1, <3>1 DEF NoWrites
    <3> HIDE DEF h
    <3>3. SumFunctionOnSet(h, Batch) = 0
      BY <3>2, BatchesAreFinite, SumZero
    <3> QED BY <3>3 DEF h
  <2>3. Sum(took[q])' = 0
    <3>1. Sum(took[q])' = Sum(took'[q])
      BY DEF Sum
    <3> QED BY <2>1, <3>1, SumOfNone
  <2>4. Adds(q)'
    <3> DEFINE n == Sum(took[q])'
    <3>1. n \in Int /\ n <= 0 /\ n >= 0
      BY <2>3
    <3> HIDE DEF n
    <3>2. -n = 0
      BY <3>1
    <3> QED BY <2>2, <2>3, <3>2 DEF n
  <2> QED BY <1>5, <2>4 DEF ChangesAreMovements
<1> QED BY <1>1, <1>6, <1>7, <1>8, <1>9, Kinds

----------------------------------------------------------------------------
(* What adds up *)

\* What a request commits is the whole quantity of its line, and no movement
\* of the line is there before.
LEMMA Committing ==
  ASSUME IInv, SumInv, NEW q \in Req, Commit(q)
  PROVE  /\ moves' = moves \cup took[q] /\ moves \cap took[q] = {}
         /\ txns' = txns \cup {line[q]} /\ line[q] \notin txns
         /\ IsFiniteSet(took[q]) /\ IsFiniteSet(moves)
         /\ \A m \in took[q] : m.line = line[q]
         /\ \A m \in moves : m.line # line[q]
         /\ Sum(took[q]) = Qty[line[q]]
         /\ Qty[line[q]] \in Nat
<1>1. TypeOK /\ OneWriter /\ OwnMovements /\ OneTransaction /\ pc[q] = "commit"
  BY DEF IInv, Commit
<1>2. line[q] \notin txns
  BY <1>1 DEF OneTransaction
<1>3. moves' = moves \cup took[q] /\ txns' = txns \cup {line[q]}
  BY DEF Commit
<1>4. /\ \A m \in took[q] : m.line = line[q]
      /\ \A m \in moves : m.line # line[q]
  BY <1>1, <1>2 DEF OwnMovements, OneWriter
<1>5. line[q] \in Line /\ Qty[line[q]] \in Nat
  BY <1>1, QtyAssumption DEF TypeOK
<1>6. Sum(took[q]) = Qty[line[q]]
  <2>1. TakenSoFar
    BY DEF SumInv
  <2>2. CASE line[q] \in Income
    BY <1>1, <2>1, <2>2 DEF TakenSoFar
  <2>3. CASE line[q] \in Outcome
    <3>1. need[q] = 0 /\ Sum(took[q]) = Qty[line[q]] - need[q]
      BY <1>1, <1>2, <2>1, <2>3 DEF TakenSoFar
    <3> QED BY <1>5, <3>1
  <2> QED BY <1>5, <2>2, <2>3
<1>7. IsFiniteSet(took[q]) /\ IsFiniteSet(moves)
  BY DEF SumInv, FinitelyMany
<1> QED BY <1>2, <1>3, <1>4, <1>5, <1>6, <1>7

LEMMA WholeStep ==
  ASSUME IInv, SumInv, NEW q \in Req, Begin(q) \/ Step(q) \/ Rollback(q)
  PROVE  WholeOrNothing'
<1>1. TypeOK /\ WholeOrNothing
  BY DEF IInv, SumInv
<1>2. CASE Commit(q)
  <2> SUFFICES ASSUME NEW l \in Line
               PROVE  Sum({m \in moves' : m.line = l})
                        = IF l \in txns' THEN Qty[l] ELSE 0
    BY DEF WholeOrNothing, MovesOf, Sum
  <2>1. CASE l = line[q]
    <3>1. {m \in moves' : m.line = l} = took[q] /\ l \in txns'
      BY <1>2, <2>1, Committing
    <3> QED BY <1>2, <2>1, <3>1, Committing
  <2>2. CASE l # line[q]
    <3>1. {m \in moves' : m.line = l} = MovesOf(l)
      BY <1>2, <2>2, Committing DEF MovesOf
    <3>2. l \in txns' <=> l \in txns
      BY <1>2, <2>2, Committing
    <3> QED BY <1>1, <3>1, <3>2 DEF WholeOrNothing
  <2> QED BY <2>1, <2>2
<1>3. CASE ~Commit(q)
  BY <1>1, <1>3, StoredByCommit DEF WholeOrNothing, MovesOf, Sum
<1> QED BY <1>2, <1>3

\* The balance is only written by a commit.
LEMMA BalanceByCommit ==
  ASSUME NEW q \in Req, Begin(q) \/ Step(q) \/ Rollback(q), ~Commit(q)
  PROVE  balance' = balance
BY DEF Begin, Step, Lookup, InsertIncome, ReadRows, Check, Take, InsertTxn,
       LockBalance, Rollback, stored

LEMMA OpeningIsInt == OpeningBalance \in Int
<1>1. DOMAIN Opening = 1 .. Len(Opening) /\ Len(Opening) \in Nat
      /\ \A b \in 1 .. Len(Opening) : Opening[b] \in Int
  BY OpeningAssumption
<1> DEFINE D == DOMAIN Opening
<1>2. IsFiniteSet(D) /\ \A b \in D : Opening[b] \in Int
  BY <1>1, FS_Interval
<1> HIDE DEF D
<1>3. SumFunctionOnSet(Opening, D) \in Int
  BY <1>2, SumInt
<1> QED BY <1>3 DEF OpeningBalance, D

LEMMA MovementsOfSome ==
  ASSUME TypeOK, IsFiniteSet(moves), NEW Some \in SUBSET Line
  PROVE  Sum({m \in moves : m.line \in Some}) \in Int
<1> DEFINE S == {m \in moves : m.line \in Some}
<1>1. IsFiniteSet(S) /\ \A m \in S : m.qty \in Int
  <2>1. S \subseteq moves
    OBVIOUS
  <2> QED BY <2>1, FS_Subset, MovesAreTyped
<1>2. IsFiniteSet({}) /\ S \cap {} = {} /\ S \cup {} = S
  BY FS_EmptySet
<1> HIDE DEF S
<1>3. \A m \in S \cup {} : m.qty \in Int
  BY <1>1
<1>4. Sum(S) \in Int
  BY <1>1, <1>2, <1>3, SumOfUnion
<1> QED BY <1>4 DEF S

LEMMA BalanceStep ==
  ASSUME IInv, SumInv, NEW q \in Req, Begin(q) \/ Step(q) \/ Rollback(q)
  PROVE  BalanceIsMovements' /\ balance \in Int
<1> DEFINE In == {m \in moves : m.line \in Income}
           Out == {m \in moves : m.line \in Outcome}
           n == Qty[line[q]]
<1>1. TypeOK /\ BalanceIsMovements /\ IsFiniteSet(moves)
  BY DEF IInv, SumInv, FinitelyMany
<1>2. Sum(In) \in Int /\ Sum(Out) \in Int
  BY <1>1, MovementsOfSome
<1>3. balance = OpeningBalance + Sum(In) - Sum(Out)
  BY <1>1 DEF BalanceIsMovements
<1>4. balance \in Int
  BY <1>2, <1>3, OpeningIsInt
<1>5. CASE Commit(q)
  <2>1. balance' = balance + Delta(q) /\ n \in Nat
    BY <1>5, Committing DEF Commit
  <2>2. /\ IsFiniteSet(In) /\ IsFiniteSet(Out) /\ IsFiniteSet(took[q])
        /\ In \cap took[q] = {} /\ Out \cap took[q] = {}
        /\ Sum(took[q]) = n
    <3>1. In \subseteq moves /\ Out \subseteq moves
      OBVIOUS
    <3> HIDE DEF In, Out
    <3> QED BY <1>1, <1>5, <3>1, FS_Subset, Committing
  <2>3. /\ \A m \in In \cup took[q] : m.qty \in Int
        /\ \A m \in Out \cup took[q] : m.qty \in Int
    BY <1>1, MovesAreTyped
  <2>4. /\ Sum(In \cup took[q]) = Sum(In) + n
        /\ Sum(Out \cup took[q]) = Sum(Out) + n
    <3> HIDE DEF In, Out, n
    <3> QED BY <2>2, <2>3, SumOfUnion
  <2>5. CASE line[q] \in Income
    <3>1. line[q] \notin Outcome /\ Delta(q) = n
      BY <2>5, LineAssumption DEF Delta
    <3>2. In' = In \cup took[q] /\ Out' = Out
      BY <1>5, <2>5, <3>1, Committing
    <3>3. Sum(In') = Sum(In) + n /\ Sum(Out') = Sum(Out)
      BY <2>4, <3>2
    <3>4. balance' = OpeningBalance + Sum(In') - Sum(Out')
      <4> HIDE DEF In, Out, n
      <4> QED BY <1>2, <1>3, <2>1, <3>1, <3>3, OpeningIsInt
    <3> QED BY <1>4, <3>4 DEF BalanceIsMovements, Sum
  <2>6. CASE line[q] \notin Income
    <3>1. line[q] \in Outcome /\ Delta(q) = -n
      BY <1>1, <2>6 DEF Delta, TypeOK
    <3>2. Out' = Out \cup took[q] /\ In' = In
      BY <1>5, <2>6, <3>1, Committing
    <3>3. Sum(In') = Sum(In) /\ Sum(Out') = Sum(Out) + n
      BY <2>4, <3>2
    <3>4. balance' = OpeningBalance + Sum(In') - Sum(Out')
      <4> HIDE DEF In, Out, n
      <4> QED BY <1>2, <1>3, <2>1, <3>1, <3>3, OpeningIsInt
    <3> QED BY <1>4, <3>4 DEF BalanceIsMovements, Sum
  <2> QED BY <2>5, <2>6
<1>6. CASE ~Commit(q)
  <2>1. balance' = balance /\ moves' = moves
    BY <1>6, BalanceByCommit, StoredByCommit
  <2> QED BY <1>1, <1>4, <2>1 DEF BalanceIsMovements, Sum
<1> QED BY <1>5, <1>6

LEMMA BatchesStep ==
  ASSUME IInv, SumInv, NEW q \in Req, Begin(q) \/ Step(q) \/ Rollback(q)
  PROVE  BatchesAgree'
<1> SUFFICES ASSUME "outcomes" \notin overlap'
             PROVE  InStock' = balance'
  BY DEF BatchesAgree
<1>1. TypeOK /\ balance \in Int
  BY BalanceStep DEF IInv
<1>2. "outcomes" \notin overlap /\ InStock = balance /\ ChangesAreMovements
  BY OutcomeAlone DEF SumInv, BatchesAgree, OneOutcomeAtATime
<1>3. CASE Commit(q)
  <2> DEFINE f == Change(q)
             h == stock'
             n == Qty[line[q]]
             D == Batch
  <2>1. \A b \in D : h[b] = stock[b] + f[b] /\ stock[b] \in Int /\ f[b] \in Int
    <3> SUFFICES ASSUME NEW b \in Batch
                 PROVE  h[b] = stock[b] + f[b] /\ stock[b] \in Int /\ f[b] \in Int
      OBVIOUS
    <3>1. f[b] \in Int
      BY <1>1, ChangeIsTyped
    <3>2. stock \in [Batch -> Nat] /\ put[q] \in [Batch -> Nat \cup {Unwritten}]
      BY <1>1 DEF TypeOK
    <3>3. stock[b] \in Int
      BY <3>2
    <3>4. CASE Writes(q, b)
      <4>1. f[b] = put[q][b] - stock[b] /\ h[b] = put[q][b]
        BY <1>3, <3>4 DEF Change, Commit
      <4>2. put[q][b] \in Int
        <5>1. put[q][b] \in Nat \cup {Unwritten}
          BY <3>2
        <5> QED BY <3>4, <5>1 DEF Writes
      <4> HIDE DEF f, h
      <4> QED BY <3>1, <3>3, <4>1, <4>2
    <3>5. CASE ~Writes(q, b)
      <4>1. f[b] = 0 /\ h[b] = stock[b]
        BY <1>3, <3>5 DEF Change, Commit
      <4> HIDE DEF f, h
      <4> QED BY <3>1, <3>3, <4>1
    <3> QED BY <3>4, <3>5
  <2>2. IsFiniteSet(D)
    BY BatchesAreFinite
  <2>3. SumFunctionOnSet(f, D) = Delta(q) /\ n \in Nat
    BY <1>2, <1>3, Committing DEF ChangesAreMovements, Delta
  <2>4. balance' = balance + Delta(q) /\ InStock = SumFunctionOnSet(stock, D)
        /\ InStock' = SumFunctionOnSet(h, D)
    BY <1>3 DEF Commit, InStock
  <2> HIDE DEF f, h, n, D
  <2>5. SumFunctionOnSet(h, D) = SumFunctionOnSet(stock, D) + SumFunctionOnSet(f, D)
    BY <2>1, <2>2, SumPlus
  <2> QED BY <1>2, <2>3, <2>4, <2>5
<1>4. CASE ~Commit(q)
  <2>1. balance' = balance /\ stock' = stock
    BY <1>4, BalanceByCommit, StoredByCommit
  <2> QED BY <1>2, <2>1 DEF InStock
<1> QED BY <1>3, <1>4

LEMMA SumStep ==
  ASSUME IInv, SumInv, [Next]_vars
  PROVE  SumInv'
<1>1. IInv'
  BY InvariantStep
<1>2. ASSUME NEW q \in Req, Begin(q) \/ Step(q) \/ Rollback(q) PROVE SumInv'
  <2>1. /\ TypeOK /\ FinitelyMany /\ TakesOutcome /\ PartsInOrder /\ TakenSoFar
        /\ OneHolder /\ BroughtInUnread /\ OneOutcomeAtATime
    BY DEF IInv, SumInv
  <2>2. FinitelyMany' /\ TakesOutcome' /\ PartsInOrder' /\ TakenSoFar'
    BY <1>2, <2>1, FiniteStep, PathStep, PartStep, TakenStep
  <2>3. OneHolder' /\ BroughtInUnread'
    BY <1>2, <2>1, HolderStep, BroughtInStep
  <2>4. OneOutcomeAtATime'
    <3> SUFFICES ASSUME "outcomes" \notin overlap'
                 PROVE  OutcomesAlone' /\ ReadIsCurrent' /\ ChangesAreMovements'
      BY DEF OneOutcomeAtATime
    <3>1. OutcomesAlone'
      BY <1>2, <2>1, OutcomeAlone
    <3>2. ReadIsCurrent'
      BY <1>2, CurrentStep
    <3>3. ChangesAreMovements'
      BY <1>1, <1>2, ChangesStep
    <3> QED BY <3>1, <3>2, <3>3
  <2>5. WholeOrNothing' /\ BalanceIsMovements' /\ BatchesAgree'
    BY <1>2, WholeStep, BalanceStep, BatchesStep
  <2> QED BY <2>2, <2>3, <2>4, <2>5 DEF SumInv
<1>3. CASE UNCHANGED vars
  BY <1>3 DEF SumInv, FinitelyMany, TakesOutcome, PartsInOrder, TakenSoFar,
       OneHolder, BroughtInUnread, OneOutcomeAtATime, OutcomesAlone,
       ReadIsCurrent, ChangesAreMovements, Change, WholeOrNothing, MovesOf,
       BalanceIsMovements, BatchesAgree, InStock, Writes, Sum, vars, stored, local
<1> QED BY <1>2, <1>3 DEF Next, Quiescent

\* The opening batches are what the balance says at first.
LEMMA OpeningStock ==
  ASSUME Init
  PROVE  InStock = OpeningBalance
<1> DEFINE D == 1 .. Len(Opening)
           E == Batch \ D
<1>1. Len(Opening) \in Nat /\ Len(Opening) <= MaxBatch /\ DOMAIN Opening = D
      /\ \A b \in D : Opening[b] \in Nat
  BY OpeningAssumption
<1>2. Batch = D \cup E /\ D \cap E = {} /\ IsFiniteSet(D) /\ IsFiniteSet(E)
  <2>1. D \subseteq Batch
    BY <1>1, MaxBatchAssumption
  <2>2. IsFiniteSet(D) /\ IsFiniteSet(E)
    <3>1. E \subseteq Batch
      OBVIOUS
    <3> HIDE DEF E
    <3>2. IsFiniteSet(E)
      BY <3>1, BatchesAreFinite, FS_Subset
    <3>3. IsFiniteSet(D)
      BY <1>1, FS_Interval
    <3> QED BY <3>2, <3>3
  <2> QED BY <2>1, <2>2
<1>3. /\ \A b \in D : stock[b] = Opening[b] /\ Opening[b] \in Int
      /\ \A b \in E : stock[b] = 0
  <2>1. \A b \in Batch : stock[b] = IF b <= Len(Opening) THEN Opening[b] ELSE 0
    BY DEF Init
  <2>2. \A b \in D : b \in Batch /\ b <= Len(Opening)
    BY <1>1, <1>2
  <2>3. \A b \in E : b \in Batch /\ ~(b <= Len(Opening))
    BY <1>1, MaxBatchAssumption
  <2> HIDE DEF D, E
  <2> QED BY <1>1, <2>1, <2>2, <2>3
<1>4. InStock = SumFunctionOnSet(stock, D \cup E)
      /\ OpeningBalance = SumFunctionOnSet(Opening, D)
  <2> HIDE DEF D, E
  <2> QED BY <1>1, <1>2 DEF InStock, OpeningBalance
<1> HIDE DEF D, E
<1>5. SumFunctionOnSet(stock, E) = 0
  BY <1>2, <1>3, SumZero
<1>6. SumFunctionOnSet(stock, D) = SumFunctionOnSet(Opening, D)
      /\ SumFunctionOnSet(Opening, D) \in Int
  BY <1>2, <1>3, SumSame, SumInt
<1>7. \A b \in D \cup E : stock[b] \in Int
  BY <1>3
<1>8. SumFunctionOnSet(stock, D \cup E)
        = SumFunctionOnSet(stock, D) + SumFunctionOnSet(stock, E)
  BY <1>2, <1>7, SumUnion
<1> QED BY <1>4, <1>5, <1>6, <1>8

LEMMA InitialSums == Init => SumInv
<1> SUFFICES ASSUME Init PROVE SumInv
  OBVIOUS
<1>1. /\ moves = {} /\ txns = {} /\ balance = OpeningBalance
      /\ \A q \in Req : /\ pc[q] = "idle" /\ took[q] = {} /\ put[q] = NoWrites
  BY DEF Init
<1>2. FinitelyMany
  BY <1>1, FS_EmptySet DEF FinitelyMany
<1>3. TakesOutcome /\ PartsInOrder /\ TakenSoFar
  BY <1>1 DEF TakesOutcome, PartsInOrder, TakenSoFar
<1>4. OneHolder /\ BroughtInUnread
  <2>1. \A q \in Req, b \in Batch : ~Writes(q, b)
    BY <1>1 DEF Writes, NoWrites
  <2> QED BY <2>1 DEF OneHolder, BroughtInUnread
<1>5. OutcomesAlone /\ ReadIsCurrent
  BY <1>1 DEF OutcomesAlone, ReadIsCurrent, Open
<1>6. ChangesAreMovements
  <2> SUFFICES ASSUME NEW q \in Req
               PROVE  SumFunctionOnSet(Change(q), Batch)
                        = IF line[q] \in Income THEN Sum(took[q]) ELSE -Sum(took[q])
    BY DEF ChangesAreMovements
  <2> DEFINE n == Sum(took[q])
  <2>1. n = 0
    BY <1>1, SumOfNone
  <2>2. n \in Int /\ n <= 0 /\ n >= 0
    BY <2>1
  <2>3. SumFunctionOnSet(Change(q), Batch) = 0
    BY <1>1, NoChange
  <2> HIDE DEF n
  <2>4. -n = 0
    BY <2>2
  <2> QED BY <2>1, <2>3, <2>4 DEF n
<1>7. WholeOrNothing
  <2>1. \A l \in Line : MovesOf(l) = {}
    BY <1>1 DEF MovesOf
  <2> QED BY <1>1, <2>1, SumOfNone DEF WholeOrNothing
<1>8. BalanceIsMovements
  <2>1. {m \in moves : m.line \in Income} = {} /\ {m \in moves : m.line \in Outcome} = {}
    BY <1>1
  <2>2. OpeningBalance = OpeningBalance + 0 - 0
    BY OpeningIsInt
  <2> QED BY <1>1, <2>1, <2>2, SumOfNone DEF BalanceIsMovements
<1>9. BatchesAgree
  BY <1>1, OpeningStock DEF BatchesAgree
<1> QED BY <1>2, <1>3, <1>4, <1>5, <1>6, <1>7, <1>8, <1>9 DEF SumInv, OneOutcomeAtATime

\* What moved, what the batches hold and what the balance says add up, for any
\* number of requests, lines, batches and any quantities: a line moves all of
\* its quantity or nothing, the balance is the sum of the movements whatever
\* runs at the same time, and so is what the batches hold as long as no two
\* outcomes of recordOutcome have overlapped.
THEOREM StockAlwaysAddsUp == Spec => []StockAddsUp
<1>1. Init => IInv /\ SumInv
  BY Initial, InitialSums
<1>2. IInv /\ SumInv /\ [Next]_vars => (IInv /\ SumInv)'
  BY InvariantStep, SumStep
<1>3. IInv /\ SumInv => StockAddsUp
  BY DEF IInv, SumInv, StockAddsUp
<1> QED BY <1>1, <1>2, <1>3, PTL DEF Spec

----------------------------------------------------------------------------
(* Inventory implements Stock *)

LEMMA BalanceIsInt ==
  ASSUME IInv, SumInv
  PROVE  balance \in Int
<1> DEFINE In == Sum({m \in moves : m.line \in Income})
           Out == Sum({m \in moves : m.line \in Outcome})
<1>1. TypeOK /\ IsFiniteSet(moves) /\ balance = OpeningBalance + In - Out
  BY DEF IInv, SumInv, FinitelyMany, BalanceIsMovements
<1>2. In \in Int /\ Out \in Int
  BY <1>1, MovementsOfSome
<1> HIDE DEF In, Out
<1> QED BY <1>1, <1>2, OpeningIsInt

\* A commit carries out the line of the request: nothing had moved for it, all
\* of it has afterwards, and nothing else has moved.
LEMMA CommitCarriesOut ==
  ASSUME IInv, SumInv, NEW q \in Req, Commit(q)
  PROVE  Shelf!Next
<1> DEFINE l == line[q]
           n == Qty[l]
<1>1. l \in Line /\ l \notin txns /\ txns' = txns \cup {l} /\ n \in Int
  <2>1. l \in Line
    BY DEF IInv, TypeOK
  <2>2. l \notin txns /\ txns' = txns \cup {l} /\ n \in Nat
    BY Committing
  <2> QED BY <2>1, <2>2
<1>2. WholeOrNothing /\ WholeOrNothing'
  BY WholeStep DEF SumInv, Step
<1>3. Sum(MovesOf(l)) = 0
  BY <1>1, <1>2 DEF WholeOrNothing
<1>4. \A k \in Line : Sum(MovesOf(k))' = IF k = l THEN n ELSE Sum(MovesOf(k))
  BY <1>1, <1>2 DEF WholeOrNothing
<1>5. [k \in Line |-> Sum(MovesOf(k))]'
        = [[k \in Line |-> Sum(MovesOf(k))] EXCEPT ![l] = n]
  BY <1>1, <1>4
<1>6. Shelf!CarryOut(l)
  BY <1>1, <1>3, <1>5 DEF Shelf!CarryOut
<1>7. balance' = balance + Delta(q) /\ balance \in Int
  BY BalanceIsInt DEF Commit
<1>8. CASE l \in Income
  BY <1>6, <1>7, <1>8 DEF Shelf!Next, Shelf!Receive, Delta
<1>9. CASE l \in Outcome
  <2>1. l \notin Income
    BY <1>9, LineAssumption
  <2>2. balance' = balance - n
    <3>1. balance' = balance + (-n)
      BY <1>7, <2>1 DEF Delta
    <3> HIDE DEF n
    <3> QED BY <1>1, <1>7, <3>1
  <2> QED BY <1>6, <1>9, <2>2 DEF Shelf!Next, Shelf!Issue
<1> QED BY <1>1, <1>8, <1>9

\* Requests for any lines, retried, at the same time and given up anywhere,
\* behave as the abstract stock: a line is carried out in the one step in which
\* the transaction of a request commits, and no retry carries it out again.
THEOREM StockIsImplemented == Spec => ImplementsStock
<1>1. Init => Shelf!Init
  <2> SUFFICES ASSUME Init PROVE Shelf!Init
    OBVIOUS
  <2>1. moves = {} /\ balance = OpeningBalance
    BY DEF Init
  <2>2. \A l \in Line : Sum(MovesOf(l)) = 0
    <3>1. \A l \in Line : MovesOf(l) = {}
      BY <2>1 DEF MovesOf
    <3> QED BY <3>1, SumOfNone
  <2> QED BY <2>1, <2>2 DEF Shelf!Init
<1>2. IInv /\ SumInv /\ [Next]_vars
        => [Shelf!Next]_<<[l \in Line |-> Sum(MovesOf(l))], balance>>
  <2> SUFFICES ASSUME IInv, SumInv, [Next]_vars
               PROVE  \/ Shelf!Next
                      \/ UNCHANGED <<[l \in Line |-> Sum(MovesOf(l))], balance>>
    OBVIOUS
  <2>1. ASSUME NEW q \in Req, Commit(q)
        PROVE  Shelf!Next
    BY <2>1, CommitCarriesOut
  <2>2. ASSUME NEW q \in Req, Begin(q) \/ Step(q) \/ Rollback(q), ~Commit(q)
        PROVE  UNCHANGED <<moves, balance>>
    BY <2>2, StoredByCommit, BalanceByCommit
  <2>3. CASE UNCHANGED <<moves, balance>>
    BY <2>3 DEF MovesOf, Sum
  <2>4. CASE UNCHANGED vars
    BY <2>3, <2>4 DEF vars, stored
  <2> QED BY <2>1, <2>2, <2>3, <2>4 DEF Next, Quiescent
<1>3. Init => IInv /\ SumInv
  BY Initial, InitialSums
<1>4. IInv /\ SumInv /\ [Next]_vars => (IInv /\ SumInv)'
  BY InvariantStep, SumStep
<1> QED BY <1>1, <1>2, <1>3, <1>4, PTL DEF Spec, ImplementsStock, Shelf!Spec

----------------------------------------------------------------------------
(* Supplies: what its operators return *)

\* What lines there may be of an item.
LEMMA WantedIs ==
  \A w \in Wanted :
    /\ w \in Seq(1 .. MaxQty) /\ Len(w) \in 0 .. 2 /\ DOMAIN w = 1 .. Len(w)
    /\ w = <<>> <=> Len(w) = 0
    /\ Total(w) \in Nat
    /\ w = <<>> => Total(w) = 0
    /\ w # <<>> => Len(w) \in DOMAIN w /\ w[Len(w)] \in 1 .. MaxQty
    /\ Len(w) = 1 => Total(w) = w[1]
<1> TAKE w \in Wanted
<1>1. MaxQty \in Nat \ {0} /\ 1 \in 1 .. MaxQty
  BY MaxQtyAssumption
<1>2. CASE w = <<>>
  BY <1>2 DEF Total
<1>3. CASE w = <<1, 1>>
  BY <1>1, <1>3 DEF Total
<1>4. ASSUME NEW n \in 1 .. MaxQty, w = <<n>>
      PROVE  /\ w \in Seq(1 .. MaxQty) /\ Len(w) = 1 /\ DOMAIN w = {1} /\ w # <<>>
             /\ w[1] = n /\ Total(w) = n /\ n \in Nat
  BY <1>1, <1>4 DEF Total
<1> QED BY <1>2, <1>3, <1>4 DEF Wanted

LEMMA NothingIs == Nothing \in [Item -> 0 .. MaxQty] /\ NoLines \in [Item -> Wanted]
<1>1. 0 \in 0 .. MaxQty /\ <<>> \in Wanted
  BY MaxQtyAssumption DEF Wanted
<1> QED BY <1>1 DEF Nothing, NoLines

\* A call at its end knows nothing.
LEMMA CallEnds ==
  ASSUME SupplyTypeOK, NEW c \in Client, End(c), receipts' \in Seq(Receipt),
         Len(receipts) <= Len(receipts')
  PROVE  /\ step' \in [Client -> {"idle", "lines", "refresh", "commit", "write", "book",
                                  "booking", "find", "active", "stamp"}]
         /\ seen' \in [Client -> [Item -> 0 .. MaxQty]]
         /\ want' \in [Client -> [Item -> Wanted]]
         /\ next' \in [Client -> Status]
         /\ at' \in [Client -> 0 .. Len(receipts')] /\ found' \in [Client -> Nat]
         /\ step'[c] = "idle" /\ at'[c] = 0 /\ found'[c] = 0
<1>1. step' = [step EXCEPT ![c] = "idle"] /\ next' = [next EXCEPT ![c] = "DRAFT"]
  BY DEF End, Turn
<1>2. seen' = [seen EXCEPT ![c] = Nothing] /\ want' = [want EXCEPT ![c] = NoLines]
  BY DEF End
<1>3. at' = [at EXCEPT ![c] = 0] /\ found' = [found EXCEPT ![c] = 0]
  BY DEF End
<1>4. Len(receipts) \in Nat /\ Len(receipts') \in Nat
  BY DEF SupplyTypeOK
<1>5. at \in [Client -> 0 .. Len(receipts)]
  BY DEF SupplyTypeOK
<1>6. at \in [Client -> 0 .. Len(receipts')]
  BY <1>4, <1>5
<1>7. 0 \in 0 .. Len(receipts')
  BY <1>4
<1>8. at' \in [Client -> 0 .. Len(receipts')] /\ at'[c] = 0
  BY <1>3, <1>6, <1>7
<1>9. "DRAFT" \in Status
  BY DEF Status
<1>10. seen' \in [Client -> [Item -> 0 .. MaxQty]]
  BY <1>2, NothingIs DEF SupplyTypeOK
<1>11. want' \in [Client -> [Item -> Wanted]]
  BY <1>2, NothingIs DEF SupplyTypeOK
<1>12. /\ step' \in [Client -> {"idle", "lines", "refresh", "commit", "write", "book",
                                "booking", "find", "active", "stamp"}]
       /\ step'[c] = "idle"
  BY <1>1 DEF SupplyTypeOK
<1>13. next' \in [Client -> Status] /\ found' \in [Client -> Nat] /\ found'[c] = 0
  BY <1>1, <1>3, <1>9 DEF SupplyTypeOK
<1> QED BY <1>8, <1>10, <1>11, <1>12, <1>13

\* A delivery begins with lines that fit, each by itself.
LEMMA DeliveryBegins ==
  ASSUME SupplyTypeOK, NEW c \in Client, ReadConfirm(c) \/ ReadPartial(c)
  PROVE  \E w \in [Item -> Wanted] :
           /\ Receive(c, w)
           /\ \A i \in Item : \A k \in DOMAIN w[i] : received[i] + w[i][k] <= ordered[i]
<1>0. /\ \A i \in Item : received[i] \in 0 .. MaxQty /\ ordered[i] \in 0 .. MaxQty
      /\ MaxQty \in Nat \ {0}
  BY MaxQtyAssumption DEF SupplyTypeOK
<1>1. CASE ReadConfirm(c)
  <2> DEFINE w == [i \in Item |->
                     IF received[i] < ordered[i] THEN <<ordered[i] - received[i]>> ELSE <<>>]
  <2>1. ASSUME NEW i \in Item
        PROVE  /\ w[i] \in Wanted
               /\ \A k \in DOMAIN w[i] : received[i] + w[i][k] <= ordered[i]
    <3> DEFINE n == ordered[i] - received[i]
    <3>1. CASE received[i] < ordered[i]
      <4>1. w[i] = <<n>> /\ n \in 1 .. MaxQty
        BY <1>0, <3>1
      <4>2. <<n>>[1] = n /\ DOMAIN <<n>> = {1} /\ received[i] + n = ordered[i]
        BY <1>0
      <4>3. w[i] \in Wanted
        BY <4>1 DEF Wanted
      <4> QED BY <1>0, <4>1, <4>2, <4>3
    <3>2. CASE ~(received[i] < ordered[i])
      <4>1. w[i] = <<>>
        BY <3>2
      <4> QED BY <4>1 DEF Wanted
    <3> QED BY <3>1, <3>2
  <2>2. Receive(c, w)
    BY <1>1 DEF ReadConfirm
  <2>3. w \in [Item -> Wanted]
    BY <2>1
  <2> HIDE DEF w
  <2> QED BY <2>1, <2>2, <2>3
<1>2. CASE ReadPartial(c)
  <2>1. PICK w \in Deliveries :
          /\ \A i \in Item : \A k \in DOMAIN w[i] : Fits(i, w[i][k])
          /\ Receive(c, w)
    BY <1>2 DEF ReadPartial
  <2>2. \A i \in Item : \A k \in DOMAIN w[i] : received[i] + w[i][k] <= ordered[i]
    BY <2>1 DEF Fits
  <2>3. ASSUME NEW i \in Item
        PROVE  w[i] \in Wanted
    <3>1. w[i] \in {<<>>, <<1>>, <<2>>, <<1, 1>>}
      BY <2>1 DEF Deliveries
    <3>2. CASE w[i] \in {<<>>, <<1, 1>>}
      BY <3>2 DEF Wanted
    <3>3. ASSUME NEW n \in {1, 2}, w[i] = <<n>>
          PROVE  w[i] \in Wanted
      <4>1. 1 \in DOMAIN w[i] /\ w[i][1] = n
        BY <3>3
      <4>2. received[i] + n <= ordered[i]
        BY <2>2, <4>1
      <4>3. n \in 1 .. MaxQty
        BY <1>0, <4>2
      <4> QED BY <3>3, <4>3 DEF Wanted
    <3> QED BY <3>1, <3>2, <3>3
  <2>4. w \in [Item -> Wanted]
    BY <2>1, <2>3 DEF Deliveries
  <2> QED BY <2>1, <2>2, <2>4
<1> QED BY <1>1, <1>2

----------------------------------------------------------------------------
(* What a step leaves alone *)

LEMMA OtherCallsWait ==
  ASSUME SupplyTypeOK, NEW c \in Client, Call(c), NEW e \in Client, e # c
  PROVE  /\ step'[e] = step[e] /\ seen'[e] = seen[e] /\ want'[e] = want[e]
         /\ next'[e] = next[e] /\ at'[e] = at[e] /\ found'[e] = found[e]
<1> USE DEF SupplyTypeOK, Turn, Start, mine
<1>1. CASE \/ WriteLines(c) \/ CommitReceipt(c) \/ WriteStatus(c) \/ Book(c)
           \/ CommitVoid(c) \/ Abort(c)
  BY <1>1 DEF WriteLines, CommitReceipt, WriteStatus, Book, CommitVoid, Abort, End
<1>2. CASE ReadConfirm(c) \/ ReadPartial(c)
  <2>1. PICK w : Receive(c, w)
    BY <1>2, DeliveryBegins
  <2> QED BY <2>1 DEF Receive
<1>3. CASE Refresh(c) \/ ReadChange(c) \/ ReadTransition(c) \/ ReadItems(c)
  BY <1>3 DEF Refresh, ReadChange, ReadTransition, ReadItems
<1>4. CASE EditItem(c) \/ DeleteItem(c)
  BY <1>4 DEF EditItem, DeleteItem
<1>5. CASE ReadVoid(c) \/ FindVoided(c) \/ FindActive(c)
  BY <1>5 DEF ReadVoid, FindVoided, FindActive
<1> QED BY <1>1, <1>2, <1>3, <1>4, <1>5 DEF Call

\* What is noted is kept, but for a purchase that has lost a quantity.
LEMMA NotedForGood ==
  ASSUME SupplyTypeOK, SupplyNext \/ UNCHANGED supplyVars
  PROVE  /\ "lost" \in history => "lost" \in history'
         /\ "voids" \in history => "voids" \in history'
         /\ "lost" \notin history' => history \subseteq history'
<1> DEFINE Grows == /\ "lost" \in history => "lost" \in history'
                    /\ "voids" \in history => "voids" \in history'
                    /\ "lost" \notin history' => history \subseteq history'
       Noted == history' = history \/ \E S : Note(S)
<1>1. ASSUME NEW S, Note(S)
      PROVE  Grows
  BY <1>1 DEF Note
<1>2. history' = history => Grows
  OBVIOUS
<1>3. ASSUME NEW c \in Client, Call(c)
      PROVE  Noted
  <2>1. CASE \/ WriteLines(c) \/ Refresh(c) \/ CommitReceipt(c) \/ WriteStatus(c)
             \/ ReadItems(c) \/ Book(c) \/ FindVoided(c) \/ FindActive(c) \/ CommitVoid(c)
             \/ Abort(c)
    BY <2>1 DEF WriteLines, Refresh, CommitReceipt, WriteStatus, ReadItems, Book,
                FindVoided, FindActive, CommitVoid, Abort
  <2>2. CASE ReadConfirm(c) \/ ReadPartial(c)
    <3>1. PICK w : Receive(c, w)
      BY <2>2, DeliveryBegins
    <3> QED BY <3>1 DEF Receive
  <2>3. CASE ReadChange(c) \/ ReadTransition(c)
    BY <2>3 DEF ReadChange, ReadTransition
  <2>4. CASE EditItem(c) \/ DeleteItem(c) \/ ReadVoid(c)
    BY <2>4 DEF EditItem, DeleteItem, ReadVoid
  <2> HIDE DEF Noted
  <2> QED BY <1>3, <2>1, <2>2, <2>3, <2>4 DEF Call
<1>4. history' = history \/ \E c \in Client : Call(c)
  BY DEF SupplyNext, AllIdle, supplyVars
<1>5. Noted
  <2> HIDE DEF Noted
  <2>1. history' = history => Noted
    BY DEF Noted
  <2> QED BY <1>3, <1>4, <2>1
<1> HIDE DEF Grows
<1>6. Grows
  BY <1>1, <1>2, <1>5
<1> QED BY <1>6 DEF Grows

LEMMA ReceiptAdded ==
  ASSUME SupplyTypeOK, NEW c \in Client, CommitReceipt(c)
  PROVE  /\ receipts' \in Seq(Receipt) /\ Len(receipts') = Len(receipts) + 1
         /\ DOMAIN receipts' = DOMAIN receipts \cup {Len(receipts')}
         /\ Len(receipts') \notin DOMAIN receipts
         /\ \A i \in DOMAIN receipts : receipts'[i] = receipts[i]
         /\ receipts'[Len(receipts')].lines = [i \in Item |-> Total(want[c][i])]
         /\ receipts'[Len(receipts')].voided = FALSE
         /\ receipts'[Len(receipts')].runs = 1
<1> DEFINE r == [lines |-> [i \in Item |-> Total(want[c][i])], voided |-> FALSE, runs |-> 1]
<1>1. r \in Receipt /\ r.lines = [i \in Item |-> Total(want[c][i])] /\ r.runs = 1
  <2>1. \A i \in Item : Total(want[c][i]) \in Nat
    BY WantedIs DEF SupplyTypeOK
  <2> QED BY <2>1 DEF Receipt
<1>2. r.voided = FALSE
  OBVIOUS
<1>3. receipts' = Append(receipts, r) /\ receipts \in Seq(Receipt)
  BY DEF CommitReceipt, SupplyTypeOK
<1> HIDE DEF r
<1>4. /\ receipts' \in Seq(Receipt) /\ Len(receipts') = Len(receipts) + 1
      /\ DOMAIN receipts' = DOMAIN receipts \cup {Len(receipts')}
      /\ Len(receipts') \notin DOMAIN receipts
      /\ receipts'[Len(receipts')] = r
      /\ \A i \in DOMAIN receipts : receipts'[i] = receipts[i]
  BY <1>1, <1>3, RowAppended
<1> QED BY <1>1, <1>2, <1>4

\* A void changes its receipt, not what the receipt has brought in.
LEMMA ReceiptVoided ==
  ASSUME SupplyTypeOK, NEW c \in Client, CommitVoid(c), at[c] \in DOMAIN receipts
  PROVE  /\ receipts' \in Seq(Receipt) /\ Len(receipts') = Len(receipts)
         /\ DOMAIN receipts' = DOMAIN receipts
         /\ \A i \in DOMAIN receipts \ {at[c]} : receipts'[i] = receipts[i]
         /\ receipts'[at[c]].voided = TRUE /\ receipts'[at[c]].runs = Reversed(c)
         /\ \A i \in DOMAIN receipts : receipts'[i].lines = receipts[i].lines
<1> DEFINE k == at[c]
           v == [[receipts[k] EXCEPT !.runs = Reversed(c)] EXCEPT !.voided = TRUE]
<1>1. receipts \in Seq(Receipt) /\ receipts[k] \in Receipt
  BY DEF SupplyTypeOK
<1>2. Reversed(c) \in Nat \ {0}
  <2>1. receipts[k].runs \in Nat \ {0}
    BY <1>1 DEF Receipt
  <2> QED BY <2>1 DEF Reversed
<1>3. v \in Receipt /\ v.runs = Reversed(c) /\ v.lines = receipts[k].lines
  <2> HIDE DEF k
  <2> QED BY <1>1, <1>2 DEF Receipt
<1>4. v.voided = TRUE
  <2> HIDE DEF k
  <2> QED BY <1>1 DEF Receipt
<1>5. receipts' = [receipts EXCEPT ![k] = v]
  BY <1>1 DEF CommitVoid
<1> HIDE DEF v
<1>6. /\ receipts' \in Seq(Receipt) /\ Len(receipts') = Len(receipts)
      /\ DOMAIN receipts' = DOMAIN receipts
      /\ receipts'[k] = v /\ \A i \in DOMAIN receipts \ {k} : receipts'[i] = receipts[i]
  BY <1>1, <1>3, <1>5, RowPut
<1> QED BY <1>3, <1>4, <1>6

LEMMA SupplyTypes ==
  ASSUME SupplyTypeOK, LinesFit, SupplyNext \/ UNCHANGED supplyVars
  PROVE  SupplyTypeOK'
<1> USE DEF items, saved, mine
<1> HIDE DEF Wanted, Receipt, Status
<1>0. Len(receipts) \in Nat /\ receipts \in Seq(Receipt)
  BY DEF SupplyTypeOK
<1>1. CASE UNCHANGED supplyVars \/ AllIdle
  BY <1>1 DEF AllIdle, supplyVars, SupplyTypeOK
<1>2. ASSUME NEW c \in Client, ReadConfirm(c) \/ ReadPartial(c)
      PROVE  SupplyTypeOK'
  <2>1. PICK w \in [Item -> Wanted] : Receive(c, w)
    BY <1>2, DeliveryBegins
  <2>2. /\ step' = [step EXCEPT ![c] = "lines"] /\ seen' = [seen EXCEPT ![c] = received]
        /\ want' = [want EXCEPT ![c] = w]
        /\ UNCHANGED <<saved, next, at, found>>
    BY <2>1 DEF Receive, Start, Turn
  <2>3. want' \in [Client -> [Item -> Wanted]] /\ seen' \in [Client -> [Item -> 0 .. MaxQty]]
    BY <2>1, <2>2 DEF SupplyTypeOK
  <2> QED BY <2>2, <2>3 DEF SupplyTypeOK
<1>3. ASSUME NEW c \in Client, WriteLines(c) \/ Abort(c)
      PROVE  SupplyTypeOK'
  <2>1. UNCHANGED saved
    BY <1>3 DEF WriteLines, Abort
  <2>2. CASE End(c)
    <3>1. receipts' \in Seq(Receipt) /\ Len(receipts) <= Len(receipts')
      BY <1>0, <2>1
    <3>2. /\ step' \in [Client -> {"idle", "lines", "refresh", "commit", "write", "book",
                                   "booking", "find", "active", "stamp"}]
          /\ seen' \in [Client -> [Item -> 0 .. MaxQty]]
          /\ want' \in [Client -> [Item -> Wanted]]
          /\ next' \in [Client -> Status]
          /\ at' \in [Client -> 0 .. Len(receipts')] /\ found' \in [Client -> Nat]
      BY <2>2, <3>1, CallEnds
    <3> QED BY <2>1, <3>1, <3>2 DEF SupplyTypeOK
  <2>3. CASE Turn(c, "refresh") /\ UNCHANGED mine
    BY <2>1, <2>3 DEF Turn, SupplyTypeOK
  <2> QED BY <1>3, <2>2, <2>3 DEF WriteLines, Abort
<1>4. ASSUME NEW c \in Client, Refresh(c)
      PROVE  SupplyTypeOK'
  <2>1. \E s \in Status : next' = [next EXCEPT ![c] = s]
    BY <1>4 DEF Refresh, Status
  <2>2. next' \in [Client -> Status]
    BY <2>1 DEF SupplyTypeOK
  <2> QED BY <1>4, <2>2 DEF Refresh, Turn, SupplyTypeOK
<1>5. ASSUME NEW c \in Client, CommitReceipt(c)
      PROVE  SupplyTypeOK'
  <2>1. End(c) /\ UNCHANGED <<ordered, booked>> /\ status' \in Status
    BY <1>5 DEF CommitReceipt, SupplyTypeOK
  <2>2. receipts' \in Seq(Receipt) /\ Len(receipts') = Len(receipts) + 1
    BY <1>5, ReceiptAdded
  <2>3. Len(receipts) <= Len(receipts')
    BY <1>0, <2>2
  <2>4. received' \in [Item -> 0 .. MaxQty]
    <3>1. ASSUME NEW i \in Item, want[c][i] # <<>>
          PROVE  Counted(c, i) \in 0 .. MaxQty
      <4>1. want[c][i] \in Wanted /\ seen[c][i] \in 0 .. MaxQty /\ MaxQty \in Nat
        BY MaxQtyAssumption DEF SupplyTypeOK
      <4>2. Len(want[c][i]) \in DOMAIN want[c][i] /\ want[c][i][Len(want[c][i])] \in 1 .. MaxQty
        BY <3>1, <4>1, WantedIs
      <4>3. step[c] \in Receiving
        BY <1>5 DEF CommitReceipt, Receiving
      <4>4. Counted(c, i) <= MaxQty
        BY <4>2, <4>3 DEF LinesFit, Counted
      <4> QED BY <4>1, <4>2, <4>4 DEF Counted
    <3>2. received' = [i \in Item |-> IF want[c][i] = <<>> THEN received[i] ELSE Counted(c, i)]
      BY <1>5 DEF CommitReceipt
    <3> QED BY <3>1, <3>2 DEF SupplyTypeOK
  <2>5. /\ step' \in [Client -> {"idle", "lines", "refresh", "commit", "write", "book",
                                 "booking", "find", "active", "stamp"}]
        /\ seen' \in [Client -> [Item -> 0 .. MaxQty]]
        /\ want' \in [Client -> [Item -> Wanted]]
        /\ next' \in [Client -> Status]
        /\ at' \in [Client -> 0 .. Len(receipts')] /\ found' \in [Client -> Nat]
    BY <2>1, <2>2, <2>3, CallEnds
  <2> QED BY <2>1, <2>2, <2>4, <2>5 DEF SupplyTypeOK
<1>6. ASSUME NEW c \in Client, WriteStatus(c) \/ Book(c)
      PROVE  SupplyTypeOK'
  <2>1. End(c) /\ UNCHANGED <<ordered, received, receipts>>
    BY <1>6 DEF WriteStatus, Book
  <2>2. receipts' \in Seq(Receipt) /\ Len(receipts) <= Len(receipts')
    BY <1>0, <2>1
  <2>3. status' \in Status
    BY <1>6 DEF WriteStatus, Book, StatusFound, SupplyTypeOK, Status
  <2>4. booked' \in [Item -> 0 .. MaxQty]
    BY <1>6 DEF WriteStatus, Book, Booked, SupplyTypeOK
  <2>5. /\ step' \in [Client -> {"idle", "lines", "refresh", "commit", "write", "book",
                                 "booking", "find", "active", "stamp"}]
        /\ seen' \in [Client -> [Item -> 0 .. MaxQty]]
        /\ want' \in [Client -> [Item -> Wanted]]
        /\ next' \in [Client -> Status]
        /\ at' \in [Client -> 0 .. Len(receipts')] /\ found' \in [Client -> Nat]
    BY <2>1, <2>2, CallEnds
  <2> QED BY <2>1, <2>2, <2>3, <2>4, <2>5 DEF SupplyTypeOK
<1>7. ASSUME NEW c \in Client, ReadChange(c) \/ ReadTransition(c)
      PROVE  SupplyTypeOK'
  <2>1. PICK s \in MayFollow(status) \cup {status} :
          /\ next' = [next EXCEPT ![c] = s]
          /\ Start(c, "book") \/ Start(c, "write")
          /\ UNCHANGED <<saved, seen, want, at, found>>
    BY <1>7 DEF ReadChange, ReadTransition, Start
  <2>2. s \in Status
    BY <2>1 DEF MayFollow, Status, Arrived, SupplyTypeOK
  <2>3. next' \in [Client -> Status]
    BY <2>1, <2>2 DEF SupplyTypeOK
  <2>4. step' \in [Client -> {"idle", "lines", "refresh", "commit", "write", "book",
                              "booking", "find", "active", "stamp"}]
    BY <2>1 DEF Start, Turn, SupplyTypeOK
  <2> QED BY <2>1, <2>3, <2>4 DEF SupplyTypeOK
<1>8. ASSUME NEW c \in Client, ReadItems(c)
      PROVE  SupplyTypeOK'
  <2>1. [i \in Item |-> IF i \in Present THEN received[i] ELSE 0] \in [Item -> 0 .. MaxQty]
    BY MaxQtyAssumption DEF SupplyTypeOK
  <2>2. seen' \in [Client -> [Item -> 0 .. MaxQty]]
    BY <1>8, <2>1 DEF ReadItems, SupplyTypeOK
  <2> QED BY <1>8, <2>2 DEF ReadItems, Turn, SupplyTypeOK
<1>9. ASSUME NEW c \in Client, EditItem(c) \/ DeleteItem(c)
      PROVE  SupplyTypeOK'
  <2>1. PICK i \in Item, n \in 0 .. MaxQty, m \in 0 .. MaxQty :
          ordered' = [ordered EXCEPT ![i] = n] /\ received' = [received EXCEPT ![i] = m]
    <3>1. 0 \in 0 .. MaxQty /\ 1 .. MaxQty \subseteq 0 .. MaxQty
      BY MaxQtyAssumption
    <3>2. CASE EditItem(c)
      BY <3>1, <3>2 DEF EditItem
    <3>3. CASE DeleteItem(c)
      <4>1. PICK i \in Item :
              ordered' = [ordered EXCEPT ![i] = 0] /\ received' = [received EXCEPT ![i] = 0]
        BY <3>3 DEF DeleteItem, Present
      <4> QED BY <3>1, <4>1
    <3> QED BY <1>9, <3>2, <3>3
  <2>2. UNCHANGED <<status, receipts, booked, step, mine>>
    BY <1>9 DEF EditItem, DeleteItem
  <2>3. ordered' \in [Item -> 0 .. MaxQty] /\ received' \in [Item -> 0 .. MaxQty]
    BY <2>1 DEF SupplyTypeOK
  <2> QED BY <2>2, <2>3 DEF SupplyTypeOK
<1>10. ASSUME NEW c \in Client, ReadVoid(c)
       PROVE  SupplyTypeOK'
  <2>1. PICK r \in DOMAIN receipts : at' = [at EXCEPT ![c] = r]
    BY <1>10 DEF ReadVoid
  <2>2. r \in 0 .. Len(receipts)
    BY <1>0, <2>1
  <2>3. at' \in [Client -> 0 .. Len(receipts)]
    BY <2>1, <2>2 DEF SupplyTypeOK
  <2> QED BY <1>10, <2>3 DEF ReadVoid, Start, Turn, SupplyTypeOK
<1>11. ASSUME NEW c \in Client, FindVoided(c)
       PROVE  SupplyTypeOK'
  BY <1>11 DEF FindVoided, Turn, SupplyTypeOK
<1>12. ASSUME NEW c \in Client, FindActive(c)
       PROVE  SupplyTypeOK'
  <2>1. at[c] \in DOMAIN receipts
    <3>1. at[c] # 0
      BY <1>12 DEF FindActive, LinesFit, Voiding
    <3> QED BY <1>0, <3>1 DEF SupplyTypeOK
  <2>2. receipts[at[c]].runs \in Nat
    <3>1. receipts[at[c]] \in Receipt
      BY <1>0, <2>1
    <3> QED BY <3>1 DEF Receipt
  <2>3. found' \in [Client -> Nat]
    BY <1>12, <2>2 DEF FindActive, SupplyTypeOK
  <2> QED BY <1>12, <2>3 DEF FindActive, Turn, SupplyTypeOK
<1>13. ASSUME NEW c \in Client, CommitVoid(c)
       PROVE  SupplyTypeOK'
  <2>1. at[c] \in DOMAIN receipts
    <3>1. at[c] # 0
      BY <1>13 DEF CommitVoid, LinesFit, Voiding
    <3> QED BY <1>0, <3>1 DEF SupplyTypeOK
  <2>2. receipts' \in Seq(Receipt) /\ Len(receipts) <= Len(receipts')
    <3>1. receipts' \in Seq(Receipt) /\ Len(receipts') = Len(receipts)
      BY <1>13, <2>1, ReceiptVoided
    <3> QED BY <1>0, <3>1
  <2>3. End(c) /\ UNCHANGED <<items, booked>>
    BY <1>13 DEF CommitVoid
  <2>4. /\ step' \in [Client -> {"idle", "lines", "refresh", "commit", "write", "book",
                                 "booking", "find", "active", "stamp"}]
        /\ seen' \in [Client -> [Item -> 0 .. MaxQty]]
        /\ want' \in [Client -> [Item -> Wanted]]
        /\ next' \in [Client -> Status]
        /\ at' \in [Client -> 0 .. Len(receipts')] /\ found' \in [Client -> Nat]
    BY <2>2, <2>3, CallEnds
  <2> QED BY <2>2, <2>3, <2>4 DEF SupplyTypeOK
<1> QED BY <1>1, <1>2, <1>3, <1>4, <1>5, <1>6, <1>7, <1>8, <1>9, <1>10, <1>11, <1>12, <1>13
        DEF SupplyNext, Call

----------------------------------------------------------------------------
(* What a call does to itself *)

\* Where a call is after a step, and what it keeps on its way.
LEMMA CallGoesOn ==
  ASSUME SupplyTypeOK, LinesFit, NEW c \in Client, Call(c)
  PROVE  \/ step'[c] = "idle" /\ at'[c] = 0 /\ found'[c] = 0
         \/ /\ ReadConfirm(c) \/ ReadPartial(c)
            /\ step[c] = "idle" /\ step'[c] = "lines"
            /\ at'[c] = at[c] /\ found'[c] = found[c]
         \/ /\ WriteLines(c) \/ Refresh(c)
            /\ step[c] \in Receiving /\ step'[c] \in {"refresh", "commit"}
            /\ want'[c] = want[c] /\ seen'[c] = seen[c]
            /\ at'[c] = at[c] /\ found'[c] = found[c]
         \/ /\ ReadChange(c) \/ ReadTransition(c)
            /\ step[c] = "idle" /\ step'[c] \in {"write", "book"}
            /\ at'[c] = at[c] /\ found'[c] = found[c]
         \/ /\ ReadItems(c) /\ step[c] = "book" /\ step'[c] = "booking"
            /\ at'[c] = at[c] /\ found'[c] = found[c]
         \/ /\ EditItem(c) \/ DeleteItem(c)
            /\ step[c] = "idle" /\ step'[c] = "idle"
            /\ at'[c] = at[c] /\ found'[c] = found[c]
         \/ /\ ReadVoid(c) /\ step[c] = "idle" /\ step'[c] = "find" /\ at'[c] \in DOMAIN receipts
            /\ found'[c] = found[c]
         \/ /\ FindVoided(c) /\ step[c] = "find" /\ step'[c] \in {"active", "stamp"}
            /\ at'[c] = at[c] /\ found'[c] = found[c]
         \/ /\ FindActive(c) /\ step[c] = "active" /\ step'[c] = "stamp" /\ at'[c] = at[c]
<1> USE DEF SupplyTypeOK
<1>1. ASSUME End(c)
      PROVE  step'[c] = "idle" /\ at'[c] = 0 /\ found'[c] = 0
  BY <1>1 DEF End, Turn
<1>2. CASE CommitReceipt(c) \/ WriteStatus(c) \/ Book(c) \/ CommitVoid(c) \/ Abort(c)
  BY <1>1, <1>2 DEF CommitReceipt, WriteStatus, Book, CommitVoid, Abort
<1>3. CASE WriteLines(c)
  BY <1>1, <1>3 DEF WriteLines, Receiving, Turn, mine
<1>4. CASE ReadConfirm(c) \/ ReadPartial(c)
  <2>1. PICK w : Receive(c, w)
    BY <1>4, DeliveryBegins
  <2> QED BY <1>4, <2>1 DEF Receive, Start, Turn
<1>5. CASE Refresh(c)
  BY <1>5 DEF Refresh, Receiving, Turn
<1>6. CASE ReadChange(c)
  BY <1>6 DEF ReadChange, Start, Turn
<1>7. CASE ReadTransition(c)
  BY <1>7 DEF ReadTransition, Start, Turn
<1>8. CASE ReadItems(c)
  BY <1>8 DEF ReadItems, Turn
<1>9. CASE EditItem(c) \/ DeleteItem(c)
  BY <1>9 DEF EditItem, DeleteItem, mine
<1>10. CASE ReadVoid(c)
  BY <1>10 DEF ReadVoid, Start, Turn
<1>11. CASE FindVoided(c)
  BY <1>11 DEF FindVoided, Turn, mine
<1>12. CASE FindActive(c)
  BY <1>12 DEF FindActive, Turn
<1> QED BY <1>2, <1>3, <1>4, <1>5, <1>6, <1>7, <1>8, <1>9, <1>10, <1>11, <1>12 DEF Call

LEMMA LinesFitStep ==
  ASSUME SupplyTypeOK, LinesFit, SupplyNext \/ UNCHANGED supplyVars
  PROVE  LinesFit'
<1> DEFINE Own(c) ==
             /\ step[c] \in Receiving =>
                  \A i \in Item : \A k \in DOMAIN want[c][i] : seen[c][i] + want[c][i][k] <= MaxQty
             /\ at[c] # 0 <=> step[c] \in Voiding
             /\ found[c] # 0 => step[c] = "stamp"
<1>1. \A c \in Client : Own(c)
  BY DEF LinesFit
<1>2. ASSUME NEW c \in Client, step'[c] = step[c], at'[c] = at[c], want'[c] = want[c],
             seen'[c] = seen[c], found'[c] = found[c]
      PROVE  Own(c)'
  BY <1>1, <1>2
<1>3. CASE UNCHANGED supplyVars \/ AllIdle
  BY <1>1, <1>3 DEF AllIdle, supplyVars, mine, LinesFit
<1>4. ASSUME NEW c \in Client, Call(c)
      PROVE  Own(c)'
  <2>0. /\ "idle" \notin Receiving \cup Voiding /\ "lines" \notin Voiding
        /\ Receiving \cap Voiding = {} /\ {"refresh", "commit"} \subseteq Receiving
        /\ "write" \notin Receiving \cup Voiding
        /\ {"book", "booking"} \cap (Receiving \cup Voiding) = {}
        /\ {"find", "active", "stamp"} \subseteq Voiding
        /\ "stamp" \notin Receiving
    BY DEF Receiving, Voiding
  <2>1. CASE ReadConfirm(c) \/ ReadPartial(c)
    <3>1. PICK w \in [Item -> Wanted] :
            /\ Receive(c, w)
            /\ \A i \in Item : \A k \in DOMAIN w[i] : received[i] + w[i][k] <= ordered[i]
      BY <2>1, DeliveryBegins
    <3>2. /\ want'[c] = w /\ seen'[c] = received /\ step'[c] = "lines" /\ at'[c] = at[c]
          /\ step[c] = "idle" /\ found'[c] = found[c]
      BY <3>1 DEF Receive, Start, Turn, SupplyTypeOK
    <3>3. ASSUME NEW i \in Item, NEW k \in DOMAIN w[i]
          PROVE  received[i] + w[i][k] <= MaxQty
      <4>1. received[i] \in 0 .. MaxQty /\ ordered[i] \in 0 .. MaxQty /\ MaxQty \in Nat
        BY MaxQtyAssumption DEF SupplyTypeOK
      <4>2. w[i][k] \in Nat
        <5>1. w[i] \in Seq(1 .. MaxQty) /\ MaxQty \in Nat
          BY WantedIs, MaxQtyAssumption
        <5> QED BY <5>1, <3>3
      <4>3. received[i] + w[i][k] <= ordered[i]
        BY <3>1, <3>3
      <4> QED BY <4>1, <4>2, <4>3
    <3> QED BY <1>1, <2>0, <3>2, <3>3
  <2>2. CASE ~(ReadConfirm(c) \/ ReadPartial(c))
    <3>1. \/ step'[c] = "idle" /\ at'[c] = 0 /\ found'[c] = 0
          \/ /\ step[c] \in Receiving /\ step'[c] \in {"refresh", "commit"}
             /\ want'[c] = want[c] /\ seen'[c] = seen[c]
             /\ at'[c] = at[c] /\ found'[c] = found[c]
          \/ /\ step[c] = "idle" /\ step'[c] \in {"write", "book"}
             /\ at'[c] = at[c] /\ found'[c] = found[c]
          \/ /\ step[c] = "book" /\ step'[c] = "booking"
             /\ at'[c] = at[c] /\ found'[c] = found[c]
          \/ /\ step[c] = "idle" /\ step'[c] = "idle"
             /\ at'[c] = at[c] /\ found'[c] = found[c]
          \/ /\ step[c] = "idle" /\ step'[c] = "find" /\ at'[c] \in DOMAIN receipts
             /\ found'[c] = found[c]
          \/ /\ step[c] = "find" /\ step'[c] \in {"active", "stamp"}
             /\ at'[c] = at[c] /\ found'[c] = found[c]
          \/ step[c] = "active" /\ step'[c] = "stamp" /\ at'[c] = at[c]
      BY <1>4, <2>2, CallGoesOn
    <3>2. 0 \notin DOMAIN receipts
      BY DEF SupplyTypeOK
    <3> QED BY <1>1, <2>0, <3>1, <3>2
  <2> QED BY <2>1, <2>2
<1>5. ASSUME NEW c \in Client, Call(c)
      PROVE  \A e \in Client : Own(e)'
  <2>1. \A e \in Client \ {c} : Own(e)'
    BY <1>2, <1>5, OtherCallsWait
  <2> QED BY <1>4, <1>5, <2>1
<1>6. (\A e \in Client : Own(e)') => LinesFit'
  BY DEF LinesFit
<1> HIDE DEF Own
<1> QED BY <1>3, <1>5, <1>6 DEF SupplyNext

----------------------------------------------------------------------------
(* The posting of a receipt *)

LEMMA OneReversalStep ==
  ASSUME SupplyTypeOK, LinesFit, OneReversal, SupplyNext \/ UNCHANGED supplyVars,
         Never({"voids"})'
  PROVE  OneReversal'
<1> DEFINE Row(r) == r.runs \in {1, 2} /\ (r.voided <=> r.runs = 2)
           Own(c) == /\ step[c] = "active" => receipts[at[c]].runs = 1
                     /\ step[c] = "stamp" =>
                          \/ found[c] = 0 /\ receipts[at[c]].runs = 2
                          \/ found[c] = 1 /\ receipts[at[c]].runs = 1
<1>0. /\ Len(receipts) \in Nat /\ receipts \in Seq(Receipt)
      /\ \A c \in Client : at[c] \in 0 .. Len(receipts)
  BY DEF SupplyTypeOK
<1>1. /\ \A r \in DOMAIN receipts : Row(receipts[r])
      /\ \A c, d \in Client : at[c] # 0 /\ at[c] = at[d] => c = d
      /\ \A c \in Client : Own(c)
  BY DEF OneReversal
<1>2. OneReversal' <=> /\ \A r \in DOMAIN receipts' : Row(receipts'[r])
                       /\ \A c, d \in Client : at'[c] # 0 /\ at'[c] = at'[d] => c = d
                       /\ \A c \in Client : Own(c)'
  BY DEF OneReversal
<1>3. CASE UNCHANGED supplyVars \/ AllIdle
  BY <1>1, <1>2, <1>3 DEF AllIdle, supplyVars, saved, mine
<1>4. ASSUME NEW c \in Client, Call(c)
      PROVE  OneReversal'
  <2>1. \A e \in Client \ {c} : /\ step'[e] = step[e] /\ at'[e] = at[e] /\ found'[e] = found[e]
    BY <1>4, OtherCallsWait
  <2>2. \A e \in Client : at[e] # 0 <=> step[e] \in Voiding
    BY DEF LinesFit
  <2>3. \A e \in Client : step[e] \in Voiding => at[e] \in DOMAIN receipts
    BY <1>0, <2>2
  <2>4. ~ReadVoid(c) => at'[c] \in {0, at[c]}
    BY <1>4, CallGoesOn
  <2>5. \A d, e \in Client : at'[d] # 0 /\ at'[d] = at'[e] => d = e
    <3>1. CASE ~ReadVoid(c)
      BY <1>1, <2>1, <2>4, <3>1
    <3>2. CASE ReadVoid(c)
      <4>1. PICK r \in DOMAIN receipts :
              /\ at' = [at EXCEPT ![c] = r]
              /\ Note(IF \E d \in Client : at[d] = r THEN {"voids"} ELSE {})
        BY <3>2 DEF ReadVoid
      <4>2. ~ \E d \in Client : at[d] = r
        BY <4>1 DEF Note, Never
      <4>3. at'[c] = r
        BY <4>1 DEF SupplyTypeOK
      <4> QED BY <1>1, <2>1, <4>2, <4>3
    <3> QED BY <3>1, <3>2
  <2>6. CASE CommitReceipt(c)
    <3>1. /\ receipts' \in Seq(Receipt) /\ Len(receipts') = Len(receipts) + 1
          /\ receipts'[Len(receipts')].runs = 1
          /\ \A i \in DOMAIN receipts : receipts'[i] = receipts[i]
      BY <2>6, ReceiptAdded
    <3>2. receipts'[Len(receipts')].voided = FALSE
      BY <2>6, ReceiptAdded
    <3>3. \A r \in DOMAIN receipts' : Row(receipts'[r])
      <4>1. \A r \in DOMAIN receipts' : r \in DOMAIN receipts \/ r = Len(receipts')
        BY <1>0, <3>1
      <4> QED BY <1>1, <3>1, <3>2, <4>1
    <3>4. step'[c] = "idle"
      BY <2>6 DEF CommitReceipt, End, Turn, SupplyTypeOK
    <3>5. \A e \in Client : Own(e)'
      BY <1>1, <2>1, <2>3, <3>1, <3>4 DEF Voiding
    <3> QED BY <1>2, <2>5, <3>3, <3>5
  <2>7. CASE CommitVoid(c)
    <3>1. step[c] = "stamp" /\ at[c] \in DOMAIN receipts
      BY <2>3, <2>7 DEF CommitVoid, Voiding
    <3>2. /\ DOMAIN receipts' = DOMAIN receipts
          /\ \A i \in DOMAIN receipts \ {at[c]} : receipts'[i] = receipts[i]
          /\ receipts'[at[c]].runs = Reversed(c)
      BY <2>7, <3>1, ReceiptVoided
    <3>3. receipts'[at[c]].voided = TRUE
      BY <2>7, <3>1, ReceiptVoided
    <3>4. Reversed(c) = 2
      BY <1>1, <3>1 DEF Reversed
    <3>5. \A r \in DOMAIN receipts' : Row(receipts'[r])
      BY <1>1, <3>2, <3>3, <3>4
    <3>6. step'[c] = "idle"
      BY <2>7 DEF CommitVoid, End, Turn, SupplyTypeOK
    <3>7. ASSUME NEW e \in Client, e # c
          PROVE  Own(e)'
      <4>1. step[e] \in Voiding => at[e] # at[c] /\ at[e] \in DOMAIN receipts
        BY <1>1, <2>2, <2>3, <3>7
      <4> QED BY <1>1, <2>1, <3>2, <3>7, <4>1 DEF Voiding
    <3>8. \A e \in Client : Own(e)'
      BY <3>6, <3>7
    <3> QED BY <1>2, <2>5, <3>5, <3>8
  <2>8. CASE ~CommitReceipt(c) /\ ~CommitVoid(c)
    <3>1. receipts' = receipts
      <4>1. CASE ReadConfirm(c) \/ ReadPartial(c)
        <5>1. PICK w : Receive(c, w)
          BY <4>1, DeliveryBegins
        <5> QED BY <5>1 DEF Receive, Start, saved
      <4>2. CASE WriteLines(c) \/ Refresh(c) \/ ReadItems(c) \/ FindVoided(c) \/ FindActive(c)
                 \/ Abort(c) \/ WriteStatus(c) \/ Book(c)
        BY <4>2 DEF WriteLines, Refresh, ReadItems, FindVoided, FindActive, Abort, saved,
                    WriteStatus, Book
      <4>3. CASE ReadChange(c) \/ ReadTransition(c) \/ ReadVoid(c)
        BY <4>3 DEF ReadChange, ReadTransition, ReadVoid, Start, saved
      <4>4. CASE EditItem(c) \/ DeleteItem(c)
        BY <4>4 DEF EditItem, DeleteItem
      <4> QED BY <1>4, <2>8, <4>1, <4>2, <4>3, <4>4 DEF Call
    <3>2. \A e \in Client \ {c} : Own(e)'
      BY <1>1, <2>1, <3>1
    <3>3. Own(c)'
      <4>1. CASE step'[c] \notin Voiding
        BY <4>1 DEF Voiding
      <4>2. CASE ReadVoid(c)
        <5>1. step'[c] = "find" /\ found'[c] = found[c] /\ step[c] = "idle"
          BY <4>2 DEF ReadVoid, Start, Turn, SupplyTypeOK
        <5> QED BY <5>1
      <4>3. CASE FindVoided(c)
        <5>1. /\ step[c] = "find" /\ found'[c] = found[c] /\ at'[c] = at[c]
              /\ step'[c] = IF receipts[at[c]].runs > 1 THEN "stamp" ELSE "active"
          BY <4>3 DEF FindVoided, Turn, mine, VoidedBefore, SupplyTypeOK
        <5>2. receipts[at[c]].runs \in {1, 2} /\ found[c] = 0
          BY <1>1, <2>3, <5>1 DEF Voiding, LinesFit
        <5> QED BY <3>1, <5>1, <5>2
      <4>4. CASE FindActive(c)
        <5>1. /\ step[c] = "active" /\ found'[c] = receipts[at[c]].runs /\ at'[c] = at[c]
              /\ step'[c] = "stamp"
          BY <4>4 DEF FindActive, Turn, SupplyTypeOK
        <5>2. receipts[at[c]].runs = 1
          BY <1>1, <5>1
        <5> QED BY <3>1, <5>1, <5>2
      <4> HIDE DEF Own
      <4>5. step'[c] \in Voiding => ReadVoid(c) \/ FindVoided(c) \/ FindActive(c)
        <5>1. \/ step'[c] \in {"idle", "lines", "refresh", "commit", "write", "book", "booking"}
              \/ ReadVoid(c) \/ FindVoided(c) \/ FindActive(c)
          BY <1>4, CallGoesOn
        <5> QED BY <5>1 DEF Voiding
      <4> QED BY <4>1, <4>2, <4>3, <4>4, <4>5
    <3> HIDE DEF Own
    <3> QED BY <1>1, <1>2, <2>5, <3>1, <3>2, <3>3
  <2> QED BY <2>6, <2>7, <2>8
<1> QED BY <1>3, <1>4 DEF SupplyNext

----------------------------------------------------------------------------
(* What is written, and by whom *)

LEMMA WhoWrites ==
  ASSUME SupplyTypeOK, NEW c \in Client, Call(c)
  PROVE  /\ UNCHANGED <<ordered, received>> \/ CommitReceipt(c) \/ EditItem(c) \/ DeleteItem(c)
         /\ UNCHANGED ordered \/ EditItem(c) \/ DeleteItem(c)
         /\ UNCHANGED status \/ CommitReceipt(c) \/ WriteStatus(c) \/ Book(c)
         /\ UNCHANGED receipts \/ CommitReceipt(c) \/ CommitVoid(c)
         /\ UNCHANGED booked \/ Book(c)
<1> USE DEF saved, items
<1>1. CASE ReadConfirm(c) \/ ReadPartial(c)
  <2>1. PICK w : Receive(c, w)
    BY <1>1, DeliveryBegins
  <2> QED BY <2>1 DEF Receive, Start
<1>2. CASE WriteLines(c) \/ Refresh(c) \/ ReadItems(c) \/ FindVoided(c) \/ FindActive(c) \/ Abort(c)
  BY <1>2 DEF WriteLines, Refresh, ReadItems, FindVoided, FindActive, Abort
<1>3. CASE ReadChange(c) \/ ReadTransition(c) \/ ReadVoid(c)
  BY <1>3 DEF ReadChange, ReadTransition, ReadVoid, Start
<1>4. CASE EditItem(c) \/ DeleteItem(c)
  BY <1>4 DEF EditItem, DeleteItem
<1>5. CASE CommitReceipt(c)
  BY <1>5 DEF CommitReceipt
<1>6. CASE WriteStatus(c) \/ Book(c)
  BY <1>6 DEF WriteStatus, Book
<1>7. CASE CommitVoid(c)
  BY <1>7 DEF CommitVoid
<1> QED BY <1>1, <1>2, <1>3, <1>4, <1>5, <1>6, <1>7 DEF Call

\* As long as nothing is lost, edits raise quantities while nobody else is at work.
LEMMA EditsWait ==
  ASSUME SupplyTypeOK, NEW c \in Client, EditItem(c) \/ DeleteItem(c), Never({"lost"})'
  PROVE  /\ AtWork(Receiving \cup Changing) = {} /\ "edited" \in history'
         /\ \A i \in Item : received[i] <= received'[i]
         /\ UNCHANGED <<status, receipts, booked>>
<1>1. ~DeleteItem(c)
  BY DEF DeleteItem, Note, Never
<1>2. PICK i \in Item, m \in 0 .. MaxQty :
        /\ received' = [received EXCEPT ![i] = m]
        /\ Note({"edited"} \cup
             IF m < received[i] \/ AtWork(Receiving \cup Changing) # {} THEN {"lost"} ELSE {})
        /\ UNCHANGED <<status, receipts, booked>>
  BY <1>1 DEF EditItem
<1>3. ~(m < received[i] \/ AtWork(Receiving \cup Changing) # {}) /\ "edited" \in history'
  BY <1>2 DEF Note, Never
<1>4. \A j \in Item : received[j] \in Nat
  BY DEF SupplyTypeOK
<1>5. \A j \in Item : received[j] <= received'[j]
  BY <1>2, <1>3, <1>4 DEF SupplyTypeOK
<1> QED BY <1>2, <1>3, <1>5

\* A delivery begins while nobody changes the status or delivers the same items.
LEMMA DeliveriesWait ==
  ASSUME SupplyTypeOK, NEW c \in Client, ReadConfirm(c) \/ ReadPartial(c), Never({"lost"})'
  PROVE  /\ want'[c] \in [Item -> Wanted] /\ seen'[c] = received
         /\ AtWork(Changing) = {} /\ UNCHANGED <<saved, next>>
         /\ \A i \in Item : want'[c][i] # <<>> =>
              /\ Len(want'[c][i]) = 1 /\ received[i] + want'[c][i][1] <= ordered[i]
              /\ \A d \in AtWork(Receiving) : want[d][i] = <<>>
         /\ AtWork(Receiving) # {} => "beside" \in history'
<1>1. PICK w \in [Item -> Wanted] :
        /\ Receive(c, w)
        /\ \A i \in Item : \A k \in DOMAIN w[i] : received[i] + w[i][k] <= ordered[i]
  BY DeliveryBegins
<1>2. /\ want'[c] = w /\ seen'[c] = received /\ UNCHANGED <<saved, next>>
      /\ Note((IF Loses(w) THEN {"lost"} ELSE {})
              \cup IF AtWork(Receiving) # {} THEN {"beside"} ELSE {})
  BY <1>1 DEF Receive, Start, SupplyTypeOK
<1>3. ~Loses(w) /\ (AtWork(Receiving) # {} => "beside" \in history')
  BY <1>2 DEF Note, Never
<1>4. ASSUME NEW i \in Item, w[i] # <<>>
      PROVE  /\ Len(w[i]) = 1 /\ received[i] + w[i][1] <= ordered[i]
             /\ \A d \in AtWork(Receiving) : want[d][i] = <<>>
  <2>1. /\ ~(Len(w[i]) > 1) /\ \A d \in AtWork(Receiving) : want[d][i] = <<>>
    BY <1>3, <1>4 DEF Loses
  <2>2. Len(w[i]) \in 0 .. 2 /\ Len(w[i]) # 0 /\ DOMAIN w[i] = 1 .. Len(w[i])
    BY <1>4, WantedIs
  <2>3. Len(w[i]) = 1 /\ 1 \in DOMAIN w[i]
    BY <2>1, <2>2
  <2> QED BY <1>1, <2>1, <2>3
<1> QED BY <1>2, <1>3, <1>4 DEF Loses

\* A change of status begins while nobody else receives or changes.
LEMMA ChangesWait ==
  ASSUME SupplyTypeOK, NEW c \in Client, ReadChange(c) \/ ReadTransition(c), Never({"lost"})'
  PROVE  /\ AtWork(Receiving \cup Changing) = {} /\ UNCHANGED saved
         /\ next'[c] \in MayFollow(status) \cup {status}
         /\ step'[c] = "book" => Booking(next'[c])
         /\ step'[c] = "write" /\ next'[c] \in Arrived => "marked" \in history'
<1>1. PICK s \in MayFollow(status) \cup {status} :
        /\ \/ Start(c, "book") /\ Booking(s) /\ Note(Changed)
           \/ Start(c, "write") /\ Note(Changed \cup Marked(s))
        /\ next' = [next EXCEPT ![c] = s]
  <2>1. CASE ReadChange(c)
    <3>1. PICK s \in MayFollow(status) \cup {status} :
            /\ Start(c, IF Booking(s) THEN "book" ELSE "write")
            /\ next' = [next EXCEPT ![c] = s]
            /\ Note(Changed \cup IF Booking(s) THEN {} ELSE Marked(s))
      BY <2>1 DEF ReadChange
    <3>2. CASE Booking(s)
      <4>1. Changed \cup {} = Changed
        OBVIOUS
      <4> QED BY <3>1, <3>2, <4>1
    <3>3. CASE ~Booking(s)
      BY <3>1, <3>3
    <3> QED BY <3>2, <3>3
  <2>2. CASE ReadTransition(c)
    BY <2>2 DEF ReadTransition
  <2> QED BY <2>1, <2>2
<1>2. next'[c] = s /\ UNCHANGED saved
  BY <1>1 DEF Start, SupplyTypeOK
<1>3. \/ step'[c] = "book" /\ Booking(s) /\ Note(Changed)
      \/ step'[c] = "write" /\ Note(Changed \cup Marked(s))
  BY <1>1 DEF Start, Turn, SupplyTypeOK
<1>4. "lost" \notin Changed
  BY <1>3 DEF Note, Never, Marked
<1>5. AtWork(Receiving \cup Changing) = {}
  BY <1>4 DEF Changed
<1>6. step'[c] = "write" /\ s \in Arrived => "marked" \in history'
  BY <1>3 DEF Note, Never, Marked
<1> QED BY <1>2, <1>3, <1>5, <1>6

----------------------------------------------------------------------------
(* Taking turns *)

\* Who is receiving or changing after a step was so before, or begins with it.
LEMMA AtWorkAfter ==
  ASSUME SupplyTypeOK, LinesFit, NEW c \in Client, Call(c), NEW e \in Client
  PROVE  /\ step'[e] \in Receiving =>
              \/ step[e] \in Receiving /\ want'[e] = want[e] /\ seen'[e] = seen[e]
              \/ e = c /\ (ReadConfirm(c) \/ ReadPartial(c))
         /\ step'[e] \in Changing =>
              \/ step[e] \in Changing
              \/ e = c /\ (ReadChange(c) \/ ReadTransition(c))
<1>1. CASE e # c
  BY <1>1, OtherCallsWait
<1>2. CASE e = c
  <2>1. /\ {"idle", "find", "active", "stamp"} \cap (Receiving \cup Changing) = {}
        /\ Receiving \cap Changing = {} /\ {"lines", "refresh", "commit"} = Receiving
        /\ {"write", "book", "booking"} = Changing
    BY DEF Receiving, Changing
  <2> QED BY <1>2, <2>1, CallGoesOn
<1> QED BY <1>1, <1>2

\* Whoever writes is at work, but for the calls that edit an item.
LEMMA WritersAtWork ==
  ASSUME NEW c \in Client
  PROVE  /\ CommitReceipt(c) => step[c] \in Receiving
         /\ WriteStatus(c) \/ Book(c) => step[c] \in Changing
  BY DEF CommitReceipt, WriteStatus, Book, Receiving, Changing

LEMMA TurnsStep ==
  ASSUME SupplyTypeOK, LinesFit, TakesTurns, SupplyNext \/ UNCHANGED supplyVars,
         Never({"lost"})'
  PROVE  TakesTurns'
<1>1. CASE UNCHANGED supplyVars \/ AllIdle
  BY <1>1 DEF AllIdle, supplyVars, mine, saved, items, TakesTurns, Counted
<1>2. ASSUME NEW c \in Client, Call(c)
      PROVE  TakesTurns'
  <2> DEFINE Old(e) == step[e] \in Receiving /\ want'[e] = want[e] /\ seen'[e] = seen[e]
             Begins(e) == e = c /\ (ReadConfirm(c) \/ ReadPartial(c))
             Changes(e) == e = c /\ (ReadChange(c) \/ ReadTransition(c))
  <2>1. \A e \in Client : /\ step'[e] \in Receiving => Old(e) \/ Begins(e)
                          /\ step'[e] \in Changing => step[e] \in Changing \/ Changes(e)
    BY <1>2, AtWorkAfter
  <2>2. \A e \in Client : Begins(e) =>
          /\ want'[e] \in [Item -> Wanted] /\ seen'[e] = received
          /\ \A d \in Client : step[d] \notin Changing
          /\ UNCHANGED <<ordered, received>>
          /\ \A i \in Item : want'[e][i] # <<>> =>
               /\ Len(want'[e][i]) = 1 /\ received[i] + want'[e][i][1] <= ordered[i]
               /\ \A d \in Client : step[d] \in Receiving => want[d][i] = <<>>
    BY <1>2, DeliveriesWait DEF AtWork, saved, items
  <2>3. \A e \in Client : Changes(e) =>
          \A d \in Client : step[d] \notin Receiving \cup Changing
    BY <1>2, ChangesWait DEF AtWork
  <2>4. \A e \in Client : ~(Begins(e) /\ Changes(e))
    <3>1. ReadConfirm(c) \/ ReadPartial(c) => step'[c] = "lines"
      <4>1. ASSUME NEW w, Receive(c, w)
            PROVE  step'[c] = "lines"
        BY <4>1 DEF Receive, Start, Turn, SupplyTypeOK
      <4> QED BY <1>2, <4>1, DeliveryBegins
    <3>2. ReadChange(c) \/ ReadTransition(c) => step'[c] \in {"write", "book"}
      BY <1>2 DEF ReadChange, ReadTransition, Start, Turn, SupplyTypeOK
    <3> QED BY <3>1, <3>2
  <2>5. ASSUME NEW d \in Client, NEW e \in Client,
               step'[d] \in Changing, step'[e] \in Receiving \cup Changing
        PROVE  d = e
    <3>1. step[d] \in Changing \/ Changes(d)
      BY <2>1, <2>5
    <3>2. \/ step[e] \in Receiving \cup Changing \/ Changes(e)
          \/ Begins(e)
      BY <2>1, <2>5
    <3>3. CASE Changes(d)
      <4>1. step[e] \notin Receiving \cup Changing
        BY <2>3, <3>3
      <4>2. ~Begins(e)
        BY <2>4, <3>3
      <4> QED BY <3>2, <3>3, <4>1, <4>2
    <3>4. CASE step[d] \in Changing
      <4>1. ~Begins(e) /\ ~Changes(e)
        BY <2>2, <2>3, <3>4
      <4> QED BY <3>2, <3>4, <4>1 DEF TakesTurns
    <3> HIDE DEF Begins, Changes
    <3> QED BY <3>1, <3>3, <3>4
  <2>6. ASSUME NEW d \in Client, NEW e \in Client, NEW i \in Item,
               step'[d] \in Receiving, step'[e] \in Receiving,
               want'[d][i] # <<>>, want'[e][i] # <<>>
        PROVE  d = e
    <3>1. CASE Old(d) /\ Old(e)
      BY <2>6, <3>1 DEF TakesTurns
    <3>2. CASE Begins(d) /\ Begins(e)
      BY <3>2
    <3>3. CASE Begins(d) /\ Old(e)
      BY <2>2, <2>6, <3>3
    <3>4. CASE Old(d) /\ Begins(e)
      BY <2>2, <2>6, <3>4
    <3> HIDE DEF Begins, Old
    <3> QED BY <2>1, <2>6, <3>1, <3>2, <3>3, <3>4
  <2>7. ASSUME NEW e \in Client, NEW i \in Item, step'[e] \in Receiving, want'[e][i] # <<>>
        PROVE  /\ Len(want'[e][i]) = 1 /\ seen'[e][i] = received'[i]
               /\ Counted(e, i)' <= ordered'[i]
    <3>1. CASE Begins(e)
      BY <2>2, <2>7, <3>1 DEF Counted
    <3>2. CASE Old(e)
      <4>1. /\ Len(want'[e][i]) = 1 /\ seen'[e][i] = received[i]
            /\ Counted(e, i)' <= ordered[i]
        BY <2>7, <3>2 DEF TakesTurns, Counted
      <4>2. ordered'[i] = ordered[i] /\ received'[i] = received[i]
        <5>1. ~(EditItem(c) \/ DeleteItem(c))
          <6>1. EditItem(c) \/ DeleteItem(c) => AtWork(Receiving \cup Changing) = {}
            BY <1>2, EditsWait
          <6> QED BY <3>2, <6>1 DEF AtWork
        <5>2. CASE CommitReceipt(c)
          <6>1. c # e
            <7>1. step'[c] = "idle"
              BY <5>2 DEF CommitReceipt, End, Turn, SupplyTypeOK
            <7> QED BY <2>7, <7>1 DEF Receiving
          <6>2. want[c][i] = <<>>
            BY <2>7, <3>2, <5>2, <6>1, WritersAtWork DEF TakesTurns
          <6> QED BY <5>2, <6>2 DEF CommitReceipt
        <5> QED BY <1>2, <5>1, <5>2, WhoWrites
      <4> QED BY <4>1, <4>2
    <3> HIDE DEF Begins, Old
    <3> QED BY <2>1, <2>7, <3>1, <3>2
  <2> HIDE DEF Begins, Old, Changes
  <2> QED BY <2>5, <2>6, <2>7 DEF TakesTurns
<1> QED BY <1>1, <1>2 DEF SupplyNext

----------------------------------------------------------------------------
(* The status, and the calls that are about to write it *)

\* A call about to write a status was so before, or has just found it.
LEMMA AboutToWrite ==
  ASSUME SupplyTypeOK, LinesFit, NEW c \in Client, Call(c), NEW e \in Client
  PROVE  /\ step'[e] = "commit" =>
              \/ step[e] = "commit" /\ next'[e] = next[e]
              \/ e = c /\ Refresh(c)
         /\ step'[e] = "write" =>
              \/ step[e] = "write" /\ next'[e] = next[e]
              \/ e = c /\ (ReadChange(c) \/ ReadTransition(c))
         /\ step'[e] = "book" =>
              \/ step[e] = "book" /\ next'[e] = next[e]
              \/ e = c /\ (ReadChange(c) \/ ReadTransition(c))
         /\ step'[e] = "booking" =>
              \/ step[e] = "booking" /\ next'[e] = next[e] /\ seen'[e] = seen[e]
              \/ e = c /\ ReadItems(c)
<1>1. CASE e # c
  BY <1>1, OtherCallsWait
<1>2. CASE e = c
  <2>1. WriteLines(c) => step'[c] \in {"refresh", "idle"}
    BY DEF WriteLines, End, Turn, SupplyTypeOK
  <2> QED BY <1>2, <2>1, CallGoesOn
<1> QED BY <1>1, <1>2

\* While a call is changing the status, nobody else writes.
LEMMA ChangesAlone ==
  ASSUME SupplyTypeOK, LinesFit, TakesTurns, NEW c \in Client, Call(c), Never({"lost"})',
         NEW e \in Client, step[e] \in Changing, e # c
  PROVE  UNCHANGED <<status, ordered, received>>
<1>1. step[c] \notin Receiving \cup Changing
  BY DEF TakesTurns
<1>2. ~CommitReceipt(c) /\ ~WriteStatus(c) /\ ~Book(c)
  BY <1>1, WritersAtWork
<1>3. ~(EditItem(c) \/ DeleteItem(c))
  <2>1. EditItem(c) \/ DeleteItem(c) => AtWork(Receiving \cup Changing) = {}
    BY EditsWait
  <2> QED BY <2>1 DEF AtWork
<1> QED BY <1>2, <1>3, WhoWrites

\* Where a status may lead.
LEMMA Follows ==
  /\ \A s \in Arrived \cup {"CLOSED"} : MayFollow(s) \cup {s} \subseteq Arrived \cup {"CLOSED"}
  /\ status \notin Arrived =>
       \A s \in (MayFollow(status) \cup {status}) \cap Arrived : status = "ORDERED"
<1>1. Arrived = {"PARTIAL_RECEIVED", "RECEIVED"}
  BY DEF Arrived
<1>2. \A s \in Arrived \cup {"CLOSED"} : MayFollow(s) \subseteq Arrived \cup {"CLOSED"}
  BY DEF Arrived, MayFollow
<1>3. ASSUME status \notin Arrived, NEW s \in (MayFollow(status) \cup {status}) \cap Arrived
      PROVE  status = "ORDERED"
  BY <1>3 DEF Arrived, MayFollow
<1> QED BY <1>2, <1>3

LEMMA StatusStep ==
  ASSUME SupplyTypeOK, LinesFit, TakesTurns, StatusStands,
         SupplyNext \/ UNCHANGED supplyVars, Never({"lost"})'
  PROVE  StatusStands'
<1> DEFINE Bound(e) ==
             /\ step[e] = "commit" => next[e] \in Arrived
             /\ step[e] = "write" => next[e] \in MayFollow(status) \cup {status}
             /\ step[e] \in {"book", "booking"} => status = "ORDERED" /\ next[e] \in Arrived
             /\ step[e] = "booking" => \A i \in Item : seen[e][i] <= received[i]
           Here == receipts # <<>> => status \in Arrived \cup {"CLOSED"}
<1>0. Here /\ \A e \in Client : Bound(e)
  BY DEF StatusStands
<1>1. CASE UNCHANGED supplyVars \/ AllIdle
  BY <1>1 DEF AllIdle, supplyVars, mine, saved, items, StatusStands, MayFollow
<1>2. ASSUME NEW c \in Client, Call(c)
      PROVE  StatusStands'
  <2>1. Here'
    <3>1. CASE CommitReceipt(c)
      BY <1>0, <3>1 DEF CommitReceipt
    <3>2. CASE CommitVoid(c)
      <4>1. at[c] \in 0 .. Len(receipts) /\ at[c] # 0
        BY <3>2 DEF CommitVoid, LinesFit, Voiding, SupplyTypeOK
      <4>2. receipts # <<>>
        BY <4>1
      <4>3. status' = status
        BY <3>2 DEF CommitVoid, items
      <4> QED BY <1>0, <4>2, <4>3
    <3>3. CASE WriteStatus(c)
      <4>1. status' = next[c] /\ receipts' = receipts
        BY <3>3 DEF WriteStatus
      <4>2. next[c] \in MayFollow(status) \cup {status}
        BY <1>0, <3>3 DEF WriteStatus
      <4> QED BY <1>0, <4>1, <4>2, Follows
    <3>4. CASE Book(c)
      <4>1. status = "ORDERED" /\ receipts' = receipts
        BY <1>0, <3>4 DEF Book
      <4>2. receipts = <<>>
        BY <1>0, <4>1 DEF Arrived
      <4> QED BY <4>1, <4>2
    <3>5. CASE ~(CommitReceipt(c) \/ CommitVoid(c) \/ WriteStatus(c) \/ Book(c))
      BY <1>0, <1>2, <3>5, WhoWrites
    <3> HIDE DEF Here
    <3> QED BY <3>1, <3>2, <3>3, <3>4, <3>5
  <2>2. ASSUME NEW e \in Client
        PROVE  Bound(e)'
    <3>0. {"write", "book", "booking"} = Changing
      BY DEF Changing
    <3>a. step[e] \in Changing /\ e # c => UNCHANGED <<status, ordered, received>>
      BY <1>2, ChangesAlone
    <3>1. step'[e] = "commit" => next'[e] \in Arrived
      <4>1. Refresh(c) => next'[c] \in Arrived
        BY DEF Refresh, Arrived, SupplyTypeOK
      <4> QED BY <1>0, <1>2, <4>1, AboutToWrite
    <3>2. ReadChange(c) \/ ReadTransition(c) =>
            /\ status' = status
            /\ next'[c] \in MayFollow(status) \cup {status}
            /\ step'[c] = "book" => status = "ORDERED" /\ next'[c] \in Arrived
      <4>1. ASSUME ReadChange(c) \/ ReadTransition(c)
            PROVE  /\ UNCHANGED saved /\ next'[c] \in MayFollow(status) \cup {status}
                   /\ step'[c] = "book" => Booking(next'[c])
        BY <1>2, <4>1, ChangesWait
      <4> QED BY <4>1, Follows DEF Booking, saved, items
    <3>3. step[e] \in {"book", "write"} /\ step'[e] = step[e] => e # c
      <4>1. CASE e = c
        <5>1. step[c] \in {"book", "write"} => step'[c] # step[c]
          BY <1>2, CallGoesOn DEF Receiving
        <5> QED BY <4>1, <5>1
      <4> QED BY <4>1
    <3>4. step'[e] = "write" => next'[e] \in MayFollow(status') \cup {status'}
      <4>1. CASE step[e] = "write" /\ next'[e] = next[e] /\ step'[e] = "write"
        BY <1>0, <3>0, <3>a, <3>3, <4>1 DEF MayFollow
      <4>2. CASE e = c /\ (ReadChange(c) \/ ReadTransition(c))
        <5>1. MayFollow(status') = MayFollow(status)
          BY <3>2, <4>2 DEF MayFollow
        <5> QED BY <3>2, <4>2, <5>1
      <4> QED BY <1>2, <4>1, <4>2, AboutToWrite
    <3>5. step'[e] = "book" => status' = "ORDERED" /\ next'[e] \in Arrived
      <4>1. CASE step[e] = "book" /\ next'[e] = next[e] /\ step'[e] = "book"
        BY <1>0, <3>0, <3>a, <3>3, <4>1
      <4>2. CASE e = c /\ (ReadChange(c) \/ ReadTransition(c))
        BY <3>2, <4>2
      <4> QED BY <1>2, <4>1, <4>2, AboutToWrite
    <3>6. step'[e] = "booking" =>
            /\ status' = "ORDERED" /\ next'[e] \in Arrived
            /\ \A i \in Item : seen'[e][i] <= received'[i]
      <4>1. CASE /\ step[e] = "booking" /\ next'[e] = next[e] /\ seen'[e] = seen[e]
                 /\ step'[e] = "booking"
        <5>1. e # c
          <6>1. step[c] = "booking" => step'[c] # "booking"
            BY <1>2, CallGoesOn DEF Receiving
          <6> QED BY <4>1, <6>1
        <5> QED BY <1>0, <3>0, <3>a, <4>1, <5>1
      <4>2. CASE e = c /\ ReadItems(c)
        <5>1. /\ next'[c] = next[c] /\ status' = status /\ received' = received /\ step[c] = "book"
              /\ seen'[c] = [i \in Item |-> IF i \in Present THEN received[i] ELSE 0]
          BY <4>2 DEF ReadItems, saved, items, SupplyTypeOK
        <5>2. \A i \in Item : received[i] \in Nat
          BY DEF SupplyTypeOK
        <5> QED BY <1>0, <4>2, <5>1, <5>2
      <4> QED BY <1>2, <4>1, <4>2, AboutToWrite
    <3> QED BY <3>1, <3>4, <3>5, <3>6
  <2>3. StatusStands' <=> Here' /\ \A e \in Client : Bound(e)'
    BY DEF StatusStands
  <2> HIDE DEF Here, Bound
  <2> QED BY <2>1, <2>2, <2>3
<1> QED BY <1>1, <1>2 DEF SupplyNext

----------------------------------------------------------------------------
(* The quantities *)

LEMMA DeliveredRows ==
  ASSUME SupplyTypeOK, NEW i \in Item
  PROVE  /\ IsFiniteSet(DOMAIN receipts)
         /\ \A r \in DOMAIN receipts : receipts[r].lines[i] \in Nat
         /\ Delivered(i) \in Nat
         /\ receipts = <<>> => Delivered(i) = 0
<1> DEFINE f == [r \in DOMAIN receipts |-> receipts[r].lines[i]]
<1>1. IsFiniteSet(DOMAIN receipts)
  <2>1. Len(receipts) \in Nat /\ DOMAIN receipts = 1 .. Len(receipts)
    BY DEF SupplyTypeOK
  <2> QED BY <2>1, FS_Interval
<1>2. ASSUME NEW r \in DOMAIN receipts
      PROVE  receipts[r].lines[i] \in Nat
  <2>1. receipts[r] \in Receipt
    BY DEF SupplyTypeOK
  <2> QED BY <2>1 DEF Receipt
<1>3. \A r \in DOMAIN receipts : f[r] \in Nat
  BY <1>2
<1>4. Delivered(i) = SumFunctionOnSet(f, DOMAIN receipts)
  BY DEF Delivered
<1>5. receipts = <<>> => DOMAIN receipts = {}
  OBVIOUS
<1> HIDE DEF f
<1>6. Delivered(i) \in Nat
  BY <1>1, <1>3, <1>4, SumNat
<1>7. receipts = <<>> => Delivered(i) = 0
  BY <1>4, <1>5, SumEmpty
<1> QED BY <1>1, <1>2, <1>6, <1>7

\* A receipt brings in what its lines add up to.
LEMMA DeliveredAdded ==
  ASSUME SupplyTypeOK, NEW c \in Client, CommitReceipt(c), NEW i \in Item
  PROVE  Delivered(i)' = Delivered(i) + Total(want[c][i])
<1> DEFINE n == Len(receipts')
           f == [r \in DOMAIN receipts |-> receipts[r].lines[i]]
           g == [r \in DOMAIN receipts' |-> receipts'[r].lines[i]]
<1>1. /\ DOMAIN receipts' = DOMAIN receipts \cup {n} /\ n \notin DOMAIN receipts
      /\ \A r \in DOMAIN receipts : receipts'[r] = receipts[r]
      /\ receipts'[n].lines = [j \in Item |-> Total(want[c][j])]
  BY ReceiptAdded
<1>2. Total(want[c][i]) \in Nat
  BY WantedIs DEF SupplyTypeOK
<1>3. IsFiniteSet(DOMAIN receipts) /\ \A r \in DOMAIN receipts : receipts[r].lines[i] \in Nat
  BY DeliveredRows
<1>4. \A r \in DOMAIN receipts : f[r] \in Int /\ g[r] = f[r]
  BY <1>1, <1>3
<1>5. g[n] = Total(want[c][i])
  BY <1>1
<1>6. /\ Delivered(i) = SumFunctionOnSet(f, DOMAIN receipts)
      /\ Delivered(i)' = SumFunctionOnSet(g, DOMAIN receipts \cup {n})
  BY <1>1 DEF Delivered
<1> HIDE DEF f, g, n
<1>7. \A r \in DOMAIN receipts \cup {n} : g[r] \in Int
  BY <1>2, <1>4, <1>5
<1>8. SumFunctionOnSet(g, DOMAIN receipts \cup {n}) = SumFunctionOnSet(g, DOMAIN receipts) + g[n]
  BY <1>1, <1>3, <1>7, SumAdd
<1>9. SumFunctionOnSet(g, DOMAIN receipts) = SumFunctionOnSet(f, DOMAIN receipts)
  BY <1>3, <1>4, SumSame
<1> QED BY <1>5, <1>6, <1>8, <1>9

\* Nothing else does, and a void takes nothing back.
LEMMA DeliveredStands ==
  ASSUME SupplyTypeOK, LinesFit, NEW c \in Client, Call(c), ~CommitReceipt(c), NEW i \in Item
  PROVE  Delivered(i)' = Delivered(i)
<1>1. CASE CommitVoid(c)
  <2> DEFINE f == [r \in DOMAIN receipts |-> receipts[r].lines[i]]
             g == [r \in DOMAIN receipts' |-> receipts'[r].lines[i]]
  <2>1. at[c] \in DOMAIN receipts
    <3>1. at[c] # 0 /\ Len(receipts) \in Nat /\ at[c] \in 0 .. Len(receipts)
      BY <1>1 DEF CommitVoid, LinesFit, Voiding, SupplyTypeOK
    <3> QED BY <3>1 DEF SupplyTypeOK
  <2>2. /\ DOMAIN receipts' = DOMAIN receipts
        /\ \A r \in DOMAIN receipts : receipts'[r].lines = receipts[r].lines
    BY <1>1, <2>1, ReceiptVoided
  <2>3. f = g
    BY <2>2
  <2> QED BY <2>2, <2>3 DEF Delivered
<1>2. CASE ~CommitVoid(c)
  <2>1. receipts' = receipts
    BY <1>2, WhoWrites
  <2> QED BY <2>1 DEF Delivered
<1> QED BY <1>1, <1>2

\* What a receipt takes in is what its items count as received then.
LEMMA CountedOnce ==
  ASSUME SupplyTypeOK, TakesTurns, NEW c \in Client, CommitReceipt(c), NEW i \in Item
  PROVE  /\ received'[i] = received[i] + Total(want[c][i])
         /\ want[c][i] # <<>> => received'[i] <= ordered[i]
<1>0. received[i] \in Nat /\ want[c][i] \in Wanted
  BY DEF SupplyTypeOK
<1>1. CASE want[c][i] = <<>>
  <2>1. Total(want[c][i]) = 0
    BY <1>0, <1>1, WantedIs
  <2>2. received'[i] = received[i]
    BY <1>1 DEF CommitReceipt
  <2> QED BY <1>0, <1>1, <2>1, <2>2
<1>2. CASE want[c][i] # <<>>
  <2>1. step[c] \in Receiving
    BY WritersAtWork
  <2>2. Len(want[c][i]) = 1 /\ seen[c][i] = received[i] /\ Counted(c, i) <= ordered[i]
    BY <1>2, <2>1 DEF TakesTurns
  <2>3. Total(want[c][i]) = want[c][i][1]
    BY <1>0, <2>2, WantedIs
  <2>4. received'[i] = Counted(c, i)
    BY <1>2 DEF CommitReceipt
  <2> QED BY <2>2, <2>3, <2>4 DEF Counted
<1> QED BY <1>1, <1>2

\* The status of a purchase that takes it in itself: there is no receipt.
LEMMA BooksFirst ==
  ASSUME SupplyTypeOK, StatusStands, NEW c \in Client, Book(c)
  PROVE  /\ receipts = <<>> /\ next[c] \in Arrived
         /\ \A i \in Item : /\ seen[c][i] <= received[i]
                            /\ booked'[i] = booked[i] \/ booked'[i] = seen[c][i]
         /\ UNCHANGED <<ordered, received, receipts>>
<1>1. step[c] = "booking"
  BY DEF Book
<1>2. status = "ORDERED" /\ next[c] \in Arrived
  BY <1>1 DEF StatusStands
<1>3. receipts = <<>>
  BY <1>2 DEF StatusStands, Arrived
<1>4. \A i \in Item : seen[c][i] <= received[i]
  BY <1>1 DEF StatusStands
<1> QED BY <1>2, <1>3, <1>4 DEF Book, Booked

LEMMA AccountsStep ==
  ASSUME SupplyTypeOK, LinesFit, TakesTurns, StatusStands, NothingTwice, AllAccounted,
         SupplyNext \/ UNCHANGED supplyVars, Never({"lost"}), Never({"lost"})'
  PROVE  NothingTwice' /\ AllAccounted'
<1> DEFINE Fair(i) == Delivered(i) + booked[i] <= received[i]
           Full(i) == received[i] = Delivered(i) /\ received[i] <= ordered[i] /\ booked[i] = 0
           Untouched == Never({"lost", "edited"})
<1>1. CASE UNCHANGED supplyVars \/ AllIdle
  BY <1>1 DEF AllIdle, supplyVars, saved, items, NothingTwice, AllAccounted, Delivered, Never
<1>2. ASSUME NEW c \in Client, Call(c)
      PROVE  NothingTwice' /\ AllAccounted'
  <2>1. Untouched' => Untouched
    <3>1. history \subseteq history'
      BY NotedForGood DEF Never
    <3> QED BY <3>1 DEF Never
  <2>2. ASSUME NEW i \in Item
        PROVE  Fair(i)' /\ (Untouched' => Full(i)')
    <3>1. /\ Delivered(i) \in Nat /\ received[i] \in Nat /\ booked[i] \in Nat
          /\ ordered[i] \in Nat
      BY DeliveredRows DEF SupplyTypeOK
    <3>2. Fair(i) /\ (Untouched' => Full(i))
      BY <2>1 DEF NothingTwice, AllAccounted
    <3>3. CASE CommitReceipt(c)
      <4>1. /\ Delivered(i)' = Delivered(i) + Total(want[c][i])
            /\ received'[i] = received[i] + Total(want[c][i])
            /\ want[c][i] # <<>> => received'[i] <= ordered[i]
        BY <3>3, DeliveredAdded, CountedOnce
      <4>2. booked' = booked /\ ordered' = ordered
        BY <3>3 DEF CommitReceipt
      <4>3. want[c][i] \in Wanted
        BY DEF SupplyTypeOK
      <4>4. Total(want[c][i]) \in Nat /\ (want[c][i] = <<>> => Total(want[c][i]) = 0)
        BY <4>3, WantedIs
      <4> HIDE DEF Untouched
      <4> QED BY <3>1, <3>2, <4>1, <4>2, <4>4
    <3>4. CASE Book(c)
      <4>1. /\ receipts = <<>> /\ seen[c][i] <= received[i]
            /\ booked'[i] = booked[i] \/ booked'[i] = seen[c][i]
            /\ UNCHANGED <<ordered, received, receipts>>
        BY <3>4, BooksFirst
      <4>2. Delivered(i) = 0 /\ Delivered(i)' = Delivered(i)
        BY <4>1, DeliveredRows DEF Delivered
      <4>3. seen[c][i] \in Nat
        BY DEF SupplyTypeOK
      <4>4. ordered'[i] = ordered[i] /\ received'[i] = received[i]
        BY <4>1
      <4>5. booked'[i] <= received[i]
        BY <3>1, <3>2, <4>1, <4>2, <4>3
      <4>6. booked'[i] \in Nat
        BY <3>1, <4>1, <4>3
      <4>7. Untouched' => booked'[i] = 0
        BY <3>1, <3>2, <4>2, <4>5, <4>6
      <4> HIDE DEF Untouched
      <4> QED BY <3>1, <3>2, <4>2, <4>4, <4>5, <4>6, <4>7
    <3>5. CASE EditItem(c) \/ DeleteItem(c)
      <4>1. "edited" \in history' /\ received[i] <= received'[i] /\ UNCHANGED <<receipts, booked>>
        BY <3>5, EditsWait
      <4>2. Delivered(i)' = Delivered(i)
        BY <4>1 DEF Delivered
      <4>3. received'[i] \in Nat
        <5>1. SupplyTypeOK'
          BY SupplyTypes
        <5> QED BY <5>1 DEF SupplyTypeOK
      <4>4. ~Untouched'
        BY <4>1 DEF Never
      <4> HIDE DEF Untouched
      <4> QED BY <3>1, <3>2, <4>1, <4>2, <4>3, <4>4
    <3>6. CASE ~(CommitReceipt(c) \/ Book(c) \/ EditItem(c) \/ DeleteItem(c))
      <4>1. UNCHANGED <<ordered, received, booked>>
        BY <1>2, <3>6, WhoWrites
      <4>2. Delivered(i)' = Delivered(i)
        BY <1>2, <3>6, DeliveredStands
      <4> HIDE DEF Untouched
      <4> QED BY <3>2, <4>1, <4>2
    <3> HIDE DEF Untouched, Fair, Full
    <3> QED BY <3>3, <3>4, <3>5, <3>6
  <2> QED BY <2>2 DEF NothingTwice, AllAccounted
<1> QED BY <1>1, <1>2 DEF SupplyNext

----------------------------------------------------------------------------
(* What the status tells *)

LEMMA TellsStep ==
  ASSUME SupplyTypeOK, LinesFit, TakesTurns, StatusStands, AllAccounted,
         StatusTells, ReceivedIsComplete, SupplyNext \/ UNCHANGED supplyVars,
         Never({"lost", "edited", "marked"}), Never({"lost", "edited", "marked"})'
  PROVE  StatusTells' /\ ReceivedIsComplete'
<1> DEFINE Complete(e) == \A i \in Present : Refreshed(e, i) >= ordered[i]
           InFull == \A i \in Present : received[i] = ordered[i]
           Tells(e) == /\ step[e] = "write" => next[e] \notin Arrived
                       /\ step[e] = "commit" =>
                            /\ next[e] = "RECEIVED" => Complete(e)
                            /\ Complete(e) /\ Never({"beside"}) => next[e] = "RECEIVED"
           OneByOne == Never({"beside"}) =>
             \A d, e \in Client : step[d] \in Receiving /\ step[e] \in Receiving => d = e
           Right == receipts # <<>> /\ status \in Arrived =>
             /\ status = "RECEIVED" => InFull
             /\ InFull /\ Never({"beside"}) => status = "RECEIVED"
<1>0. /\ Never({"lost"}) /\ Never({"lost"})' /\ "edited" \notin history' /\ "marked" \notin history'
      /\ Never({"lost", "edited"})
  BY DEF Never
<1>1. (\A e \in Client : Tells(e)) /\ OneByOne
  BY DEF StatusTells
<1>2. Right
  BY DEF ReceivedIsComplete
<1>3. StatusTells' <=> (\A e \in Client : Tells(e)') /\ OneByOne'
  BY DEF StatusTells
<1>4. Right' => ReceivedIsComplete'
  BY DEF ReceivedIsComplete
<1>5. Never({"beside"})' => Never({"beside"})
  <2>1. history \subseteq history'
    BY <1>0, NotedForGood DEF Never
  <2> QED BY <2>1 DEF Never
<1>6. \A i \in Item : received[i] \in Nat /\ ordered[i] \in Nat /\ received[i] <= ordered[i]
  BY <1>0 DEF AllAccounted, SupplyTypeOK
<1>7. CASE UNCHANGED supplyVars \/ AllIdle
  BY <1>7 DEF AllIdle, supplyVars, mine, saved, items, StatusTells, ReceivedIsComplete,
              Refreshed, Counted, Present, Never
<1>8. ASSUME NEW c \in Client, Call(c)
      PROVE  StatusTells' /\ ReceivedIsComplete'
  <2>1. ordered' = ordered /\ Present' = Present /\ ~(EditItem(c) \/ DeleteItem(c))
    <3>1. ~(EditItem(c) \/ DeleteItem(c))
      BY <1>0, <1>8, EditsWait
    <3> QED BY <1>8, <3>1, WhoWrites DEF Present
  <2>2. \A i \in Item : received[i] <= received'[i] /\ received'[i] \in Nat
    <3>1. CASE CommitReceipt(c)
      <4>1. ASSUME NEW i \in Item
            PROVE  Total(want[c][i]) \in Nat
        BY WantedIs DEF SupplyTypeOK
      <4> QED BY <1>6, <3>1, <4>1, CountedOnce
    <3>2. CASE ~CommitReceipt(c)
      BY <1>6, <1>8, <2>1, <3>2, WhoWrites
    <3> QED BY <3>1, <3>2
  <2>3. ASSUME NEW e \in Client
        PROVE  Tells(e)'
    <3>1. step'[e] = "write" => next'[e] \notin Arrived
      <4>1. CASE step[e] = "write" /\ next'[e] = next[e]
        BY <1>1, <4>1
      <4>2. CASE step'[e] = "write" /\ e = c /\ (ReadChange(c) \/ ReadTransition(c))
        BY <1>0, <1>8, <4>2, ChangesWait
      <4> QED BY <1>8, <4>1, <4>2, AboutToWrite
    <3>2. ASSUME step'[e] = "commit", step[e] = "commit", next'[e] = next[e]
          PROVE  /\ next'[e] = "RECEIVED" => Complete(e)'
                 /\ Complete(e)' /\ Never({"beside"})' => next'[e] = "RECEIVED"
      <4>0. step[e] \in Receiving /\ e # c
        <5>1. step[c] = "commit" => step'[c] # "commit"
          BY <1>8, CallGoesOn DEF Refresh, WriteLines
        <5> QED BY <3>2, <5>1 DEF Receiving
      <4>1. want'[e] = want[e] /\ seen'[e] = seen[e]
        BY <1>8, <4>0, OtherCallsWait
      <4>2. \A i \in Item : Refreshed(e, i)' = IF want[e][i] = <<>> THEN received'[i] ELSE Counted(e, i)
        BY <4>1 DEF Refreshed, Counted
      <4>3. \A i \in Item : want[e][i] # <<>> => Counted(e, i) \in Int
        <5>1. ASSUME NEW i \in Item, want[e][i] # <<>>
              PROVE  Counted(e, i) \in Int
          <6>1. want[e][i] \in Wanted /\ seen[e][i] \in Int
            BY DEF SupplyTypeOK
          <6>2. want[e][i][Len(want[e][i])] \in Int
            BY <5>1, <6>1, WantedIs
          <6> QED BY <6>1, <6>2 DEF Counted
        <5> QED BY <5>1
      <4>4. Complete(e) => Complete(e)'
        <5>1. ASSUME NEW i \in Present, Refreshed(e, i) >= ordered[i]
              PROVE  Refreshed(e, i)' >= ordered'[i]
          <6>1. i \in Item
            BY DEF Present
          <6>2. CASE want[e][i] = <<>>
            BY <1>6, <2>1, <2>2, <4>2, <5>1, <6>1, <6>2 DEF Refreshed
          <6>3. CASE want[e][i] # <<>>
            BY <2>1, <4>2, <5>1, <6>1, <6>3 DEF Refreshed
          <6> QED BY <6>2, <6>3
        <5> QED BY <2>1, <5>1
      <4>5. Never({"beside"})' => (Complete(e)' => Complete(e))
        <5>1. SUFFICES ASSUME Never({"beside"})'
                       PROVE  Complete(e)' => Complete(e)
          OBVIOUS
        <5>2. step[c] \notin Receiving
          BY <1>1, <1>5, <1>8, <4>0, <5>1
        <5>3. ~CommitReceipt(c)
          BY <5>2, WritersAtWork
        <5>4. received' = received
          BY <1>8, <2>1, <5>3, WhoWrites
        <5>5. \A i \in Present : Refreshed(e, i)' = Refreshed(e, i)
          BY <4>2, <5>4 DEF Refreshed, Present
        <5> QED BY <2>1, <5>5
      <4> HIDE DEF Complete
      <4> QED BY <1>1, <1>5, <3>2, <4>4, <4>5
    <3>3. ASSUME e = c, Refresh(c)
          PROVE  /\ next'[e] = "RECEIVED" => Complete(e)'
                 /\ Complete(e)' /\ Never({"beside"})' => next'[e] = "RECEIVED"
      <4>1. next'[c] = IF Complete(c) THEN "RECEIVED" ELSE "PARTIAL_RECEIVED"
        BY <3>3 DEF Refresh, SupplyTypeOK
      <4>2. UNCHANGED <<ordered, received, want, seen>>
        BY <3>3 DEF Refresh, saved, items
      <4>3. Complete(c)' = Complete(c)
        BY <4>2 DEF Refreshed, Counted, Present
      <4> HIDE DEF Complete
      <4> QED BY <3>3, <4>1, <4>3
    <3>4. step'[e] = "commit" => \/ step[e] = "commit" /\ next'[e] = next[e]
                                 \/ e = c /\ Refresh(c)
      BY <1>8, AboutToWrite
    <3> HIDE DEF Complete
    <3> QED BY <3>1, <3>2, <3>3, <3>4
  <2>4. OneByOne'
    <3>1. SUFFICES ASSUME Never({"beside"})', NEW d \in Client, NEW e \in Client,
                          step'[d] \in Receiving, step'[e] \in Receiving
                   PROVE  d = e
      OBVIOUS
    <3>2. /\ step[d] \in Receiving \/ (d = c /\ (ReadConfirm(c) \/ ReadPartial(c)))
          /\ step[e] \in Receiving \/ (e = c /\ (ReadConfirm(c) \/ ReadPartial(c)))
      BY <1>8, <3>1, AtWorkAfter
    <3>3. ReadConfirm(c) \/ ReadPartial(c) => \A b \in Client : step[b] \notin Receiving
      BY <1>0, <1>8, <3>1, DeliveriesWait DEF AtWork, Never
    <3> QED BY <1>1, <1>5, <3>1, <3>2, <3>3
  <2>5. Right'
    <3>1. CASE CommitReceipt(c)
      <4>1. status' = next[c] /\ step[c] = "commit" /\ history' = history
        BY <3>1 DEF CommitReceipt
      <4>2. \A i \in Item : received'[i] = Refreshed(c, i)
        BY <3>1 DEF CommitReceipt, Refreshed
      <4>3. \A i \in Item : received'[i] <= ordered[i]
        <5>1. ASSUME NEW i \in Item, want[c][i] = <<>>
              PROVE  received'[i] = received[i]
          BY <3>1, <5>1 DEF CommitReceipt
        <5> QED BY <1>6, <3>1, <5>1, CountedOnce
      <4>4. InFull' <=> Complete(c)
        <5>1. \A i \in Present : received'[i] = ordered'[i] <=> Refreshed(c, i) >= ordered[i]
          BY <1>6, <2>1, <2>2, <4>2, <4>3 DEF Present
        <5> QED BY <2>1, <5>1
      <4> HIDE DEF Complete, InFull
      <4> QED BY <1>1, <1>5, <4>1, <4>4
    <3>2. CASE WriteStatus(c)
      BY <1>1, <3>2 DEF WriteStatus
    <3>3. CASE Book(c)
      BY <3>3, BooksFirst
    <3>4. CASE CommitVoid(c)
      <4>1. status' = status /\ received' = received
        BY <3>4 DEF CommitVoid, items
      <4>2. receipts # <<>>
        <5>1. at[c] \in 0 .. Len(receipts) /\ at[c] # 0
          BY <3>4 DEF CommitVoid, LinesFit, Voiding, SupplyTypeOK
        <5> QED BY <5>1
      <4> QED BY <1>2, <1>5, <2>1, <4>1, <4>2
    <3>5. CASE ~(CommitReceipt(c) \/ WriteStatus(c) \/ Book(c) \/ CommitVoid(c))
      <4>1. UNCHANGED <<status, received, receipts>>
        BY <1>8, <2>1, <3>5, WhoWrites
      <4> QED BY <1>2, <1>5, <2>1, <4>1
    <3> HIDE DEF Right
    <3> QED BY <3>1, <3>2, <3>3, <3>4, <3>5
  <2> HIDE DEF Tells, OneByOne, Right
  <2> QED BY <1>3, <1>4, <2>3, <2>4, <2>5
<1> QED BY <1>7, <1>8 DEF SupplyNext

----------------------------------------------------------------------------
(* The theorems *)

LEMMA SupplyStart == SupplyInit => SupplyIInv
<1> SUFFICES ASSUME SupplyInit
             PROVE  SupplyIInv
  OBVIOUS
<1>0. 0 \in 0 .. MaxQty /\ "DRAFT" \in Status
  BY MaxQtyAssumption DEF Status
<1>1. /\ receipts = <<>> /\ DOMAIN receipts = {} /\ Len(receipts) = 0
      /\ \A c \in Client : step[c] = "idle" /\ at[c] = 0 /\ found[c] = 0
      /\ \A i \in Item : received[i] = 0 /\ booked[i] = 0 /\ ordered[i] \in 0 .. MaxQty
  BY DEF SupplyInit, Nothing
<1>2. SupplyTypeOK
  <2>1. receipts \in Seq(Receipt)
    BY <1>1
  <2>2. at \in [Client -> 0 .. Len(receipts)] /\ found \in [Client -> Nat]
    BY <1>1 DEF SupplyInit
  <2>3. /\ status \in Status /\ ordered \in [Item -> 0 .. MaxQty]
        /\ received \in [Item -> 0 .. MaxQty] /\ booked \in [Item -> 0 .. MaxQty]
    BY <1>0, NothingIs DEF SupplyInit
  <2>4. /\ seen \in [Client -> [Item -> 0 .. MaxQty]] /\ want \in [Client -> [Item -> Wanted]]
        /\ next \in [Client -> Status]
    BY <1>0, NothingIs DEF SupplyInit
  <2>5. step \in [Client -> {"idle", "lines", "refresh", "commit", "write", "book",
                             "booking", "find", "active", "stamp"}]
    BY DEF SupplyInit
  <2> QED BY <2>1, <2>2, <2>3, <2>4, <2>5 DEF SupplyTypeOK
<1>3. "idle" \notin Receiving \cup Changing \cup Voiding
  BY DEF Receiving, Changing, Voiding
<1>4. LinesFit /\ TakesTurns
  BY <1>1, <1>3 DEF LinesFit, TakesTurns
<1>5. StatusStands /\ OneReversal
  BY <1>1, <1>3 DEF StatusStands, OneReversal
<1>6. StatusTells /\ ReceivedIsComplete
  BY <1>1, <1>3 DEF StatusTells, ReceivedIsComplete
<1>7. \A i \in Item : Delivered(i) = 0
  BY <1>1, <1>2, DeliveredRows
<1>8. NothingTwice /\ AllAccounted
  BY <1>1, <1>7 DEF NothingTwice, AllAccounted
<1> QED BY <1>2, <1>4, <1>5, <1>6, <1>8 DEF SupplyIInv

LEMMA SupplyStep ==
  ASSUME SupplyIInv, SupplyNext \/ UNCHANGED supplyVars
  PROVE  SupplyIInv'
<1>1. SupplyTypeOK /\ LinesFit
  BY DEF SupplyIInv
<1>2. SupplyTypeOK' /\ LinesFit'
  BY <1>1, SupplyTypes, LinesFitStep
<1>3. /\ "lost" \in history => "lost" \in history'
      /\ "voids" \in history => "voids" \in history'
      /\ "lost" \notin history' => history \subseteq history'
  BY <1>1, NotedForGood
<1>4. ASSUME Never({"lost"})'
      PROVE  TakesTurns' /\ StatusStands' /\ NothingTwice' /\ AllAccounted'
  <2>1. Never({"lost"})
    BY <1>3, <1>4 DEF Never
  <2>2. TakesTurns /\ StatusStands /\ NothingTwice /\ AllAccounted
    BY <2>1 DEF SupplyIInv
  <2>3. TakesTurns'
    BY <1>1, <1>4, <2>2, TurnsStep
  <2>4. StatusStands'
    BY <1>1, <1>4, <2>2, StatusStep
  <2>5. NothingTwice' /\ AllAccounted'
    BY <1>1, <1>4, <2>1, <2>2, AccountsStep
  <2> QED BY <2>3, <2>4, <2>5
<1>5. ASSUME Never({"lost", "edited", "marked"})'
      PROVE  StatusTells' /\ ReceivedIsComplete'
  <2>1. "lost" \notin history'
    BY <1>5 DEF Never
  <2>2. Never({"lost"}) /\ Never({"lost", "edited", "marked"})
    BY <1>3, <1>5, <2>1 DEF Never
  <2>3. /\ TakesTurns /\ StatusStands /\ AllAccounted
        /\ StatusTells /\ ReceivedIsComplete
    BY <2>2 DEF SupplyIInv
  <2> QED BY <1>1, <1>5, <2>2, <2>3, TellsStep
<1>6. ASSUME Never({"voids"})'
      PROVE  OneReversal'
  <2>1. Never({"voids"})
    BY <1>3, <1>6 DEF Never
  <2>2. OneReversal
    BY <2>1 DEF SupplyIInv
  <2> QED BY <1>1, <1>6, <2>2, OneReversalStep
<1> QED BY <1>2, <1>4, <1>5, <1>6 DEF SupplyIInv

\* The quantities and calls of a purchase keep the inductive invariant.
THEOREM SupplyInvariance == SupplySpec => []SupplyIInv
<1>1. SupplyIInv /\ [SupplyNext]_supplyVars => SupplyIInv'
  BY SupplyStep
<1> QED BY <1>1, SupplyStart, PTL DEF SupplySpec

\* However many calls receive, edit and change a purchase of however many
\* items: as long as no quantity is lost, stock takes in no more of an item than
\* counts as received, and exactly that while nothing is edited.
THEOREM SuppliesStockAgrees == SupplySpec => []StockAgrees
<1>1. SupplyIInv => StockAgrees
  BY DEF SupplyIInv, StockAgrees, NothingTwice, AllAccounted, Never
<1> QED BY <1>1, SupplyInvariance, PTL

\* The status of a purchase nobody marked or edited tells whether all is there.
THEOREM ReceivedIsAlwaysComplete == SupplySpec => []ReceivedIsComplete
<1>1. SupplyIInv => ReceivedIsComplete
  BY DEF SupplyIInv, ReceivedIsComplete, Never
<1> QED BY <1>1, SupplyInvariance, PTL

\* However often a receipt is voided, its posting is reversed once.
THEOREM ReceiptsAlwaysStand == SupplySpec => []ReceiptStands
<1>1. SupplyIInv => ReceiptStands
  <2> SUFFICES ASSUME SupplyIInv, Never({"voids"}), NEW r \in DOMAIN receipts
               PROVE  receipts[r].voided <=> receipts[r].runs % 2 = 0
    BY DEF ReceiptStands
  <2>1. receipts[r].runs \in {1, 2} /\ (receipts[r].voided <=> receipts[r].runs = 2)
    BY DEF SupplyIInv, OneReversal
  <2>2. 1 % 2 = 1 /\ 2 % 2 = 0
    OBVIOUS
  <2> QED BY <2>1, <2>2
<1> QED BY <1>1, SupplyInvariance, PTL

----------------------------------------------------------------------------
(* StockDocuments *)

\* What the lines of a document list are numbers of items.
LEMMA ListIs ==
  ASSUME NEW s \in Sheet
  PROVE  /\ Lists[s] \in Seq(Sku) /\ Len(Lists[s]) \in Nat
         /\ DOMAIN Lists[s] = 1 .. Len(Lists[s])
         /\ \A i \in 1 .. Len(Lists[s]) : Lists[s][i] \in Sku /\ Lists[s][i] \in Nat
<1>1. Lists[s] \in Seq(Sku)
  BY ListsAssumption
<1> DEFINE L == Lists[s]
<1>2. L \in Seq(Sku)
  BY <1>1
<1> HIDE DEF L
<1>3. /\ Len(L) \in Nat /\ DOMAIN L = 1 .. Len(L)
      /\ \A i \in 1 .. Len(L) : L[i] \in Sku
  BY <1>2
<1>4. Sku \subseteq Nat
  BY MaxSkuAssumption DEF Sku
<1> QED BY <1>2, <1>3, <1>4 DEF L

\* The number of an item and the place of a row
LEMMA RowIs ==
  \A r \in StockRow :
    /\ r[1] \in Sku /\ r[1] \in Nat /\ r[2] \in 1 .. Balance /\ r[2] \in Nat
    /\ r = <<r[1], r[2]>>
<1>1. Sku \subseteq Nat /\ 1 .. Balance \subseteq Nat
  BY MaxSkuAssumption, MaxRowAssumption DEF Sku, Balance
<1> TAKE r \in StockRow
<1>2. PICK i \in Sku, n \in 1 .. Balance : r = <<i, n>>
  BY DEF StockRow
<1> QED BY <1>1, <1>2

LEMMA SheetStart == SheetInit => SheetIInv
<1> SUFFICES ASSUME SheetInit PROVE SheetIInv
  OBVIOUS
<1>1. SheetTypeOK
  BY DEF SheetInit, SheetTypeOK, Phase
<1>2. HoldsNothing /\ InLine
  BY DEF SheetInit, HoldsNothing, InLine
<1>3. RowsOfLines
  <2> SUFFICES ASSUME NEW p \in Poster
               PROVE  reached[p] <= Len(Lists[sheet[p]])
    BY DEF RowsOfLines, SheetInit
  <2>1. sheet[p] \in Sheet /\ reached[p] = 0
    BY DEF SheetInit
  <2>2. Len(Lists[sheet[p]]) \in Nat
    BY <2>1, ListIs
  <2> QED BY <2>1, <2>2
<1> QED BY <1>1, <1>2, <1>3 DEF SheetIInv

\* A step of a transaction changes nothing of the others.
LEMMA OwnStep ==
  ASSUME SheetTypeOK, NEW p \in Poster, PosterStep(p)
  PROVE  /\ sheet' = sheet
         /\ \A q \in Poster \ {p} :
              /\ phase'[q] = phase[q] /\ reached'[q] = reached[q]
              /\ ahead'[q] = ahead[q] /\ held'[q] = held[q]
<1> USE DEF SheetTypeOK
<1>1. CASE Submit(p) \/ OwnRow(p)
  BY <1>1 DEF Submit, OwnRow, Enters
<1>2. CASE ReachLine(p) \/ Update(p)
  BY <1>2 DEF ReachLine, Update
<1>3. CASE CommitSheet(p) \/ FailSheet(p)
  BY <1>3 DEF CommitSheet, FailSheet, Leave, Enters
<1> QED BY <1>1, <1>2, <1>3 DEF PosterStep

\* What ReachLine does: the rows ahead are rows of the next line's item.
LEMMA ReachLineGives ==
  ASSUME SheetTypeOK, NEW p \in Poster, ReachLine(p)
  PROVE  /\ phase' = phase /\ held' = held /\ phase[p] = "open"
         /\ reached' = [reached EXCEPT ![p] = reached[p] + 1]
         /\ reached[p] + 1 \in 1 .. Len(Lists[sheet[p]])
         /\ ahead' \in [Poster -> SUBSET StockRow]
         /\ \A r \in ahead'[p] : r[1] = Lists[sheet[p]][reached[p] + 1]
<1>1. /\ reached \in [Poster -> Nat] /\ ahead \in [Poster -> SUBSET StockRow]
      /\ sheet[p] \in Sheet /\ reached[p] \in Nat
  BY DEF SheetTypeOK
<1>2. reached' = [reached EXCEPT ![p] = reached[p] + 1]
  BY DEF ReachLine
<1>3. reached'[p] = reached[p] + 1
  BY <1>1, <1>2
<1>4. reached[p] + 1 \in 1 .. Len(Lists[sheet[p]])
  <2>1. Len(Lists[sheet[p]]) \in Nat /\ reached[p] < Len(Lists[sheet[p]])
    BY <1>1, ListIs DEF ReachLine
  <2> DEFINE n == Len(Lists[sheet[p]])
             k == reached[p]
  <2>2. n \in Nat /\ k \in Nat /\ k < n
    BY <1>1, <2>1
  <2> HIDE DEF n, k
  <2>3. k + 1 \in 1 .. n
    BY <2>2
  <2> QED BY <2>3 DEF n, k
<1> DEFINE i == Lists[sheet[p]][reached[p] + 1]
<1>5. i \in Sku
  BY <1>1, <1>4, ListIs
<1>6. PICK N \in SUBSET (1 .. MaxRow) : ahead' = [ahead EXCEPT ![p] = LineRows(p, i, N)]
  BY <1>3 DEF ReachLine
<1> HIDE DEF i
<1>7. LineRows(p, i, N) \in SUBSET StockRow /\ \A r \in LineRows(p, i, N) : r[1] = i
  <2>1. N \cup {Balance} \subseteq 1 .. Balance
    BY MaxRowAssumption DEF Balance
  <2>2. \A n \in N \cup {Balance} : <<i, n>> \in StockRow /\ <<i, n>>[1] = i
    BY <1>5, <2>1 DEF StockRow
  <2> QED BY <2>2 DEF LineRows, RowsOf
<1>8. ahead' \in [Poster -> SUBSET StockRow] /\ ahead'[p] = LineRows(p, i, N)
  BY <1>1, <1>6, <1>7
<1>9. \A r \in ahead'[p] : r[1] = i
  BY <1>7, <1>8
<1>10. phase' = phase /\ held' = held /\ phase[p] = "open"
  BY DEF ReachLine
<1> QED BY <1>2, <1>4, <1>8, <1>9, <1>10 DEF i

LEMMA SheetTypes ==
  ASSUME SheetTypeOK, NEW p \in Poster, PosterStep(p)
  PROVE  SheetTypeOK'
<1> USE DEF SheetTypeOK
<1>1. CASE Submit(p) \/ OwnRow(p)
  BY <1>1 DEF Submit, OwnRow, Enters, Phase
<1>2. CASE ReachLine(p)
  <2>1. /\ phase' = phase /\ held' = held
        /\ reached' = [reached EXCEPT ![p] = reached[p] + 1]
        /\ ahead' \in [Poster -> SUBSET StockRow]
    BY <1>2, ReachLineGives
  <2>2. reached' \in [Poster -> Nat]
    BY <2>1
  <2> QED BY <1>2, <2>1, <2>2 DEF ReachLine
<1>3. CASE Update(p)
  BY <1>3 DEF Update
<1>4. ASSUME NEW l \in Phase, Leave(p, l), posted' \subseteq Sheet
      PROVE  SheetTypeOK'
  BY <1>4 DEF Leave, Enters
<1>5. CASE CommitSheet(p)
  <2>1. Leave(p, "done") /\ posted' \subseteq Sheet
    BY <1>5 DEF CommitSheet
  <2> QED BY <1>4, <2>1 DEF Phase
<1>6. CASE FailSheet(p)
  <2>1. Leave(p, "failed") /\ posted' \subseteq Sheet
    BY <1>6 DEF FailSheet
  <2> QED BY <1>4, <2>1 DEF Phase
<1> QED BY <1>1, <1>2, <1>3, <1>5, <1>6 DEF PosterStep

LEMMA HoldsNothingStep ==
  ASSUME SheetTypeOK, HoldsNothing, NEW p \in Poster, PosterStep(p)
  PROVE  HoldsNothing'
<1> SUFFICES ASSUME phase'[p] # "open"
             PROVE  held'[p] = {} /\ ahead'[p] = {}
  BY OwnStep DEF HoldsNothing
<1> USE DEF SheetTypeOK
<1>1. CASE Submit(p) \/ OwnRow(p)
  <2>1. phase[p] # "open" /\ held' = held /\ ahead' = ahead
    BY <1>1 DEF Submit, OwnRow
  <2> QED BY <2>1 DEF HoldsNothing
<1>2. CASE ReachLine(p) \/ Update(p)
  BY <1>2 DEF ReachLine, Update
<1>3. CASE CommitSheet(p) \/ FailSheet(p)
  BY <1>3 DEF CommitSheet, FailSheet, Leave
<1> QED BY <1>1, <1>2, <1>3 DEF PosterStep

LEMMA RowsStep ==
  ASSUME SheetTypeOK, HoldsNothing, RowsOfLines, NEW p \in Poster, PosterStep(p)
  PROVE  RowsOfLines'
<1> DEFINE L == Lists[sheet[p]]
<1>0. /\ sheet[p] \in Sheet /\ reached[p] \in Nat /\ Len(L) \in Nat
      /\ held \in [Poster -> SUBSET StockRow] /\ ahead \in [Poster -> SUBSET StockRow]
      /\ reached \in [Poster -> Nat]
  BY ListIs DEF SheetTypeOK
<1>1. /\ reached[p] <= Len(L)
      /\ \A r \in held[p] : \E i \in 1 .. reached[p] : r[1] = L[i]
      /\ \A r \in ahead[p] : reached[p] > 0 /\ r[1] = L[reached[p]]
  BY DEF RowsOfLines
<1>2. sheet' = sheet
  BY OwnStep
<1> SUFFICES /\ reached'[p] <= Len(L)
             /\ \A r \in held'[p] : \E i \in 1 .. reached'[p] : r[1] = L[i]
             /\ \A r \in ahead'[p] : reached'[p] > 0 /\ r[1] = L[reached'[p]]
  BY <1>2, OwnStep DEF RowsOfLines
<1>3. CASE Submit(p) \/ OwnRow(p)
  BY <1>1, <1>3 DEF Submit, OwnRow
<1>4. CASE ReachLine(p)
  <2>1. /\ held' = held /\ reached'[p] = reached[p] + 1
        /\ reached[p] + 1 \in 1 .. Len(L)
        /\ \A r \in ahead'[p] : r[1] = L[reached[p] + 1]
    BY <1>0, <1>4, ReachLineGives
  <2>2. \A i \in 1 .. reached[p] : i \in 1 .. reached'[p]
    BY <1>0, <2>1
  <2>3. reached'[p] <= Len(L) /\ reached'[p] > 0
    BY <1>0, <2>1
  <2> HIDE DEF L
  <2> QED BY <1>1, <2>1, <2>2, <2>3
<1>5. CASE Update(p)
  <2>1. PICK r \in StockRow :
          /\ NextUp(p, r)
          /\ ahead' = [ahead EXCEPT ![p] = ahead[p] \ {r}]
          /\ held' = [held EXCEPT ![p] = held[p] \cup {r}]
          /\ reached' = reached
    BY <1>5 DEF Update
  <2>2. ahead'[p] = ahead[p] \ {r} /\ held'[p] = held[p] \cup {r} /\ r \in ahead[p]
    BY <1>0, <2>1 DEF NextUp
  <2>3. reached[p] \in 1 .. reached[p]
    BY <1>0, <1>1, <2>2
  <2> HIDE DEF L
  <2> QED BY <1>1, <2>1, <2>2, <2>3
<1>6. CASE CommitSheet(p) \/ FailSheet(p)
  <2>1. ahead'[p] = {} /\ held'[p] = {} /\ reached' = reached
    BY <1>0, <1>6 DEF CommitSheet, FailSheet, Leave
  <2> QED BY <1>1, <2>1
<1> QED BY <1>3, <1>4, <1>5, <1>6 DEF PosterStep

\* The next line's item has a larger number than those of the lines before it,
\* and a row that is updated comes before what its line has still ahead.
LEMMA InLineStep ==
  ASSUME SheetTypeOK, RowsOfLines, InLine, NEW p \in Poster, PosterStep(p)
  PROVE  InLine'
<1> DEFINE L == Lists[sheet[p]]
<1>0. /\ sheet[p] \in Sheet /\ reached[p] \in Nat
      /\ held \in [Poster -> SUBSET StockRow] /\ ahead \in [Poster -> SUBSET StockRow]
      /\ reached \in [Poster -> Nat]
  BY DEF SheetTypeOK
<1>1. sheet' = sheet /\ \A s : Ascending(s)' = Ascending(s)
  BY OwnStep DEF Ascending
<1> SUFFICES ASSUME Ascending(sheet[p]), NEW r \in held'[p], NEW o \in ahead'[p]
             PROVE  Before(r, o)
  BY <1>1, OwnStep DEF InLine, Before
<1>2. CASE Submit(p) \/ OwnRow(p)
  BY <1>2 DEF Submit, OwnRow, InLine
<1>3. CASE ReachLine(p)
  <2>1. /\ held' = held /\ reached[p] + 1 \in 1 .. Len(L)
        /\ o[1] = L[reached[p] + 1]
    BY <1>3, ReachLineGives
  <2>2. PICK i \in 1 .. reached[p] : r[1] = L[i]
    BY <2>1 DEF RowsOfLines
  <2>3. i < reached[p] + 1 /\ i \in 1 .. Len(L)
    <3>1. Len(L) \in Nat
      BY <1>0, ListIs
    <3> DEFINE n == Len(L)
               k == reached[p]
    <3>2. n \in Nat /\ k \in Nat /\ k + 1 \in 1 .. n /\ i \in 1 .. k
      BY <1>0, <2>1, <3>1
    <3> HIDE DEF n, k
    <3>3. i < k + 1 /\ i \in 1 .. n
      BY <3>2
    <3> QED BY <3>3 DEF n, k
  <2>4. DOMAIN L = 1 .. Len(L)
    BY <1>0, ListIs
  <2>5. L[i] < L[reached[p] + 1]
    BY <2>1, <2>3, <2>4 DEF Ascending
  <2> QED BY <2>1, <2>2, <2>5 DEF Before
<1>4. CASE Update(p)
  <2>1. PICK u \in StockRow :
          /\ NextUp(p, u)
          /\ ahead' = [ahead EXCEPT ![p] = ahead[p] \ {u}]
          /\ held' = [held EXCEPT ![p] = held[p] \cup {u}]
    BY <1>4 DEF Update
  <2>2. /\ o \in ahead[p] /\ o # u /\ u \in ahead[p] /\ r \in held[p] \cup {u}
        /\ o \in StockRow
    BY <1>0, <2>1 DEF NextUp
  <2>3. CASE r \in held[p]
    BY <2>2, <2>3 DEF InLine
  <2>4. CASE r = u
    <3>1. u[1] = o[1]
      BY <2>2 DEF RowsOfLines
    <3>2. u[2] <= o[2] /\ u[2] # o[2]
      BY <2>1, <2>2, <3>1, RowIs DEF NextUp
    <3>3. u[2] \in Nat /\ o[2] \in Nat
      BY <2>2, RowIs
    <3> QED BY <2>4, <3>1, <3>2, <3>3 DEF Before
  <2> QED BY <2>2, <2>3, <2>4
<1>5. CASE CommitSheet(p) \/ FailSheet(p)
  BY <1>0, <1>5 DEF CommitSheet, FailSheet, Leave
<1> QED BY <1>2, <1>3, <1>4, <1>5 DEF PosterStep

LEMMA SheetStep == SheetIInv /\ [SheetNext]_sheetVars => SheetIInv'
<1> SUFFICES ASSUME SheetIInv, [SheetNext]_sheetVars PROVE SheetIInv'
  OBVIOUS
<1>1. SheetTypeOK /\ HoldsNothing /\ RowsOfLines /\ InLine
  BY DEF SheetIInv
<1>2. CASE UNCHANGED sheetVars
  <2>1. SheetTypeOK' /\ HoldsNothing'
    BY <1>1, <1>2 DEF sheetVars, SheetTypeOK, HoldsNothing
  <2>2. RowsOfLines' /\ InLine'
    BY <1>1, <1>2 DEF sheetVars, RowsOfLines, InLine, Ascending, Before
  <2> QED BY <2>1, <2>2 DEF SheetIInv
<1>3. ASSUME NEW p \in Poster, PosterStep(p)
      PROVE  SheetIInv'
  <2>1. SheetTypeOK' /\ HoldsNothing'
    BY <1>1, <1>3, SheetTypes, HoldsNothingStep
  <2>2. RowsOfLines' /\ InLine'
    BY <1>1, <1>3, RowsStep, InLineStep
  <2> QED BY <2>1, <2>2 DEF SheetIInv
<1> QED BY <1>2, <1>3 DEF SheetNext, AllPosted

\* Of rows there is, where there is one, a last one.
LEMMA LastRow ==
  ASSUME NEW T \in SUBSET StockRow, T # {}
  PROVE  \E r \in T : \A o \in T : ~Before(r, o)
<1> DEFINE I == {r[1] : r \in T}
           i == Max(I)
           N == {r[2] : r \in {o \in T : o[1] = i}}
           n == Max(N)
<1>1. I \in SUBSET (0 .. MaxSku) /\ I # {}
  <2>1. \A r \in T : r[1] \in 0 .. MaxSku
    BY RowIs, MaxSkuAssumption DEF Sku
  <2> QED BY <2>1
<1>2. i \in I /\ \A y \in I : i >= y
  <2> HIDE DEF I
  <2> QED BY <1>1, Largest, MaxSkuAssumption
<1> HIDE DEF i
<1>3. N \in SUBSET (0 .. Balance) /\ N # {} /\ Balance \in Nat
  <2>1. Balance \in Nat
    BY MaxRowAssumption DEF Balance
  <2>2. \A r \in T : r[2] \in 0 .. Balance
    BY <2>1, RowIs
  <2> QED BY <1>2, <2>1, <2>2
<1>4. n \in N /\ \A y \in N : n >= y
  <2> HIDE DEF N
  <2> QED BY <1>3, Largest
<1> HIDE DEF n
<1>5. PICK r \in T : r[1] = i /\ r[2] = n
  BY <1>4
<1>6. ASSUME NEW o \in T, Before(r, o)
      PROVE  FALSE
  <2>1. o[1] \in Nat /\ o[2] \in Nat /\ r[1] \in Nat /\ r[2] \in Nat
    BY RowIs
  <2>2. r[1] >= o[1]
    BY <1>2, <1>5
  <2>3. r[1] = o[1] /\ r[2] < o[2]
    BY <1>6, <2>1, <2>2 DEF Before
  <2>4. o[2] \in N
    BY <1>5, <2>3
  <2>5. r[2] >= o[2]
    <3> HIDE DEF N
    <3> QED BY <1>4, <1>5, <2>4
  <2> QED BY <2>1, <2>3, <2>5
<1> QED BY <1>5, <1>6

\* Of transactions with a row ahead, the one whose next row comes last waits for
\* none of the others: what they hold comes before what they have ahead.
LEMMA LastGoesOn ==
  ASSUME SheetIInv, NEW S \in SUBSET {p \in Poster : Ascending(sheet[p])}, S # {},
         \A p \in S : phase[p] = "open" /\ \E r \in StockRow : NextUp(p, r)
  PROVE  \E p \in S : \A r \in S : ~WaitsFor(p, r)
<1> DEFINE T == {r \in StockRow : \E p \in S : NextUp(p, r)}
<1>1. /\ SheetTypeOK /\ InLine /\ RowsOfLines
      /\ held \in [Poster -> SUBSET StockRow] /\ ahead \in [Poster -> SUBSET StockRow]
  BY DEF SheetIInv, SheetTypeOK
<1>2. PICK last \in T : \A o \in T : ~Before(last, o)
  <2>1. T \in SUBSET StockRow /\ T # {}
    OBVIOUS
  <2> HIDE DEF T
  <2> QED BY <2>1, LastRow
<1>3. PICK p \in S : NextUp(p, last)
  OBVIOUS
<1>4. ASSUME NEW q \in S, WaitsFor(p, q)
      PROVE  FALSE
  <2>1. PICK o \in held[q] : NextUp(p, o)
    BY <1>4 DEF WaitsFor
  <2>2. o = last
    <3>1. /\ o \in ahead[p] /\ last \in ahead[p] /\ o \in StockRow /\ last \in StockRow
          /\ o[2] <= last[2] /\ last[2] <= o[2]
      BY <1>1, <1>3, <2>1 DEF NextUp
    <3>2. o[1] = last[1]
      BY <1>1, <3>1 DEF RowsOfLines
    <3>3. o[2] = last[2]
      BY <3>1, RowIs
    <3> QED BY <3>1, <3>2, <3>3, RowIs
  <2>3. PICK u \in StockRow : NextUp(q, u)
    OBVIOUS
  <2>4. u \in T /\ u \in ahead[q]
    BY <2>3 DEF NextUp
  <2>5. Before(last, u)
    BY <1>1, <2>1, <2>2, <2>4 DEF InLine
  <2> QED BY <1>2, <2>4, <2>5
<1> QED BY <1>4

\* Who waits for a document holds nothing, so that nobody waits for it.
LEMMA SomeoneGoesOn == SheetIInv => NoCircle
<1> SUFFICES ASSUME SheetIInv,
                    NEW S \in SUBSET {p \in Poster : Ascending(sheet[p])}, S # {}
             PROVE  \E p \in S : \A r \in S : ~WaitsFor(p, r)
  BY DEF NoCircle
<1>1. CASE \E p \in S : phase[p] \notin {"begun", "open"}
  BY <1>1 DEF WaitsFor
<1>2. CASE \A p \in S : phase[p] = "begun"
  BY <1>2 DEF WaitsFor, Busy
<1>3. CASE \E p \in S : phase[p] = "open" /\ \A r \in StockRow : ~NextUp(p, r)
  <2>1. PICK p \in S : phase[p] = "open" /\ \A r \in StockRow : ~NextUp(p, r)
    BY <1>3
  <2>2. \A q \in S : held[q] \subseteq StockRow
    BY DEF SheetIInv, SheetTypeOK
  <2> QED BY <2>1, <2>2 DEF WaitsFor
<1>4. CASE /\ \A p \in S : phase[p] \in {"begun", "open"}
           /\ \E p \in S : phase[p] = "open"
           /\ \A p \in S : phase[p] = "open" => \E r \in StockRow : NextUp(p, r)
  <2> DEFINE O == {p \in S : phase[p] = "open"}
  <2>1. /\ O \in SUBSET {p \in Poster : Ascending(sheet[p])} /\ O # {}
        /\ \A p \in O : phase[p] = "open" /\ \E r \in StockRow : NextUp(p, r)
    BY <1>4
  <2>2. PICK p \in O : \A r \in O : ~WaitsFor(p, r)
    <3> HIDE DEF O
    <3> QED BY <2>1, LastGoesOn
  <2>3. \A r \in S \ O : held[r] = {}
    BY DEF SheetIInv, HoldsNothing
  <2> QED BY <2>2, <2>3 DEF WaitsFor
<1> QED BY <1>1, <1>2, <1>3, <1>4

\* However many documents of however many items are posted at the same time:
\* those that list their items in a common order, and none of them twice, never
\* wait for each other in a circle, whatever batches their lines take from.
THEOREM NeverACircle == SheetSpec => []NoCircle
<1>1. SheetIInv /\ [SheetNext]_sheetVars => SheetIInv'
  BY SheetStep
<1>2. SheetIInv => NoCircle
  BY SomeoneGoesOn
<1> QED BY <1>1, <1>2, SheetStart, PTL DEF SheetSpec

=============================================================================
