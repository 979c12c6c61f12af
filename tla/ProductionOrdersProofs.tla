------------------------ MODULE ProductionOrdersProofs ------------------------
(***************************************************************************)
(* Proofs about ProductionOrders, for any calls, components and bounds.    *)
(***************************************************************************)
EXTENDS ProductionOrders, SumLemmas

----------------------------------------------------------------------------
(* Consumptions and what they moved *)

LEMMA OpsAre ==
  ASSUME TypeOK, NEW i \in Item
  PROVE  /\ ops[i] \in Seq(Operations) /\ Len(ops[i]) \in Nat
         /\ DOMAIN ops[i] = 1 .. Len(ops[i]) /\ IsFiniteSet(DOMAIN ops[i])
         /\ \A k \in DOMAIN ops[i] : ops[i][k] \in Operations /\ ops[i][k].qty \in Nat
         /\ Moved(i) \in Nat
<1> DEFINE f == [k \in DOMAIN ops[i] |-> ops[i][k].qty]
<1>1. ops[i] \in Seq(Operations)
  BY DEF TypeOK
<1>2. Len(ops[i]) \in Nat /\ DOMAIN ops[i] = 1 .. Len(ops[i])
  BY <1>1
<1>3. IsFiniteSet(DOMAIN ops[i])
  <2> DEFINE n == Len(ops[i])
  <2>1. n \in Int /\ DOMAIN ops[i] = 1 .. n
    BY <1>2
  <2> HIDE DEF n
  <2> QED BY <2>1, FS_Interval
<1>4. \A k \in DOMAIN ops[i] : ops[i][k] \in Operations
  BY <1>1
<1>5. \A o \in Operations : o.qty \in Nat
  BY MaxQtyAssumption DEF Operations
<1>6. \A k \in DOMAIN ops[i] : f[k] \in Nat
  BY <1>4, <1>5
<1>7. Moved(i) = SumFunctionOnSet(f, DOMAIN ops[i])
  BY DEF Moved
<1> HIDE DEF f
<1>8. Moved(i) \in Nat
  BY <1>3, <1>6, <1>7, SumNat
<1> QED BY <1>1, <1>2, <1>3, <1>4, <1>5, <1>8

LEMMA MovedAppended ==
  ASSUME TypeOK, NEW i \in Item, NEW n \in 1 .. MaxQty,
         ops'[i] = Append(ops[i], Operation(n))
  PROVE  /\ ops'[i] \in Seq(Operations) /\ Len(ops'[i]) = Len(ops[i]) + 1
         /\ ops'[i][Len(ops'[i])] = Operation(n)
         /\ \A k \in DOMAIN ops[i] : ops'[i][k] = ops[i][k]
         /\ DOMAIN ops'[i] = DOMAIN ops[i] \cup {Len(ops'[i])}
         /\ Moved(i)' = Moved(i) + n
<1> DEFINE o == Operation(n)
           s == ops[i]
           t == ops'[i]
           m == Len(s) + 1
           f == [k \in DOMAIN s |-> s[k].qty]
           g == [k \in DOMAIN t |-> t[k].qty]
<1>1. /\ s \in Seq(Operations) /\ IsFiniteSet(DOMAIN s)
      /\ \A k \in DOMAIN s : s[k].qty \in Nat
  BY OpsAre
<1>2. o \in Operations /\ o.qty = n /\ n \in Int
  BY MaxQtyAssumption DEF Operation, Operations
<1>3. /\ t \in Seq(Operations) /\ Len(t) = m /\ t[m] = o
      /\ DOMAIN t = DOMAIN s \cup {m} /\ m \notin DOMAIN s
      /\ \A k \in DOMAIN s : t[k] = s[k]
  <2> HIDE DEF o
  <2> QED BY <1>1, <1>2, RowAppended DEF o
<1>4. /\ Moved(i) = SumFunctionOnSet(f, DOMAIN s)
      /\ Moved(i)' = SumFunctionOnSet(g, DOMAIN s \cup {m})
  BY <1>3 DEF Moved
<1>5. /\ \A k \in DOMAIN s : f[k] \in Int /\ g[k] = f[k]
      /\ \A k \in DOMAIN s \cup {m} : g[k] \in Int
      /\ g[m] = n
  BY <1>1, <1>2, <1>3
<1> HIDE DEF f, g
<1>6. SumFunctionOnSet(g, DOMAIN s \cup {m}) = SumFunctionOnSet(g, DOMAIN s) + g[m]
  <2> HIDE DEF s, m
  <2> QED BY <1>1, <1>3, <1>5, SumAdd
<1>7. SumFunctionOnSet(g, DOMAIN s) = SumFunctionOnSet(f, DOMAIN s)
  <2> HIDE DEF s
  <2> QED BY <1>1, <1>5, SumSame
<1>8. Moved(i)' = Moved(i) + n
  BY <1>4, <1>5, <1>6, <1>7
<1> QED BY <1>3, <1>8

LEMMA MovedPut ==
  ASSUME TypeOK, NEW i \in Item, NEW k \in DOMAIN ops[i],
         NEW o \in Operations, o.qty = ops[i][k].qty, ops'[i] = [ops[i] EXCEPT ![k] = o]
  PROVE  /\ ops'[i] \in Seq(Operations) /\ DOMAIN ops'[i] = DOMAIN ops[i]
         /\ Moved(i)' = Moved(i)
<1> DEFINE s == ops[i]
           t == ops'[i]
           f == [j \in DOMAIN s |-> s[j].qty]
           g == [j \in DOMAIN t |-> t[j].qty]
<1>1. /\ s \in Seq(Operations) /\ IsFiniteSet(DOMAIN s)
      /\ \A j \in DOMAIN s : s[j].qty \in Nat
  BY OpsAre
<1>2. /\ t \in Seq(Operations) /\ DOMAIN t = DOMAIN s
      /\ t[k] = o /\ \A j \in DOMAIN s \ {k} : t[j] = s[j]
  BY <1>1, RowPut
<1>3. /\ Moved(i) = SumFunctionOnSet(f, DOMAIN s)
      /\ Moved(i)' = SumFunctionOnSet(g, DOMAIN s)
  BY <1>2 DEF Moved
<1>4. \A j \in DOMAIN s : f[j] \in Int /\ g[j] = f[j]
  BY <1>1, <1>2
<1> HIDE DEF f, g, s
<1>5. SumFunctionOnSet(g, DOMAIN s) = SumFunctionOnSet(f, DOMAIN s)
  BY <1>1, <1>4, SumSame
<1>6. Moved(i)' = Moved(i)
  BY <1>3, <1>5
<1> QED BY <1>2, <1>6 DEF s

LEMMA MovedNothing ==
  ASSUME NEW i \in Item, ops[i] = <<>>
  PROVE  Moved(i) = 0
<1>1. DOMAIN <<>> = {}
  OBVIOUS
<1> QED BY <1>1, SumEmpty DEF Moved

----------------------------------------------------------------------------
(* What a call does *)

\* The item a call writes is one.
LEMMA EditedIs ==
  ASSUME TypeOK, ItemsNamed, NEW c \in Client, pc[c] \in Editing
  PROVE  Edited(c) \in Item /\ want[c][Edited(c)] \in 1 .. MaxQty
<1>1. \E i \in Item : want[c][i] > 0
  BY DEF ItemsNamed
<1>2. Edited(c) \in Item /\ want[c][Edited(c)] > 0
  BY <1>1 DEF Edited
<1>3. want[c] \in [Item -> 0 .. MaxQty]
  BY DEF TypeOK
<1> QED BY <1>2, <1>3, MaxQtyAssumption

LEMMA CallGoes ==
  ASSUME TypeOK, NEW c \in Client, Call(c)
  PROVE  \/ pc'[c] = "idle"
         \/ /\ ReadCreate(c) \/ ReadEdit(c) \/ ReadDelete(c) \/ ReadSource(c)
            /\ pc[c] = "idle" /\ pc'[c] \in Editing
         \/ WriteSource(c) /\ pc[c] \in Editing /\ pc'[c] = "recalc"
         \/ ReadStart(c) /\ pc[c] = "idle" /\ pc'[c] = "start"
         \/ EnterStart(c) /\ pc[c] = "start" /\ pc'[c] = "started" /\ Enough(c)
         \/ ReadConsume(c) /\ pc[c] = "idle" /\ pc'[c] = "consume"
         \/ CheckComplete(c) /\ pc[c] = "idle" /\ pc'[c] = "check"
         \/ Recheck(c) /\ pc[c] = "check" /\ pc'[c] = "batch"
         \/ MakeBatch(c) /\ pc[c] = "batch" /\ pc'[c] = "income"
         \/ RecordIncome(c) /\ pc[c] = "income" /\ pc'[c] = "run"
         \/ FindRun(c) /\ pc[c] = "run" /\ pc'[c] = "line"
         \/ PostLine(c) /\ pc[c] = "line" /\ pc'[c] = "finish"
<1> USE DEF TypeOK, Goto
<1>0. ASSUME End(c)
      PROVE  pc'[c] = "idle"
  BY <1>0 DEF End
<1>1. CASE \/ Provision(c) \/ Unprovision(c) \/ SetStatus(c) \/ VoidConsumption(c)
           \/ RepostConsumption(c) \/ VoidCompletion(c) \/ RepostCompletion(c)
  BY <1>1 DEF Provision, Unprovision, SetStatus, VoidConsumption, RepostConsumption,
     VoidCompletion, RepostCompletion
<1>2. CASE \/ WriteCreate(c) \/ WriteEdit(c) \/ WriteDelete(c) \/ Recalc(c) \/ CommitStart(c)
           \/ CommitConsume(c) \/ Finish(c) \/ Abort(c)
  BY <1>0, <1>2 DEF WriteCreate, WriteEdit, WriteDelete, Recalc, CommitStart,
     CommitConsume, Finish, Abort
<1>3. CASE ReadCreate(c) \/ ReadEdit(c) \/ ReadDelete(c) \/ ReadSource(c)
  <2>1. PICK l \in Editing : \E i, n : BeginEdit(c, i, n, l)
    BY <1>3 DEF ReadCreate, ReadEdit, ReadDelete, ReadSource, Editing
  <2> QED BY <1>3, <2>1 DEF BeginEdit
<1>4. CASE WriteSource(c)
  BY <1>4 DEF WriteSource, Editing
<1>5. CASE ReadStart(c) \/ EnterStart(c) \/ ReadConsume(c)
  BY <1>0, <1>5 DEF ReadStart, EnterStart, ReadConsume
<1>6. CASE CheckComplete(c) \/ Recheck(c)
  BY <1>0, <1>6 DEF CheckComplete, Recheck
<1>7. CASE MakeBatch(c) \/ RecordIncome(c) \/ FindRun(c) \/ PostLine(c)
  <2>1. CASE MakeBatch(c)
    <3>1. pc[c] = "batch" /\ pc'[c] = "income"
      BY <2>1 DEF MakeBatch
    <3> QED BY <2>1, <3>1
  <2>2. CASE RecordIncome(c)
    <3>1. pc[c] = "income" /\ pc'[c] = "run"
      BY <2>2 DEF RecordIncome
    <3> QED BY <2>2, <3>1
  <2>3. CASE FindRun(c)
    <3>1. pc[c] = "run" /\ pc'[c] = "line"
      BY <2>3 DEF FindRun
    <3> QED BY <2>3, <3>1
  <2>4. CASE PostLine(c)
    <3>1. pc[c] = "line" /\ pc'[c] = "finish"
      BY <2>4 DEF PostLine
    <3> QED BY <2>4, <3>1
  <2> QED BY <1>7, <2>1, <2>2, <2>3, <2>4
<1> QED BY <1>1, <1>2, <1>3, <1>4, <1>5, <1>6, <1>7 DEF Call

LEMMA OthersStand ==
  ASSUME TypeOK, NEW c \in Client, Call(c), NEW e \in Client, e # c
  PROVE  /\ pc'[e] = pc[e] /\ seen'[e] = seen[e] /\ want'[e] = want[e]
         /\ at'[e] = at[e] /\ missing'[e] = missing[e]
<1> DEFINE Stands == /\ pc'[e] = pc[e] /\ seen'[e] = seen[e] /\ want'[e] = want[e]
                     /\ at'[e] = at[e] /\ missing'[e] = missing[e]
<1> USE DEF TypeOK, Goto, local
<1>0. ASSUME End(c)
      PROVE  Stands
  BY <1>0 DEF End
<1>1. CASE \/ Provision(c) \/ Unprovision(c) \/ SetStatus(c) \/ VoidConsumption(c)
           \/ RepostConsumption(c) \/ VoidCompletion(c) \/ RepostCompletion(c)
  BY <1>1 DEF Provision, Unprovision, SetStatus, VoidConsumption, RepostConsumption,
     VoidCompletion, RepostCompletion
<1>2. CASE \/ WriteCreate(c) \/ WriteEdit(c) \/ WriteDelete(c) \/ Recalc(c) \/ CommitStart(c)
           \/ CommitConsume(c) \/ Finish(c) \/ Abort(c)
  <2>1. End(c)
    BY <1>2 DEF WriteCreate, WriteEdit, WriteDelete, Recalc, CommitStart,
       CommitConsume, Finish, Abort
  <2> QED BY <1>0, <2>1
<1>3. CASE ReadCreate(c) \/ ReadEdit(c) \/ ReadDelete(c) \/ ReadSource(c)
  <2>1. PICK l, i, n : BeginEdit(c, i, n, l)
    BY <1>3 DEF ReadCreate, ReadEdit, ReadDelete, ReadSource
  <2> QED BY <2>1 DEF BeginEdit
<1>4. CASE WriteSource(c)
  BY <1>4 DEF WriteSource
<1>5. CASE ReadStart(c) \/ EnterStart(c) \/ ReadConsume(c)
  BY <1>0, <1>5 DEF ReadStart, EnterStart, ReadConsume
<1>6. CASE CheckComplete(c) \/ Recheck(c)
  BY <1>0, <1>6 DEF CheckComplete, Recheck
<1>7. CASE MakeBatch(c) \/ RecordIncome(c) \/ FindRun(c) \/ PostLine(c)
  BY <1>7 DEF MakeBatch, RecordIncome, FindRun, PostLine
<1> QED BY <1>1, <1>2, <1>3, <1>4, <1>5, <1>6, <1>7 DEF Call

\* Which calls write what
LEMMA WhoWrites ==
  ASSUME NEW c \in Client, Call(c)
  PROVE  /\ \/ UNCHANGED plan
            \/ WriteCreate(c) \/ WriteEdit(c) \/ WriteDelete(c) \/ WriteSource(c)
         /\ UNCHANGED planned \/ WriteCreate(c) \/ WriteEdit(c) \/ WriteDelete(c)
         /\ UNCHANGED inStock \/ WriteDelete(c) \/ WriteSource(c)
         /\ \/ UNCHANGED provision
            \/ Provision(c) \/ Unprovision(c) \/ WriteDelete(c) \/ Recalc(c) \/ Recheck(c)
         /\ \/ UNCHANGED taken
            \/ WriteDelete(c) \/ CommitConsume(c) \/ CommitStart(c)
            \/ (VoidConsumption(c) \/ RepostConsumption(c)) /\ UNCHANGED <<consumed, isConsumed>>
         /\ UNCHANGED status \/ SetStatus(c) \/ CommitStart(c) \/ Finish(c)
         /\ UNCHANGED batches \/ MakeBatch(c) \/ RecordIncome(c)
         /\ \/ UNCHANGED completion
            \/ FindRun(c) \/ PostLine(c) \/ VoidCompletion(c) \/ RepostCompletion(c)
<1> USE DEF order, plan, taken, output
<1>1. CASE Provision(c) \/ Unprovision(c) \/ SetStatus(c)
  BY <1>1 DEF Provision, Unprovision, SetStatus
<1>2. CASE VoidConsumption(c) \/ RepostConsumption(c)
  BY <1>2 DEF VoidConsumption, RepostConsumption
<1>3. CASE VoidCompletion(c) \/ RepostCompletion(c)
  BY <1>3 DEF VoidCompletion, RepostCompletion
<1>4. CASE WriteCreate(c) \/ WriteEdit(c) \/ WriteDelete(c) \/ WriteSource(c) \/ Recalc(c)
  BY <1>4 DEF WriteCreate, WriteEdit, WriteDelete, WriteSource, Recalc
<1>5. CASE CommitStart(c) \/ CommitConsume(c) \/ Finish(c) \/ Abort(c)
  BY <1>5 DEF CommitStart, CommitConsume, Finish, Abort
<1>6. CASE ReadCreate(c) \/ ReadEdit(c) \/ ReadDelete(c) \/ ReadSource(c)
  <2>1. PICK l, i, n : BeginEdit(c, i, n, l)
    BY <1>6 DEF ReadCreate, ReadEdit, ReadDelete, ReadSource
  <2> QED BY <2>1 DEF BeginEdit
<1>7. CASE ReadStart(c) \/ EnterStart(c) \/ ReadConsume(c)
  BY <1>7 DEF ReadStart, EnterStart, ReadConsume
<1>8. CASE CheckComplete(c) \/ Recheck(c)
  BY <1>8 DEF CheckComplete, Recheck
<1>9. CASE MakeBatch(c) \/ RecordIncome(c) \/ FindRun(c) \/ PostLine(c)
  BY <1>9 DEF MakeBatch, RecordIncome, FindRun, PostLine
<1> QED BY <1>1, <1>2, <1>3, <1>4, <1>5, <1>6, <1>7, <1>8, <1>9 DEF Call

\* What was noted stays so.
LEMMA NotedStays ==
  ASSUME Next
  PROVE  history \subseteq history'
<1>1. ASSUME NEW S, Note(S)
      PROVE  history \subseteq history'
  BY <1>1 DEF Note
<1>2. ASSUME NEW c \in Client, Call(c)
      PROVE  history' = history \/ \E S : Note(S)
  <2>1. CASE Provision(c) \/ Unprovision(c) \/ SetStatus(c) \/ VoidConsumption(c)
             \/ RepostConsumption(c) \/ VoidCompletion(c) \/ RepostCompletion(c)
    BY <2>1 DEF Provision, Unprovision, SetStatus, VoidConsumption, RepostConsumption,
       VoidCompletion, RepostCompletion
  <2>2. CASE WriteCreate(c) \/ WriteEdit(c) \/ WriteDelete(c) \/ WriteSource(c)
    BY <2>2 DEF WriteCreate, WriteEdit, WriteDelete, WriteSource, Late
  <2>3. CASE Recalc(c) \/ CommitStart(c) \/ CommitConsume(c) \/ Finish(c) \/ Abort(c)
    BY <2>3 DEF Recalc, CommitStart, CommitConsume, Finish, Abort
  <2>4. CASE ReadCreate(c) \/ ReadEdit(c) \/ ReadDelete(c) \/ ReadSource(c)
    <3>1. PICK l, i, n : BeginEdit(c, i, n, l)
      BY <2>4 DEF ReadCreate, ReadEdit, ReadDelete, ReadSource
    <3> QED BY <3>1 DEF BeginEdit
  <2>5. CASE ReadStart(c) \/ EnterStart(c) \/ ReadConsume(c)
    BY <2>5 DEF ReadStart, EnterStart, ReadConsume
  <2>6. CASE CheckComplete(c) \/ Recheck(c)
    BY <2>6 DEF CheckComplete, Recheck
  <2>7. CASE MakeBatch(c) \/ RecordIncome(c) \/ FindRun(c) \/ PostLine(c)
    BY <2>7 DEF MakeBatch, RecordIncome, FindRun, PostLine
  <2> QED BY <1>2, <2>1, <2>2, <2>3, <2>4, <2>5, <2>6, <2>7 DEF Call
<1>3. Quiescent => history' = history
  BY DEF Quiescent, vars
<1> QED BY <1>1, <1>2, <1>3 DEF Next

----------------------------------------------------------------------------
(* What is consumed, voided and deleted *)

\* A consumption adds what it wants to what it has read, and moves it.
LEMMA ConsumeIs ==
  ASSUME TypeOK, ConsumptionFits, NEW c \in Client, CommitConsume(c) \/ CommitStart(c)
  PROVE  /\ pc[c] \in Consuming /\ pc'[c] = "idle"
         /\ ops' \in [Item -> Seq(Operations)]
         /\ consumed' \in [Item -> 0 .. MaxQty] /\ isConsumed' \in [Item -> BOOLEAN]
         /\ \A i \in Item :
              IF want[c][i] > 0
                THEN /\ i \in Present /\ want[c][i] \in Nat
                     /\ consumed'[i] = seen[c][i] + want[c][i]
                     /\ ops'[i] = Append(ops[i], Operation(want[c][i]))
                     /\ Moved(i)' = Moved(i) + want[c][i]
                ELSE /\ consumed'[i] = consumed[i] /\ ops'[i] = ops[i]
                     /\ Moved(i)' = Moved(i)
<1>1. /\ pc[c] \in Consuming /\ pc'[c] = "idle"
      /\ Found(c) /\ Consume(c)
  BY DEF CommitConsume, CommitStart, Consuming, End, Goto, TypeOK
<1>2. ASSUME NEW i \in Item
      PROVE  /\ want[c][i] \in 0 .. MaxQty /\ seen[c][i] \in 0 .. MaxQty
             /\ consumed[i] \in 0 .. MaxQty
  BY DEF TypeOK
<1>3. /\ ops' = [i \in Item |->
           IF want[c][i] > 0 THEN Append(ops[i], Operation(want[c][i])) ELSE ops[i]]
      /\ consumed' = [i \in Item |-> IF want[c][i] > 0 THEN Consumed(c, i) ELSE consumed[i]]
      /\ isConsumed' = [i \in Item |->
           IF want[c][i] > 0 THEN consumed'[i] = planned[i] ELSE isConsumed[i]]
  BY <1>1 DEF Consume
<1>4. ASSUME NEW i \in Item, want[c][i] > 0
      PROVE  /\ i \in Present /\ want[c][i] \in Nat
             /\ consumed'[i] = seen[c][i] + want[c][i]
             /\ consumed'[i] \in 0 .. MaxQty
             /\ ops'[i] = Append(ops[i], Operation(want[c][i]))
             /\ ops'[i] \in Seq(Operations)
             /\ Moved(i)' = Moved(i) + want[c][i]
  <2>1. want[c][i] \in 1 .. MaxQty /\ i \in Present
    BY <1>1, <1>2, <1>4, MaxQtyAssumption DEF Found
  <2>2. ops'[i] = Append(ops[i], Operation(want[c][i]))
    BY <1>3, <1>4
  <2>3. ops'[i] \in Seq(Operations) /\ Moved(i)' = Moved(i) + want[c][i]
    <3> DEFINE n == want[c][i]
    <3>1. n \in 1 .. MaxQty /\ ops'[i] = Append(ops[i], Operation(n))
      BY <2>1, <2>2
    <3> HIDE DEF n
    <3>2. ops'[i] \in Seq(Operations) /\ Moved(i)' = Moved(i) + n
      BY <3>1, MovedAppended
    <3> QED BY <3>2 DEF n
  <2>4. consumed'[i] = seen[c][i] + want[c][i]
    BY <1>3, <1>4 DEF Consumed
  <2>5. seen[c][i] + want[c][i] <= MaxQty
    BY <1>1, <1>4 DEF ConsumptionFits
  <2>6. consumed'[i] \in 0 .. MaxQty
    BY <1>2, <2>1, <2>4, <2>5, MaxQtyAssumption
  <2> QED BY <2>1, <2>2, <2>3, <2>4, <2>6
<1>5. ASSUME NEW i \in Item, ~(want[c][i] > 0)
      PROVE  /\ consumed'[i] = consumed[i] /\ ops'[i] = ops[i]
             /\ ops'[i] \in Seq(Operations) /\ Moved(i)' = Moved(i)
  <2>1. consumed'[i] = consumed[i] /\ ops'[i] = ops[i]
    BY <1>3, <1>5
  <2> QED BY <2>1, OpsAre DEF Moved
<1>6. \A i \in Item : ops'[i] \in Seq(Operations) /\ consumed'[i] \in 0 .. MaxQty
  <2>1. \A i \in Item : ops'[i] \in Seq(Operations)
    BY <1>4, <1>5
  <2>2. \A i \in Item : consumed'[i] \in 0 .. MaxQty
    BY <1>2, <1>4, <1>5
  <2> QED BY <2>1, <2>2
<1>7. ops' \in [Item -> Seq(Operations)] /\ consumed' \in [Item -> 0 .. MaxQty]
  BY <1>3, <1>6
<1>8. isConsumed' \in [Item -> BOOLEAN]
  <2>1. isConsumed \in [Item -> BOOLEAN]
    BY DEF TypeOK
  <2> QED BY <1>3, <2>1, Zenon
<1> QED BY <1>1, <1>4, <1>5, <1>7, <1>8

LEMMA RunsWritten ==
  ASSUME TypeOK, NEW c \in Client, VoidConsumption(c) \/ RepostConsumption(c)
  PROVE  /\ ops' \in [Item -> Seq(Operations)]
         /\ \A i \in Item : /\ Moved(i)' = Moved(i) /\ DOMAIN ops'[i] = DOMAIN ops[i]
                            /\ ops[i] # <<>> => ops'[i] # <<>>
         /\ \E i \in Item : \E k \in DOMAIN ops[i], o \in Operations :
              /\ ops' = [ops EXCEPT ![i] = [ops[i] EXCEPT ![k] = o]]
              /\ \/ o = TakenBack(ops[i][k]) /\ Note(Flag(ops[i][k].runs = 3, "again"))
                 \/ o = PostedAgain(ops[i][k])
<1>0. ASSUME NEW o \in Operations
      PROVE  /\ TakenBack(o) \in Operations /\ TakenBack(o).qty = o.qty
             /\ PostedAgain(o) \in Operations /\ PostedAgain(o).qty = o.qty
  <2>1. o.qty \in 1 .. MaxQty /\ o.runs \in 1 .. 3
    BY DEF Operations
  <2> DEFINE q == o.qty
             s == IF o.runs = 1 THEN 2 ELSE o.runs
  <2>2. s \in 1 .. 3 /\ q \in 1 .. MaxQty
    BY <2>1
  <2>3. /\ TakenBack(o) = [qty |-> q, runs |-> s, voided |-> TRUE]
        /\ PostedAgain(o) = [qty |-> q, runs |-> 3, voided |-> FALSE]
    BY DEF TakenBack, PostedAgain
  <2> HIDE DEF s, q
  <2>4. TakenBack(o) \in Operations /\ PostedAgain(o) \in Operations
    BY <2>2, <2>3 DEF Operations
  <2>5. TakenBack(o).qty = q /\ PostedAgain(o).qty = q
    BY <2>3
  <2> QED BY <2>4, <2>5 DEF q
<1>1. PICK i \in Item : \E k \in DOMAIN ops[i] :
        \/ /\ ops' = [ops EXCEPT ![i][k] = TakenBack(@)]
           /\ Note(Flag(ops[i][k].runs = 3, "again"))
        \/ ops' = [ops EXCEPT ![i][k] = PostedAgain(@)]
  BY DEF VoidConsumption, RepostConsumption
<1>2. PICK k \in DOMAIN ops[i] :
        \/ /\ ops' = [ops EXCEPT ![i][k] = TakenBack(@)]
           /\ Note(Flag(ops[i][k].runs = 3, "again"))
        \/ ops' = [ops EXCEPT ![i][k] = PostedAgain(@)]
  BY <1>1
<1>3. ops \in [Item -> Seq(Operations)] /\ ops[i][k] \in Operations
  BY OpsAre DEF TypeOK
<1>4. PICK o \in Operations :
        /\ ops' = [ops EXCEPT ![i] = [ops[i] EXCEPT ![k] = o]] /\ o.qty = ops[i][k].qty
        /\ \/ o = TakenBack(ops[i][k]) /\ Note(Flag(ops[i][k].runs = 3, "again"))
           \/ o = PostedAgain(ops[i][k])
  BY <1>0, <1>2, <1>3
<1>5. ops'[i] = [ops[i] EXCEPT ![k] = o] /\ \A j \in Item \ {i} : ops'[j] = ops[j]
  BY <1>3, <1>4
<1>6. /\ ops'[i] \in Seq(Operations) /\ DOMAIN ops'[i] = DOMAIN ops[i]
      /\ Moved(i)' = Moved(i)
  BY <1>4, <1>5, MovedPut
<1>7. \A j \in Item : ops'[j] \in Seq(Operations) /\ DOMAIN ops'[j] = DOMAIN ops[j]
  BY <1>3, <1>5, <1>6
<1>8. ops' \in [Item -> Seq(Operations)]
  BY <1>3, <1>4, <1>7
<1>9. \A j \in Item : Moved(j)' = Moved(j)
  BY <1>5, <1>6 DEF Moved
<1>10. ASSUME NEW j \in Item, ops[j] # <<>>
       PROVE  ops'[j] # <<>>
  <2> DEFINE s == ops[j]
  <2>1. s \in Seq(Operations) /\ s # <<>>
    BY <1>10, OpsAre
  <2> HIDE DEF s
  <2>2. DOMAIN s # {} /\ DOMAIN <<>> = {}
    BY <2>1
  <2> QED BY <1>7, <2>2 DEF s
<1> QED BY <1>4, <1>7, <1>8, <1>9, <1>10

LEMMA DeleteIs ==
  ASSUME TypeOK, ItemsNamed, NEW c \in Client, WriteDelete(c)
  PROVE  \E i \in Item :
           /\ planned'[i] = 0 /\ consumed'[i] = 0
           /\ ops'[i] = <<>> /\ Moved(i)' = 0
           /\ \A j \in Item \ {i} : /\ planned'[j] = planned[j] /\ consumed'[j] = consumed[j]
                                    /\ ops'[j] = ops[j] /\ Moved(j)' = Moved(j)
<1>1. PICK i \in Item : i = Edited(c)
  BY EditedIs DEF WriteDelete, Editing
<1>2. /\ planned' = [planned EXCEPT ![i] = 0] /\ consumed' = [consumed EXCEPT ![i] = 0]
      /\ ops' = [ops EXCEPT ![i] = <<>>]
  BY <1>1 DEF WriteDelete
<1>3. /\ planned'[i] = 0 /\ consumed'[i] = 0 /\ ops'[i] = <<>>
      /\ \A j \in Item \ {i} : /\ planned'[j] = planned[j] /\ consumed'[j] = consumed[j]
                               /\ ops'[j] = ops[j]
  BY <1>2 DEF TypeOK
<1>4. DOMAIN <<>> = {}
  OBVIOUS
<1>5. Moved(i)' = 0
  <2> DEFINE g == [k \in DOMAIN ops'[i] |-> ops'[i][k].qty]
  <2>1. Moved(i)' = SumFunctionOnSet(g, {})
    BY <1>3, <1>4 DEF Moved
  <2> HIDE DEF g
  <2> QED BY <2>1, SumEmpty
<1>6. \A j \in Item \ {i} : Moved(j)' = Moved(j)
  BY <1>3 DEF Moved
<1> QED BY <1>3, <1>5, <1>6

\* Stock that has left does not come back, but for a component that is deleted.
LEMMA MovedGrows ==
  ASSUME TypeOK, ConsumptionFits, NEW c \in Client, Call(c), ~WriteDelete(c), NEW i \in Item
  PROVE  Moved(i)' >= Moved(i) /\ Moved(i)' \in Nat
<1>1. Moved(i) \in Nat
  BY OpsAre
<1>2. CASE CommitConsume(c) \/ CommitStart(c)
  BY <1>1, <1>2, ConsumeIs
<1>3. CASE VoidConsumption(c) \/ RepostConsumption(c)
  BY <1>1, <1>3, RunsWritten
<1>4. CASE UNCHANGED taken
  BY <1>1, <1>4 DEF taken, Moved
<1> QED BY <1>2, <1>3, <1>4, WhoWrites

----------------------------------------------------------------------------
(* Types *)

LEMMA RowTypes ==
  ASSUME TypeOK, ItemsNamed, ConsumptionFits, Written, NEW c \in Client, Call(c)
  PROVE  /\ status' \in Status
         /\ planned' \in [Item -> 0 .. MaxQty] /\ inStock' \subseteq Item
         /\ provision' \in [Item -> [done : BOOLEAN, qty : 0 .. MaxQty]]
         /\ consumed' \in [Item -> 0 .. MaxQty] /\ isConsumed' \in [Item -> BOOLEAN]
         /\ ops' \in [Item -> Seq(Operations)]
         /\ batches' \in Seq(BOOLEAN) /\ Len(batches) <= Len(batches')
         /\ completion' \in [runs : 0 .. 3, lines : Nat, standing : Int, voided : BOOLEAN]
<1>a. \A S : pc[c] \in S /\ S \subseteq Editing =>
        Edited(c) \in Item /\ want[c][Edited(c)] \in 0 .. MaxQty
  <2>1. pc[c] \in Editing => Edited(c) \in Item /\ want[c][Edited(c)] \in 1 .. MaxQty
    BY EditedIs
  <2> QED BY <2>1, MaxQtyAssumption
<1>b. 0 \in 0 .. MaxQty
  BY MaxQtyAssumption
<1>c. {"create"} \subseteq Editing /\ {"edit"} \subseteq Editing /\ {"delete"} \subseteq Editing
      /\ {"toStock", "elsewhere"} \subseteq Editing
  BY DEF Editing
<1>1. status' \in Status
  <2>1. CASE SetStatus(c)
    BY <2>1 DEF SetStatus
  <2>2. CASE CommitStart(c) \/ Finish(c)
    BY <2>2 DEF CommitStart, Finish, Status
  <2> QED BY <2>1, <2>2, WhoWrites DEF TypeOK
<1>2. planned' \in [Item -> 0 .. MaxQty]
  <2>0. planned \in [Item -> 0 .. MaxQty]
    BY DEF TypeOK
  <2>1. CASE WriteCreate(c) \/ WriteEdit(c)
    <3>1. /\ planned' = [planned EXCEPT ![Edited(c)] = want[c][Edited(c)]]
          /\ pc[c] \in {"create"} \/ pc[c] \in {"edit"}
      BY <2>1 DEF WriteCreate, WriteEdit
    <3>2. Edited(c) \in Item /\ want[c][Edited(c)] \in 0 .. MaxQty
      BY <1>a, <1>c, <3>1
    <3> QED BY <2>0, <3>1, <3>2
  <2>2. CASE WriteDelete(c)
    <3>1. planned' = [planned EXCEPT ![Edited(c)] = 0]
      BY <2>2 DEF WriteDelete
    <3> QED BY <1>b, <2>0, <3>1
  <2> QED BY <2>0, <2>1, <2>2, WhoWrites
<1>3. inStock' \subseteq Item
  <2>0. inStock \subseteq Item
    BY DEF TypeOK
  <2>1. CASE WriteDelete(c)
    <3>1. pc[c] \in {"delete"} /\ inStock' = inStock \cup {Edited(c)}
      BY <2>1 DEF WriteDelete
    <3> QED BY <1>a, <1>c, <2>0, <3>1
  <2>2. CASE WriteSource(c)
    <3>1. /\ pc[c] \in {"toStock", "elsewhere"}
          /\ inStock' = inStock \cup {Edited(c)} \/ inStock' = inStock \ {Edited(c)}
      BY <2>2 DEF WriteSource
    <3> QED BY <1>a, <1>c, <2>0, <3>1
  <2> QED BY <2>0, <2>1, <2>2, WhoWrites
<1>4. provision' \in [Item -> [done : BOOLEAN, qty : 0 .. MaxQty]]
  <2> DEFINE P == [done : BOOLEAN, qty : 0 .. MaxQty]
  <2>0. provision \in [Item -> P] /\ planned \in [Item -> 0 .. MaxQty]
    BY DEF TypeOK
  <2>1. NotProvided \in P
    BY <1>b DEF NotProvided
  <2>2. \A i \in Item, n \in 0 .. MaxQty : /\ [done |-> n >= Remaining(i), qty |-> n] \in P
                                          /\ [done |-> TRUE, qty |-> n] \in P
    OBVIOUS
  <2> HIDE DEF P
  <2>3. ASSUME Provision(c)
        PROVE  provision' \in [Item -> P]
    <3>1. PICK i \in Own, n \in 1 .. MaxQty :
            provision' = [provision EXCEPT ![i] = [done |-> n >= Remaining(i), qty |-> n]]
      BY <2>3 DEF Provision
    <3>2. i \in Item /\ n \in 0 .. MaxQty
      BY MaxQtyAssumption DEF Own, Present
    <3>3. [done |-> n >= Remaining(i), qty |-> n] \in P
      BY <2>2, <3>2
    <3> DEFINE p == [done |-> n >= Remaining(i), qty |-> n]
    <3> HIDE DEF p
    <3> QED BY <2>0, <3>1, <3>3 DEF p
  <2>4. ASSUME Unprovision(c)
        PROVE  provision' \in [Item -> P]
    BY <2>0, <2>1, <2>4 DEF Unprovision
  <2>5. ASSUME WriteDelete(c)
        PROVE  provision' \in [Item -> P]
    <3>1. provision' = [provision EXCEPT ![Edited(c)] = NotProvided]
      BY <2>5 DEF WriteDelete
    <3> QED BY <2>0, <2>1, <3>1
  <2>6. ASSUME Recalc(c) \/ Recheck(c)
        PROVE  provision' \in [Item -> P]
    <3>1. provision' = AllProvided
      BY <2>6 DEF Recalc, Recheck
    <3>2. \A i \in Item : planned[i] \in 0 .. MaxQty /\ provision[i] \in P
      BY <2>0
    <3>3. \A i \in Item : AllProvided[i] \in P
      BY <2>2, <3>2 DEF AllProvided
    <3>4. AllProvided = [i \in Item |-> AllProvided[i]]
      BY DEF AllProvided
    <3> QED BY <3>1, <3>3, <3>4
  <2>7. UNCHANGED provision => provision' \in [Item -> P]
    BY <2>0
  <2>8. provision' \in [Item -> P]
    BY <2>3, <2>4, <2>5, <2>6, <2>7, WhoWrites
  <2> QED BY <2>8 DEF P
<1>5. /\ consumed' \in [Item -> 0 .. MaxQty] /\ isConsumed' \in [Item -> BOOLEAN]
      /\ ops' \in [Item -> Seq(Operations)]
  <2>0. /\ consumed \in [Item -> 0 .. MaxQty] /\ isConsumed \in [Item -> BOOLEAN]
        /\ ops \in [Item -> Seq(Operations)]
    BY DEF TypeOK
  <2>1. CASE WriteDelete(c)
    <3>1. /\ consumed' = [consumed EXCEPT ![Edited(c)] = 0]
          /\ isConsumed' = [isConsumed EXCEPT ![Edited(c)] = FALSE]
          /\ ops' = [ops EXCEPT ![Edited(c)] = <<>>]
      BY <2>1 DEF WriteDelete
    <3>2. <<>> \in Seq(Operations)
      OBVIOUS
    <3>3. consumed' \in [Item -> 0 .. MaxQty]
      BY <1>b, <2>0, <3>1
    <3>4. isConsumed' \in [Item -> BOOLEAN]
      BY <2>0, <3>1
    <3>5. ops' \in [Item -> Seq(Operations)]
      BY <2>0, <3>1, <3>2
    <3> QED BY <3>3, <3>4, <3>5
  <2>2. CASE CommitConsume(c) \/ CommitStart(c)
    BY <2>2, ConsumeIs
  <2>3. CASE (VoidConsumption(c) \/ RepostConsumption(c)) /\ UNCHANGED <<consumed, isConsumed>>
    BY <2>0, <2>3, RunsWritten
  <2>4. CASE UNCHANGED taken
    BY <2>0, <2>4 DEF taken
  <2> QED BY <2>1, <2>2, <2>3, <2>4, WhoWrites
<1>6. batches' \in Seq(BOOLEAN) /\ Len(batches) <= Len(batches')
  <2>0. batches \in Seq(BOOLEAN) /\ Len(batches) \in Nat
    BY DEF TypeOK
  <2>1. CASE MakeBatch(c)
    BY <2>0, <2>1 DEF MakeBatch
  <2>2. CASE RecordIncome(c)
    <3>1. pc[c] = "income" /\ batches' = [batches EXCEPT ![at[c]] = TRUE]
      BY <2>2 DEF RecordIncome
    <3>2. at[c] \in 0 .. Len(batches) /\ at[c] > 0
      BY <3>1 DEF Written, Making, TypeOK
    <3>3. at[c] \in DOMAIN batches /\ TRUE \in BOOLEAN
      BY <2>0, <3>2
    <3>4. batches' \in Seq(BOOLEAN) /\ Len(batches') = Len(batches)
      BY <2>0, <3>1, <3>3, RowPut
    <3> QED BY <2>0, <3>4
  <2> QED BY <2>0, <2>1, <2>2, WhoWrites
<1>7. completion' \in [runs : 0 .. 3, lines : Nat, standing : Int, voided : BOOLEAN]
  <2> DEFINE C == [runs : 0 .. 3, lines : Nat, standing : Int, voided : BOOLEAN]
  <2>0. completion \in C
    BY DEF TypeOK
  <2>a. completion.runs \in 0 .. 3 /\ completion.lines \in Nat /\ completion.standing \in Int
    BY <2>0
  <2>b. Reversed \in Int
    BY <2>a DEF Reversed
  <2>1. CASE FindRun(c)
    BY <2>0, <2>1 DEF FindRun
  <2>2. CASE PostLine(c)
    <3> DEFINE n == completion.runs
               l == completion.lines + 1
               s == completion.standing + 1
               v == completion.voided
    <3>1. n \in 0 .. 3 /\ l \in Nat /\ s \in Int
      BY <2>a
    <3>2. v \in BOOLEAN
      BY <2>0
    <3>3. \/ completion' = [runs |-> n, lines |-> l, standing |-> s, voided |-> v]
          \/ completion' = completion
      BY <2>2 DEF PostLine
    <3> HIDE DEF n, l, s, v
    <3> QED BY <2>0, <3>1, <3>2, <3>3
  <2>3. CASE VoidCompletion(c)
    <3> DEFINE n == IF completion.runs = 1 THEN 2 ELSE completion.runs
               l == completion.lines
               s == Reversed
    <3>1. n \in 0 .. 3 /\ l \in Nat /\ s \in Int
      BY <2>a, <2>b
    <3>2. completion' = [runs |-> n, lines |-> l, standing |-> s, voided |-> TRUE]
      BY <2>3 DEF VoidCompletion
    <3> HIDE DEF n, l, s
    <3> QED BY <3>1, <3>2
  <2>4. CASE RepostCompletion(c)
    <3> DEFINE l == completion.lines
               s == Reversed + 1
               v == FALSE
    <3>1. l \in Nat /\ s \in Int
      BY <2>a, <2>b
    <3>2. v \in BOOLEAN
      OBVIOUS
    <3>3. \/ completion' = [runs |-> 1, lines |-> 1, standing |-> 1, voided |-> v]
          \/ completion' = [runs |-> 3, lines |-> l, standing |-> s, voided |-> v]
      BY <2>4 DEF RepostCompletion, Unvoided
    <3> HIDE DEF l, s, v
    <3> QED BY <3>1, <3>2, <3>3
  <2> QED BY <2>0, <2>1, <2>2, <2>3, <2>4, WhoWrites
<1> QED BY <1>1, <1>2, <1>3, <1>4, <1>5, <1>6, <1>7

LEMMA MissingType ==
  ASSUME TypeOK
  PROVE  Missing \in [Item -> 0 .. MaxQty] /\ Nothing \in [Item -> 0 .. MaxQty]
<1>1. ASSUME NEW i \in Item
      PROVE  planned[i] \in 0 .. MaxQty /\ consumed[i] \in 0 .. MaxQty
  BY DEF TypeOK
<1>2. ASSUME NEW i \in Item
      PROVE  (IF i \in Own /\ Remaining(i) > 0 THEN Remaining(i) ELSE 0) \in 0 .. MaxQty
  BY <1>1, MaxQtyAssumption DEF Remaining
<1>3. Missing \in [Item -> 0 .. MaxQty]
  BY <1>2 DEF Missing
<1>4. Nothing \in [Item -> 0 .. MaxQty]
  BY MaxQtyAssumption DEF Nothing
<1> QED BY <1>3, <1>4

LEMMA OnlyType ==
  ASSUME NEW i \in Item, NEW n \in 1 .. MaxQty
  PROVE  /\ Only(i, n) \in [Item -> 0 .. MaxQty]
         /\ Only(i, n)[i] = n /\ \A j \in Item \ {i} : Only(i, n)[j] = 0
<1>1. \A j \in Item : Only(i, n)[j] = IF j = i THEN n ELSE 0
  BY DEF Only, Nothing
<1>2. Only(i, n) = [j \in Item |-> Only(i, n)[j]]
  BY DEF Only, Nothing
<1>3. \A j \in Item : Only(i, n)[j] \in 0 .. MaxQty
  BY <1>1, MaxQtyAssumption
<1> QED BY <1>1, <1>2, <1>3

\* What a consumption wants is there, is missing, and is compared with what others want.
LEMMA ReadConsumeIs ==
  ASSUME TypeOK, NEW c \in Client, ReadConsume(c)
  PROVE  \E w \in [Item -> 0 .. MaxQty] :
           /\ want' = [want EXCEPT ![c] = w] /\ seen' = [seen EXCEPT ![c] = consumed]
           /\ \A i \in Item : w[i] > 0 => i \in Present /\ w[i] <= Remaining(i)
           /\ Goto(c, "consume") /\ Note(Flag(Overlaps(w), "lost"))
           /\ pc[c] = "idle" /\ status = "IN_PROGRESS"
           /\ UNCHANGED <<order, taken, output, at, missing>>
<1>0. PICK w \in Wants : /\ w # Nothing /\ \A i \in Item : w[i] > 0 => w[i] <= Remaining(i)
                         /\ want' = [want EXCEPT ![c] = w]
                         /\ Note(Flag(Overlaps(w), "lost"))
  BY DEF ReadConsume
<1>1. w = Missing \/ \E i \in Present, n \in 1 .. MaxQty : w = Only(i, n)
  BY <1>0 DEF Wants
<1>2. ASSUME NEW i \in Item, w[i] > 0
      PROVE  i \in Present
  <2>1. CASE w = Missing
    BY <1>2, <2>1 DEF Missing, Own
  <2>2. CASE w # Missing
    <3>1. PICK j \in Present, m \in 1 .. MaxQty : w = Only(j, m)
      BY <1>1, <2>2
    <3>2. j \in Item
      BY DEF Present
    <3>3. i = j
      BY <1>2, <3>1, <3>2, OnlyType
    <3> QED BY <3>3
  <2> QED BY <2>1, <2>2
<1>3. w \in [Item -> 0 .. MaxQty]
  BY <1>1, MissingType, OnlyType DEF Present
<1>4. /\ seen' = [seen EXCEPT ![c] = consumed] /\ Goto(c, "consume")
      /\ pc[c] = "idle" /\ status = "IN_PROGRESS"
      /\ UNCHANGED <<order, taken, output, at, missing>>
  BY DEF ReadConsume
<1> QED BY <1>0, <1>2, <1>3, <1>4

Label == {"idle", "create", "edit", "delete", "toStock", "elsewhere", "recalc",
          "start", "started", "consume"} \cup Completing

LEMMA LocalTypes ==
  ASSUME TypeOK, NEW c \in Client, Call(c), Len(batches) <= Len(batches'),
         Len(batches') \in Nat
  PROVE  /\ pc' \in [Client -> Label]
         /\ seen' \in [Client -> [Item -> 0 .. MaxQty]]
         /\ want' \in [Client -> [Item -> 0 .. MaxQty]]
         /\ at' \in [Client -> 0 .. Len(batches')] /\ missing' \in [Client -> BOOLEAN]
<1> DEFINE Q == [Item -> 0 .. MaxQty]
           n == Len(batches')
           b == FALSE
<1>0. /\ pc \in [Client -> Label]
      /\ seen \in [Client -> Q] /\ want \in [Client -> Q]
      /\ Len(batches) \in Nat /\ at \in [Client -> 0 .. Len(batches)]
      /\ missing \in [Client -> BOOLEAN]
  BY DEF TypeOK, Label
<1>1. at \in [Client -> 0 .. n] /\ 0 \in 0 .. n
  BY <1>0
<1>2. Nothing \in Q /\ consumed \in Q /\ Missing \in Q
  BY MissingType DEF TypeOK
<1>3. \A i \in Item, m \in 1 .. MaxQty : Only(i, m) \in Q
  BY OnlyType
<1>4. b \in BOOLEAN /\ NoLine \in BOOLEAN
  BY DEF NoLine
<1>5. Present \subseteq Item
  BY DEF Present
<1>6. ASSUME NEW l \in Label, Goto(c, l)
      PROVE  pc' \in [Client -> Label]
  BY <1>0, <1>6 DEF Goto
<1> HIDE DEF Q, n, b
<1> DEFINE Typed == /\ pc' \in [Client -> Label]
                    /\ seen' \in [Client -> Q] /\ want' \in [Client -> Q]
                    /\ at' \in [Client -> 0 .. n] /\ missing' \in [Client -> BOOLEAN]
<1>7. ASSUME End(c)
      PROVE  Typed
  <2>1. "idle" \in Label
    BY DEF Label
  <2>2. /\ Goto(c, "idle") /\ seen' = [seen EXCEPT ![c] = Nothing]
        /\ want' = [want EXCEPT ![c] = Nothing] /\ at' = [at EXCEPT ![c] = 0]
        /\ missing' = [missing EXCEPT ![c] = b]
    BY <1>7 DEF End, b
  <2>3. missing' \in [Client -> BOOLEAN]
    BY <1>0, <1>4, <2>2
  <2>4. at' \in [Client -> 0 .. n]
    BY <1>1, <2>2
  <2> QED BY <1>0, <1>2, <1>6, <2>1, <2>2, <2>3, <2>4
<1>8. CASE \/ Provision(c) \/ Unprovision(c) \/ SetStatus(c) \/ VoidConsumption(c)
           \/ RepostConsumption(c) \/ VoidCompletion(c) \/ RepostCompletion(c)
  <2>1. UNCHANGED <<pc, local>>
    BY <1>8 DEF Provision, Unprovision, SetStatus, VoidConsumption, RepostConsumption,
       VoidCompletion, RepostCompletion
  <2> QED BY <1>0, <1>1, <2>1 DEF local, Q, n
<1>9. CASE \/ WriteCreate(c) \/ WriteEdit(c) \/ WriteDelete(c) \/ Recalc(c) \/ CommitStart(c)
           \/ CommitConsume(c) \/ Finish(c) \/ Abort(c)
  <2>1. End(c)
    BY <1>9 DEF WriteCreate, WriteEdit, WriteDelete, Recalc, CommitStart,
       CommitConsume, Finish, Abort
  <2> QED BY <1>7, <2>1 DEF Q, n
<1>10. CASE ReadCreate(c) \/ ReadEdit(c) \/ ReadDelete(c) \/ ReadSource(c)
  <2>1. PICK l \in Editing, i \in Item, m \in 1 .. MaxQty : BeginEdit(c, i, m, l)
    BY <1>5, <1>10, MaxQtyAssumption DEF ReadCreate, ReadEdit, ReadDelete, ReadSource, Editing
  <2>2. l \in Label
    BY DEF Label, Editing
  <2>3. /\ Goto(c, l) /\ want' = [want EXCEPT ![c] = Only(i, m)]
        /\ UNCHANGED <<seen, at, missing>>
    BY <2>1 DEF BeginEdit
  <2> QED BY <1>0, <1>1, <1>3, <1>6, <2>2, <2>3 DEF Q, n
<1>11. CASE ReadStart(c)
  <2>1. /\ Goto(c, "start") /\ want' = [want EXCEPT ![c] = Missing]
        /\ UNCHANGED <<seen, at, missing>>
    BY <1>11 DEF ReadStart
  <2>2. "start" \in Label
    BY DEF Label
  <2> QED BY <1>0, <1>1, <1>2, <1>6, <2>1, <2>2 DEF Q, n
<1>12. CASE EnterStart(c)
  <2>1. \/ End(c)
        \/ /\ Goto(c, "started") /\ seen' = [seen EXCEPT ![c] = consumed]
           /\ UNCHANGED <<want, at, missing>>
    BY <1>12 DEF EnterStart
  <2>2. "started" \in Label
    BY DEF Label
  <2> QED BY <1>0, <1>1, <1>2, <1>6, <1>7, <2>1, <2>2 DEF Q, n
<1>13. CASE ReadConsume(c)
  <2>1. PICK w \in Q : /\ want' = [want EXCEPT ![c] = w] /\ seen' = [seen EXCEPT ![c] = consumed]
                       /\ Goto(c, "consume") /\ UNCHANGED <<at, missing>>
    BY <1>13, ReadConsumeIs DEF Q
  <2>4. "consume" \in Label
    BY DEF Label
  <2> QED BY <1>0, <1>1, <1>2, <1>6, <2>1, <2>4 DEF Q, n
<1>14. CASE WriteSource(c) \/ CheckComplete(c) \/ Recheck(c) \/ RecordIncome(c) \/ PostLine(c)
  <2>1. \/ End(c)
        \/ UNCHANGED local /\ \E l \in {"recalc", "check", "batch", "run", "finish"} : Goto(c, l)
    BY <1>14 DEF WriteSource, CheckComplete, Recheck, RecordIncome, PostLine
  <2>2. {"recalc", "check", "batch", "run", "finish"} \subseteq Label
    BY DEF Label, Completing
  <2> QED BY <1>0, <1>1, <1>6, <1>7, <2>1, <2>2 DEF local, Q, n
<1>15. CASE MakeBatch(c)
  <2>1. /\ Goto(c, "income") /\ batches' = Append(batches, b)
        /\ at' = [at EXCEPT ![c] = Len(batches) + 1] /\ UNCHANGED <<seen, want, missing>>
    BY <1>15 DEF MakeBatch, b
  <2>2. n = Len(batches) + 1 /\ n \in Nat
    BY <2>1 DEF n, TypeOK
  <2>3. n \in 0 .. n /\ at' = [at EXCEPT ![c] = n]
    BY <2>1, <2>2
  <2>4. "income" \in Label
    BY DEF Label, Completing
  <2> QED BY <1>0, <1>1, <1>6, <2>1, <2>3, <2>4 DEF Q, n
<1>16. CASE FindRun(c)
  <2>1. /\ Goto(c, "line") /\ missing' = [missing EXCEPT ![c] = NoLine]
        /\ UNCHANGED <<seen, want, at>>
    BY <1>16 DEF FindRun
  <2>2. "line" \in Label
    BY DEF Label, Completing
  <2> QED BY <1>0, <1>1, <1>4, <1>6, <2>1, <2>2 DEF Q, n
<1> QED BY <1>8, <1>9, <1>10, <1>11, <1>12, <1>13, <1>14, <1>15, <1>16 DEF Call

LEMMA Types ==
  ASSUME TypeOK, ItemsNamed, ConsumptionFits, Written, NEW c \in Client, Call(c)
  PROVE  TypeOK'
<1>1. /\ status' \in Status
      /\ planned' \in [Item -> 0 .. MaxQty] /\ inStock' \subseteq Item
      /\ provision' \in [Item -> [done : BOOLEAN, qty : 0 .. MaxQty]]
      /\ consumed' \in [Item -> 0 .. MaxQty] /\ isConsumed' \in [Item -> BOOLEAN]
      /\ ops' \in [Item -> Seq(Operations)]
      /\ batches' \in Seq(BOOLEAN) /\ Len(batches) <= Len(batches')
      /\ completion' \in [runs : 0 .. 3, lines : Nat, standing : Int, voided : BOOLEAN]
  BY RowTypes
<1>2. Len(batches') \in Nat
  BY <1>1
<1>3. /\ pc' \in [Client -> Label]
      /\ seen' \in [Client -> [Item -> 0 .. MaxQty]]
      /\ want' \in [Client -> [Item -> 0 .. MaxQty]]
      /\ at' \in [Client -> 0 .. Len(batches')] /\ missing' \in [Client -> BOOLEAN]
  BY <1>1, <1>2, LocalTypes
<1> QED BY <1>1, <1>3, Zenon DEF TypeOK, Label

----------------------------------------------------------------------------
(* What calls want, and which plans stay *)

LEMMA NeverBefore ==
  ASSUME Next, NEW S, Never(S)'
  PROVE  Never(S)
  BY NotedStays DEF Never

\* A call wants what is planned, or a new item that nobody else has named.
LEMMA WantIs ==
  ASSUME TypeOK, NEW c \in Client, Call(c), NEW i \in Item
  PROVE  \/ want'[c][i] = 0
         \/ want'[c][i] = want[c][i]
         \/ i \in Present
         \/ ReadCreate(c) /\ Unused(i)
<1> USE DEF local
<1>0. want \in [Client -> [Item -> 0 .. MaxQty]] /\ Nothing[i] = 0
  BY DEF TypeOK, Nothing
<1>1. ASSUME End(c)
      PROVE  want'[c][i] = 0
  BY <1>0, <1>1 DEF End
<1>2. CASE \/ Provision(c) \/ Unprovision(c) \/ SetStatus(c) \/ VoidConsumption(c)
           \/ RepostConsumption(c) \/ VoidCompletion(c) \/ RepostCompletion(c)
  BY <1>2 DEF Provision, Unprovision, SetStatus, VoidConsumption, RepostConsumption,
     VoidCompletion, RepostCompletion
<1>3. CASE \/ WriteCreate(c) \/ WriteEdit(c) \/ WriteDelete(c) \/ Recalc(c) \/ CommitStart(c)
           \/ CommitConsume(c) \/ Finish(c) \/ Abort(c)
  BY <1>1, <1>3 DEF WriteCreate, WriteEdit, WriteDelete, Recalc, CommitStart,
     CommitConsume, Finish, Abort
<1>4. ASSUME NEW j \in Item, NEW n \in 1 .. MaxQty, NEW l, BeginEdit(c, j, n, l), i # j
      PROVE  want'[c][i] = 0
  BY <1>0, <1>4, OnlyType DEF BeginEdit
<1>5. CASE ReadCreate(c)
  <2>1. PICK j \in Item, n \in 1 .. MaxQty : Unused(j) /\ BeginEdit(c, j, n, "create")
    BY <1>5 DEF ReadCreate
  <2> QED BY <1>4, <1>5, <2>1
<1>6. CASE ReadEdit(c) \/ ReadDelete(c) \/ ReadSource(c)
  <2>1. PICK j \in Present, n \in 1 .. MaxQty : \E l : BeginEdit(c, j, n, l)
    BY <1>6, MaxQtyAssumption DEF ReadEdit, ReadDelete, ReadSource
  <2>2. j \in Item
    BY DEF Present
  <2> QED BY <1>4, <2>1, <2>2
<1>7. CASE ReadStart(c)
  <2>1. want'[c] = Missing
    BY <1>0, <1>7 DEF ReadStart
  <2> QED BY <2>1 DEF Missing, Own
<1>8. CASE EnterStart(c)
  BY <1>1, <1>8 DEF EnterStart
<1>9. CASE ReadConsume(c)
  <2>1. PICK w \in [Item -> 0 .. MaxQty] :
          want'[c] = w /\ \A j \in Item : w[j] > 0 => j \in Present
    BY <1>0, <1>9, ReadConsumeIs
  <2>2. w[i] \in 0 .. MaxQty
    OBVIOUS
  <2> QED BY <2>1, <2>2, MaxQtyAssumption
<1>10. CASE \/ WriteSource(c) \/ CheckComplete(c) \/ Recheck(c) \/ MakeBatch(c)
            \/ RecordIncome(c) \/ FindRun(c) \/ PostLine(c)
  BY <1>1, <1>10 DEF WriteSource, CheckComplete, Recheck, MakeBatch, RecordIncome,
     FindRun, PostLine
<1> QED BY <1>2, <1>3, <1>5, <1>6, <1>7, <1>8, <1>9, <1>10 DEF Call

\* A call that begins to consume has compared the quantities it is to consume
\* with what is consumed, and what it has read is consumed.
LEMMA Entered ==
  ASSUME TypeOK, NEW c \in Client, Call(c), pc'[c] \in Consuming
  PROVE  /\ UNCHANGED <<order, taken, output>> /\ pc[c] \notin Consuming
         /\ seen'[c] = consumed
         /\ \A i \in Item : want'[c][i] > 0 => want'[c][i] <= Remaining(i)
         /\ "lost" \notin history' =>
              \A d \in Client, i \in Item :
                ~(pc[d] \in Consuming /\ want[d][i] > 0 /\ want'[c][i] > 0)
<1>0. pc \in [Client -> Label] /\ seen \in [Client -> [Item -> 0 .. MaxQty]]
      /\ want \in [Client -> [Item -> 0 .. MaxQty]]
  BY DEF TypeOK, Label
<1>1. (EnterStart(c) /\ Enough(c) /\ pc[c] = "start") \/ ReadConsume(c)
  BY CallGoes DEF Consuming, Editing
<1>2. CASE EnterStart(c) /\ Enough(c) /\ pc[c] = "start"
  <2>1. /\ UNCHANGED <<order, taken, output, want>> /\ seen' = [seen EXCEPT ![c] = consumed]
        /\ Note(Flag(Overlaps(want[c]), "lost"))
    BY <1>2 DEF EnterStart
  <2>2. "lost" \notin history' => ~Overlaps(want[c])
    BY <2>1 DEF Note, Flag
  <2>3. Overlaps(want[c]) <=> \E d \in Client, i \in Item :
          pc[d] \in Consuming /\ want[d][i] > 0 /\ want[c][i] > 0
    BY DEF Overlaps, AtWork, Consuming
  <2> QED BY <1>0, <1>2, <2>1, <2>2, <2>3 DEF Enough, Consuming
<1>3. CASE ReadConsume(c)
  <2>1. PICK w \in [Item -> 0 .. MaxQty] :
           /\ want' = [want EXCEPT ![c] = w] /\ seen' = [seen EXCEPT ![c] = consumed]
           /\ \A i \in Item : w[i] > 0 => i \in Present /\ w[i] <= Remaining(i)
           /\ Note(Flag(Overlaps(w), "lost"))
           /\ pc[c] = "idle" /\ UNCHANGED <<order, taken, output>>
    BY <1>3, ReadConsumeIs
  <2>2. "lost" \notin history' => ~Overlaps(w)
    BY <2>1 DEF Note, Flag
  <2>3. Overlaps(w) <=> \E d \in Client, i \in Item :
          pc[d] \in Consuming /\ want[d][i] > 0 /\ w[i] > 0
    BY DEF Overlaps, AtWork, Consuming
  <2> QED BY <1>0, <2>1, <2>2, <2>3 DEF Consuming
<1> QED BY <1>1, <1>2, <1>3

\* A plan changes where the call that writes it wants to.
LEMMA PlanStays ==
  ASSUME TypeOK, ItemsNamed, NEW c \in Client, Call(c), NEW i \in Item, planned'[i] # planned[i]
  PROVE  /\ WriteCreate(c) \/ WriteEdit(c) \/ WriteDelete(c)
         /\ pc[c] \in Editing /\ pc'[c] = "idle" /\ want[c][i] > 0 /\ i = Edited(c)
         /\ planned'[i] > 0 => pc[c] = "create" \/ i \in Present
<1>1. WriteCreate(c) \/ WriteEdit(c) \/ WriteDelete(c)
  BY WhoWrites
<1>2. /\ pc[c] \in Editing /\ pc'[c] = "idle"
      /\ \/ planned' = [planned EXCEPT ![Edited(c)] = want[c][Edited(c)]]
         \/ planned' = [planned EXCEPT ![Edited(c)] = 0]
      /\ pc[c] = "create" \/ Edited(c) \in Present
  BY <1>1 DEF WriteCreate, WriteEdit, WriteDelete, Editing, End, Goto, TypeOK
<1>3. planned \in [Item -> 0 .. MaxQty]
  BY DEF TypeOK
<1>4. i = Edited(c)
  BY <1>2, <1>3
<1>5. want[c][i] > 0
  BY <1>2, <1>4, EditedIs, MaxQtyAssumption
<1> QED BY <1>1, <1>2, <1>4, <1>5

LEMMA LateNot ==
  ASSUME NEW c \in Client, WriteCreate(c) \/ WriteEdit(c) \/ WriteDelete(c),
         "late" \notin history'
  PROVE  /\ status = "DRAFT" /\ \A i \in Item : ops[i] = <<>>
         /\ \A d \in Client : pc[d] \notin Consuming
<1>1. Late
  BY DEF WriteCreate, WriteEdit, WriteDelete
<1> QED BY <1>1 DEF Late, Note, Flag, AtWork, Consuming

LEMMA NamesStep ==
  ASSUME TypeOK, ItemsNamed, NEW c \in Client, Call(c)
  PROVE  ItemsNamed'
<1>0. pc \in [Client -> Label] /\ want \in [Client -> [Item -> 0 .. MaxQty]]
  BY DEF TypeOK, Label
<1>1. ASSUME NEW d \in Client, pc'[d] \in Editing
      PROVE  \E i \in Item : want'[d][i] > 0
  <2>1. CASE d # c
    BY <1>1, <2>1, OthersStand DEF ItemsNamed
  <2>2. CASE d = c
    <3>1. ReadCreate(c) \/ ReadEdit(c) \/ ReadDelete(c) \/ ReadSource(c)
      BY <1>1, <2>2, CallGoes DEF Editing
    <3>a. Present \subseteq Item /\ 1 \in 1 .. MaxQty
      BY MaxQtyAssumption DEF Present
    <3>2. PICK j \in Item, n \in 1 .. MaxQty : \E l : BeginEdit(c, j, n, l)
      BY <3>1, <3>a DEF ReadCreate, ReadEdit, ReadDelete, ReadSource
    <3>3. want'[c] = Only(j, n)
      BY <1>0, <3>2 DEF BeginEdit
    <3>4. want'[c][j] > 0
      BY <3>3, OnlyType
    <3> QED BY <2>2, <3>4
  <2> QED BY <2>1, <2>2
<1>2. ASSUME NEW d \in Client, pc'[d] = "create", NEW i \in Item, want'[d][i] > 0
      PROVE  i \notin Present' /\ \A e \in Client \ {d} : want'[e][i] = 0
  <2>1. CASE d = c
    <3>1. ReadCreate(c)
      <4>1. ReadCreate(c) \/ ReadEdit(c) \/ ReadDelete(c) \/ ReadSource(c)
        BY <1>2, <2>1, CallGoes
      <4>2. ReadEdit(c) \/ ReadDelete(c) \/ ReadSource(c) => pc'[c] # "create"
        BY <1>0 DEF ReadEdit, ReadDelete, ReadSource, BeginEdit, Goto
      <4> QED BY <1>2, <2>1, <4>1, <4>2
    <3>2. PICK j \in Item, n \in 1 .. MaxQty : Unused(j) /\ BeginEdit(c, j, n, "create")
      BY <3>1 DEF ReadCreate
    <3>3. want'[c] = Only(j, n) /\ planned' = planned
      BY <1>0, <3>2 DEF BeginEdit, order, plan
    <3>4. i = j
      BY <1>2, <2>1, <3>3, OnlyType
    <3> QED BY <2>1, <3>2, <3>3, <3>4, OthersStand DEF Unused, Present
  <2>2. CASE d # c
    <3>1. pc[d] = "create" /\ want[d][i] > 0
      BY <1>2, <2>2, OthersStand
    <3>2. i \notin Present /\ \A e \in Client \ {d} : want[e][i] = 0
      BY <3>1 DEF ItemsNamed
    <3>3. want[c][i] = 0 /\ ~Unused(i)
      BY <2>2, <3>1, <3>2 DEF Unused
    <3>4. want'[c][i] = 0
      BY <3>2, <3>3, WantIs
    <3>5. planned'[i] = planned[i]
      BY <3>3, PlanStays
    <3>6. \A e \in Client \ {d} : want'[e][i] = 0
      BY <3>2, <3>4, OthersStand
    <3> QED BY <3>2, <3>5, <3>6 DEF Present
  <2> QED BY <2>1, <2>2
<1> QED BY <1>1, <1>2 DEF ItemsNamed

LEMMA FitsStep ==
  ASSUME TypeOK, TypeOK', ConsumptionFits, NEW c \in Client, Call(c)
  PROVE  ConsumptionFits'
<1> SUFFICES ASSUME NEW d \in Client, NEW i \in Item, pc'[d] \in Consuming, want'[d][i] > 0
             PROVE  seen'[d][i] + want'[d][i] <= MaxQty
  BY DEF ConsumptionFits
<1>1. CASE d # c
  BY <1>1, OthersStand DEF ConsumptionFits
<1>2. CASE d = c
  <2>1. seen'[c][i] = consumed[i] /\ want'[c][i] <= planned[i] - consumed[i]
    BY <1>2, Entered DEF Remaining
  <2>2. planned[i] \in 0 .. MaxQty /\ consumed[i] \in 0 .. MaxQty
    BY DEF TypeOK
  <2>3. want'[c][i] \in 0 .. MaxQty
    BY DEF TypeOK
  <2> QED BY <1>2, <2>1, <2>2, <2>3, MaxQtyAssumption
<1> QED BY <1>1, <1>2

\* A product that is in and a posting that is made stay; batches are only added.
LEMMA OutputStays ==
  ASSUME TypeOK, NEW c \in Client, Call(c)
  PROVE  /\ (\E b \in DOMAIN batches : batches[b]) => \E b \in DOMAIN batches' : batches'[b]
         /\ completion.runs > 0 => completion'.runs > 0
         /\ \/ batches' = batches
            \/ MakeBatch(c) /\ pc[c] = "batch" /\ Len(batches') = Len(batches) + 1
            \/ RecordIncome(c) /\ pc[c] = "income" /\ DOMAIN batches' = DOMAIN batches
<1>0. batches \in Seq(BOOLEAN) /\ completion.runs \in Int
  BY DEF TypeOK
<1>1. CASE MakeBatch(c)
  <2> DEFINE b == FALSE
  <2>1. batches' = Append(batches, b) /\ pc[c] = "batch" /\ completion' = completion
    BY <1>1 DEF MakeBatch
  <2>2. b \in BOOLEAN
    OBVIOUS
  <2> HIDE DEF b
  <2>3. /\ DOMAIN batches' = DOMAIN batches \cup {Len(batches) + 1}
        /\ \A k \in DOMAIN batches : batches'[k] = batches[k]
        /\ Len(batches') = Len(batches) + 1
    BY <1>0, <2>1, <2>2, RowAppended
  <2>4. (\E k \in DOMAIN batches : batches[k]) => \E k \in DOMAIN batches' : batches'[k]
    BY <2>3
  <2> QED BY <1>1, <2>1, <2>3, <2>4
<1>2. CASE RecordIncome(c)
  <2>1. batches' = [batches EXCEPT ![at[c]] = TRUE] /\ pc[c] = "income"
        /\ completion' = completion
    BY <1>2 DEF RecordIncome
  <2>2. DOMAIN batches' = DOMAIN batches /\ \A k \in DOMAIN batches : batches[k] => batches'[k]
    BY <2>1, Zenon
  <2> QED BY <1>2, <2>1, <2>2
<1>3. CASE UNCHANGED batches
  <2>1. completion.runs > 0 => completion'.runs > 0
    <3>1. CASE FindRun(c)
      BY <1>0, <3>1 DEF FindRun, TypeOK
    <3>2. CASE PostLine(c)
      BY <3>2 DEF PostLine
    <3>3. CASE VoidCompletion(c) \/ RepostCompletion(c)
      BY <3>3 DEF VoidCompletion, RepostCompletion
    <3> QED BY <3>1, <3>2, <3>3, WhoWrites
  <2> QED BY <1>3, <2>1
<1> QED BY <1>1, <1>2, <1>3, WhoWrites

LEMMA WrittenStep ==
  ASSUME TypeOK, Written, NEW c \in Client, Call(c)
  PROVE  Written'
<1>1. ASSUME NEW d \in Client, d # c
      PROVE  /\ pc'[d] \in Making => at'[d] > 0
             /\ pc'[d] \in {"run", "line", "finish"} => \E b \in DOMAIN batches' : batches'[b]
             /\ pc'[d] \in {"line", "finish"} => completion'.runs > 0
  <2>1. pc'[d] = pc[d] /\ at'[d] = at[d]
    BY <1>1, OthersStand
  <2> QED BY <2>1, OutputStays DEF Written
<1>2. CASE MakeBatch(c) /\ pc[c] = "batch" /\ pc'[c] = "income"
  <2>1. at'[c] = Len(batches) + 1 /\ Len(batches) \in Nat
    BY <1>2 DEF MakeBatch, TypeOK
  <2>2. at'[c] > 0
    BY <2>1
  <2> QED BY <1>1, <1>2, <2>2 DEF Written, Making
<1>3. CASE RecordIncome(c) /\ pc[c] = "income" /\ pc'[c] = "run"
  <2>1. at'[c] > 0 /\ at[c] \in 0 .. Len(batches) /\ at[c] > 0
    BY <1>3 DEF RecordIncome, local, Written, Making, TypeOK
  <2>2. at[c] \in DOMAIN batches /\ batches \in Seq(BOOLEAN)
    BY <2>1 DEF TypeOK
  <2>3. batches' = [batches EXCEPT ![at[c]] = TRUE]
    BY <1>3 DEF RecordIncome
  <2>4. \E b \in DOMAIN batches' : batches'[b]
    BY <2>2, <2>3, Zenon
  <2> QED BY <1>1, <1>3, <2>1, <2>4 DEF Written, Making
<1>4. CASE FindRun(c) /\ pc[c] = "run" /\ pc'[c] = "line"
  <2>1. completion.runs \in 0 .. 3 /\ completion'.runs = IF completion.runs = 0 THEN 1 ELSE completion.runs
    BY <1>4 DEF FindRun, TypeOK
  <2>2. completion'.runs > 0
    BY <2>1
  <2>3. at' = at /\ batches' = batches
    BY <1>4 DEF FindRun
  <2> QED BY <1>1, <1>4, <2>2, <2>3 DEF Written, Making
<1>5. CASE PostLine(c) /\ pc[c] = "line" /\ pc'[c] = "finish"
  <2>1. at' = at
    BY <1>5 DEF PostLine, local
  <2> QED BY <1>1, <1>5, <2>1, OutputStays DEF Written, Making
<1>6. CASE pc'[c] \notin Making
  BY <1>1, <1>6 DEF Written, Making
<1> QED BY <1>2, <1>3, <1>4, <1>5, <1>6, CallGoes DEF Making, Editing

----------------------------------------------------------------------------
(* Quantities *)

LEMMA ReadStep ==
  ASSUME TypeOK, ItemsNamed, ConsumptionFits, NEW c \in Client, Call(c),
         "lost" \notin history', ReadStands, \A i \in Item : consumed[i] = Moved(i)
  PROVE  ReadStands' /\ \A i \in Item : consumed'[i] = Moved(i)'
<1>1. ASSUME NEW i \in Item
      PROVE  consumed'[i] = Moved(i)'
  <2>1. CASE CommitConsume(c) \/ CommitStart(c)
    <3>1. CASE want[c][i] > 0
      <4>1. seen[c][i] = consumed[i]
        BY <2>1, <3>1, ConsumeIs DEF ReadStands
      <4> QED BY <2>1, <3>1, <4>1, ConsumeIs
    <3>2. CASE ~(want[c][i] > 0)
      BY <2>1, <3>2, ConsumeIs
    <3> QED BY <3>1, <3>2
  <2>2. CASE VoidConsumption(c) \/ RepostConsumption(c)
    <3>1. consumed' = consumed
      BY <2>2 DEF VoidConsumption, RepostConsumption
    <3> QED BY <2>2, <3>1, RunsWritten
  <2>3. CASE WriteDelete(c)
    BY <2>3, DeleteIs
  <2>4. CASE UNCHANGED taken
    BY <2>4 DEF taken, Moved
  <2> QED BY <2>1, <2>2, <2>3, <2>4, WhoWrites
<1>2. ASSUME NEW d \in Client, NEW e \in Client, NEW i \in Item,
             pc'[d] \in Consuming, pc'[e] \in Consuming, want'[d][i] > 0, want'[e][i] > 0
      PROVE  d = e
  <2>1. ASSUME NEW f \in Client, f # c, pc'[f] \in Consuming, want'[f][i] > 0
        PROVE  pc[f] \in Consuming /\ want[f][i] > 0
    BY <2>1, OthersStand
  <2>2. CASE d # c /\ e # c
    BY <1>2, <2>1, <2>2 DEF ReadStands
  <2>3. CASE d = c \/ e = c
    BY <1>2, <2>1, <2>3, Entered
  <2> QED BY <2>2, <2>3
<1>3. ASSUME NEW d \in Client, NEW i \in Item, pc'[d] \in Consuming, want'[d][i] > 0,
             i \in Present'
      PROVE  seen'[d][i] = consumed'[i]
  <2>1. CASE d = c
    BY <1>3, <2>1, Entered DEF taken
  <2>2. CASE d # c
    <3>1. /\ pc[d] \in Consuming /\ want[d][i] > 0 /\ seen'[d] = seen[d]
      BY <1>3, <2>2, OthersStand
    <3>2. i \in Present
      <4>1. CASE planned'[i] = planned[i]
        BY <1>3, <4>1 DEF Present
      <4>2. CASE planned'[i] # planned[i]
        <5>1. planned'[i] > 0
          BY <1>3 DEF Present
        <5>2. (pc[c] = "create" /\ want[c][i] > 0) \/ i \in Present
          BY <4>2, <5>1, PlanStays
        <5>3. want[d][i] # 0
          BY <3>1
        <5> QED BY <2>2, <5>2, <5>3 DEF ItemsNamed
      <4> QED BY <4>1, <4>2
    <3>3. seen[d][i] = consumed[i]
      BY <3>1, <3>2 DEF ReadStands
    <3>4. consumed'[i] = consumed[i]
      <4>1. CASE CommitConsume(c) \/ CommitStart(c)
        <5>1. ~(want[c][i] > 0)
          BY <2>2, <3>1, <4>1, ConsumeIs DEF ReadStands
        <5> QED BY <4>1, <5>1, ConsumeIs
      <4>2. CASE WriteDelete(c)
        <5>1. planned'[i] > 0
          BY <1>3 DEF Present
        <5>2. PICK j \in Item : /\ planned'[j] = 0
                                /\ \A k \in Item \ {j} : consumed'[k] = consumed[k]
          BY <4>2, DeleteIs
        <5> QED BY <5>1, <5>2
      <4>3. CASE UNCHANGED consumed
        BY <4>3
      <4> QED BY <4>1, <4>2, <4>3, WhoWrites DEF taken
    <3> QED BY <3>1, <3>3, <3>4
  <2> QED BY <2>1, <2>2
<1>4. \A i \in Item : i \in Present' <=> planned'[i] > 0
  BY DEF Present
<1> QED BY <1>1, <1>2, <1>3, <1>4 DEF ReadStands

LEMMA PlanStep ==
  ASSUME TypeOK, TypeOK', ItemsNamed, ConsumptionFits, NEW c \in Client, Call(c),
         "late" \notin history', PlanStands
  PROVE  PlanStands'
<1>0. \A i \in Item : /\ Moved(i) \in Nat /\ consumed[i] \in 0 .. MaxQty
                      /\ planned[i] \in 0 .. MaxQty
  BY OpsAre DEF TypeOK
<1>1. ASSUME NEW i \in Item
      PROVE  consumed'[i] <= Moved(i)'
  <2>0. consumed[i] <= Moved(i)
    BY DEF PlanStands
  <2>1. CASE CommitConsume(c) \/ CommitStart(c)
    <3>1. CASE want[c][i] > 0
      <4>1. /\ consumed'[i] = seen[c][i] + want[c][i] /\ Moved(i)' = Moved(i) + want[c][i]
            /\ want[c][i] \in Nat /\ pc[c] \in Consuming
        BY <2>1, <3>1, ConsumeIs
      <4>2. seen[c][i] <= Moved(i) /\ seen[c][i] \in 0 .. MaxQty
        BY <3>1, <4>1 DEF PlanStands, TypeOK
      <4> QED BY <1>0, <4>1, <4>2
    <3>2. CASE ~(want[c][i] > 0)
      BY <2>0, <2>1, <3>2, ConsumeIs
    <3> QED BY <3>1, <3>2
  <2>2. CASE VoidConsumption(c) \/ RepostConsumption(c)
    <3>1. consumed' = consumed
      BY <2>2 DEF VoidConsumption, RepostConsumption
    <3> QED BY <2>0, <2>2, <3>1, RunsWritten
  <2>3. CASE WriteDelete(c)
    <3>1. PICK j \in Item : /\ consumed'[j] = 0 /\ Moved(j)' = 0
                            /\ \A k \in Item \ {j} : /\ consumed'[k] = consumed[k]
                                                     /\ Moved(k)' = Moved(k)
      BY <2>3, DeleteIs
    <3> QED BY <2>0, <3>1
  <2>4. CASE UNCHANGED taken
    BY <2>0, <2>4 DEF taken, Moved
  <2> QED BY <2>1, <2>2, <2>3, <2>4, WhoWrites
<1>2. ASSUME NEW i \in Item, NEW d \in Client, pc'[d] \in Consuming, want'[d][i] > 0
      PROVE  seen'[d][i] <= Moved(i)' /\ seen'[d][i] + want'[d][i] <= planned'[i]
  <2>1. CASE d = c
    <3>1. /\ UNCHANGED <<planned, ops>> /\ seen'[c][i] = consumed[i]
          /\ want'[c][i] <= planned[i] - consumed[i]
      BY <1>2, <2>1, Entered DEF order, plan, taken, Remaining
    <3>2. Moved(i)' = Moved(i) /\ consumed[i] <= Moved(i)
      BY <3>1 DEF Moved, PlanStands
    <3>3. want'[c][i] \in 0 .. MaxQty
      BY DEF TypeOK
    <3> QED BY <1>0, <2>1, <3>1, <3>2, <3>3
  <2>2. CASE d # c
    <3>1. /\ pc[d] \in Consuming /\ want[d][i] > 0
          /\ seen'[d] = seen[d] /\ want'[d] = want[d]
      BY <1>2, <2>2, OthersStand
    <3>2. seen[d][i] <= Moved(i) /\ seen[d][i] + want[d][i] <= planned[i]
      BY <3>1 DEF PlanStands
    <3>3. planned'[i] = planned[i] /\ ~WriteDelete(c)
      BY <3>1, LateNot, PlanStays
    <3>4. Moved(i)' >= Moved(i) /\ Moved(i)' \in Nat
      BY <3>3, MovedGrows
    <3>5. seen[d][i] \in 0 .. MaxQty
      BY DEF TypeOK
    <3> QED BY <1>0, <3>1, <3>2, <3>3, <3>4, <3>5
  <2> QED BY <2>1, <2>2
<1> QED BY <1>1, <1>2 DEF PlanStands

LEMMA PlannedStep ==
  ASSUME TypeOK, TypeOK', ItemsNamed, ConsumptionFits, NEW c \in Client, Call(c),
         "late" \notin history', PlanStands, \A i \in Item : consumed[i] <= planned[i]
  PROVE  \A i \in Item : consumed'[i] <= planned'[i]
<1> TAKE i \in Item
<1>1. CASE planned'[i] = planned[i]
  <2>1. CASE CommitConsume(c) \/ CommitStart(c)
    <3>1. CASE want[c][i] > 0
      BY <1>1, <2>1, <3>1, ConsumeIs DEF PlanStands
    <3>2. CASE ~(want[c][i] > 0)
      BY <1>1, <2>1, <3>2, ConsumeIs
    <3> QED BY <3>1, <3>2
  <2>2. CASE WriteDelete(c)
    <3>1. PICK j \in Item : /\ consumed'[j] = 0 /\ planned'[j] = 0
                            /\ \A k \in Item \ {j} : consumed'[k] = consumed[k]
      BY <2>2, DeleteIs
    <3> QED BY <1>1, <3>1
  <2>3. CASE UNCHANGED consumed
    BY <1>1, <2>3
  <2> QED BY <2>1, <2>2, <2>3, WhoWrites DEF taken
<1>2. CASE planned'[i] # planned[i]
  <2>1. /\ WriteCreate(c) \/ WriteEdit(c) \/ WriteDelete(c)
        /\ \A j \in Item : ops[j] = <<>>
    BY <1>2, PlanStays, LateNot
  <2>2. Moved(i) = 0 /\ consumed[i] <= Moved(i) /\ consumed[i] \in 0 .. MaxQty
    BY <2>1, MovedNothing DEF PlanStands, TypeOK
  <2>3. consumed[i] = 0
    BY <2>2
  <2>4. CASE WriteDelete(c)
    <3>1. PICK j \in Item : /\ consumed'[j] = 0 /\ planned'[j] = 0
                            /\ \A k \in Item \ {j} : /\ consumed'[k] = consumed[k]
                                                     /\ planned'[k] = planned[k]
      BY <2>4, DeleteIs
    <3> QED BY <1>2, <3>1
  <2>5. CASE WriteCreate(c) \/ WriteEdit(c)
    <3>1. consumed' = consumed
      BY <2>5 DEF WriteCreate, WriteEdit, taken
    <3>2. planned'[i] \in 0 .. MaxQty
      BY DEF TypeOK
    <3> QED BY <2>3, <3>1, <3>2
  <2> QED BY <2>1, <2>4, <2>5
<1> QED BY <1>1, <1>2

----------------------------------------------------------------------------
(* Completion *)

\* A call that completes the order looked for its status and its components first.
LEMMA Checked ==
  ASSUME TypeOK, NEW c \in Client, Call(c), pc'[c] \in Completing, pc[c] \notin Completing
  PROVE  CheckComplete(c) /\ pc'[c] = "check"
  BY CallGoes DEF Completing, Editing

LEMMA CompletionStep ==
  ASSUME TypeOK, TypeOK', ItemsNamed, ConsumptionFits, Written, NEW c \in Client, Call(c),
         "byhand" \notin history', "late" \notin history', PlanStands, CompletionStands,
         status = "COMPLETED" =>
           completion.runs > 0 /\ \E b \in DOMAIN batches : batches[b]
  PROVE  /\ CompletionStands'
         /\ status' = "COMPLETED" =>
              completion'.runs > 0 /\ \E b \in DOMAIN batches' : batches'[b]
<1>0. \A i \in Item : /\ Moved(i) \in Nat /\ consumed[i] \in 0 .. MaxQty
                      /\ planned[i] \in 0 .. MaxQty
  BY OpsAre DEF TypeOK
<1>1. \/ UNCHANGED status
      \/ CommitStart(c) /\ status' = "IN_PROGRESS"
      \/ Finish(c) /\ pc[c] = "finish" /\ status' = "COMPLETED"
  <2>1. ~SetStatus(c)
    BY DEF SetStatus, Note
  <2> QED BY <2>1, WhoWrites DEF CommitStart, Finish
<1>2. status' = "COMPLETED" =>
        completion'.runs > 0 /\ \E b \in DOMAIN batches' : batches'[b]
  <2>1. CASE status = "COMPLETED"
    BY <2>1, OutputStays
  <2>2. CASE Finish(c) /\ pc[c] = "finish"
    BY <2>2, OutputStays DEF Written
  <2> QED BY <1>1, <2>1, <2>2
<1>3. ASSUME status = "COMPLETED" \/ AtWork(Completing) # {}
      PROVE  /\ status' \in {"IN_PROGRESS", "COMPLETED"}
             /\ \A i \in Item : Moved(i)' >= planned'[i]
  <2>1. /\ status \in {"IN_PROGRESS", "COMPLETED"}
        /\ \A i \in Item : Moved(i) >= planned[i]
    BY <1>3 DEF CompletionStands
  <2>2. ~(WriteCreate(c) \/ WriteEdit(c) \/ WriteDelete(c))
    BY <2>1, LateNot
  <2>3. \A i \in Item : /\ Moved(i)' >= Moved(i) /\ Moved(i)' \in Nat
                        /\ planned'[i] = planned[i]
    BY <2>2, MovedGrows, PlanStays
  <2> QED BY <1>0, <1>1, <2>1, <2>3
<1>4. ASSUME status # "COMPLETED", AtWork(Completing) = {},
             status' = "COMPLETED" \/ AtWork(Completing)' # {}
      PROVE  /\ status' \in {"IN_PROGRESS", "COMPLETED"}
             /\ \A i \in Item : Moved(i)' >= planned'[i]
  <2>1. \A d \in Client : pc[d] \notin Completing
    BY <1>4 DEF AtWork
  <2>2. status' # "COMPLETED"
    BY <1>1, <1>4, <2>1 DEF Completing
  <2>3. PICK d \in Client : pc'[d] \in Completing
    BY <1>4, <2>2 DEF AtWork
  <2>4. CheckComplete(c)
    BY <2>1, <2>3, Checked, OthersStand
  <2>5. /\ status = "IN_PROGRESS" /\ AllConsumed /\ UNCHANGED <<status, planned, ops>>
    BY <2>4 DEF CheckComplete, Completable, order, plan, taken
  <2>6. \A i \in Item : Moved(i)' = Moved(i) /\ consumed[i] <= Moved(i)
    BY <2>5 DEF Moved, PlanStands
  <2>7. \A i \in Item : planned[i] <= consumed[i] \/ planned[i] = 0
    BY <1>0, <2>5 DEF AllConsumed, Remaining, Present
  <2> QED BY <1>0, <2>5, <2>6, <2>7
<1> QED BY <1>2, <1>3, <1>4 DEF CompletionStands

LEMMA LineEntered ==
  ASSUME TypeOK, NEW c \in Client, Call(c), pc'[c] = "line"
  PROVE  FindRun(c)
  BY CallGoes DEF Editing

\* A completion that has made its batch goes on to the end, or is cut short.
LEMMA MakingGoes ==
  ASSUME TypeOK, NEW c \in Client, Call(c), pc[c] \in Making
  PROVE  pc'[c] \in Making \/ Finish(c) \/ Abort(c)
<1> USE DEF Making
<1>1. CASE \/ Provision(c) \/ Unprovision(c) \/ SetStatus(c) \/ VoidConsumption(c)
           \/ RepostConsumption(c) \/ VoidCompletion(c) \/ RepostCompletion(c)
  BY <1>1 DEF Provision, Unprovision, SetStatus, VoidConsumption, RepostConsumption,
     VoidCompletion, RepostCompletion
<1>2. CASE \/ WriteCreate(c) \/ WriteEdit(c) \/ WriteDelete(c) \/ WriteSource(c) \/ Recalc(c)
           \/ CommitStart(c) \/ CommitConsume(c)
  BY <1>2 DEF WriteCreate, WriteEdit, WriteDelete, WriteSource, Recalc, CommitStart, CommitConsume
<1>3. CASE ReadCreate(c) \/ ReadEdit(c) \/ ReadDelete(c) \/ ReadSource(c)
  <2>1. PICK l, i, n : BeginEdit(c, i, n, l)
    BY <1>3 DEF ReadCreate, ReadEdit, ReadDelete, ReadSource
  <2> QED BY <2>1 DEF BeginEdit
<1>4. CASE ReadStart(c) \/ EnterStart(c) \/ ReadConsume(c) \/ CheckComplete(c) \/ Recheck(c)
  BY <1>4 DEF ReadStart, EnterStart, ReadConsume, CheckComplete, Recheck
<1>5. CASE MakeBatch(c) \/ RecordIncome(c) \/ FindRun(c) \/ PostLine(c)
  BY <1>5 DEF MakeBatch, RecordIncome, FindRun, PostLine, Goto, TypeOK
<1> QED BY <1>1, <1>2, <1>3, <1>4, <1>5 DEF Call

LEMMA LineStep ==
  ASSUME TypeOK, Written, NEW c \in Client, Call(c), "beside" \notin history', LineStands
  PROVE  LineStands'
<1>0. /\ completion.lines \in Nat /\ completion.lines <= 1
      /\ missing \in [Client -> BOOLEAN]
  BY DEF TypeOK, LineStands
<1>1. ASSUME NEW d \in Client, NEW e \in Client, pc'[d] \in Completing, pc'[e] \in Completing
      PROVE  d = e
  <2>1. \A f \in Client \ {c} : pc'[f] = pc[f]
    BY OthersStand
  <2>2. CASE pc[c] \in Completing \/ pc'[c] \notin Completing
    BY <1>1, <2>1, <2>2 DEF LineStands
  <2>3. CASE pc[c] \notin Completing /\ pc'[c] \in Completing
    <3>1. CheckComplete(c)
      BY <2>3, Checked
    <3>2. \A f \in Client : pc[f] \notin Completing
      BY <3>1 DEF CheckComplete, Note, Flag, AtWork
    <3> QED BY <1>1, <2>1, <3>2
  <2> QED BY <2>2, <2>3
<1>2. completion'.lines <= 1
  <2>1. CASE FindRun(c)
    BY <1>0, <2>1 DEF FindRun, TypeOK
  <2>2. CASE PostLine(c)
    <3>1. missing[c] => completion.lines = 0
      BY <2>2 DEF PostLine, LineStands
    <3> QED BY <1>0, <2>2, <3>1 DEF PostLine
  <2>3. CASE VoidCompletion(c) \/ RepostCompletion(c)
    BY <1>0, <2>3 DEF VoidCompletion, RepostCompletion
  <2>4. CASE UNCHANGED completion
    BY <1>0, <2>4
  <2> QED BY <2>1, <2>2, <2>3, <2>4, WhoWrites
<1>3. ASSUME NEW d \in Client, pc'[d] = "line", missing'[d]
      PROVE  completion'.lines = 0
  <2>1. CASE d = c
    <3>1. FindRun(c)
      BY <1>3, <2>1, LineEntered
    <3>2. missing'[c] = NoLine /\ completion'.lines = completion.lines
      BY <1>0, <3>1 DEF FindRun, TypeOK
    <3> QED BY <1>3, <2>1, <3>2 DEF NoLine
  <2>2. CASE d # c
    <3>1. pc[d] = "line" /\ missing[d]
      BY <1>3, <2>2, OthersStand
    <3>2. completion.lines = 0 /\ completion.runs > 0 /\ completion.runs \in 0 .. 3
      BY <3>1 DEF LineStands, Written, TypeOK
    <3>3. CASE FindRun(c)
      BY <3>2, <3>3 DEF FindRun, TypeOK
    <3>4. CASE PostLine(c)
      BY <2>2, <3>1, <3>4 DEF PostLine, LineStands, Completing
    <3>5. CASE VoidCompletion(c) \/ RepostCompletion(c)
      BY <3>2, <3>5 DEF VoidCompletion, RepostCompletion
    <3>6. CASE UNCHANGED completion
      BY <3>2, <3>6
    <3> QED BY <3>3, <3>4, <3>5, <3>6, WhoWrites
  <2> QED BY <2>1, <2>2
<1> QED BY <1>1, <1>2, <1>3 DEF LineStands

LEMMA BatchStep ==
  ASSUME TypeOK, NEW c \in Client, Call(c),
         "beside" \notin history', "cut" \notin history', "byhand" \notin history',
         "revived" \notin history', Written, LineStands, BatchStands
  PROVE  BatchStands'
<1>0. batches \in Seq(BOOLEAN) /\ Len(batches) \in Nat /\ Len(batches) <= 1
  BY DEF TypeOK, BatchStands
<1>a. Len(<<>>) = 0 /\ DOMAIN <<>> = {}
  OBVIOUS
<1>1. Len(batches') <= 1
  <2>1. CASE batches' = batches
    BY <1>0, <2>1
  <2>2. CASE MakeBatch(c) /\ pc[c] = "batch" /\ Len(batches') = Len(batches) + 1
    BY <1>a, <2>2 DEF BatchStands
  <2>3. CASE RecordIncome(c) /\ pc[c] = "income"
    <3>1. batches' = [batches EXCEPT ![at[c]] = TRUE]
      BY <2>3 DEF RecordIncome
    <3> QED BY <1>0, <3>1
  <2> QED BY <2>1, <2>2, <2>3, OutputStays
<1>2. ASSUME NEW d \in Client, pc'[d] \in {"check", "batch"}
      PROVE  batches' = <<>>
  <2>1. CASE d = c
    <3>1. CheckComplete(c) \/ Recheck(c)
      BY <1>2, <2>1, CallGoes DEF Editing
    <3>2. CASE CheckComplete(c)
      <4>1. /\ status = "IN_PROGRESS" /\ AtWork(Completing) = {} /\ batches' = batches
        BY <3>2 DEF CheckComplete, Completable, Note, Flag, output
      <4>2. AtWork(Making) = {}
        BY <4>1 DEF AtWork, Making, Completing
      <4> QED BY <4>1, <4>2 DEF BatchStands
    <3>3. CASE Recheck(c)
      BY <3>3 DEF Recheck, BatchStands, output
    <3> QED BY <3>1, <3>2, <3>3
  <2>2. CASE d # c
    <3>1. pc[d] \in {"check", "batch"}
      BY <1>2, <2>2, OthersStand
    <3>2. batches = <<>> /\ pc[c] \notin Completing
      BY <2>2, <3>1 DEF BatchStands, LineStands, Completing
    <3> QED BY <3>2, OutputStays DEF Completing
  <2> QED BY <2>1, <2>2
<1>3. ASSUME batches' # <<>>
      PROVE  status' = "COMPLETED" \/ AtWork(Making)' # {}
  <2>1. CASE pc[c] \in Making
    <3>1. CASE Finish(c)
      BY <3>1 DEF Finish
    <3>2. CASE Abort(c)
      <4>1. ~(at[c] > 0)
        BY <3>2 DEF Abort, Note, Flag
      <4> QED BY <2>1, <4>1 DEF Written
    <3>3. pc'[c] \in Making \/ Finish(c) \/ Abort(c)
      BY <2>1, MakingGoes
    <3> QED BY <3>1, <3>2, <3>3 DEF AtWork
  <2>2. CASE pc[c] \notin Making
    <3>1. CASE MakeBatch(c)
      <4>1. pc'[c] \in Making
        BY <3>1 DEF MakeBatch, Goto, Making, TypeOK
      <4> QED BY <4>1 DEF AtWork
    <3>2. CASE ~MakeBatch(c)
      <4>1. batches # <<>>
        BY <1>3, <2>2, <3>2, OutputStays DEF Making
      <4>2. CASE status = "COMPLETED"
        <5>1. ~SetStatus(c) /\ ~CommitStart(c)
          BY <4>2 DEF SetStatus, CommitStart, Note, Flag
        <5> QED BY <4>2, <5>1, WhoWrites DEF Finish
      <4>3. CASE AtWork(Making) # {}
        <5>1. PICK d \in Client : pc[d] \in Making
          BY <4>3 DEF AtWork
        <5>2. pc'[d] \in Making
          BY <2>2, <5>1, OthersStand
        <5> QED BY <5>2 DEF AtWork
      <4> QED BY <4>1, <4>2, <4>3 DEF BatchStands
    <3> QED BY <3>1, <3>2
  <2> QED BY <2>1, <2>2
<1> QED BY <1>1, <1>2, <1>3 DEF BatchStands

----------------------------------------------------------------------------
(* Postings *)

LEMMA ConsumptionsStep ==
  ASSUME TypeOK, TypeOK', ItemsNamed, ConsumptionFits, NEW c \in Client, Call(c),
         "again" \notin history', ConsumptionsTell
  PROVE  ConsumptionsTell'
<1> SUFFICES ASSUME NEW i \in Item, NEW k \in DOMAIN ops'[i]
             PROVE  ops'[i][k].voided <=> ops'[i][k].runs = 2
  BY DEF ConsumptionsTell
<1>0. ASSUME ops'[i] = ops[i]
      PROVE  ops'[i][k].voided <=> ops'[i][k].runs = 2
  BY <1>0 DEF ConsumptionsTell
<1>1. CASE CommitConsume(c) \/ CommitStart(c)
  <2>1. CASE want[c][i] > 0
    <3> DEFINE n == want[c][i]
    <3>1. n \in 1 .. MaxQty /\ ops'[i] = Append(ops[i], Operation(n))
      <4>1. ops'[i] = Append(ops[i], Operation(want[c][i]))
        BY <1>1, <2>1, ConsumeIs
      <4>2. want[c][i] \in 0 .. MaxQty
        BY DEF TypeOK
      <4> QED BY <2>1, <4>1, <4>2, MaxQtyAssumption
    <3> HIDE DEF n
    <3>2. /\ ops'[i][Len(ops'[i])] = Operation(n)
          /\ \A j \in DOMAIN ops[i] : ops'[i][j] = ops[i][j]
          /\ DOMAIN ops'[i] = DOMAIN ops[i] \cup {Len(ops'[i])}
      BY <3>1, MovedAppended
    <3>3. CASE k \in DOMAIN ops[i]
      BY <3>2, <3>3 DEF ConsumptionsTell
    <3>4. CASE k \notin DOMAIN ops[i]
      BY <3>2, <3>4 DEF Operation
    <3> QED BY <3>3, <3>4
  <2>2. CASE ~(want[c][i] > 0)
    BY <1>0, <1>1, <2>2, ConsumeIs
  <2> QED BY <2>1, <2>2
<1>2. CASE VoidConsumption(c) \/ RepostConsumption(c)
  <2>0. PICK j \in Item : \E m \in DOMAIN ops[j], o \in Operations :
          /\ ops' = [ops EXCEPT ![j] = [ops[j] EXCEPT ![m] = o]]
          /\ \/ o = TakenBack(ops[j][m]) /\ Note(Flag(ops[j][m].runs = 3, "again"))
             \/ o = PostedAgain(ops[j][m])
    BY <1>2, RunsWritten
  <2>1. PICK m \in DOMAIN ops[j], o \in Operations :
          /\ ops' = [ops EXCEPT ![j] = [ops[j] EXCEPT ![m] = o]]
          /\ \/ o = TakenBack(ops[j][m]) /\ Note(Flag(ops[j][m].runs = 3, "again"))
             \/ o = PostedAgain(ops[j][m])
    BY <2>0
  <2>2. ops \in [Item -> Seq(Operations)] /\ ops[j][m] \in Operations
    BY OpsAre DEF TypeOK
  <2>3. ops[j][m].runs \in 1 .. 3
    BY <2>2 DEF Operations
  <2>4. o.voided <=> o.runs = 2
    <3>1. CASE o = TakenBack(ops[j][m]) /\ Note(Flag(ops[j][m].runs = 3, "again"))
      <4>1. ops[j][m].runs # 3
        BY <3>1 DEF Note, Flag
      <4>2. o.voided = TRUE /\ o.runs = IF ops[j][m].runs = 1 THEN 2 ELSE ops[j][m].runs
        BY <3>1 DEF TakenBack
      <4> QED BY <2>3, <4>1, <4>2
    <3>2. CASE o = PostedAgain(ops[j][m])
      BY <3>2 DEF PostedAgain
    <3> QED BY <2>1, <3>1, <3>2
  <2>5. CASE i # j
    BY <1>0, <2>1, <2>2, <2>5
  <2>6. CASE i = j
    <3>1. ops'[i] = [ops[i] EXCEPT ![m] = o] /\ ops[i] \in Seq(Operations)
      BY <2>1, <2>2, <2>6
    <3>2. /\ DOMAIN ops'[i] = DOMAIN ops[i] /\ ops'[i][m] = o
          /\ \A l \in DOMAIN ops[i] \ {m} : ops'[i][l] = ops[i][l]
      BY <2>6, <3>1, RowPut
    <3>3. CASE k = m
      BY <2>4, <3>2, <3>3
    <3>4. CASE k # m
      BY <3>2, <3>4 DEF ConsumptionsTell
    <3> QED BY <3>3, <3>4
  <2> QED BY <2>5, <2>6
<1>3. CASE WriteDelete(c)
  <2>1. PICK j \in Item : /\ ops'[j] = <<>>
                          /\ \A l \in Item \ {j} : ops'[l] = ops[l]
    BY <1>3, DeleteIs
  <2>2. DOMAIN <<>> = {}
    OBVIOUS
  <2> QED BY <1>0, <2>1, <2>2
<1>4. CASE UNCHANGED taken
  BY <1>0, <1>4 DEF taken
<1> QED BY <1>1, <1>2, <1>3, <1>4, WhoWrites

LEMMA RunsStep ==
  ASSUME TypeOK, Written, NEW c \in Client, Call(c), LineStands, RunsTell,
         "again" \notin history', "bare" \notin history', "beside" \notin history'
  PROVE  RunsTell'
<1> DEFINE n == completion.runs
           l == completion.lines
           s == completion.standing
           v == completion.voided
<1>0. /\ n \in 0 .. 3 /\ l \in Nat /\ l <= 1 /\ s \in Int /\ v \in BOOLEAN
  BY DEF TypeOK, LineStands
<1>1. /\ n = 0 => l = 0
      /\ n > 1 => l = 1
      /\ s = CASE n = 1 -> l
               [] n = 3 -> 1
               [] OTHER -> 0
      /\ v <=> n = 2
  BY DEF RunsTell
<1>2. CASE FindRun(c)
  <2>1. CASE n = 0
    <3>1. /\ completion'.runs = 1 /\ completion'.lines = l
          /\ completion'.standing = s /\ completion'.voided = v
      BY <1>2, <2>1 DEF FindRun, TypeOK
    <3>2. l = 0 /\ s = 0 /\ ~v
      BY <1>1, <2>1
    <3> QED BY <3>1, <3>2 DEF RunsTell
  <2>2. CASE n # 0
    <3>1. completion' = completion
      BY <1>2, <2>2 DEF FindRun, TypeOK
    <3> QED BY <3>1 DEF RunsTell
  <2> QED BY <2>1, <2>2
<1>3. CASE PostLine(c)
  <2>1. CASE missing[c]
    <3>1. /\ completion'.runs = n /\ completion'.lines = l + 1
          /\ completion'.standing = s + 1 /\ completion'.voided = v
      BY <1>3, <2>1 DEF PostLine
    <3>2. l = 0 /\ n > 0
      BY <1>3, <2>1 DEF PostLine, LineStands, Written
    <3>3. n = 1
      BY <1>0, <1>1, <3>2
    <3>4. s = 0 /\ ~v
      BY <1>1, <3>2, <3>3
    <3> QED BY <3>1, <3>2, <3>3, <3>4 DEF RunsTell
  <2>2. CASE ~missing[c]
    <3>1. completion' = completion
      BY <1>3, <2>2 DEF PostLine
    <3> QED BY <3>1 DEF RunsTell
  <2> QED BY <2>1, <2>2
<1>4. CASE VoidCompletion(c)
  <2>1. n # 3 /\ ~Bare /\ n > 0
    BY <1>4 DEF VoidCompletion, Note, Flag
  <2>2. /\ completion'.runs = IF n = 1 THEN 2 ELSE n
        /\ completion'.lines = l /\ completion'.standing = Reversed
        /\ completion'.voided = TRUE
    BY <1>4 DEF VoidCompletion
  <2>3. n \in {1, 2} /\ l = 1
    BY <1>0, <1>1, <2>1 DEF Bare
  <2>4. Reversed = 0
    BY <1>0, <1>1, <2>3 DEF Reversed
  <2> QED BY <2>2, <2>3, <2>4 DEF RunsTell
<1>5. CASE RepostCompletion(c)
  <2>1. n < 3 /\ ~Bare
    BY <1>5 DEF RepostCompletion, Note, Flag
  <2>2. CASE n = 0
    <3>1. completion' = [runs |-> 1, lines |-> 1, standing |-> 1, voided |-> FALSE]
      BY <1>5, <2>2 DEF RepostCompletion, Unvoided
    <3> QED BY <3>1 DEF RunsTell
  <2>3. CASE n # 0
    <3>1. /\ completion'.runs = 3 /\ completion'.lines = l
          /\ completion'.standing = Reversed + 1 /\ completion'.voided = FALSE
      BY <1>5, <2>3 DEF RepostCompletion, Unvoided
    <3>2. n \in {1, 2} /\ l = 1
      BY <1>0, <1>1, <2>1, <2>3 DEF Bare
    <3>3. Reversed = 0
      BY <1>0, <1>1, <3>2 DEF Reversed
    <3> QED BY <3>1, <3>2, <3>3 DEF RunsTell
  <2> QED BY <2>2, <2>3
<1>6. CASE UNCHANGED completion
  BY <1>6 DEF RunsTell
<1> QED BY <1>2, <1>3, <1>4, <1>5, <1>6, WhoWrites

----------------------------------------------------------------------------
(* The invariant *)

LEMMA Start ==
  ASSUME Init
  PROVE  IInv
<1>1. /\ status \in Status /\ status # "COMPLETED"
      /\ planned \in [Item -> 0 .. MaxQty] /\ inStock = Item
      /\ consumed = Nothing /\ ops = [i \in Item |-> <<>>] /\ batches = <<>>
      /\ completion = [runs |-> 0, lines |-> 0, standing |-> 0, voided |-> FALSE]
      /\ pc = [c \in Client |-> "idle"]
  BY DEF Init, Status
<1>2. TypeOK
  <2>1. Nothing \in [Item -> 0 .. MaxQty]
    BY MaxQtyAssumption DEF Nothing
  <2>2. provision \in [Item -> [done : BOOLEAN, qty : 0 .. MaxQty]]
    <3> DEFINE P == [done : BOOLEAN, qty : 0 .. MaxQty]
    <3>1. NotProvided \in P
      BY MaxQtyAssumption DEF NotProvided
    <3>2. provision = [i \in Item |-> NotProvided]
      BY DEF Init
    <3> HIDE DEF P
    <3>3. provision \in [Item -> P]
      BY <3>1, <3>2
    <3> QED BY <3>3 DEF P
  <2>3. ops \in [Item -> Seq(Operations)] /\ batches \in Seq(BOOLEAN) /\ Len(batches) = 0
    BY <1>1
  <2>4. completion \in [runs : 0 .. 3, lines : Nat, standing : Int, voided : BOOLEAN]
    <3> DEFINE b == FALSE
    <3>1. b \in BOOLEAN
      OBVIOUS
    <3>2. completion = [runs |-> 0, lines |-> 0, standing |-> 0, voided |-> b]
      BY <1>1
    <3> HIDE DEF b
    <3> QED BY <3>1, <3>2
  <2>5. isConsumed \in [Item -> BOOLEAN] /\ missing \in [Client -> BOOLEAN]
    BY DEF Init
  <2>6. /\ seen \in [Client -> [Item -> 0 .. MaxQty]]
        /\ want \in [Client -> [Item -> 0 .. MaxQty]]
    BY <2>1 DEF Init
  <2>7. at \in [Client -> 0 .. Len(batches)]
    BY <2>3 DEF Init
  <2>8. pc \in [Client -> {"idle", "create", "edit", "delete", "toStock", "elsewhere", "recalc",
                           "start", "started", "consume"} \cup Completing]
    BY <1>1
  <2> QED BY <1>1, <2>1, <2>2, <2>3, <2>4, <2>5, <2>6, <2>7, <2>8 DEF TypeOK
<1>3. \A c \in Client : pc[c] \notin Consuming \cup Editing \cup Completing
  BY <1>1 DEF Consuming, Editing, Completing
<1>4. ItemsNamed /\ ConsumptionFits /\ Written /\ ReadStands
  BY <1>3 DEF ItemsNamed, ConsumptionFits, Written, ReadStands, Editing, Making, Completing
<1>5. \A i \in Item : /\ Moved(i) = 0 /\ consumed[i] = 0 /\ consumed[i] <= Moved(i)
                      /\ consumed[i] <= planned[i] /\ ops[i] = <<>>
  <2> TAKE i \in Item
  <2>1. ops[i] = <<>> /\ consumed[i] = 0 /\ planned[i] \in 0 .. MaxQty
    BY <1>1 DEF Nothing
  <2>2. Moved(i) = 0
    BY <2>1, MovedNothing
  <2> QED BY <2>1, <2>2
<1>6. PlanStands /\ CompletionStands
  BY <1>1, <1>3, <1>5 DEF PlanStands, CompletionStands, AtWork
<1>7. LineStands /\ BatchStands
  <2>1. Len(batches) = 0
    BY <1>1
  <2> QED BY <1>1, <1>3, <2>1 DEF LineStands, BatchStands, Completing
<1>8. ConsumptionsTell
  <2>1. DOMAIN <<>> = {}
    OBVIOUS
  <2> QED BY <1>5, <2>1 DEF ConsumptionsTell
<1>9. RunsTell
  BY <1>1 DEF RunsTell
<1>10. /\ \A i \in Item : consumed[i] = Moved(i)
       /\ \A i \in Item : consumed[i] <= planned[i]
  BY <1>5
<1> QED BY <1>1, <1>2, <1>4, <1>6, <1>7, <1>8, <1>9, <1>10 DEF IInv

LEMMA Stutter ==
  ASSUME IInv, UNCHANGED vars
  PROVE  IInv'
<1> USE DEF vars, order, plan, taken, output, local
<1>1. TypeOK' <=> TypeOK
  BY DEF TypeOK
<1>2. /\ ItemsNamed' <=> ItemsNamed
      /\ ConsumptionFits' <=> ConsumptionFits
      /\ Written' <=> Written
      /\ ReadStands' <=> ReadStands
  BY DEF ItemsNamed, ConsumptionFits, Written, ReadStands, Present
<1>3. \A i \in Item : Moved(i)' = Moved(i)
  BY DEF Moved
<1>4. \A S : AtWork(S)' = AtWork(S) /\ (Never(S)' <=> Never(S))
  BY DEF AtWork, Never
<1>5. (PlanStands' <=> PlanStands) /\ (CompletionStands' <=> CompletionStands)
  BY <1>3, <1>4 DEF PlanStands, CompletionStands
<1>6. /\ LineStands' <=> LineStands
      /\ BatchStands' <=> BatchStands
      /\ ConsumptionsTell' <=> ConsumptionsTell
      /\ RunsTell' <=> RunsTell
  BY <1>4 DEF LineStands, BatchStands, ConsumptionsTell, RunsTell
<1> QED BY <1>1, <1>2, <1>3, <1>4, <1>5, <1>6 DEF IInv

LEMMA Step ==
  ASSUME IInv, [Next]_vars
  PROVE  IInv'
<1>1. CASE UNCHANGED vars
  BY <1>1, Stutter
<1>2. ASSUME NEW c \in Client, Call(c)
      PROVE  IInv'
  <2>0. /\ TypeOK /\ ItemsNamed /\ ConsumptionFits /\ Written
        /\ \A S : Never(S)' => Never(S)
    <3>1. Next
      BY <1>2 DEF Next
    <3> QED BY <3>1, NeverBefore DEF IInv
  <2>1. TypeOK'
    BY <1>2, <2>0, Types
  <2>2. ItemsNamed' /\ ConsumptionFits' /\ Written'
    BY <1>2, <2>0, <2>1, NamesStep, FitsStep, WrittenStep
  <2>3. Never({"lost"})' => ReadStands' /\ \A i \in Item : consumed'[i] = Moved(i)'
    <3> SUFFICES ASSUME Never({"lost"})'
                 PROVE  ReadStands' /\ \A i \in Item : consumed'[i] = Moved(i)'
      OBVIOUS
    <3>1. "lost" \notin history' /\ ReadStands /\ \A i \in Item : consumed[i] = Moved(i)
      BY <2>0 DEF IInv, Never
    <3> QED BY <1>2, <2>0, <3>1, ReadStep
  <2>4. Never({"late"})' => PlanStands'
    <3> SUFFICES ASSUME Never({"late"})'
                 PROVE  PlanStands'
      OBVIOUS
    <3>1. "late" \notin history' /\ PlanStands
      BY <2>0 DEF IInv, Never
    <3> QED BY <1>2, <2>0, <2>1, <3>1, PlanStep
  <2>5. Never({"lost", "late"})' => \A i \in Item : consumed'[i] <= planned'[i]
    <3> SUFFICES ASSUME Never({"lost", "late"})'
                 PROVE  \A i \in Item : consumed'[i] <= planned'[i]
      OBVIOUS
    <3>1. "late" \notin history' /\ Never({"late"})' /\ Never({"lost", "late"})
      BY <2>0 DEF Never
    <3>2. PlanStands /\ \A i \in Item : consumed[i] <= planned[i]
      BY <2>0, <3>1 DEF IInv
    <3> QED BY <1>2, <2>0, <2>1, <3>1, <3>2, PlannedStep
  <2>6. Never({"byhand", "late"})' =>
          /\ CompletionStands'
          /\ status' = "COMPLETED" =>
               completion'.runs > 0 /\ \E b \in DOMAIN batches' : batches'[b]
    <3> SUFFICES ASSUME Never({"byhand", "late"})'
                 PROVE  /\ CompletionStands'
                        /\ status' = "COMPLETED" =>
                             completion'.runs > 0 /\ \E b \in DOMAIN batches' : batches'[b]
      OBVIOUS
    <3>1. /\ "byhand" \notin history' /\ "late" \notin history'
          /\ Never({"late"})' /\ Never({"byhand", "late"})
      BY <2>0 DEF Never
    <3>2. /\ PlanStands /\ CompletionStands
          /\ status = "COMPLETED" =>
               completion.runs > 0 /\ \E b \in DOMAIN batches : batches[b]
      BY <2>0, <3>1 DEF IInv
    <3> QED BY <1>2, <2>0, <2>1, <3>1, <3>2, CompletionStep
  <2>7. Never({"beside"})' => LineStands'
    <3> SUFFICES ASSUME Never({"beside"})'
                 PROVE  LineStands'
      OBVIOUS
    <3>1. "beside" \notin history' /\ LineStands
      BY <2>0 DEF IInv, Never
    <3> QED BY <1>2, <2>0, <3>1, LineStep
  <2>8. Never({"beside", "cut", "byhand", "revived"})' => BatchStands'
    <3> SUFFICES ASSUME Never({"beside", "cut", "byhand", "revived"})'
                 PROVE  BatchStands'
      OBVIOUS
    <3>1. /\ "beside" \notin history' /\ "cut" \notin history' /\ "byhand" \notin history'
          /\ "revived" \notin history'
          /\ Never({"beside"})' /\ Never({"beside", "cut", "byhand", "revived"})
      BY <2>0 DEF Never
    <3>2. LineStands /\ BatchStands
      BY <2>0, <3>1 DEF IInv
    <3> QED BY <1>2, <2>0, <3>1, <3>2, BatchStep
  <2>9. Never({"again"})' => ConsumptionsTell'
    <3> SUFFICES ASSUME Never({"again"})'
                 PROVE  ConsumptionsTell'
      OBVIOUS
    <3>1. "again" \notin history' /\ ConsumptionsTell
      BY <2>0 DEF IInv, Never
    <3> QED BY <1>2, <2>0, <2>1, <3>1, ConsumptionsStep
  <2>10. Never({"again", "bare", "beside"})' => RunsTell'
    <3> SUFFICES ASSUME Never({"again", "bare", "beside"})'
                 PROVE  RunsTell'
      OBVIOUS
    <3>1. /\ "again" \notin history' /\ "bare" \notin history' /\ "beside" \notin history'
          /\ Never({"beside"})' /\ Never({"again", "bare", "beside"})
      BY <2>0 DEF Never
    <3>2. LineStands /\ RunsTell
      BY <2>0, <3>1 DEF IInv
    <3> QED BY <1>2, <2>0, <3>1, <3>2, RunsStep
  <2> QED BY <2>1, <2>2, <2>3, <2>4, <2>5, <2>6, <2>7, <2>8, <2>9, <2>10 DEF IInv
<1>3. CASE Quiescent
  BY <1>3, Stutter DEF Quiescent
<1> QED BY <1>1, <1>2, <1>3 DEF Next

\* Whatever calls overlap, fail or come late, an order is in IInv.
THEOREM Invariance == Spec => []IInv
<1>1. Init => IInv
  BY Start
<1>2. IInv /\ [Next]_vars => IInv'
  BY Step
<1> QED BY <1>1, <1>2, PTL DEF Spec

\* Quantities: what an item counts as consumed has left the stock, and is planned.
THEOREM StockAlwaysAgrees == Spec => []StockAgrees
<1>1. IInv => StockAgrees
  <2> SUFFICES ASSUME IInv
               PROVE  StockAgrees
    OBVIOUS
  <2>1. TypeOK
    BY DEF IInv
  <2>2. ASSUME Never({"lost"}), NEW i \in Item
        PROVE  consumed[i] = Moved(i) /\ (Never({"late"}) => consumed[i] <= planned[i])
    <3>1. Never({"late"}) => Never({"lost", "late"})
      BY <2>2 DEF Never
    <3> QED BY <2>2, <3>1 DEF IInv
  <2> QED BY <2>1, <2>2 DEF StockAgrees, ConsumedIsMoved
<1> QED BY <1>1, Invariance, PTL

\* Output: a completed order is backed by stock, and its product comes in once.
THEOREM OutputAlwaysBacked == Spec => []OutputBacked
<1>1. IInv => OutputBacked
  <2> SUFFICES ASSUME IInv
               PROVE  OutputBacked
    OBVIOUS
  <2> DEFINE B == {b \in DOMAIN batches : batches[b]}
             n == Len(batches)
  <2>0. n \in Nat /\ DOMAIN batches = 1 .. n
    BY DEF IInv, TypeOK
  <2>1. B \subseteq 1 .. n
    BY <2>0
  <2> HIDE DEF n
  <2>2. IsFiniteSet(1 .. n)
    BY <2>0, FS_Interval
  <2>3. IsFiniteSet(B) /\ Cardinality(B) \in Nat
    <3> HIDE DEF B
    <3> QED BY <2>1, <2>2, FS_Subset, FS_CardinalityType
  <2>4. CompletedIsBacked
    <3> SUFFICES ASSUME status = "COMPLETED", Never({"byhand", "late"})
                 PROVE  /\ \A i \in Item : Moved(i) >= planned[i]
                        /\ Outputs > 0 /\ completion.runs > 0
      BY DEF CompletedIsBacked
    <3>1. /\ CompletionStands /\ completion.runs > 0
          /\ \E b \in DOMAIN batches : batches[b]
      BY DEF IInv
    <3>2. B # {}
      BY <3>1
    <3>3. Cardinality(B) # 0
      <4> HIDE DEF B
      <4> QED BY <2>3, <3>2, FS_EmptySet
    <3>4. Outputs > 0
      BY <2>3, <3>3 DEF Outputs
    <3> QED BY <3>1, <3>4 DEF CompletionStands
  <2>5. OutputOnce
    <3> SUFFICES ASSUME Never({"beside"})
                 PROVE  /\ completion.lines <= 1
                        /\ Never({"cut", "byhand", "revived"}) => Outputs <= 1
      BY DEF OutputOnce
    <3>1. completion.lines <= 1
      BY DEF IInv, LineStands
    <3>2. ASSUME Never({"cut", "byhand", "revived"})
          PROVE  Outputs <= 1
      <4>1. Never({"beside", "cut", "byhand", "revived"})
        BY <3>2 DEF Never
      <4>2. n <= 1
        BY <4>1 DEF IInv, BatchStands, n
      <4>3. B \subseteq {1}
        BY <2>0, <2>1, <4>2
      <4>4. Cardinality(B) <= 1
        <5> HIDE DEF B
        <5>1. IsFiniteSet({1}) /\ Cardinality({1}) = 1
          BY FS_Singleton
        <5> QED BY <4>3, <5>1, FS_Subset
      <4> QED BY <4>4 DEF Outputs
    <3> QED BY <3>1, <3>2
  <2> QED BY <2>4, <2>5 DEF OutputBacked
<1> QED BY <1>1, Invariance, PTL

\* Postings: each stands until it is void and once when it is posted again.
THEOREM PostingsAlwaysStand == Spec => []PostingsStand
<1>1. IInv => PostingsStand
  <2> SUFFICES ASSUME IInv, Never({"again", "bare", "beside"})
               PROVE  /\ \A i \in Item : \A k \in DOMAIN ops[i] :
                           ops[i][k].voided <=> ops[i][k].runs = 2
                      /\ completion.lines > 0 =>
                           completion.standing = IF completion.voided THEN 0 ELSE 1
    BY DEF PostingsStand
  <2>1. Never({"again"}) /\ Never({"beside"})
    BY DEF Never
  <2>2. ConsumptionsTell /\ RunsTell /\ LineStands /\ TypeOK
    BY <2>1 DEF IInv
  <2>3. ASSUME completion.lines > 0
        PROVE  completion.standing = IF completion.voided THEN 0 ELSE 1
    <3>1. completion.runs \in 1 .. 3 /\ completion.lines = 1
      BY <2>2, <2>3 DEF TypeOK, RunsTell, LineStands
    <3>2. CASE completion.runs = 2
      BY <2>2, <3>2 DEF RunsTell
    <3>3. CASE completion.runs \in {1, 3}
      BY <2>2, <3>1, <3>3 DEF RunsTell
    <3> QED BY <3>1, <3>2, <3>3
  <2> QED BY <2>2, <2>3 DEF ConsumptionsTell
<1> QED BY <1>1, Invariance, PTL

=============================================================================
