---------------------------- MODULE PaymentsProofs ----------------------------
(***************************************************************************)
(* Proofs about Payments, for any number of calls at work, any amounts and *)
(* any number of plans.  A call reads, decides and writes in transactions  *)
(* of its own; what it has read of the request holds when it writes only   *)
(* if no other call is at work, so that most of what is proved is about    *)
(* calls one after the other, and rests on Alone and StillHolds.           *)
(***************************************************************************)
EXTENDS Payments, SumLemmas

----------------------------------------------------------------------------
(* Rows of payment_plans *)

PlanStatus == {"PLANNED", "MOVED", "CANCELED", "EXECUTED"}

PlanRow == [amount : Amount, from : 0 .. MaxPlans, status : PlanStatus]

LEMMA RowMarked ==
  ASSUME NEW s \in Seq(PlanRow), NEW p \in DOMAIN s, NEW v \in PlanStatus
  PROVE  LET r == [s EXCEPT ![p].status = v]
         IN  /\ r \in Seq(PlanRow) /\ Len(r) = Len(s) /\ DOMAIN r = DOMAIN s
             /\ \A q \in DOMAIN s : r[q].amount = s[q].amount /\ r[q].from = s[q].from
             /\ \A q \in DOMAIN s \ {p} : r[q] = s[q]
             /\ r[p].status = v
<1> DEFINE y == [s[p] EXCEPT !.status = v]
           r == [s EXCEPT ![p].status = v]
<1>1. s[p] \in PlanRow
  OBVIOUS
<1>2. y \in PlanRow /\ y.status = v /\ y.amount = s[p].amount /\ y.from = s[p].from
  BY <1>1 DEF PlanRow
<1>3. r = [s EXCEPT ![p] = y]
  OBVIOUS
<1> HIDE DEF y, r
<1>4. /\ r \in Seq(PlanRow) /\ Len(r) = Len(s) /\ DOMAIN r = DOMAIN s
      /\ \A q \in DOMAIN s \ {p} : r[q] = s[q]
      /\ r[p] = y
  BY <1>2, <1>3
<1> QED BY <1>2, <1>4 DEF r

LEMMA RowAdded ==
  ASSUME NEW s \in Seq(PlanRow), NEW n \in Amount, NEW f \in 0 .. MaxPlans
  PROVE  LET r == Append(s, Row(n, f))
             N == Len(s) + 1
         IN  /\ r \in Seq(PlanRow) /\ Len(r) = N /\ DOMAIN r = DOMAIN s \cup {N}
             /\ N \notin DOMAIN s /\ \A q \in DOMAIN s : r[q] = s[q]
             /\ r[N].amount = n /\ r[N].from = f /\ r[N].status = "PLANNED"
<1> DEFINE y == Row(n, f)
           r == Append(s, y)
           N == Len(s) + 1
<1>1. y \in PlanRow /\ y.amount = n /\ y.from = f /\ y.status = "PLANNED"
  BY DEF Row, PlanRow, PlanStatus
<1> HIDE DEF y
<1>2. /\ r \in Seq(PlanRow) /\ Len(r) = N /\ DOMAIN r = DOMAIN s \cup {N}
      /\ N \notin DOMAIN s /\ \A q \in DOMAIN s : r[q] = s[q]
      /\ r[N] = y
  BY <1>1
<1> HIDE DEF r, N
<1> QED BY <1>1, <1>2 DEF r, N, y

LEMMA RowReplaced ==
  ASSUME NEW s \in Seq(PlanRow), NEW p \in DOMAIN s, p \in 0 .. MaxPlans
  PROVE  LET r == Append([s EXCEPT ![p].status = "MOVED"], Row(s[p].amount, p))
             N == Len(s) + 1
         IN  /\ r \in Seq(PlanRow) /\ Len(r) = N /\ DOMAIN r = DOMAIN s \cup {N}
             /\ N \notin DOMAIN s /\ p # N
             /\ \A q \in DOMAIN s : r[q].amount = s[q].amount /\ r[q].from = s[q].from
             /\ \A q \in DOMAIN s \ {p} : r[q] = s[q]
             /\ r[p].status = "MOVED"
             /\ r[N].amount = s[p].amount /\ r[N].from = p /\ r[N].status = "PLANNED"
<1> DEFINE b == [s EXCEPT ![p].status = "MOVED"]
           n == s[p].amount
           r == Append(b, Row(n, p))
           N == Len(s) + 1
<1>1. /\ b \in Seq(PlanRow) /\ Len(b) = Len(s) /\ DOMAIN b = DOMAIN s
      /\ \A q \in DOMAIN s : b[q].amount = s[q].amount /\ b[q].from = s[q].from
      /\ \A q \in DOMAIN s \ {p} : b[q] = s[q]
      /\ b[p].status = "MOVED"
  BY RowMarked DEF PlanStatus
<1>2. n \in Amount
  <2>1. s[p] \in PlanRow
    OBVIOUS
  <2> QED BY <2>1 DEF PlanRow
<1> HIDE DEF b, n
<1>3. /\ r \in Seq(PlanRow) /\ Len(r) = Len(b) + 1 /\ DOMAIN r = DOMAIN b \cup {Len(b) + 1}
      /\ Len(b) + 1 \notin DOMAIN b /\ \A q \in DOMAIN b : r[q] = b[q]
      /\ r[Len(b) + 1].amount = n /\ r[Len(b) + 1].from = p
      /\ r[Len(b) + 1].status = "PLANNED"
  BY <1>1, <1>2, RowAdded
<1> HIDE DEF r
<1>4. Len(b) + 1 = N
  BY <1>1
<1> HIDE DEF N
<1>5. /\ r \in Seq(PlanRow) /\ Len(r) = N /\ DOMAIN r = DOMAIN s \cup {N}
      /\ N \notin DOMAIN s /\ p # N
  BY <1>1, <1>3, <1>4
<1>6. /\ \A q \in DOMAIN s : r[q].amount = s[q].amount /\ r[q].from = s[q].from
      /\ \A q \in DOMAIN s \ {p} : r[q] = s[q]
      /\ r[p].status = "MOVED"
  BY <1>1, <1>3
<1>7. r[N].amount = n /\ r[N].from = p /\ r[N].status = "PLANNED"
  BY <1>3, <1>4
<1> QED BY <1>5, <1>6, <1>7 DEF r, b, n, N

----------------------------------------------------------------------------
(* What rows add up to *)

Total(s, S) == SumFunctionOnSet([p \in S |-> s[p].amount], S)

LEMMA SumIsTotal == \A S : SumOf(S) = Total(plans, S)
BY DEF SumOf, Total

LEMMA AmountsNat ==
  ASSUME NEW s \in Seq(PlanRow)
  PROVE  \A p \in DOMAIN s : s[p].amount \in Amount /\ s[p].amount \in Nat /\ s[p].amount >= 1
<1> SUFFICES ASSUME NEW p \in DOMAIN s
             PROVE  s[p].amount \in Amount /\ s[p].amount \in Nat \ {0}
  OBVIOUS
<1>1. s[p] \in PlanRow
  OBVIOUS
<1> QED BY <1>1, AmountAssumption DEF PlanRow

LEMMA RowsFinite ==
  ASSUME NEW s \in Seq(PlanRow), NEW S, S \subseteq DOMAIN s
  PROVE  IsFiniteSet(S)
<1>1. IsFiniteSet(1 .. Len(s)) /\ DOMAIN s = 1 .. Len(s)
  BY FS_Interval
<1> QED BY <1>1, FS_Subset

\* A sum over some rows, as one of the function of all amounts
LEMMA TotalIs ==
  ASSUME NEW s \in Seq(PlanRow), NEW S, S \subseteq DOMAIN s
  PROVE  Total(s, S) = SumFunctionOnSet([p \in DOMAIN s |-> s[p].amount], S)
<1> DEFINE f == [p \in DOMAIN s |-> s[p].amount]
           h == [p \in S |-> s[p].amount]
<1>1. IsFiniteSet(S)
  BY RowsFinite
<1>2. \A x \in S : f[x] \in Int /\ h[x] = f[x]
  BY AmountsNat
<1> HIDE DEF f, h
<1>3. SumFunctionOnSet(h, S) = SumFunctionOnSet(f, S)
  BY <1>1, <1>2, SumSame
<1> QED BY <1>3 DEF f, h, Total

LEMMA TotalSame ==
  ASSUME NEW s \in Seq(PlanRow), NEW t \in Seq(PlanRow),
         NEW S, S \subseteq DOMAIN s, S \subseteq DOMAIN t,
         \A p \in S : t[p].amount = s[p].amount
  PROVE  Total(t, S) = Total(s, S)
<1> DEFINE f == [p \in S |-> s[p].amount]
           h == [p \in S |-> t[p].amount]
<1>1. f = h
  OBVIOUS
<1> QED BY <1>1 DEF Total

LEMMA TotalNat ==
  ASSUME NEW s \in Seq(PlanRow), NEW S, S \subseteq DOMAIN s
  PROVE  Total(s, S) \in Nat /\ \A p \in S : s[p].amount <= Total(s, S)
<1> DEFINE f == [p \in DOMAIN s |-> s[p].amount]
<1>1. IsFiniteSet(S)
  BY RowsFinite
<1>2. \A x \in S : f[x] \in Nat /\ f[x] = s[x].amount
  BY AmountsNat
<1>3. Total(s, S) = SumFunctionOnSet(f, S)
  BY TotalIs
<1> HIDE DEF f
<1> QED BY <1>1, <1>2, <1>3, SumNat

LEMMA TotalAdd ==
  ASSUME NEW s \in Seq(PlanRow), NEW S, S \subseteq DOMAIN s,
         NEW y \in DOMAIN s, y \notin S
  PROVE  Total(s, S \cup {y}) = Total(s, S) + s[y].amount
<1> DEFINE f == [p \in DOMAIN s |-> s[p].amount]
<1>1. IsFiniteSet(S)
  BY RowsFinite
<1>2. \A x \in S \cup {y} : f[x] \in Int
  BY AmountsNat
<1>3. Total(s, S) = SumFunctionOnSet(f, S) /\ f[y] = s[y].amount
  BY TotalIs
<1>4. Total(s, S \cup {y}) = SumFunctionOnSet(f, S \cup {y})
  <2>1. S \cup {y} \subseteq DOMAIN s
    OBVIOUS
  <2> HIDE DEF f
  <2> DEFINE T == S \cup {y}
  <2>2. T \subseteq DOMAIN s
    BY <2>1
  <2> HIDE DEF T
  <2>3. Total(s, T) = SumFunctionOnSet(f, T)
    BY <2>2, TotalIs DEF f
  <2> QED BY <2>3 DEF T
<1> HIDE DEF f
<1>5. SumFunctionOnSet(f, S \cup {y}) = SumFunctionOnSet(f, S) + f[y]
  BY <1>1, <1>2, SumAdd
<1> QED BY <1>3, <1>4, <1>5

LEMMA TotalEmpty == \A s : Total(s, {}) = 0
BY SumEmpty DEF Total

LEMMA TotalGrows ==
  ASSUME NEW s \in Seq(PlanRow), NEW T, T \subseteq DOMAIN s, NEW S, S \subseteq T
  PROVE  Total(s, S) <= Total(s, T)
<1> DEFINE f == [p \in DOMAIN s |-> s[p].amount]
           U == T \ S
<1>1. IsFiniteSet(S) /\ IsFiniteSet(U) /\ S \subseteq DOMAIN s /\ U \subseteq DOMAIN s
  BY RowsFinite
<1>2. S \cap U = {} /\ S \cup U = T /\ \A x \in S \cup U : f[x] \in Int
  BY AmountsNat
<1> HIDE DEF U
<1>3. /\ Total(s, S) = SumFunctionOnSet(f, S) /\ Total(s, U) = SumFunctionOnSet(f, U)
      /\ Total(s, T) = SumFunctionOnSet(f, T)
  BY <1>1, TotalIs
<1> HIDE DEF f
<1>4. SumFunctionOnSet(f, S \cup U) = SumFunctionOnSet(f, S) + SumFunctionOnSet(f, U)
  BY <1>1, <1>2, SumUnion
<1>5. Total(s, T) = Total(s, S) + Total(s, U)
  BY <1>2, <1>3, <1>4
<1>6. Total(s, S) \in Nat /\ Total(s, U) \in Nat
  BY <1>1, TotalNat
<1> QED BY <1>5, <1>6

----------------------------------------------------------------------------
(* Steps *)

LEMMA NoteKeeps ==
  ASSUME NEW S, Note(S)
  PROVE  /\ "voids" \in history => "voids" \in history'
         /\ "overlap" \in history => "overlap" \in history'
         /\ "voids" \in S => "voids" \in history'
         /\ "overlap" \in S => "overlap" \in history'
         /\ "overlap" \notin history' => history' = history \cup S
BY DEF Note

\* A call starts by reading, and writes nothing then.
LEMMA Starts ==
  ASSUME IInv, NEW c \in Client, Call(c), pc[c] = "idle"
  PROVE  /\ ReadRequest(c) \/ ReadCreate(c) \/ ReadChange(c) \/ ReadExecute(c) \/ ReadVoid(c)
         /\ \E o, p, n, l : Begin(c, o, p, n, l)
<1>1. ReadRequest(c) \/ ReadCreate(c) \/ ReadChange(c) \/ ReadExecute(c) \/ ReadVoid(c)
  BY DEF Call, WriteRequest, CheckCover, InsertPlan, WriteMove, WriteCancel, Execute,
     CommitExecute, FindVoidedRun, Void, CommitVoid, FindCopy, WriteCopy, ReadCopy, Abort
<1>2. \E o, p, n, l : Begin(c, o, p, n, l)
  BY <1>1 DEF ReadRequest, ReadCreate, ReadChange, ReadExecute, ReadVoid
<1> QED BY <1>1, <1>2

\* What has happened before has happened.
LEMMA HistoryGrows ==
  ASSUME NEW c \in Client, Call(c)
  PROVE  /\ "voids" \in history => "voids" \in history'
         /\ "overlap" \in history => "overlap" \in history'
         /\ "overlap" \notin history' => history \subseteq history'
<1>1. history' = history \/ \E S : Note(S)
  BY DEF Call, ReadRequest, Begin, WriteRequest, ReadCreate, CheckCover, InsertPlan,
     ReadChange, WriteMove, WriteCancel, ReadExecute, Execute, CommitExecute, ReadVoid,
     FindVoidedRun, Void, CommitVoid, FindCopy, WriteCopy, ReadCopy, Abort
<1> QED BY <1>1, NoteKeeps

\* A call changes nothing of another one.
LEMMA Frame ==
  ASSUME TypeOK, NEW c \in Client, Call(c)
  PROVE  \A d \in Client \ {c} :
           /\ pc'[d] = pc[d] /\ op'[d] = op[d] /\ at'[d] = at[d]
           /\ read'[d] = read[d] /\ next'[d] = next[d] /\ known'[d] = known[d]
<1> USE DEF TypeOK, Goto, End, local
<1>1. CASE \E o, p, n, l : Begin(c, o, p, n, l)
  BY <1>1 DEF Begin
<1>2. CASE WriteRequest(c) \/ CheckCover(c) \/ InsertPlan(c)
  BY <1>2 DEF WriteRequest, CheckCover, InsertPlan
<1>3. CASE WriteMove(c) \/ WriteCancel(c)
  BY <1>3 DEF WriteMove, WriteCancel
<1>4. CASE Execute(c) \/ CommitExecute(c)
  BY <1>4 DEF Execute, CommitExecute
<1>5. CASE FindVoidedRun(c) \/ Void(c)
  BY <1>5 DEF FindVoidedRun, Void
<1>6. CASE CommitVoid(c)
  BY <1>6 DEF CommitVoid
<1>7. CASE FindCopy(c) \/ WriteCopy(c)
  BY <1>7 DEF FindCopy, WriteCopy
<1>8. CASE ReadCopy(c) \/ Abort(c)
  BY <1>8 DEF ReadCopy, Abort
<1>9. \/ \E o, p, n, l : Begin(c, o, p, n, l)
      \/ ~(ReadRequest(c) \/ ReadCreate(c) \/ ReadChange(c) \/ ReadExecute(c) \/ ReadVoid(c))
  BY DEF ReadRequest, ReadCreate, ReadChange, ReadExecute, ReadVoid
<1> QED BY <1>1, <1>2, <1>3, <1>4, <1>5, <1>6, <1>7, <1>8, <1>9 DEF Call

\* As long as calls come one after the other, nobody else is at work.
LEMMA SerialStep ==
  ASSUME IInv, NEW c \in Client, Call(c), Serial'
  PROVE  /\ Serial /\ history \subseteq history'
         /\ \A d \in Client \ {c} : pc[d] = "idle" /\ pc'[d] = "idle"
<1>1. Serial /\ history \subseteq history'
  BY HistoryGrows DEF Serial
<1>2. \A d \in Client \ {c} : pc[d] = "idle"
  <2>1. CASE pc[c] # "idle"
    BY <1>1, <2>1 DEF IInv, Alone
  <2>2. CASE pc[c] = "idle"
    <3>1. PICK o, p, n, l : Begin(c, o, p, n, l)
      BY <2>2, Starts
    <3>2. Note(IF \E d \in Client : pc[d] # "idle" THEN {"overlap"} ELSE {})
      BY <3>1 DEF Begin
    <3>3. \A d \in Client : pc[d] = "idle"
      <4> SUFFICES ASSUME \E d \in Client : pc[d] # "idle" PROVE FALSE
        OBVIOUS
      <4>1. Note({"overlap"})
        BY <3>2
      <4> QED BY <4>1, NoteKeeps DEF Serial
    <3> QED BY <3>3
  <2> QED BY <2>1, <2>2
<1>3. \A d \in Client \ {c} : pc'[d] = pc[d]
  BY Frame DEF IInv
<1> QED BY <1>1, <1>2, <1>3

LEMMA AloneStep ==
  ASSUME IInv, NEW c \in Client, Call(c)
  PROVE  Alone'
BY SerialStep DEF Alone

----------------------------------------------------------------------------
(* What the writes do to the rows *)

LEMMA RowsTyped ==
  ASSUME TypeOK
  PROVE  /\ plans \in Seq(PlanRow) /\ Len(plans) \in Nat /\ Rows = 1 .. Len(plans)
         /\ Rows \subseteq Plan /\ Plan \subseteq 0 .. MaxPlans /\ Rows \subseteq Nat
         /\ \A p \in Rows : /\ plans[p].amount \in Amount /\ plans[p].from \in 0 .. MaxPlans
                            /\ plans[p].status \in PlanStatus
<1>1. plans \in Seq(PlanRow) /\ Len(plans) <= MaxPlans
  BY DEF TypeOK, PlanRow, PlanStatus
<1>2. Rows = 1 .. Len(plans) /\ Len(plans) \in Nat
  BY <1>1 DEF Rows
<1>3. Rows \subseteq Plan /\ Plan \subseteq 0 .. MaxPlans
  BY <1>1, <1>2, MaxPlansAssumption DEF Plan
<1>4. \A p \in Rows : plans[p] \in PlanRow
  BY <1>1 DEF Rows
<1> QED BY <1>1, <1>2, <1>3, <1>4 DEF PlanRow

\* A new row is PLANNED, and from the row it replaces, if any.
LEMMA Inserts ==
  ASSUME IInv, NEW c \in Client, InsertPlan(c)
  PROVE  \E N \in Plan \ Rows :
           /\ N = Len(plans) + 1 /\ Rows' = Rows \cup {N} /\ plans' \in Seq(PlanRow)
           /\ \A q \in Rows : plans'[q] = plans[q]
           /\ plans'[N].amount = at[c] /\ plans'[N].from = 0
           /\ plans'[N].status = "PLANNED"
<1>1. TypeOK /\ at[c] \in Amount
  BY DEF IInv, WorksOnRows, InsertPlan
<1>2. plans \in Seq(PlanRow) /\ Len(plans) \in Nat /\ Rows = 1 .. Len(plans)
  BY <1>1, RowsTyped
<1> DEFINE N == Len(plans) + 1
           r == Append(plans, Row(at[c], 0))
<1>3. 0 \in 0 .. MaxPlans
  BY MaxPlansAssumption
<1>4. /\ r \in Seq(PlanRow) /\ DOMAIN r = DOMAIN plans \cup {N}
      /\ N \notin DOMAIN plans /\ \A q \in DOMAIN plans : r[q] = plans[q]
      /\ r[N].amount = at[c] /\ r[N].from = 0 /\ r[N].status = "PLANNED"
  BY <1>1, <1>2, <1>3, RowAdded
<1>5. plans' = r /\ N \in Plan
  BY <1>2, MaxPlansAssumption DEF InsertPlan, Plan
<1> HIDE DEF r
<1> QED BY <1>4, <1>5 DEF Rows

LEMMA Replaces ==
  ASSUME IInv, NEW c \in Client, WriteMove(c) \/ WriteCopy(c)
  PROVE  /\ at[c] \in Rows
         /\ \E N \in Plan \ Rows :
              /\ N = Len(plans) + 1 /\ Rows' = Rows \cup {N} /\ plans' \in Seq(PlanRow)
              /\ \A q \in Rows : /\ plans'[q].amount = plans[q].amount
                                 /\ plans'[q].from = plans[q].from
              /\ \A q \in Rows \ {at[c]} : plans'[q] = plans[q]
              /\ plans'[at[c]].status = "MOVED"
              /\ plans'[N].amount = plans[at[c]].amount /\ plans'[N].from = at[c]
              /\ plans'[N].status = "PLANNED"
<1>1. TypeOK /\ at[c] \in Rows /\ plans' = Replaced(at[c]) /\ Len(plans) < MaxPlans
  BY DEF IInv, WorksOnRows, WriteMove, WriteCopy
<1>2. /\ plans \in Seq(PlanRow) /\ Len(plans) \in Nat /\ Rows = 1 .. Len(plans)
      /\ at[c] \in 0 .. MaxPlans
  BY <1>1, RowsTyped
<1> DEFINE N == Len(plans) + 1
           p == at[c]
           r == Append([plans EXCEPT ![p].status = "MOVED"], Row(plans[p].amount, p))
<1>3. plans' = r /\ p \in DOMAIN plans /\ p \in 0 .. MaxPlans
  BY <1>1, <1>2 DEF Replaced, Rows
<1> HIDE DEF p
<1>4. /\ r \in Seq(PlanRow) /\ DOMAIN r = DOMAIN plans \cup {N}
      /\ N \notin DOMAIN plans
      /\ \A q \in DOMAIN plans : r[q].amount = plans[q].amount /\ r[q].from = plans[q].from
      /\ \A q \in DOMAIN plans \ {p} : r[q] = plans[q]
      /\ r[p].status = "MOVED"
      /\ r[N].amount = plans[p].amount /\ r[N].from = p /\ r[N].status = "PLANNED"
  BY <1>2, <1>3, RowReplaced
<1>5. N \in Plan
  BY <1>1, <1>2, MaxPlansAssumption DEF Plan
<1> HIDE DEF r
<1> QED BY <1>1, <1>3, <1>4, <1>5 DEF Rows, p

LEMMA Marks ==
  ASSUME IInv, NEW c \in Client, WriteCancel(c) \/ CommitExecute(c) \/ CommitVoid(c)
  PROVE  /\ at[c] \in Rows /\ Rows' = Rows /\ plans' \in Seq(PlanRow)
         /\ Len(plans') = Len(plans)
         /\ \A q \in Rows : /\ plans'[q].amount = plans[q].amount
                            /\ plans'[q].from = plans[q].from
         /\ \A q \in Rows \ {at[c]} : plans'[q] = plans[q]
         /\ plans'[at[c]].status = IF CommitExecute(c) THEN "EXECUTED" ELSE "CANCELED"
<1> DEFINE p == at[c]
<1>1. TypeOK /\ p \in Rows
  BY DEF IInv, WorksOnRows, WriteCancel, CommitExecute, CommitVoid
<1>2. plans \in Seq(PlanRow)
  BY <1>1, RowsTyped
<1> DEFINE v == IF CommitExecute(c) THEN "EXECUTED" ELSE "CANCELED"
<1>3. plans' = [plans EXCEPT ![p].status = v]
  BY DEF WriteCancel, CommitExecute, CommitVoid
<1>4. v \in PlanStatus /\ p \in DOMAIN plans
  BY <1>1 DEF PlanStatus, Rows
<1> DEFINE r == [plans EXCEPT ![p].status = v]
<1> HIDE DEF v, p
<1>5. /\ r \in Seq(PlanRow) /\ Len(r) = Len(plans) /\ DOMAIN r = DOMAIN plans
      /\ \A q \in DOMAIN plans : r[q].amount = plans[q].amount /\ r[q].from = plans[q].from
      /\ \A q \in DOMAIN plans \ {p} : r[q] = plans[q]
      /\ r[p].status = v
  BY <1>2, <1>4, RowMarked
<1>6. plans' = r
  BY <1>3
<1> HIDE DEF r
<1> QED BY <1>1, <1>5, <1>6 DEF Rows, p, v

\* All other steps leave the rows and the money alone.
LEMMA Calm ==
  ASSUME NEW c \in Client, Call(c), ~InsertPlan(c), ~WriteMove(c), ~WriteCopy(c),
         ~WriteCancel(c), ~CommitExecute(c), ~CommitVoid(c)
  PROVE  plans' = plans /\ exec' = exec /\ cash' = cash /\ runs' = runs
BY DEF Call, ReadRequest, Begin, WriteRequest, ReadCreate, CheckCover, ReadChange,
   ReadExecute, Execute, ReadVoid, FindVoidedRun, Void, FindCopy, ReadCopy, Abort, paid

LEMMA RowsGrow ==
  ASSUME IInv, NEW c \in Client, Call(c)
  PROVE  /\ plans' \in Seq(PlanRow) /\ Rows \subseteq Rows' /\ Rows' \subseteq Plan
         /\ \A q \in Rows : plans'[q].amount = plans[q].amount /\ plans'[q].from = plans[q].from
<1>1. TypeOK /\ plans \in Seq(PlanRow) /\ Rows \subseteq Plan
  BY RowsTyped DEF IInv
<1>2. CASE InsertPlan(c)
  BY <1>1, <1>2, Inserts
<1>3. CASE WriteMove(c) \/ WriteCopy(c)
  BY <1>1, <1>3, Replaces
<1>4. CASE WriteCancel(c) \/ CommitExecute(c) \/ CommitVoid(c)
  BY <1>1, <1>4, Marks
<1>5. CASE plans' = plans
  BY <1>1, <1>5 DEF Rows
<1> QED BY <1>2, <1>3, <1>4, <1>5, Calm

----------------------------------------------------------------------------
(* Typing, and what calls work on *)

\* What the commits write; nothing else writes the money.
LEMMA Commits ==
  ASSUME IInv, NEW c \in Client, Call(c)
  PROVE  \/ exec' = exec /\ cash' = cash /\ runs' = runs /\ ~CommitExecute(c) /\ ~CommitVoid(c)
         \/ /\ CommitExecute(c) /\ at[c] \in Plan /\ at[c] \in Rows
            /\ exec[at[c]] = "none" /\ pc[c] = "executed"
            /\ exec' = [exec EXCEPT ![at[c]] = "EXECUTED"]
            /\ cash' = [cash EXCEPT ![at[c]] = "POSTED"]
            /\ runs' = [runs EXCEPT ![at[c]] = 1]
         \/ /\ CommitVoid(c) /\ at[c] \in Plan /\ at[c] \in Rows
            /\ exec[at[c]] # "none" /\ pc[c] = "voided"
            /\ exec' = [exec EXCEPT ![at[c]] = "CANCELED"]
            /\ cash' = [cash EXCEPT ![at[c]] = "VOIDED"]
            /\ runs' = IF known[c] THEN runs ELSE [runs EXCEPT ![at[c]] = runs[at[c]] + 1]
<1>1. TypeOK /\ WorksOnRows /\ Rows \subseteq Plan
  BY RowsTyped DEF IInv
<1>2. CASE CommitExecute(c)
  BY <1>1, <1>2 DEF CommitExecute, WorksOnRows
<1>3. CASE CommitVoid(c)
  BY <1>1, <1>3 DEF CommitVoid, WorksOnRows, Reversed
<1>4. CASE ~CommitExecute(c) /\ ~CommitVoid(c)
  BY <1>4, Calm DEF InsertPlan, WriteMove, WriteCopy, WriteCancel, paid
<1> QED BY <1>2, <1>3, <1>4

LEMMA RunsNat ==
  ASSUME TypeOK
  PROVE  /\ runs \in [Plan -> Nat] /\ Cardinality(Client) \in Nat
         /\ \A p : IsFiniteSet(Voiders(p)) /\ Cardinality(Voiders(p)) \in Nat
                   /\ Cardinality(Voiders(p)) <= Cardinality(Client)
<1>1. Cardinality(Client) \in Nat
  BY ClientAssumption, FS_CardinalityType
<1>2. runs \in [Plan -> Nat]
  BY <1>1 DEF TypeOK
<1>3. ASSUME NEW p
      PROVE  IsFiniteSet(Voiders(p)) /\ Cardinality(Voiders(p)) \in Nat
             /\ Cardinality(Voiders(p)) <= Cardinality(Client)
  <2>1. Voiders(p) \subseteq Client
    BY DEF Voiders
  <2> QED BY <2>1, ClientAssumption, FS_Subset, FS_CardinalityType
<1> QED BY <1>1, <1>2, <1>3

\* Only who has found no VOIDED run becomes a voider.
LEMMA VoidersShrink ==
  ASSUME IInv, NEW c \in Client, Call(c), NEW p,
         FindVoidedRun(c) /\ p = at[c] => HasVoidedRun(p)
  PROVE  /\ Voiders(p)' \subseteq Voiders(p)
         /\ CommitVoid(c) => c \notin Voiders(p)'
<1>1. TypeOK
  BY DEF IInv
<1>2. \A d \in Client \ {c} : d \in Voiders(p)' => d \in Voiders(p)
  BY <1>1, Frame DEF Voiders
<1>3. CASE pc'[c] \notin {"voiding", "voided"}
  BY <1>2, <1>3 DEF Voiders
<1>4. CASE FindVoidedRun(c)
  <2>1. known'[c] = HasVoidedRun(at[c]) /\ at'[c] = at[c]
    BY <1>1, <1>4 DEF FindVoidedRun, TypeOK
  <2>2. c \notin Voiders(p)'
    BY <2>1, <1>4 DEF Voiders
  <2> QED BY <1>2, <2>2, <1>4 DEF Voiders, FindVoidedRun, CommitVoid
<1>5. CASE Void(c)
  BY <1>1, <1>2, <1>5 DEF Void, TypeOK, Voiders, CommitVoid
<1>6. CASE pc'[c] \in {"voiding", "voided"} /\ ~FindVoidedRun(c) /\ ~Void(c)
  <2>1. pc \in [Client -> PC]
    BY <1>1 DEF TypeOK
  <2>2. CASE ReadRequest(c) \/ ReadCreate(c) \/ ReadChange(c) \/ ReadExecute(c) \/ ReadVoid(c)
    BY <2>1, <2>2, <1>6 DEF ReadRequest, ReadCreate, ReadChange, ReadExecute, ReadVoid,
       Begin, Goto
  <2>3. CASE WriteRequest(c) \/ CheckCover(c) \/ InsertPlan(c) \/ WriteMove(c) \/ WriteCancel(c)
    BY <2>1, <2>3, <1>6 DEF WriteRequest, CheckCover, InsertPlan, WriteMove, WriteCancel,
       Goto, End
  <2>4. CASE Execute(c) \/ CommitExecute(c) \/ CommitVoid(c)
    BY <2>1, <2>4, <1>6 DEF Execute, CommitExecute, CommitVoid, Goto, End
  <2>5. CASE FindCopy(c) \/ WriteCopy(c) \/ ReadCopy(c) \/ Abort(c)
    BY <2>1, <2>5, <1>6 DEF FindCopy, WriteCopy, ReadCopy, Abort, Goto, End
  <2> QED BY <2>2, <2>3, <2>4, <2>5, <1>6 DEF Call
<1> QED BY <1>3, <1>4, <1>5, <1>6

LEMMA RunsBoundedStep ==
  ASSUME IInv, NEW c \in Client, Call(c)
  PROVE  runs' \in [Plan -> Nat] /\ RunsBounded'
<1>1. TypeOK /\ RunsBounded
  BY DEF IInv
<1>2. runs \in [Plan -> Nat] /\ Cardinality(Client) \in Nat
  BY <1>1, RunsNat
<1>3. runs' \in [Plan -> Nat]
  BY <1>2, Commits
<1> SUFFICES ASSUME NEW p \in Plan, runs'[p] >= 2
             PROVE  runs'[p] + Cardinality(Voiders(p)') <= 1 + Cardinality(Client)
  BY <1>3 DEF RunsBounded
<1> DEFINE V == Voiders(p)
           W == Voiders(p)'
<1>4. IsFiniteSet(V) /\ Cardinality(V) \in Nat
  BY <1>1, RunsNat
<1>5. ASSUME NEW U, IsFiniteSet(U), W \subseteq U
      PROVE  Cardinality(W) \in Nat /\ Cardinality(W) <= Cardinality(U)
             /\ Cardinality(U) \in Nat
  BY <1>5, FS_Subset, FS_CardinalityType
<1>6. CASE runs'[p] = runs[p]
  <2>1. W \subseteq V
    <3>1. FindVoidedRun(c) /\ p = at[c] => HasVoidedRun(p)
      BY <1>6, <1>2 DEF HasVoidedRun
    <3> QED BY <3>1, VoidersShrink
  <2>2. Cardinality(W) \in Nat /\ Cardinality(W) <= Cardinality(V)
    BY <1>4, <1>5, <2>1
  <2>3. runs[p] + Cardinality(V) <= 1 + Cardinality(Client)
    BY <1>1, <1>6 DEF RunsBounded
  <2> HIDE DEF V, W
  <2>4. runs[p] \in Nat
    BY <1>2
  <2> QED BY <1>2, <1>4, <1>6, <2>2, <2>3, <2>4 DEF W
<1>7. CASE runs'[p] # runs[p]
  <2>1. /\ CommitVoid(c) /\ p = at[c] /\ ~known[c] /\ runs'[p] = runs[p] + 1
        /\ pc[c] = "voided"
    BY <1>2, <1>7, Commits
  <2>2. c \in V
    BY <2>1 DEF Voiders
  <2>3. W \subseteq V \ {c} /\ W \subseteq Client \ {c}
    <3>1. W \subseteq V /\ c \notin W
      BY <2>1, VoidersShrink DEF FindVoidedRun
    <3> QED BY <3>1 DEF Voiders
  <2>4. /\ IsFiniteSet(V \ {c}) /\ Cardinality(V \ {c}) = Cardinality(V) - 1
        /\ IsFiniteSet(Client \ {c})
        /\ Cardinality(Client \ {c}) = Cardinality(Client) - 1
    BY <1>4, <2>2, ClientAssumption, FS_RemoveElement
  <2>5. Cardinality(W) \in Nat /\ Cardinality(W) <= Cardinality(V) - 1
    BY <1>5, <2>3, <2>4
  <2>6. Cardinality(W) <= Cardinality(Client) - 1
    BY <1>5, <2>3, <2>4
  <2>7. runs[p] \in Nat
    BY <1>2
  <2>8. runs[p] >= 2 => runs[p] + Cardinality(V) <= 1 + Cardinality(Client)
    BY <1>1 DEF RunsBounded
  <2> HIDE DEF V, W
  <2>9. CASE runs[p] >= 2
    <3>1. runs'[p] + Cardinality(W) <= 1 + Cardinality(Client)
      BY <1>2, <1>4, <2>1, <2>5, <2>7, <2>8, <2>9
    <3> QED BY <3>1 DEF W
  <2>10. CASE ~(runs[p] >= 2)
    <3>1. runs'[p] + Cardinality(W) <= 1 + Cardinality(Client)
      BY <1>2, <2>1, <2>5, <2>6, <2>7, <2>10
    <3> QED BY <3>1 DEF W
  <2> QED BY <2>9, <2>10
<1> QED BY <1>6, <1>7

LEMMA TypeStep ==
  ASSUME IInv, NEW c \in Client, Call(c)
  PROVE  TypeOK'
<1>1. TypeOK /\ WorksOnRows
  BY DEF IInv
<1>2. plans' \in Seq(PlanRow) /\ Len(plans') <= MaxPlans
  <2>1. plans' \in Seq(PlanRow) /\ Rows' \subseteq Plan
    BY RowsGrow
  <2>2. Len(plans') \in Nat /\ Rows' = 1 .. Len(plans')
    BY <2>1 DEF Rows
  <2>3. Len(plans') # 0 => Len(plans') \in Plan
    BY <2>1, <2>2
  <2> QED BY <2>1, <2>2, <2>3, MaxPlansAssumption DEF Plan
<1>3. /\ exec' \in [Plan -> {"none", "EXECUTED", "CANCELED"}]
      /\ cash' \in [Plan -> {"none", "POSTED", "VOIDED"}]
  BY <1>1, Commits DEF TypeOK
<1>4. runs' \in [Plan -> 0 .. 1 + Cardinality(Client)]
  <2>1. runs' \in [Plan -> Nat] /\ RunsBounded'
    BY RunsBoundedStep
  <2>2. Cardinality(Client) \in Nat
    BY <1>1, RunsNat
  <2>3. ASSUME NEW p \in Plan
        PROVE  runs'[p] \in 0 .. 1 + Cardinality(Client)
    <3>1. Cardinality(Voiders(p)') \in Nat
      <4>1. Voiders(p)' \subseteq Client
        BY DEF Voiders
      <4> QED BY <4>1, ClientAssumption, FS_Subset, FS_CardinalityType
    <3>2. runs'[p] >= 2 => runs'[p] + Cardinality(Voiders(p)') <= 1 + Cardinality(Client)
      BY <2>1 DEF RunsBounded
    <3>3. runs'[p] \in Nat
      BY <2>1
    <3> QED BY <2>2, <3>1, <3>2, <3>3
  <2> QED BY <2>1, <2>3
<1>5. pc' \in [Client -> PC]
  <2>1. pc' = pc \/ \E l \in PC : pc' = [pc EXCEPT ![c] = l]
    BY DEF PC, Call, ReadRequest, Begin, WriteRequest, ReadCreate, CheckCover,
       InsertPlan, ReadChange, WriteMove, WriteCancel, ReadExecute, Execute, CommitExecute,
       ReadVoid, FindVoidedRun, Void, CommitVoid, FindCopy, WriteCopy, ReadCopy, Abort,
       Goto, End
  <2> QED BY <1>1, <2>1 DEF TypeOK
<1>6. op' \in [Client -> Op]
  <2>1. op' = op \/ \E o \in Op : op' = [op EXCEPT ![c] = o]
    BY DEF Op, Call, ReadRequest, Begin, WriteRequest, ReadCreate, CheckCover,
       InsertPlan, ReadChange, WriteMove, WriteCancel, ReadExecute, Execute, CommitExecute,
       ReadVoid, FindVoidedRun, Void, CommitVoid, FindCopy, WriteCopy, ReadCopy, Abort,
       End, local
  <2> QED BY <1>1, <2>1 DEF TypeOK
<1>7. at' \in [Client -> Nat]
  <2>1. \A p \in Rows : p \in Nat
    BY <1>1, RowsTyped
  <2>2. \A n \in Amount : n \in Nat
    BY AmountAssumption
  <2>3. Len(plans) + 1 \in Nat
    BY <1>1, RowsTyped
  <2>4. at' = at \/ \E n \in Nat : at' = [at EXCEPT ![c] = n]
    BY <2>1, <2>2, <2>3
       DEF Call, ReadRequest, Begin, WriteRequest, ReadCreate, CheckCover,
       InsertPlan, ReadChange, WriteMove, WriteCancel, ReadExecute, Execute, CommitExecute,
       ReadVoid, FindVoidedRun, Void, CommitVoid, FindCopy, WriteCopy, ReadCopy, Abort,
       End, local
  <2> QED BY <1>1, <2>4 DEF TypeOK
<1>8. read' \in [Client -> Amount \cup {0}]
  <2>1. read' = read \/ \E n \in Amount \cup {0} : read' = [read EXCEPT ![c] = n]
    BY <1>1
       DEF TypeOK, Call, ReadRequest, Begin, WriteRequest, ReadCreate, CheckCover,
       InsertPlan, ReadChange, WriteMove, WriteCancel, ReadExecute, Execute, CommitExecute,
       ReadVoid, FindVoidedRun, Void, CommitVoid, FindCopy, WriteCopy, ReadCopy, Abort,
       End, local
  <2> QED BY <1>1, <2>1 DEF TypeOK
<1>9. next' \in [Client -> Status]
  <2>1. AfterExecute(c) \in Status /\ AfterVoid(at[c]) \in Status
    BY DEF AfterExecute, AfterVoid, Status
  <2>2. next' = next \/ \E s \in Status : next' = [next EXCEPT ![c] = s]
    <3>1. "DRAFT" \in Status
      BY DEF Status
    <3> QED BY <2>1, <3>1
       DEF Call, ReadRequest, Begin, WriteRequest, ReadCreate, CheckCover,
       InsertPlan, ReadChange, WriteMove, WriteCancel, ReadExecute, Execute, CommitExecute,
       ReadVoid, FindVoidedRun, Void, CommitVoid, FindCopy, WriteCopy, ReadCopy, Abort,
       End, local
  <2> QED BY <1>1, <2>2 DEF TypeOK
<1>10. known' \in [Client -> BOOLEAN]
  <2>1. known' = known \/ \E b \in BOOLEAN : known' = [known EXCEPT ![c] = b]
    <3>1. HasVoidedRun(at[c]) \in BOOLEAN
      BY DEF HasVoidedRun
    <3> QED BY <3>1
       DEF Call, ReadRequest, Begin, WriteRequest, ReadCreate, CheckCover,
       InsertPlan, ReadChange, WriteMove, WriteCancel, ReadExecute, Execute, CommitExecute,
       ReadVoid, FindVoidedRun, Void, CommitVoid, FindCopy, WriteCopy, ReadCopy, Abort,
       End, local
  <2> QED BY <1>1, <2>1 DEF TypeOK
<1>11. request' \in Status /\ amount' \in Amount /\ approved' \in Amount \cup {0}
  <2>1. CASE WriteRequest(c)
    <3>1. read[c] \in Amount /\ op[c] \in {"update", "submit", "approve", "reject", "drop"}
      BY <1>1, <2>1 DEF WriteRequest, WorksOnRows
    <3>2. op[c] # "update" => To(op[c]) \in Status
      BY <3>1 DEF To, Status
    <3> QED BY <1>1, <2>1, <3>1, <3>2 DEF WriteRequest, TypeOK
  <2>2. CASE CommitExecute(c) \/ CommitVoid(c)
    BY <1>1, <2>2 DEF CommitExecute, CommitVoid, TypeOK
  <2>3. CASE UNCHANGED requestVars
    BY <1>1, <2>3 DEF requestVars, TypeOK
  <2> QED BY <2>1, <2>2, <2>3
       DEF Call, ReadRequest, Begin, ReadCreate, CheckCover,
       InsertPlan, ReadChange, WriteMove, WriteCancel, ReadExecute, Execute,
       ReadVoid, FindVoidedRun, Void, FindCopy, WriteCopy, ReadCopy, Abort
<1> QED
  BY <1>2, <1>3, <1>4, <1>5, <1>6, <1>7, <1>8, <1>9, <1>10, <1>11
     DEF TypeOK, PlanRow, PlanStatus

LEMMA WorksStep ==
  ASSUME IInv, NEW c \in Client, Call(c)
  PROVE  WorksOnRows'
<1>1. TypeOK /\ WorksOnRows /\ RowsLocked
  BY DEF IInv
<1> DEFINE OnRow == {"move", "cancel", "execute", "executed", "void", "voiding",
                     "voided", "replace", "replacing", "reread"}
           Works(d) ==
             /\ pc[d] = "request" => op[d] \in {"update", "submit", "approve", "reject", "drop"}
             /\ pc[d] \in {"request", "create", "insert"} => read[d] \in Amount
             /\ pc[d] \in {"create", "insert"} => at[d] \in Amount
             /\ pc[d] \in OnRow => at[d] \in Rows
             /\ pc[d] = "executed" => exec[at[d]] = "none"
             /\ pc[d] \in {"void", "voiding", "voided", "replace", "replacing"} =>
                  exec[at[d]] # "none"
<1>2. Rows \subseteq Rows' /\ Rows \subseteq Plan
  BY <1>1, RowsGrow, RowsTyped
<1>3. \A p \in Plan : exec[p] # "none" => exec'[p] # "none"
  BY <1>1, Commits DEF TypeOK
<1>4. ASSUME NEW d \in Client \ {c}
      PROVE  Works(d)'
  <2>1. pc'[d] = pc[d] /\ op'[d] = op[d] /\ at'[d] = at[d] /\ read'[d] = read[d]
    BY <1>1, Frame
  <2>2. Works(d)
    BY <1>1 DEF WorksOnRows
  <2>3. pc[d] \in OnRow => at[d] \in Plan
    BY <1>2, <2>2
  <2>4. pc[d] = "executed" => exec'[at[d]] = "none"
    <3> SUFFICES ASSUME pc[d] = "executed", exec'[at[d]] # "none" PROVE FALSE
      OBVIOUS
    <3>1. at[d] \in Plan /\ exec[at[d]] = "none"
      BY <2>2, <2>3
    <3>2. at[c] = at[d] /\ pc[c] \in {"executed", "voided"}
      BY <1>1, <3>1, Commits DEF TypeOK
    <3> QED BY <1>1, <3>2 DEF RowsLocked
  <2> QED BY <1>2, <1>3, <2>1, <2>2, <2>3, <2>4
<1>5. Works(c)'
  <2>1. CASE pc'[c] = "idle"
    BY <2>1
  <2>3. CASE pc[c] = "idle"
    <3>1. CASE ReadRequest(c)
      BY <1>1, <3>1 DEF ReadRequest, Begin, Goto, TypeOK
    <3>2. CASE ReadCreate(c)
      BY <1>1, <3>2 DEF ReadCreate, Begin, Goto, TypeOK
    <3>3. CASE ReadChange(c)
      BY <1>1, <1>2, <3>3 DEF ReadChange, Begin, Goto, TypeOK
    <3>4. CASE ReadExecute(c)
      BY <1>1, <1>2, <3>4 DEF ReadExecute, Begin, Goto, TypeOK
    <3>5. CASE ReadVoid(c)
      BY <1>1, <1>2, <3>5 DEF ReadVoid, Begin, Goto, TypeOK, paid
    <3> QED BY <2>3, <3>1, <3>2, <3>3, <3>4, <3>5, Starts
  <2>4. CASE CheckCover(c)
    BY <1>1, <2>1, <2>4 DEF CheckCover, Goto, End, TypeOK, local, WorksOnRows
  <2>5. CASE Execute(c)
    BY <1>1, <1>2, <2>1, <2>5 DEF Execute, Goto, End, TypeOK, WorksOnRows, paid
  <2>6. CASE FindVoidedRun(c) \/ Void(c)
    BY <1>1, <1>2, <2>6 DEF FindVoidedRun, Void, Goto, TypeOK, WorksOnRows, paid
  <2>7. CASE CommitVoid(c)
    <3>1. at[c] \in Rows /\ at[c] \in Plan
      BY <1>1, <1>2, <2>7 DEF CommitVoid, WorksOnRows
    <3>2. exec'[at[c]] = "CANCELED"
      BY <1>1, <2>7, <3>1 DEF CommitVoid, TypeOK
    <3>3. pc'[c] = "idle" \/ (pc'[c] = "replace" /\ at'[c] = at[c])
      BY <1>1, <2>7 DEF CommitVoid, Goto, End, TypeOK, local
    <3> QED BY <1>2, <2>1, <3>1, <3>2, <3>3
  <2>8. CASE FindCopy(c)
    BY <1>1, <1>2, <2>1, <2>8 DEF FindCopy, Goto, End, TypeOK, WorksOnRows, paid, local
  <2>9. CASE WriteCopy(c)
    <3>1. Len(plans) + 1 \in Rows'
      BY <2>9, Replaces
    <3> QED BY <1>1, <2>9, <3>1 DEF WriteCopy, Goto, TypeOK
  <2>10. CASE ReadCopy(c)
    BY <1>1, <1>2, <2>1, <2>10 DEF ReadCopy, Goto, End, TypeOK, WorksOnRows, paid
  <2>11. \/ pc'[c] = "idle" \/ pc[c] = "idle" \/ CheckCover(c) \/ Execute(c)
         \/ FindVoidedRun(c) \/ Void(c) \/ CommitVoid(c) \/ FindCopy(c) \/ WriteCopy(c)
         \/ ReadCopy(c)
    <3>0. pc \in [Client -> PC]
      BY <1>1 DEF TypeOK
    <3>1. CASE ReadRequest(c) \/ ReadCreate(c) \/ ReadChange(c) \/ ReadExecute(c) \/ ReadVoid(c)
      BY <3>1 DEF ReadRequest, ReadCreate, ReadChange, ReadExecute, ReadVoid, Begin
    <3>2. CASE \/ WriteRequest(c) \/ InsertPlan(c) \/ WriteMove(c) \/ WriteCancel(c)
               \/ CommitExecute(c) \/ Abort(c)
      BY <3>0, <3>2 DEF WriteRequest, InsertPlan, WriteMove, WriteCancel, CommitExecute, Abort,
         Goto, End
    <3> QED BY <3>1, <3>2 DEF Call
  <2> QED BY <2>1, <2>3, <2>4, <2>5, <2>6, <2>7, <2>8, <2>9, <2>10, <2>11
<1> QED BY <1>4, <1>5 DEF WorksOnRows

LEMMA LockedStep ==
  ASSUME IInv, NEW c \in Client, Call(c)
  PROVE  RowsLocked'
<1>1. TypeOK /\ RowsLocked
  BY DEF IInv
<1> DEFINE Open(d) == pc[d] \in {"executed", "voided"}
<1>2. \A d \in Client \ {c} : pc'[d] = pc[d] /\ at'[d] = at[d]
  BY <1>1, Frame
<1>3. Open(c)' => at'[c] = at[c] /\ ~Locked(c, at[c])
  <2>0. pc \in [Client -> PC]
    BY <1>1 DEF TypeOK
  <2>1. CASE Execute(c) \/ Void(c)
    BY <2>0, <2>1 DEF Execute, Void, Goto, End, local
  <2>2. CASE ReadRequest(c) \/ ReadCreate(c) \/ ReadChange(c) \/ ReadExecute(c) \/ ReadVoid(c)
    BY <2>0, <2>2 DEF ReadRequest, ReadCreate, ReadChange, ReadExecute, ReadVoid, Begin, Goto
  <2>3. CASE WriteRequest(c) \/ CheckCover(c) \/ InsertPlan(c) \/ WriteMove(c) \/ WriteCancel(c)
    BY <2>0, <2>3 DEF WriteRequest, CheckCover, InsertPlan, WriteMove, WriteCancel, Goto, End
  <2>4. CASE CommitExecute(c) \/ FindVoidedRun(c) \/ CommitVoid(c)
    BY <2>0, <2>4 DEF CommitExecute, FindVoidedRun, CommitVoid, Goto, End
  <2>5. CASE FindCopy(c) \/ WriteCopy(c) \/ ReadCopy(c) \/ Abort(c)
    BY <2>0, <2>5 DEF FindCopy, WriteCopy, ReadCopy, Abort, Goto, End
  <2> QED BY <2>1, <2>2, <2>3, <2>4, <2>5 DEF Call
<1>4. Open(c)' => \A d \in Client \ {c} : ~(Open(d) /\ at[d] = at[c])
  BY <1>3 DEF Locked
<1> QED BY <1>1, <1>2, <1>3, <1>4 DEF RowsLocked

----------------------------------------------------------------------------
(* The money follows the executions *)

LEMMA OrderStep ==
  ASSUME IInv, NEW c \in Client, Call(c)
  PROVE  RowsInOrder'
<1>1. TypeOK /\ RowsInOrder /\ Rows = 1 .. Len(plans) /\ Len(plans) \in Nat
  BY RowsTyped DEF IInv
<1>2. \A p \in Rows' : plans'[p].from < p
  <2>1. CASE InsertPlan(c)
    <3>1. PICK N \in Plan \ Rows :
            /\ N = Len(plans) + 1 /\ Rows' = Rows \cup {N}
            /\ \A q \in Rows : plans'[q] = plans[q]
            /\ plans'[N].from = 0
      BY <2>1, Inserts
    <3> QED BY <1>1, <3>1 DEF RowsInOrder
  <2>2. CASE WriteMove(c) \/ WriteCopy(c)
    <3>1. PICK N \in Plan \ Rows :
            /\ N = Len(plans) + 1 /\ Rows' = Rows \cup {N}
            /\ \A q \in Rows : plans'[q].from = plans[q].from
            /\ plans'[N].from = at[c] /\ at[c] \in Rows
      BY <2>2, Replaces
    <3>2. at[c] < N
      BY <1>1, <3>1
    <3> QED BY <1>1, <3>1, <3>2 DEF RowsInOrder
  <2>3. CASE Rows' = Rows
    <3>1. \A q \in Rows : plans'[q].from = plans[q].from
      BY RowsGrow
    <3> QED BY <1>1, <2>3, <3>1 DEF RowsInOrder
  <2> QED BY <2>1, <2>2, <2>3, Marks, Calm DEF Rows
<1>3. \A p \in Plan : exec'[p] # "none" => p \in Rows'
  <2>1. Rows \subseteq Rows' /\ DOMAIN exec = Plan
    BY <1>1, RowsGrow DEF TypeOK
  <2> QED BY <1>1, <2>1, Commits DEF RowsInOrder
<1>4. \A p \in Plan : (runs'[p] = 0) <=> (exec'[p] = "none")
  <2>1. runs \in [Plan -> Nat] /\ DOMAIN exec = Plan
    BY <1>1, RunsNat DEF TypeOK
  <2> QED BY <1>1, <2>1, Commits DEF RowsInOrder
<1> QED BY <1>2, <1>3, <1>4 DEF RowsInOrder

LEMMA RunsFollowStep ==
  ASSUME IInv, NEW c \in Client, Call(c)
  PROVE  RunsFollow'
<1> SUFFICES ASSUME "voids" \notin history' PROVE RunsFollow'
  BY DEF RunsFollow
<1>1. TypeOK /\ WorksOnRows /\ RowsInOrder /\ Rows \subseteq Plan
  BY RowsTyped DEF IInv
<1> DEFINE Void2(d) == pc[d] \in {"voiding", "voided"}
<1>2. /\ \A p \in Plan : /\ (exec[p] = "EXECUTED") <=> (runs[p] = 1)
                         /\ (exec[p] = "CANCELED") <=> (runs[p] = 2)
      /\ \A d \in Client : Void2(d) => known[d] = HasVoidedRun(at[d])
      /\ \A d, e \in Client : Void2(d) /\ Void2(e) /\ at[d] = at[e] => d = e
  <2>1. "voids" \notin history
    BY HistoryGrows
  <2> QED BY <2>1 DEF IInv, RunsFollow
<1>3. \A d \in Client : Void2(d) => at[d] \in Plan /\ exec[at[d]] # "none"
  BY <1>1 DEF WorksOnRows
<1>4. /\ runs \in [Plan -> Nat] /\ exec \in [Plan -> {"none", "EXECUTED", "CANCELED"}]
      /\ \A p \in Plan : (runs[p] = 0) <=> (exec[p] = "none")
  BY <1>1, RunsNat DEF TypeOK, RowsInOrder
<1>5. \A p \in Plan : /\ (exec'[p] = "EXECUTED") <=> (runs'[p] = 1)
                      /\ (exec'[p] = "CANCELED") <=> (runs'[p] = 2)
  <2>1. CASE exec' = exec /\ runs' = runs
    BY <1>2, <2>1
  <2>2. CASE CommitExecute(c)
    BY <1>2, <1>4, <2>2, Commits DEF CommitVoid, CommitExecute
  <2>3. CASE CommitVoid(c)
    <3> DEFINE p == at[c]
    <3>1. /\ p \in Plan /\ exec[p] # "none" /\ pc[c] = "voided"
          /\ exec' = [exec EXCEPT ![p] = "CANCELED"]
          /\ runs' = IF known[c] THEN runs ELSE [runs EXCEPT ![p] = runs[p] + 1]
      BY <2>3, Commits DEF CommitVoid, CommitExecute
    <3>2. known[c] = (runs[p] >= 2)
      BY <1>2, <3>1 DEF HasVoidedRun
    <3>3. runs[p] \in {1, 2}
      BY <1>2, <1>4, <3>1
    <3> HIDE DEF p
    <3>4. CASE runs[p] = 1
      <4>1. ~(runs[p] >= 2)
        BY <3>4
      <4>2. ~known[c]
        BY <3>2, <4>1
      <4>3. runs' = [runs EXCEPT ![p] = 2]
        BY <3>1, <3>4, <4>2
      <4> QED BY <1>2, <1>4, <3>1, <4>3
    <3>5. CASE runs[p] = 2
      <4>1. runs[p] >= 2
        BY <3>5
      <4>2. known[c]
        BY <3>2, <4>1
      <4>3. runs' = runs
        BY <3>1, <4>2
      <4> QED BY <1>2, <1>4, <3>1, <3>5, <4>3
    <3> QED BY <3>3, <3>4, <3>5
  <2> QED BY <2>1, <2>2, <2>3, Commits
<1>6. Void2(c)' => /\ at'[c] = at[c]
                   /\ \/ Void(c) /\ Void2(c) /\ known'[c] = known[c]
                      \/ FindVoidedRun(c) /\ known'[c] = HasVoidedRun(at[c])
  <2>1. Void2(c)' => Void(c) \/ FindVoidedRun(c)
    <3> USE DEF Goto, End
    <3>0. pc \in [Client -> PC]
      BY <1>1 DEF TypeOK
    <3>1. CASE ReadRequest(c) \/ ReadCreate(c) \/ ReadChange(c) \/ ReadExecute(c) \/ ReadVoid(c)
      BY <3>0, <3>1 DEF ReadRequest, ReadCreate, ReadChange, ReadExecute, ReadVoid, Begin
    <3>2. CASE WriteRequest(c) \/ CheckCover(c) \/ InsertPlan(c) \/ WriteMove(c) \/ WriteCancel(c)
      BY <3>0, <3>2 DEF WriteRequest, CheckCover, InsertPlan, WriteMove, WriteCancel
    <3>3. CASE Execute(c) \/ CommitExecute(c) \/ CommitVoid(c)
      BY <3>0, <3>3 DEF Execute, CommitExecute, CommitVoid
    <3>4. CASE FindCopy(c) \/ WriteCopy(c) \/ ReadCopy(c) \/ Abort(c)
      BY <3>0, <3>4 DEF FindCopy, WriteCopy, ReadCopy, Abort
    <3> QED BY <3>1, <3>2, <3>3, <3>4 DEF Call
  <2>2. CASE Void(c)
    BY <2>2 DEF Void
  <2>3. CASE FindVoidedRun(c)
    <3>1. known \in [Client -> BOOLEAN]
      BY <1>1 DEF TypeOK
    <3>2. known'[c] = HasVoidedRun(at[c]) /\ at' = at
      BY <2>3, <3>1 DEF FindVoidedRun
    <3> QED BY <2>3, <3>2
  <2> QED BY <2>1, <2>2, <2>3
<1>7. \A d \in Client \ {c} : pc'[d] = pc[d] /\ at'[d] = at[d] /\ known'[d] = known[d]
  BY <1>1, Frame
<1>8. \A d \in Client \ {c} : Void2(d) /\ at[d] = at[c] => ~Void2(c)'
  <2> SUFFICES ASSUME NEW d \in Client \ {c}, Void2(d), at[d] = at[c], Void2(c)'
               PROVE  FALSE
    OBVIOUS
  <2>1. CASE Void(c)
    BY <1>2, <1>6, <2>1 DEF Void
  <2>2. CASE FindVoidedRun(c)
    <3>1. Note({"voids"})
      BY <2>2 DEF FindVoidedRun
    <3> QED BY <3>1, NoteKeeps
  <2> QED BY <1>6, <2>1, <2>2
<1>9. \A d, e \in Client : Void2(d)' /\ Void2(e)' /\ at'[d] = at'[e] => d = e
  BY <1>2, <1>6, <1>7, <1>8
<1>10. ASSUME NEW d \in Client, Void2(d)'
       PROVE  known'[d] = HasVoidedRun(at[d])' /\ at'[d] = at[d]
  <2>1. CASE d = c
    <3>1. runs' = runs /\ at'[c] = at[c]
      BY <1>6, <1>10, <2>1, Calm
         DEF Void, FindVoidedRun, InsertPlan, WriteMove, WriteCopy, WriteCancel,
             CommitExecute, CommitVoid, paid
    <3> QED BY <1>2, <1>6, <1>10, <2>1, <3>1 DEF HasVoidedRun
  <2>2. CASE d # c
    <3>1. Void2(d) /\ known'[d] = known[d] /\ at'[d] = at[d]
      BY <1>7, <1>10, <2>2
    <3>2. known[d] = HasVoidedRun(at[d]) /\ at[d] \in Plan /\ exec[at[d]] # "none"
      BY <1>2, <1>3, <3>1
    <3>3. runs'[at[d]] = runs[at[d]]
      <4> SUFFICES ASSUME runs'[at[d]] # runs[at[d]] PROVE FALSE
        OBVIOUS
      <4>1. at[c] = at[d] /\ \/ pc[c] = "voided"
                             \/ pc[c] = "executed" /\ exec[at[c]] = "none"
        BY <1>4, <3>2, Commits
      <4> QED BY <1>2, <2>2, <3>1, <3>2, <4>1
    <3> QED BY <3>1, <3>2, <3>3 DEF HasVoidedRun
  <2> QED BY <2>1, <2>2
<1> QED BY <1>5, <1>9, <1>10 DEF RunsFollow

LEMMA MoneyStep ==
  ASSUME IInv, NEW c \in Client, Call(c)
  PROVE  MoneyFollowsExecution'
<1>1. TypeOK /\ MoneyFollowsExecution
  BY DEF IInv
<1>2. \A p \in Plan : (exec'[p] = "EXECUTED") <=> (cash'[p] = "POSTED")
  <2>1. \A p \in Plan : (exec[p] = "EXECUTED") <=> (cash[p] = "POSTED")
    BY <1>1 DEF MoneyFollowsExecution
  <2>2. DOMAIN exec = Plan /\ DOMAIN cash = Plan
    BY <1>1 DEF TypeOK
  <2> QED BY <2>1, <2>2, Commits
<1>3. ASSUME "voids" \notin history', NEW p \in Plan
      PROVE  (exec'[p] = "EXECUTED") <=> Standing(p)'
  <2>1. /\ exec'[p] \in {"none", "EXECUTED", "CANCELED"}
        /\ (runs'[p] = 0) <=> (exec'[p] = "none")
        /\ (exec'[p] = "EXECUTED") <=> (runs'[p] = 1)
        /\ (exec'[p] = "CANCELED") <=> (runs'[p] = 2)
    BY <1>3, TypeStep, OrderStep, RunsFollowStep DEF TypeOK, RowsInOrder, RunsFollow
  <2>2. runs'[p] \in {0, 1, 2}
    BY <2>1
  <2>3. 0 % 2 = 0 /\ 1 % 2 = 1 /\ 2 % 2 = 0
    OBVIOUS
  <2>4. (runs'[p] % 2 = 1) <=> (runs'[p] = 1)
    BY <2>2, <2>3
  <2> QED BY <2>1, <2>4 DEF Standing
<1> QED BY <1>2, <1>3 DEF MoneyFollowsExecution

----------------------------------------------------------------------------
(* Where a plan comes from: Origin is defined by recursion along movedFrom-   *)
(* PlanId, which always names an earlier row                                  *)

Earlier(s) == \A p \in DOMAIN s : p \in Nat /\ (s[p].from = 0 \/ (s[p].from \in DOMAIN s /\ s[p].from < p))

Roots(s, f) == f = [p \in DOMAIN s |-> IF s[p].from = 0 THEN p ELSE f[s[p].from]]

LEMMA RootsAgree ==
  ASSUME NEW s, NEW t, Earlier(s), DOMAIN s \subseteq DOMAIN t,
         \A p \in DOMAIN s : t[p].from = s[p].from,
         NEW f, Roots(s, f), NEW g, Roots(t, g)
  PROVE  \A p \in DOMAIN s : g[p] = f[p]
<1> DEFINE T == {p \in DOMAIN s : g[p] # f[p]}
<1> SUFFICES ASSUME T # {} PROVE FALSE
  OBVIOUS
<1>1. T \subseteq Nat
  BY DEF Earlier
<1>2. PICK x \in T : \A y \in T : ~(y < x)
  BY <1>1, SmallestNumber
<1>3. /\ x \in DOMAIN s /\ g[x] # f[x]
      /\ f[x] = IF s[x].from = 0 THEN x ELSE f[s[x].from]
      /\ g[x] = IF t[x].from = 0 THEN x ELSE g[t[x].from]
  BY <1>2 DEF Roots
<1>4. s[x].from # 0 /\ t[x].from = s[x].from
  BY <1>3
<1>5. s[x].from \in DOMAIN s /\ s[x].from < x
  BY <1>3, <1>4 DEF Earlier
<1>6. s[x].from \in T
  BY <1>3, <1>4, <1>5
<1> QED BY <1>2, <1>5, <1>6

LEMMA RootsWithin ==
  ASSUME NEW s, Earlier(s), NEW f, Roots(s, f)
  PROVE  \A p \in DOMAIN s : f[p] \in DOMAIN s
<1> DEFINE T == {p \in DOMAIN s : f[p] \notin DOMAIN s}
<1> SUFFICES ASSUME T # {} PROVE FALSE
  OBVIOUS
<1>1. T \subseteq Nat
  BY DEF Earlier
<1>2. PICK x \in T : \A y \in T : ~(y < x)
  BY <1>1, SmallestNumber
<1>3. /\ x \in DOMAIN s /\ f[x] \notin DOMAIN s
      /\ f[x] = IF s[x].from = 0 THEN x ELSE f[s[x].from]
  BY <1>2 DEF Roots
<1>4. s[x].from # 0
  BY <1>3
<1>5. s[x].from \in DOMAIN s /\ s[x].from < x
  BY <1>3, <1>4 DEF Earlier
<1>6. s[x].from \in T
  BY <1>3, <1>4, <1>5
<1> QED BY <1>2, <1>5, <1>6

LEMMA RootsExtend ==
  ASSUME NEW s, NEW t, Earlier(s), NEW N, N \notin DOMAIN s,
         DOMAIN t = DOMAIN s \cup {N},
         \A p \in DOMAIN s : t[p].from = s[p].from,
         t[N].from = 0 \/ t[N].from \in DOMAIN s,
         NEW f, Roots(s, f)
  PROVE  \E g : Roots(t, g)
<1> DEFINE new == IF t[N].from = 0 THEN N ELSE f[t[N].from]
           g == [p \in DOMAIN t |-> IF p = N THEN new ELSE f[p]]
           h == [p \in DOMAIN t |-> IF t[p].from = 0 THEN p ELSE g[t[p].from]]
<1>1. g[N] = new /\ \A p \in DOMAIN s : g[p] = f[p]
  OBVIOUS
<1>2. \A p \in DOMAIN s : f[p] = IF s[p].from = 0 THEN p ELSE f[s[p].from]
  BY DEF Roots
<1>3. \A p \in DOMAIN t : g[p] = h[p]
  <2> SUFFICES ASSUME NEW p \in DOMAIN t PROVE g[p] = h[p]
    OBVIOUS
  <2>1. h[p] = IF t[p].from = 0 THEN p ELSE g[t[p].from]
    OBVIOUS
  <2> HIDE DEF g, h
  <2>2. CASE p = N
    <3>1. t[N].from # 0 => g[t[N].from] = f[t[N].from]
      BY <1>1
    <3> QED BY <1>1, <2>1, <2>2, <3>1
  <2>3. CASE p # N
    <3>1. p \in DOMAIN s
      BY <2>3
    <3>2. s[p].from # 0 => s[p].from \in DOMAIN s
      BY <3>1 DEF Earlier
    <3> QED BY <1>1, <1>2, <2>1, <3>1, <3>2
  <2> QED BY <2>2, <2>3
<1>4. g = h
  <2>1. DOMAIN g = DOMAIN t /\ DOMAIN h = DOMAIN t
    OBVIOUS
  <2> QED BY <1>3, <2>1
<1> QED BY <1>4 DEF Roots

LEMMA OriginIs ==
  /\ \A f : Roots(plans, f) => Roots(plans, Origin)
  /\ OriginUnfolds <=> Roots(plans, Origin)
<1>1. OriginUnfolds <=> Roots(plans, Origin)
  BY DEF OriginUnfolds, Roots, Rows
<1>2. ASSUME NEW f, Roots(plans, f)
      PROVE  Roots(plans, Origin)
  BY <1>2 DEF Roots, Origin, Rows
<1> QED BY <1>1, <1>2

LEMMA RowsEarlier ==
  ASSUME TypeOK, RowsInOrder
  PROVE  Earlier(plans)
<1>1. /\ Rows = 1 .. Len(plans) /\ Len(plans) \in Nat
      /\ \A p \in Rows : plans[p].from \in 0 .. MaxPlans /\ plans[p].from < p
  BY RowsTyped DEF RowsInOrder
<1> SUFFICES ASSUME NEW p \in Rows
             PROVE  p \in Nat /\ (plans[p].from = 0 \/ (plans[p].from \in Rows /\ plans[p].from < p))
  BY DEF Earlier, Rows
<1>2. plans[p].from \in Nat /\ plans[p].from < p /\ p \in 1 .. Len(plans)
  BY <1>1, MaxPlansAssumption
<1> QED BY <1>1, <1>2

LEMMA OriginStep ==
  ASSUME IInv, NEW c \in Client, Call(c)
  PROVE  /\ OriginUnfolds' /\ \A p \in Rows : Origin'[p] = Origin[p] /\ Origin[p] \in Rows
         /\ \A p \in Rows' : Origin'[p] = IF plans'[p].from = 0 THEN p ELSE Origin'[plans'[p].from]
<1>1. TypeOK /\ Earlier(plans) /\ Roots(plans, Origin)
  BY RowsEarlier, OriginIs DEF IInv
<1>2. \A p \in Rows : plans'[p].from = plans[p].from
  BY RowsGrow
<1>3. \E g : Roots(plans', g)
  <2>1. CASE Rows' = Rows
    <3>1. DOMAIN plans' = DOMAIN plans
      BY <2>1 DEF Rows
    <3>2. Roots(plans', Origin)
      <4>1. [p \in DOMAIN plans' |-> IF plans'[p].from = 0 THEN p ELSE Origin[plans'[p].from]]
              = [p \in DOMAIN plans |-> IF plans[p].from = 0 THEN p ELSE Origin[plans[p].from]]
        BY <1>2, <3>1 DEF Rows
      <4> QED BY <1>1, <4>1 DEF Roots
    <3> QED BY <3>2
  <2>2. CASE \E N \in Plan \ Rows : /\ Rows' = Rows \cup {N}
                                    /\ plans'[N].from = 0 \/ plans'[N].from \in Rows
    <3>1. PICK N \in Plan \ Rows : /\ Rows' = Rows \cup {N}
                                   /\ plans'[N].from = 0 \/ plans'[N].from \in Rows
      BY <2>2
    <3>2. /\ N \notin DOMAIN plans /\ DOMAIN plans' = DOMAIN plans \cup {N}
          /\ \A p \in DOMAIN plans : plans'[p].from = plans[p].from
          /\ plans'[N].from = 0 \/ plans'[N].from \in DOMAIN plans
      BY <1>2, <3>1 DEF Rows
    <3> DEFINE s == plans
               t == plans'
               o == Origin
    <3>3. Earlier(s) /\ Roots(s, o)
      BY <1>1
    <3> HIDE DEF s, t, o
    <3>4. \E g : Roots(t, g)
      BY <3>2, <3>3, RootsExtend DEF s, t
    <3> QED BY <3>4 DEF t
  <2>3. InsertPlan(c) => \E N \in Plan \ Rows : /\ Rows' = Rows \cup {N}
                                                /\ plans'[N].from = 0
    BY Inserts
  <2>4. WriteMove(c) \/ WriteCopy(c) =>
          \E N \in Plan \ Rows : /\ Rows' = Rows \cup {N} /\ plans'[N].from \in Rows
    BY Replaces
  <2> QED BY <2>1, <2>2, <2>3, <2>4, Marks, Calm DEF Rows
<1>4. Roots(plans', Origin')
  <2>1. (\A f : Roots(plans, f) => Roots(plans, Origin))'
    BY OriginIs, PTL
  <2> QED BY <1>3, <2>1
<1>5. OriginUnfolds'
  <2>1. (OriginUnfolds <=> Roots(plans, Origin))'
    BY OriginIs, PTL
  <2> QED BY <1>4, <2>1
<1>6. \A p \in Rows : Origin'[p] = Origin[p]
  <2> DEFINE s == plans
             t == plans'
             f == Origin
             g == Origin'
  <2>1. /\ Earlier(s) /\ DOMAIN s \subseteq DOMAIN t /\ Roots(s, f) /\ Roots(t, g)
        /\ \A p \in DOMAIN s : t[p].from = s[p].from
    BY <1>1, <1>2, <1>4, RowsGrow DEF Rows
  <2> HIDE DEF s, t, f, g
  <2>2. \A p \in DOMAIN s : g[p] = f[p]
    BY <2>1, RootsAgree
  <2> QED BY <2>2 DEF s, f, g, Rows
<1>7. \A p \in Rows : Origin[p] \in Rows
  <2> DEFINE s == plans
             f == Origin
  <2>1. Earlier(s) /\ Roots(s, f)
    BY <1>1
  <2> HIDE DEF s, f
  <2>2. \A p \in DOMAIN s : f[p] \in DOMAIN s
    BY <2>1, RootsWithin
  <2> QED BY <2>2 DEF s, f, Rows
<1>8. \A p \in Rows' : Origin'[p] = IF plans'[p].from = 0 THEN p ELSE Origin'[plans'[p].from]
  BY <1>4 DEF Roots, Rows
<1> QED BY <1>5, <1>6, <1>7, <1>8

----------------------------------------------------------------------------
(* One call after the other: the rows, their copies and their executions *)

\* What holds of the rows then, without the condition
LEMMA SerialRows ==
  ASSUME IInv, Serial
  PROVE  /\ \A p \in Rows :
              /\ (plans[p].status = "EXECUTED") <=> (exec[p] = "EXECUTED")
              /\ plans[p].status = "PLANNED" => exec[p] = "none"
              /\ plans[p].status \in {"PLANNED", "EXECUTED"} => Copies(p) = {}
              /\ plans[p].status = "MOVED" => Copies(p) # {}
         /\ \A p \in Plan \ Rows : exec[p] = "none"
         /\ \A p \in Rows : exec[p] \in {"none", "EXECUTED", "CANCELED"}
         /\ Rows \subseteq Plan
<1>1. TypeOK /\ Rows \subseteq Plan
  BY RowsTyped DEF IInv
<1>2. \A p \in Plan \ Rows : exec[p] = "none"
  BY DEF IInv, RowsInOrder
<1>3. \A p \in Rows : exec[p] \in {"none", "EXECUTED", "CANCELED"}
  BY <1>1 DEF TypeOK
<1>4. \A p \in Rows : (plans[p].status = "EXECUTED") <=> (exec[p] = "EXECUTED")
  BY DEF IInv, PlanFollowsExecution, Live
<1>5. \A p \in Rows :
        /\ plans[p].status = "PLANNED" => exec[p] = "none"
        /\ plans[p].status \in {"PLANNED", "EXECUTED"} => Copies(p) = {}
        /\ plans[p].status = "MOVED" => Copies(p) # {}
  BY DEF IInv, CopiesFollow
<1> QED BY <1>1, <1>2, <1>3, <1>4, <1>5

\* What a call that is about to write has read
LEMMA SerialReads ==
  ASSUME IInv, NEW c \in Client, Serial
  PROVE  /\ pc[c] = "request" =>
              request \in From(op[c]) /\ (op[c] # "update" => read[c] = amount)
         /\ pc[c] \in {"create", "insert"} => request \in Payable /\ read[c] = amount
         /\ pc[c] = "insert" => Planned + at[c] <= amount
         /\ pc[c] \in {"move", "cancel"} => Changeable(at[c])
         /\ pc[c] \in {"execute", "executed"} => Executable(at[c]) /\ read[c] = amount
         /\ pc[c] = "executed" => next[c] = AfterExecute(c)
         /\ pc[c] = "voided" => next[c] = AfterVoid(at[c])
         /\ pc[c] \in {"replace", "replacing"} => exec[at[c]] = "CANCELED" /\ op[c] = "repost"
         /\ pc[c] = "replacing" => "unfinished" \in history \/ Copies(at[c]) = {}
         /\ pc[c] = "reread" =>
              Changeable(at[c]) /\ exec[at[c]] = "none" /\ op[c] = "repost"
BY DEF IInv, StillHolds

LEMMA CopiesStep ==
  ASSUME IInv, NEW c \in Client, Call(c)
  PROVE  /\ \A p \in Rows : p # at[c] \/ ~(WriteMove(c) \/ WriteCopy(c)) => Copies(p)' = Copies(p)
         /\ \A p \in Rows : p = at[c] /\ (WriteMove(c) \/ WriteCopy(c)) =>
                            Copies(p)' = Copies(p) \cup {Len(plans) + 1}
         /\ \A p \in Rows' \ Rows : Copies(p)' = {}
<1>1. TypeOK /\ RowsInOrder /\ Rows = 1 .. Len(plans) /\ Len(plans) \in Nat
  BY RowsTyped DEF IInv
<1>2. \A q \in Rows : plans'[q].from = plans[q].from /\ plans[q].from < q
                      /\ plans[q].from \in Int
  BY <1>1, RowsGrow, RowsTyped DEF RowsInOrder
<1>3. CASE InsertPlan(c)
  <2>1. PICK N \in Plan \ Rows :
          N = Len(plans) + 1 /\ Rows' = Rows \cup {N} /\ plans'[N].from = 0
    BY <1>3, Inserts
  <2>2. \A q \in Rows : plans[q].from # N /\ q # 0
    BY <1>1, <1>2, <2>1
  <2>3. ~WriteMove(c) /\ ~WriteCopy(c)
    BY <1>3 DEF InsertPlan, WriteMove, WriteCopy
  <2>4. \A p \in Rows : Copies(p)' = Copies(p)
    BY <1>2, <2>1, <2>2 DEF Copies
  <2>5. Copies(N)' = {}
    BY <1>2, <2>1, <2>2 DEF Copies, Plan
  <2> QED BY <2>1, <2>3, <2>4, <2>5
<1>4. CASE WriteMove(c) \/ WriteCopy(c)
  <2>1. PICK N \in Plan \ Rows :
          N = Len(plans) + 1 /\ Rows' = Rows \cup {N} /\ plans'[N].from = at[c]
          /\ at[c] \in Rows
    BY <1>4, Replaces
  <2>2. \A q \in Rows : plans[q].from # N
    BY <1>1, <1>2, <2>1
  <2>3. \A p \in Rows \ {at[c]} : Copies(p)' = Copies(p)
    BY <1>2, <2>1, <2>2 DEF Copies
  <2>4. \A p \in Rows : p = at[c] => Copies(p)' = Copies(p) \cup {N}
    BY <1>2, <2>1 DEF Copies
  <2>5. Copies(N)' = {}
    BY <1>2, <2>1, <2>2 DEF Copies
  <2> QED BY <1>4, <2>1, <2>3, <2>4, <2>5
<1>5. CASE Rows' = Rows
  <2>1. ~WriteMove(c) /\ ~WriteCopy(c)
    BY <1>5, Replaces
  <2> QED BY <1>2, <1>5, <2>1 DEF Copies
<1> QED BY <1>3, <1>4, <1>5, Marks, Calm DEF Rows

\* What the writers find
LEMMA WritersFind ==
  ASSUME IInv, NEW c \in Client, Serial
  PROVE  /\ WriteMove(c) \/ WriteCancel(c) =>
              /\ plans[at[c]].status = "PLANNED" /\ exec[at[c]] = "none"
              /\ Copies(at[c]) = {} /\ at[c] \in Rows
         /\ CommitExecute(c) =>
              /\ plans[at[c]].status = "PLANNED" /\ exec[at[c]] = "none"
              /\ Copies(at[c]) = {} /\ at[c] \in Rows /\ request \in Payable
         /\ WriteCopy(c) => exec[at[c]] = "CANCELED" /\ op[c] = "repost" /\ at[c] \in Rows
         /\ CommitVoid(c) => exec[at[c]] # "none" /\ at[c] \in Rows
<1>1. WorksOnRows
  BY DEF IInv
<1>2. WriteMove(c) \/ WriteCancel(c) => at[c] \in Rows /\ plans[at[c]].status = "PLANNED"
  BY <1>1, SerialReads DEF WriteMove, WriteCancel, Changeable, WorksOnRows
<1>3. CommitExecute(c) => /\ at[c] \in Rows /\ plans[at[c]].status = "PLANNED"
                          /\ request \in Payable
  BY <1>1, SerialReads DEF CommitExecute, Executable, WorksOnRows
<1>4. WriteCopy(c) => exec[at[c]] = "CANCELED" /\ op[c] = "repost" /\ at[c] \in Rows
  BY <1>1, SerialReads DEF WriteCopy, WorksOnRows
<1>5. CommitVoid(c) => exec[at[c]] # "none" /\ at[c] \in Rows
  BY <1>1 DEF CommitVoid, WorksOnRows
<1> QED BY <1>2, <1>3, <1>4, <1>5, SerialRows

LEMMA RowsStep ==
  ASSUME IInv, NEW c \in Client, Call(c)
  PROVE  PlanFollowsExecution' /\ CopiesFollow'
<1> DEFINE Good(p) ==
             /\ (plans[p].status = "EXECUTED") <=> (exec[p] = "EXECUTED")
             /\ plans[p].status = "PLANNED" => exec[p] = "none"
             /\ plans[p].status \in {"PLANNED", "EXECUTED"} => Copies(p) = {}
             /\ plans[p].status = "MOVED" => Copies(p) # {}
<1> SUFFICES ASSUME Serial' PROVE \A p \in Rows' : Good(p)'
  BY DEF PlanFollowsExecution, CopiesFollow, Live
<1>1. /\ \A p \in Rows : Good(p)
      /\ \A p \in Plan \ Rows : exec[p] = "none"
      /\ Rows \subseteq Plan /\ Serial
  BY SerialStep, SerialRows
<1>2. exec \in [Plan -> {"none", "EXECUTED", "CANCELED"}]
  BY DEF IInv, TypeOK
<1>3. CASE InsertPlan(c)
  <2>1. PICK N \in Plan \ Rows :
          /\ Rows' = Rows \cup {N} /\ \A q \in Rows : plans'[q] = plans[q]
          /\ plans'[N].status = "PLANNED"
    BY <1>3, Inserts
  <2>2. exec' = exec /\ ~WriteMove(c) /\ ~WriteCopy(c)
    BY <1>3 DEF InsertPlan, paid, WriteMove, WriteCopy
  <2>3. (\A q \in Rows : Copies(q)' = Copies(q)) /\ Copies(N)' = {}
    BY <2>1, <2>2, CopiesStep
  <2> QED BY <1>1, <2>1, <2>2, <2>3
<1>4. CASE WriteMove(c) \/ WriteCopy(c)
  <2> PICK p \in Rows : p = at[c]
    BY <1>4, Replaces
  <2>1. PICK N \in Plan \ Rows :
          /\ Rows' = Rows \cup {N} /\ \A q \in Rows \ {p} : plans'[q] = plans[q]
          /\ plans'[p].status = "MOVED" /\ p \in Rows
          /\ plans'[N].status = "PLANNED"
    BY <1>4, Replaces
  <2>2. exec' = exec
    BY <1>4 DEF WriteMove, WriteCopy, paid
  <2>3. /\ \A q \in Rows \ {p} : Copies(q)' = Copies(q)
        /\ Copies(N)' = {} /\ Copies(p)' # {}
    BY <1>4, <2>1, CopiesStep
  <2>4. exec[p] # "EXECUTED"
    BY <1>1, <1>4, WritersFind
  <2>5. Good(N)'
    BY <1>1, <2>1, <2>2, <2>3
  <2>6. Good(p)'
    BY <2>1, <2>2, <2>3, <2>4
  <2>7. \A q \in Rows \ {p} : Good(q)'
    BY <1>1, <2>1, <2>2, <2>3
  <2> QED BY <2>1, <2>5, <2>6, <2>7
<1>5. CASE WriteCancel(c) \/ CommitExecute(c) \/ CommitVoid(c)
  <2> PICK p \in Rows : p = at[c]
    BY <1>5, Marks
  <2>1. /\ Rows' = Rows /\ \A q \in Rows \ {p} : plans'[q] = plans[q]
        /\ plans'[p].status = IF CommitExecute(c) THEN "EXECUTED" ELSE "CANCELED"
        /\ p \in Rows
    BY <1>5, Marks
  <2>2. \A q \in Rows : Copies(q)' = Copies(q)
    <3>1. ~WriteMove(c) /\ ~WriteCopy(c)
      BY <1>5 DEF WriteCancel, CommitExecute, CommitVoid, WriteMove, WriteCopy
    <3> QED BY <3>1, CopiesStep
  <2>3. \A q \in Rows \ {p} : exec'[q] = exec[q]
    BY <1>1, <1>2, Commits
  <2>4. exec'[p] = IF CommitExecute(c) THEN "EXECUTED"
                   ELSE IF CommitVoid(c) THEN "CANCELED" ELSE exec[p]
    BY <1>1, <1>2, <1>5, Commits DEF CommitExecute, CommitVoid, WriteCancel
  <2>5. /\ WriteCancel(c) \/ CommitExecute(c) => exec[p] = "none" /\ Copies(p) = {}
    BY <1>1, WritersFind
  <2>6. Good(p)'
    BY <1>5, <2>1, <2>2, <2>4, <2>5
  <2>7. \A q \in Rows \ {p} : Good(q)'
    BY <1>1, <2>1, <2>2, <2>3
  <2> QED BY <2>1, <2>6, <2>7
<1>6. CASE plans' = plans /\ exec' = exec
  BY <1>1, <1>6 DEF Rows, Copies
<1> QED BY <1>3, <1>4, <1>5, <1>6, Calm

\* A repost that was not cut short goes on with the copy it has written.
LEMMA CopiesPaidStep ==
  ASSUME IInv, NEW c \in Client, Call(c)
  PROVE  CopiesPaid'
<1> DEFINE Busy(q) == /\ pc[c] \in {"reread", "execute", "executed"}
                      /\ op[c] = "repost" /\ at[c] = q
<1> SUFFICES ASSUME Serial', "unfinished" \notin history'
             PROVE  /\ \A q, r \in Rows' :
                         plans'[q].from # 0 /\ plans'[q].from = plans'[r].from => q = r
                    /\ \A q \in Rows' :
                         /\ plans'[q].from # 0 /\ exec'[plans'[q].from] # "none"
                         /\ exec'[q] = "none"
                         => Busy(q)'
  BY DEF CopiesPaid
<1>1. /\ Serial /\ "unfinished" \notin history
      /\ \A d \in Client \ {c} : pc[d] = "idle"
  BY SerialStep
<1>2. TypeOK /\ Rows \subseteq Plan /\ RowsInOrder
  BY RowsTyped DEF IInv
<1>3. \A q, r \in Rows : plans[q].from # 0 /\ plans[q].from = plans[r].from => q = r
  BY <1>1 DEF IInv, CopiesPaid
<1>4. \A q \in Rows : plans[q].from # 0 /\ exec[plans[q].from] # "none" /\ exec[q] = "none"
                      => Busy(q)
  <2> SUFFICES ASSUME NEW q \in Rows, plans[q].from # 0, exec[plans[q].from] # "none",
                      exec[q] = "none"
               PROVE  Busy(q)
    OBVIOUS
  <2>1. \E d \in Client : /\ pc[d] \in {"reread", "execute", "executed"}
                          /\ op[d] = "repost" /\ at[d] = q
    BY <1>1 DEF IInv, CopiesPaid
  <2> QED BY <1>1, <2>1
<1>5. \A q \in Rows : plans[q].from # 0 => plans[q].from \in Rows
  BY <1>2, RowsEarlier DEF Earlier, Rows
<1>6. \A q \in Rows : plans'[q].from = plans[q].from
  BY RowsGrow
<1>7. exec \in [Plan -> {"none", "EXECUTED", "CANCELED"}]
  BY <1>2 DEF TypeOK
<1>8. CASE InsertPlan(c)
  <2>1. PICK N \in Plan \ Rows : Rows' = Rows \cup {N} /\ plans'[N].from = 0
    BY <1>8, Inserts
  <2>2. exec' = exec /\ \A q : ~Busy(q)
    BY <1>8 DEF InsertPlan, paid
  <2> QED BY <1>3, <1>4, <1>6, <2>1, <2>2
<1>9. CASE WriteMove(c) \/ WriteCopy(c)
  <2>1. PICK N \in Plan \ Rows : /\ Rows' = Rows \cup {N} /\ plans'[N].from = at[c]
                                 /\ N = Len(plans) + 1 /\ at[c] \in Rows
    BY <1>9, Replaces
  <2>2. exec' = exec /\ \A q : ~Busy(q)
    BY <1>9 DEF WriteMove, WriteCopy, paid
  <2>3. Copies(at[c]) = {}
    BY <1>1, <1>9, WritersFind, SerialReads DEF WriteCopy
  <2>4. \A q \in Rows : plans[q].from # at[c]
    BY <2>3 DEF Copies
  <2>5. exec'[at[c]] # "none" => Busy(N)'
    <3>1. CASE WriteMove(c)
      BY <1>1, <2>2, <3>1, WritersFind
    <3>2. CASE WriteCopy(c)
      <4>1. op[c] = "repost"
        BY <1>1, <3>2, WritersFind
      <4> QED BY <1>2, <2>1, <3>2, <4>1 DEF WriteCopy, Goto, TypeOK
    <3> QED BY <1>9, <3>1, <3>2
  <2> QED BY <1>3, <1>4, <1>6, <2>1, <2>2, <2>4, <2>5
<1>10. CASE WriteCancel(c) \/ CommitVoid(c)
  <2>1. Rows' = Rows /\ \A q : ~Busy(q)
    BY <1>10, Marks DEF WriteCancel, CommitVoid
  <2>2. \A q \in Plan : (exec'[q] = "none") <=> (exec[q] = "none")
    BY <1>7, <1>10, Commits DEF WriteCancel, CommitVoid, CommitExecute
  <2> QED BY <1>2, <1>3, <1>4, <1>5, <1>6, <2>1, <2>2
<1>11. CASE CommitExecute(c)
  <2>1. Rows' = Rows
    BY <1>11, Marks
  <2>2. Copies(at[c]) = {} /\ at[c] \in Rows
    BY <1>1, <1>11, WritersFind
  <2>3. exec' = [exec EXCEPT ![at[c]] = "EXECUTED"]
    BY <1>11 DEF CommitExecute
  <2>4. ASSUME NEW q \in Rows, plans[q].from # 0, exec'[plans[q].from] # "none",
               exec'[q] = "none"
        PROVE  FALSE
    <3>1. plans[q].from # at[c]
      BY <2>2 DEF Copies
    <3>2. plans[q].from \in Plan /\ q # at[c] /\ exec[q] = "none"
      BY <1>2, <1>5, <1>7, <2>2, <2>3, <2>4
    <3>3. exec[plans[q].from] # "none"
      BY <1>7, <2>3, <2>4, <3>1, <3>2
    <3>4. Busy(q)
      BY <1>4, <2>4, <3>2, <3>3
    <3> QED BY <3>2, <3>4
  <2> QED BY <1>3, <1>6, <2>1, <2>4
<1>12. CASE plans' = plans /\ exec' = exec /\ ~CommitExecute(c)
  <2>1. Rows' = Rows
    BY <1>12 DEF Rows
  <2>2. ASSUME NEW q \in Rows, Busy(q), exec[q] = "none"
        PROVE  Busy(q)'
    <3>1. ReadCopy(c) \/ Execute(c) \/ Abort(c)
      BY <1>12, <2>2 DEF Call, ReadRequest, Begin, WriteRequest, ReadCreate, CheckCover,
         InsertPlan, ReadChange, WriteMove, WriteCancel, ReadExecute, ReadVoid,
         FindVoidedRun, Void, CommitVoid, FindCopy, WriteCopy
    <3>2. ~Note({"unfinished"})
      <4> SUFFICES ASSUME Note({"unfinished"}) PROVE FALSE
        OBVIOUS
      <4>1. history' = history \cup {"unfinished"}
        BY NoteKeeps DEF Serial
      <4> QED BY <4>1
    <3>3. CASE ReadCopy(c)
      BY <1>2, <2>2, <3>2, <3>3 DEF ReadCopy, Goto, TypeOK
    <3>4. CASE Execute(c)
      BY <1>2, <2>2, <3>4 DEF Execute, Goto, TypeOK
    <3>5. CASE Abort(c)
      BY <2>2, <3>2, <3>5 DEF Abort
    <3> QED BY <3>1, <3>3, <3>4, <3>5
  <2> QED BY <1>3, <1>4, <1>12, <2>1, <2>2
<1> QED BY <1>8, <1>9, <1>10, <1>11, <1>12, Calm
   DEF InsertPlan, WriteMove, WriteCopy, WriteCancel, CommitVoid

----------------------------------------------------------------------------
(* One call after the other: the request *)

\* What is written to the request
LEMMA RequestWrites ==
  ASSUME IInv, NEW c \in Client, Call(c)
  PROVE  \/ UNCHANGED <<request, amount, approved>>
         \/ /\ WriteRequest(c) /\ op[c] = "update"
            /\ request' = request /\ amount' = read[c] /\ approved' = approved
         \/ /\ WriteRequest(c) /\ op[c] \in {"submit", "approve", "reject", "drop"}
            /\ request' = To(op[c]) /\ amount' = amount
            /\ approved' = IF op[c] = "approve" THEN read[c] ELSE approved
         \/ /\ CommitExecute(c) \/ CommitVoid(c)
            /\ request' = next[c] /\ amount' = amount /\ approved' = approved
<1>1. CASE WriteRequest(c)
  <2>1. op[c] \in {"update", "submit", "approve", "reject", "drop"}
    BY <1>1 DEF WriteRequest, IInv, WorksOnRows
  <2> QED BY <1>1, <2>1 DEF WriteRequest
<1>2. CASE CommitExecute(c) \/ CommitVoid(c)
  BY <1>2 DEF CommitExecute, CommitVoid
<1>3. CASE ~WriteRequest(c) /\ ~CommitExecute(c) /\ ~CommitVoid(c)
  BY <1>3 DEF Call, ReadRequest, Begin, ReadCreate, CheckCover, requestVars,
     InsertPlan, ReadChange, WriteMove, WriteCancel, ReadExecute, Execute,
     ReadVoid, FindVoidedRun, Void, FindCopy, WriteCopy, ReadCopy, Abort
<1> QED BY <1>1, <1>2, <1>3

Granted == {"APPROVED", "PARTIALLY_PAID", "PAID"}

LEMMA ApprovedStep ==
  ASSUME IInv, NEW c \in Client, Call(c)
  PROVE  Approved'
<1> SUFFICES ASSUME Serial'
             PROVE  /\ request' \in Granted => approved' = amount'
                    /\ plans' # <<>> => request' \in Granted
  BY DEF Approved, Granted
<1>1. Serial
  BY SerialStep
<1>2. /\ request \in Granted => approved = amount
      /\ plans # <<>> => request \in Granted
  BY <1>1 DEF IInv, Approved, Granted
<1>3. TypeOK /\ plans \in Seq(PlanRow) /\ Rows = 1 .. Len(plans)
  BY RowsTyped DEF IInv
<1>4. at[c] \in Rows => plans # <<>>
  BY <1>3
<1>5. CASE WriteRequest(c)
  <2>1. request \in From(op[c]) /\ (op[c] # "update" => read[c] = amount)
    BY <1>1, <1>5, SerialReads DEF WriteRequest
  <2>2. op[c] \in {"update", "submit", "approve", "reject", "drop"}
    BY <1>5 DEF WriteRequest, IInv, WorksOnRows
  <2>3. plans' = plans /\ request \notin Granted
    BY <1>5, <2>1, <2>2 DEF WriteRequest, From, Granted
  <2> QED BY <1>2, <1>5, <2>1, <2>2, <2>3, RequestWrites
          DEF To, Granted, WriteRequest, CommitExecute, CommitVoid
<1>6. CASE CommitExecute(c) \/ CommitVoid(c)
  <2>1. at[c] \in Rows
    BY <1>1, <1>6, WritersFind
  <2>2. next[c] \in Granted
    BY <1>1, <1>6, SerialReads DEF CommitExecute, CommitVoid, AfterExecute, AfterVoid, Granted
  <2>3. request' = next[c] /\ amount' = amount /\ approved' = approved
    BY <1>6 DEF CommitExecute, CommitVoid
  <2> QED BY <1>2, <1>4, <2>1, <2>2, <2>3
<1>7. CASE ~WriteRequest(c) /\ ~CommitExecute(c) /\ ~CommitVoid(c)
  <2>1. UNCHANGED <<request, amount, approved>>
    BY <1>7, RequestWrites
  <2>2. CASE InsertPlan(c)
    <3>1. request \in Payable
      BY <1>1, <2>2, SerialReads DEF InsertPlan
    <3> QED BY <1>2, <2>1, <3>1 DEF Payable, Granted
  <2>3. CASE WriteMove(c) \/ WriteCopy(c) \/ WriteCancel(c)
    <3>1. at[c] \in Rows
      BY <1>1, <2>3, WritersFind
    <3> QED BY <1>2, <1>4, <2>1, <3>1
  <2>4. CASE plans' = plans
    BY <1>2, <2>1, <2>4
  <2> QED BY <1>7, <2>2, <2>3, <2>4, Calm
<1> QED BY <1>5, <1>6, <1>7

----------------------------------------------------------------------------
(* One call after the other: what is paid *)

\* The amount of a row never changes.
LEMMA TotalsKept ==
  ASSUME IInv, NEW c \in Client, Call(c), NEW S, S \subseteq Rows
  PROVE  /\ Total(plans', S) = Total(plans, S) /\ Total(plans, S) \in Nat
         /\ \A p \in S : Total(plans, S) >= 1
<1> DEFINE s == plans
           t == plans'
<1>1. s \in Seq(PlanRow) /\ S \subseteq DOMAIN s
  BY RowsTyped DEF IInv, Rows
<1>2. /\ t \in Seq(PlanRow) /\ S \subseteq DOMAIN t
      /\ \A p \in S : t[p].amount = s[p].amount
  BY RowsGrow DEF Rows
<1> HIDE DEF s, t
<1>3. Total(t, S) = Total(s, S)
  BY <1>1, <1>2, TotalSame
<1>4. Total(s, S) \in Nat /\ \A p \in S : s[p].amount <= Total(s, S)
  BY <1>1, TotalNat
<1>5. \A p \in S : s[p].amount \in Nat /\ s[p].amount >= 1
  BY <1>1, AmountsNat
<1> QED BY <1>3, <1>4, <1>5 DEF s, t

LEMMA LiveStep ==
  ASSUME IInv, NEW c \in Client, Call(c)
  PROVE  Live' = IF CommitExecute(c) THEN Live \cup {at[c]}
                 ELSE IF CommitVoid(c) THEN Live \ {at[c]} ELSE Live
<1>1. /\ exec \in [Plan -> {"none", "EXECUTED", "CANCELED"}] /\ RowsInOrder
      /\ Rows \subseteq Plan /\ RowsInOrder'
  BY RowsTyped, OrderStep DEF IInv, TypeOK
<1>2. Rows \subseteq Rows' /\ Rows' \subseteq Plan
  BY RowsGrow
<1>3. /\ Live = {p \in Plan : exec[p] = "EXECUTED"}
      /\ Live' = {p \in Plan : exec'[p] = "EXECUTED"}
  BY <1>1, <1>2 DEF Live, RowsInOrder
<1>4. ~(CommitExecute(c) /\ CommitVoid(c))
  BY DEF CommitExecute, CommitVoid
<1> QED BY <1>1, <1>3, <1>4, Commits

LEMMA StatusStep ==
  ASSUME IInv, NEW c \in Client, Call(c)
  PROVE  StatusFollowsExecutions'
<1> SUFFICES ASSUME Serial', "again" \notin history'
             PROVE  /\ (request' = "PAID") <=> (Total(plans', Live') >= amount')
                    /\ (request' = "PARTIALLY_PAID") <=> (Total(plans', Live') \in 1 .. amount' - 1)
  <2>1. (\A S : SumOf(S) = Total(plans, S))'
    BY SumIsTotal, PTL
  <2>2. (SumOf(Live) = Total(plans, Live))'
    BY <2>1
  <2> QED BY <2>2 DEF StatusFollowsExecutions
<1>1. Serial /\ "again" \notin history
  BY SerialStep
<1>2. /\ (request = "PAID") <=> (Total(plans, Live) >= amount)
      /\ (request = "PARTIALLY_PAID") <=> (Total(plans, Live) \in 1 .. amount - 1)
  BY <1>1, SumIsTotal DEF IInv, StatusFollowsExecutions
<1>3. /\ TypeOK /\ Live \subseteq Rows /\ amount \in Nat /\ amount' \in Nat
      /\ amount >= 1 /\ amount' >= 1
  <2>1. TypeOK /\ Live \subseteq Rows
    BY DEF IInv, Live
  <2>2. amount \in Amount /\ amount' \in Amount
    BY <2>1, TypeStep DEF TypeOK
  <2> QED BY <2>1, <2>2, AmountAssumption
<1>4. CASE WriteRequest(c)
  <2>1. request \in From(op[c]) /\ op[c] \in {"update", "submit", "approve", "reject", "drop"}
    BY <1>1, <1>4, SerialReads DEF WriteRequest, IInv, WorksOnRows
  <2>2. request \notin Granted /\ request' \notin {"PAID", "PARTIALLY_PAID"}
    BY <1>4, <2>1, RequestWrites
       DEF From, To, Granted, WriteRequest, CommitExecute, CommitVoid
  <2>3. Rows = {}
    <3>1. plans = <<>>
      BY <1>1, <2>2 DEF IInv, Approved, Granted
    <3> QED BY <3>1 DEF Rows
  <2>4. Live' = {}
    BY <1>3, <1>4, <2>3, LiveStep DEF WriteRequest, CommitExecute, CommitVoid
  <2>5. Total(plans', Live') = 0
    BY <2>4, TotalEmpty
  <2>6. ~(0 >= amount') /\ 0 \notin 1 .. amount' - 1
    BY <1>3
  <2> QED BY <2>2, <2>5, <2>6
<1>5. CASE CommitExecute(c)
  <2> PICK p \in Rows : p = at[c]
    BY <1>1, <1>5, WritersFind
  <2>1. Live' = Live \cup {p}
    BY <1>5, LiveStep
  <2>2. Executed = Live
    <3> SUFFICES ASSUME Executed # Live PROVE FALSE
      OBVIOUS
    <3>1. Note({"again"})
      BY <1>5 DEF CommitExecute
    <3>2. history' = history \cup {"again"}
      BY <3>1, NoteKeeps DEF Serial
    <3> QED BY <3>2
  <2> DEFINE T == Total(plans, Live \cup {p})
  <2>3. request' = AfterExecute(c) /\ amount' = amount /\ read[c] = amount
    BY <1>1, <1>5, SerialReads DEF CommitExecute
  <2>4. Total(plans', Live') = T /\ T \in Nat /\ T >= 1
    <3> DEFINE S == Live \cup {p}
    <3>1. S \subseteq Rows /\ p \in S
      BY <1>3
    <3> HIDE DEF S
    <3>2. Total(plans', S) = Total(plans, S) /\ Total(plans, S) \in Nat /\ Total(plans, S) >= 1
      BY <3>1, TotalsKept
    <3> QED BY <2>1, <3>2 DEF S
  <2>5. request' = IF T >= amount THEN "PAID" ELSE "PARTIALLY_PAID"
    BY <2>2, <2>3, SumIsTotal DEF AfterExecute
  <2> HIDE DEF T
  <2> QED BY <1>3, <2>3, <2>4, <2>5
<1>6. CASE CommitVoid(c)
  <2> PICK p \in Rows : p = at[c]
    BY <1>1, <1>6, WritersFind
  <2>1. Live' = Live \ {p} /\ ~CommitExecute(c)
    BY <1>6, LiveStep DEF CommitExecute, CommitVoid
  <2> DEFINE T == Total(plans, Live \ {p})
  <2>2. request' = AfterVoid(p) /\ amount' = amount
    BY <1>1, <1>6, SerialReads DEF CommitVoid
  <2>3. Total(plans', Live') = T /\ T \in Nat
    <3> DEFINE S == Live \ {p}
    <3>1. S \subseteq Rows
      BY <1>3
    <3> HIDE DEF S
    <3>2. Total(plans', S) = Total(plans, S) /\ Total(plans, S) \in Nat
      BY <3>1, TotalsKept
    <3> QED BY <2>1, <3>2 DEF S
  <2>4. request' = IF T >= amount THEN "PAID"
                   ELSE IF T > 0 THEN "PARTIALLY_PAID" ELSE "APPROVED"
    BY <2>2, SumIsTotal DEF AfterVoid
  <2> HIDE DEF T
  <2> QED BY <1>3, <2>2, <2>3, <2>4
<1>7. CASE ~WriteRequest(c) /\ ~CommitExecute(c) /\ ~CommitVoid(c)
  <2>1. request' = request /\ amount' = amount
    BY <1>7, RequestWrites
  <2>2. Live' = Live
    BY <1>7, LiveStep
  <2>3. Total(plans', Live) = Total(plans, Live)
    BY <1>3, TotalsKept
  <2> QED BY <1>2, <2>1, <2>2, <2>3
<1> QED BY <1>4, <1>5, <1>6, <1>7

\* Only an update changes the amount, and only before there are plans.
LEMMA AmountKept ==
  ASSUME IInv, NEW c \in Client, Call(c), Serial'
  PROVE  /\ amount \in Nat /\ amount' \in Nat /\ amount >= 1 /\ amount' >= 1
         /\ amount' = amount \/ (WriteRequest(c) /\ Rows = {})
<1>1. amount \in Amount /\ amount' \in Amount
  BY TypeStep DEF IInv, TypeOK
<1>2. ASSUME amount' # amount
      PROVE  WriteRequest(c) /\ Rows = {}
  <2>1. WriteRequest(c) /\ op[c] = "update" /\ Serial
    BY <1>2, RequestWrites, SerialStep
  <2>2. request = "DRAFT"
    BY <2>1, SerialReads DEF WriteRequest, From
  <2>3. plans = <<>>
    BY <2>1, <2>2 DEF IInv, Approved
  <2> QED BY <2>1, <2>3 DEF Rows
<1> QED BY <1>1, <1>2, AmountAssumption

\* A row replaced by one of the same amount
LEMMA TotalSwap ==
  ASSUME NEW s \in Seq(PlanRow), NEW S, S \subseteq DOMAIN s,
         NEW p \in DOMAIN s, NEW q \in DOMAIN s, p \in S, q \notin S,
         s[p].amount = s[q].amount
  PROVE  Total(s, (S \ {p}) \cup {q}) = Total(s, S)
<1> DEFINE C == S \ {p}
<1>1. /\ C \subseteq DOMAIN s /\ p \notin C /\ q \notin C /\ C \cup {p} = S
  OBVIOUS
<1> HIDE DEF C
<1>2. /\ Total(s, C \cup {p}) = Total(s, C) + s[p].amount
      /\ Total(s, C \cup {q}) = Total(s, C) + s[q].amount
  BY <1>1, TotalAdd
<1> QED BY <1>1, <1>2 DEF C

\* What the steps make of the rows that claim money
LEMMA ClaimsChange ==
  ASSUME IInv, NEW c \in Client, Call(c), Serial',
         "unfinished" \notin history', "late" \notin history'
  PROVE  \/ /\ InsertPlan(c) /\ Claims = {p \in Rows : plans[p].status = "PLANNED"}
            /\ \E N \in Rows' \ Rows : Claims' = Claims \cup {N} /\ plans'[N].amount = at[c]
         \/ /\ WriteMove(c) \/ WriteCopy(c)
            /\ \E p \in Rows, N \in Rows' \ Rows :
                 /\ p \in Claims /\ Claims' = (Claims \ {p}) \cup {N}
                 /\ plans'[N].amount = plans'[p].amount
         \/ ~InsertPlan(c) /\ Claims' \subseteq Claims
<1> DEFINE In(p) == Copies(p) = {} /\ ~(exec[p] = "none" /\ plans[p].status = "CANCELED")
<1>1. /\ Serial /\ history \subseteq history'
  BY SerialStep
<1>2. /\ TypeOK /\ Rows \subseteq Plan /\ exec \in [Plan -> {"none", "EXECUTED", "CANCELED"}]
      /\ \A p \in Rows : plans[p].status \in PlanStatus
  BY RowsTyped DEF IInv, TypeOK
<1>3. Claims = {p \in Rows : In(p)} /\ Claims' = {p \in Rows' : In(p)'}
  BY DEF Claims
<1>4. CASE InsertPlan(c)
  <2>1. Executed = {}
    <3> SUFFICES ASSUME Executed # {} PROVE FALSE
      OBVIOUS
    <3>1. Note({"late"})
      BY <1>4 DEF InsertPlan
    <3>2. history' = history \cup {"late"}
      BY <3>1, NoteKeeps DEF Serial
    <3> QED BY <3>2
  <2>2. Claims = {p \in Rows : plans[p].status = "PLANNED"}
    BY <1>1, <1>2, <1>3, <2>1, SerialRows DEF Executed, PlanStatus
  <2>3. PICK N \in Plan \ Rows :
          /\ Rows' = Rows \cup {N} /\ \A q \in Rows : plans'[q] = plans[q]
          /\ plans'[N].status = "PLANNED" /\ plans'[N].amount = at[c]
    BY <1>4, Inserts
  <2>4. exec' = exec /\ ~WriteMove(c) /\ ~WriteCopy(c)
    BY <1>4 DEF InsertPlan, paid, WriteMove, WriteCopy
  <2>5. (\A q \in Rows : Copies(q)' = Copies(q)) /\ Copies(N)' = {}
    BY <2>3, <2>4, CopiesStep
  <2>6. In(N)' /\ \A q \in Rows : In(q)' = In(q)
    BY <2>3, <2>4, <2>5
  <2> HIDE DEF In
  <2>7. Claims' = Claims \cup {N}
    BY <1>3, <2>3, <2>6
  <2> QED BY <1>4, <2>2, <2>3, <2>7
<1>5. CASE WriteMove(c) \/ WriteCopy(c)
  <2> PICK p \in Rows : p = at[c]
    BY <1>5, Replaces
  <2>1. PICK N \in Plan \ Rows :
          /\ Rows' = Rows \cup {N} /\ \A q \in Rows \ {p} : plans'[q] = plans[q]
          /\ plans'[N].status = "PLANNED" /\ plans'[N].amount = plans[p].amount
          /\ plans'[p].amount = plans[p].amount
    BY <1>5, Replaces
  <2>2. exec' = exec
    BY <1>5 DEF WriteMove, WriteCopy, paid
  <2>3. /\ \A q \in Rows \ {p} : Copies(q)' = Copies(q)
        /\ Copies(N)' = {} /\ Copies(p)' # {}
    BY <1>5, <2>1, CopiesStep
  <2>4. Copies(p) = {}
    BY <1>1, <1>5, WritersFind, SerialReads DEF WriteCopy
  <2>5. exec[p] # "none" \/ plans[p].status = "PLANNED"
    BY <1>1, <1>5, WritersFind
  <2>6. /\ In(N)' /\ In(p) /\ ~In(p)'
        /\ \A q \in Rows \ {p} : In(q)' = In(q)
    BY <2>1, <2>2, <2>3, <2>4, <2>5
  <2> HIDE DEF In
  <2>7. p \in Claims /\ Claims' = (Claims \ {p}) \cup {N}
    BY <1>3, <2>1, <2>6
  <2> QED BY <1>5, <2>1, <2>7
<1>6. CASE WriteCancel(c) \/ CommitExecute(c) \/ CommitVoid(c)
  <2> PICK p \in Rows : p = at[c]
    BY <1>6, Marks
  <2>1. /\ Rows' = Rows /\ \A q \in Rows \ {p} : plans'[q] = plans[q]
        /\ plans'[p].status = IF CommitExecute(c) THEN "EXECUTED" ELSE "CANCELED"
    BY <1>6, Marks
  <2>2. ~WriteMove(c) /\ ~WriteCopy(c) /\ ~InsertPlan(c)
    BY <1>6 DEF WriteCancel, CommitExecute, CommitVoid, WriteMove, WriteCopy, InsertPlan
  <2>3. \A q \in Rows : Copies(q)' = Copies(q)
    BY <2>2, CopiesStep
  <2>4. \A q \in Rows \ {p} : exec'[q] = exec[q]
    BY <1>2, Commits
  <2>5. CASE WriteCancel(c)
    <3>1. plans[p].status = "PLANNED"
      BY <1>1, <2>5, WritersFind
    <3>2. \A q \in Rows : In(q)' => In(q)
      BY <2>1, <2>3, <2>4, <3>1
    <3> QED BY <1>3, <2>1, <2>2, <3>2
  <2>6. CASE CommitExecute(c)
    <3>1. plans[p].status = "PLANNED"
      BY <1>1, <2>6, WritersFind
    <3>2. \A q \in Rows : In(q)' => In(q)
      BY <2>1, <2>3, <2>4, <3>1
    <3> QED BY <1>3, <2>1, <2>2, <3>2
  <2>7. CASE CommitVoid(c)
    <3>1. exec[p] # "none"
      BY <1>1, <2>7, WritersFind
    <3>2. \A q \in Rows : In(q)' => In(q)
      BY <2>1, <2>3, <2>4, <3>1
    <3> QED BY <1>3, <2>1, <2>2, <3>2
  <2> QED BY <1>6, <2>5, <2>6, <2>7
<1>7. CASE plans' = plans /\ exec' = exec /\ ~InsertPlan(c)
  <2>1. Claims' = Claims
    BY <1>7 DEF Claims, Rows, Copies
  <2> QED BY <1>7, <2>1
<1> QED BY <1>4, <1>5, <1>6, <1>7, Calm

\* What is claimed stays within the request.
LEMMA ClaimsStep ==
  ASSUME IInv, NEW c \in Client, Call(c)
  PROVE  ClaimsCovered'
<1> SUFFICES ASSUME Serial', "unfinished" \notin history', "late" \notin history'
             PROVE  Total(plans', Claims') <= amount'
  <2>1. (\A S : SumOf(S) = Total(plans, S))'
    BY SumIsTotal, PTL
  <2>2. (SumOf(Claims) = Total(plans, Claims))'
    BY <2>1
  <2> QED BY <2>2 DEF ClaimsCovered
<1>1. Serial /\ history \subseteq history'
  BY SerialStep
<1>2. Total(plans, Claims) <= amount
  BY <1>1, SumIsTotal DEF IInv, ClaimsCovered
<1>3. /\ amount \in Nat /\ amount' \in Nat
      /\ amount' = amount \/ (WriteRequest(c) /\ Rows = {})
  BY AmountKept
<1> PICK C : C = Claims
  OBVIOUS
<1>4. C \subseteq Rows
  BY DEF Claims
<1>5. /\ plans' \in Seq(PlanRow) /\ Rows \subseteq Rows' /\ Rows' = DOMAIN plans'
  BY RowsGrow DEF Rows
<1>6. Total(plans', C) = Total(plans, C) /\ Total(plans, C) \in Nat
  BY <1>4, TotalsKept
<1> DEFINE t == plans'
<1>7. CASE /\ InsertPlan(c) /\ Claims = {p \in Rows : plans[p].status = "PLANNED"}
           /\ \E N \in Rows' \ Rows : Claims' = Claims \cup {N} /\ plans'[N].amount = at[c]
  <2>1. PICK N \in Rows' \ Rows : Claims' = C \cup {N} /\ t[N].amount = at[c]
    BY <1>7
  <2>2. Planned + at[c] <= amount /\ Planned = Total(plans, C)
    <3>1. Planned + at[c] <= amount
      BY <1>1, <1>7, SerialReads DEF InsertPlan
    <3> QED BY <1>7, <3>1, SumIsTotal DEF Planned
  <2>3. t \in Seq(PlanRow) /\ C \subseteq DOMAIN t /\ N \in DOMAIN t /\ N \notin C
    BY <1>4, <1>5
  <2> HIDE DEF t
  <2>4. Total(t, C \cup {N}) = Total(t, C) + t[N].amount
    BY <2>3, TotalAdd
  <2>5. Total(t, C \cup {N}) <= amount
    BY <1>6, <2>1, <2>2, <2>4 DEF t
  <2>6. amount' = amount
    BY <1>3, <1>7 DEF InsertPlan, WriteRequest
  <2> QED BY <2>1, <2>5, <2>6 DEF t
<1>8. CASE /\ WriteMove(c) \/ WriteCopy(c)
           /\ \E p \in Rows, N \in Rows' \ Rows :
                 /\ p \in Claims /\ Claims' = (Claims \ {p}) \cup {N}
                 /\ plans'[N].amount = plans'[p].amount
  <2>1. PICK p \in Rows, N \in Rows' \ Rows :
          /\ p \in C /\ Claims' = (C \ {p}) \cup {N} /\ t[N].amount = t[p].amount
    BY <1>8
  <2>2. /\ t \in Seq(PlanRow) /\ C \subseteq DOMAIN t /\ N \in DOMAIN t /\ p \in DOMAIN t
        /\ p \in C /\ N \notin C /\ t[p].amount = t[N].amount
    BY <1>4, <1>5, <2>1
  <2> HIDE DEF t
  <2>3. Total(t, (C \ {p}) \cup {N}) = Total(t, C)
    BY <2>2, TotalSwap
  <2>4. amount' = amount
    BY <1>3, <1>8 DEF WriteMove, WriteCopy, WriteRequest
  <2> QED BY <1>2, <1>6, <2>1, <2>3, <2>4 DEF t
<1>9. CASE ~InsertPlan(c) /\ Claims' \subseteq Claims
  <2> PICK D : D = Claims'
    OBVIOUS
  <2>1. t \in Seq(PlanRow) /\ C \subseteq DOMAIN t /\ D \subseteq C
    BY <1>4, <1>5, <1>9
  <2> HIDE DEF t
  <2>2. Total(t, D) <= Total(t, C)
    BY <2>1, TotalGrows
  <2>3. Total(t, D) \in Nat
    <3>1. D \subseteq DOMAIN t
      BY <2>1
    <3> QED BY <2>1, <3>1, TotalNat
  <2>4. CASE amount' = amount
    BY <1>2, <1>3, <1>6, <2>2, <2>3, <2>4 DEF t
  <2>5. CASE Rows = {}
    <3>1. D = {}
      BY <1>4, <1>9, <2>5
    <3>2. Total(t, D) = 0
      BY <3>1, TotalEmpty
    <3> QED BY <1>3, <3>2 DEF t
  <2> QED BY <1>3, <2>4, <2>5
<1> QED BY <1>7, <1>8, <1>9, ClaimsChange

\* Of a plan and its copies, one row has no copy.
LEMMA LeafStep ==
  ASSUME IInv, NEW c \in Client, Call(c)
  PROVE  OneLeaf'
<1> SUFFICES ASSUME Serial', "unfinished" \notin history'
             PROVE  \A p, q \in Rows' :
                      Copies(p)' = {} /\ Copies(q)' = {} /\ Origin'[p] = Origin'[q] => p = q
  BY DEF OneLeaf
<1>1. Serial /\ "unfinished" \notin history
  BY SerialStep
<1>2. \A p, q \in Rows :
        Copies(p) = {} /\ Copies(q) = {} /\ Origin[p] = Origin[q] => p = q
  BY <1>1 DEF IInv, OneLeaf
<1>3. /\ \A p \in Rows : Origin'[p] = Origin[p] /\ Origin[p] \in Rows
      /\ \A p \in Rows' : Origin'[p] = IF plans'[p].from = 0 THEN p
                                       ELSE Origin'[plans'[p].from]
  BY OriginStep
<1>4. CASE InsertPlan(c)
  <2>1. PICK N \in Plan \ Rows : Rows' = Rows \cup {N} /\ plans'[N].from = 0
    BY <1>4, Inserts
  <2>2. ~WriteMove(c) /\ ~WriteCopy(c)
    BY <1>4 DEF InsertPlan, WriteMove, WriteCopy
  <2>3. \A q \in Rows : Copies(q)' = Copies(q)
    BY <2>2, CopiesStep
  <2>4. Origin'[N] = N
    BY <1>3, <2>1
  <2>5. \A q \in Rows : Origin'[q] # N
    BY <1>3, <2>1
  <2> QED BY <1>2, <1>3, <2>1, <2>3, <2>4, <2>5
<1>5. CASE WriteMove(c) \/ WriteCopy(c)
  <2> PICK p \in Rows : p = at[c]
    BY <1>5, Replaces
  <2>1. PICK N \in Plan \ Rows : Rows' = Rows \cup {N} /\ plans'[N].from = p
    BY <1>5, Replaces
  <2>2. (\A q \in Rows \ {p} : Copies(q)' = Copies(q)) /\ Copies(p)' # {}
    BY <1>5, CopiesStep
  <2>3. Copies(p) = {}
    BY <1>1, <1>5, WritersFind, SerialReads DEF WriteCopy
  <2>4. p # 0
    <3>1. Rows \subseteq Plan
      BY RowsTyped DEF IInv
    <3> QED BY <3>1 DEF Plan
  <2>5. Origin'[N] = Origin[p]
    BY <1>3, <2>1, <2>4
  <2>6. \A q \in Rows : Copies(q)' = {} => Origin'[q] # Origin'[N]
    BY <1>2, <1>3, <2>2, <2>3, <2>5
  <2> QED BY <1>2, <1>3, <2>1, <2>2, <2>6
<1>6. CASE Rows' = Rows
  <2>1. ~WriteMove(c) /\ ~WriteCopy(c)
    BY <1>6, Replaces
  <2>2. \A q \in Rows : Copies(q)' = Copies(q)
    BY <2>1, CopiesStep
  <2> QED BY <1>2, <1>3, <1>6, <2>2
<1> QED BY <1>4, <1>5, <1>6, Marks, Calm DEF Rows

----------------------------------------------------------------------------
(* One call after the other: what a call has read still holds *)

\* A repost finds a copy that is not executed only if one was cut short.
LEMMA CopyFound ==
  ASSUME IInv, NEW c \in Client, Serial, "unfinished" \notin history, pc[c] = "replace",
         ~Reposted(at[c])
  PROVE  Copies(at[c]) = {}
<1> SUFFICES ASSUME Copies(at[c]) # {} PROVE FALSE
  OBVIOUS
<1>1. exec[at[c]] = "CANCELED"
  BY SerialReads
<1>2. PICK q \in Rows : plans[q].from = at[c]
  BY DEF Copies
<1>3. at[c] # 0 /\ Rows \subseteq Nat
  BY RowsTyped DEF IInv, WorksOnRows, Plan
<1>4. \A r \in Rows : plans[r].from = at[c] => r = q
  BY <1>2, <1>3 DEF IInv, CopiesPaid
<1>5. Copies(at[c]) = {q}
  BY <1>2, <1>4 DEF Copies
<1>6. Max({q}) = q
  <2>1. q \in Nat
    BY <1>2, <1>3
  <2> QED BY <2>1 DEF Max
<1>7. exec[q] = "none"
  BY <1>5, <1>6 DEF Reposted
<1>8. exec[plans[q].from] # "none" /\ plans[q].from # 0
  BY <1>1, <1>2, <1>3
<1>9. PICK d \in Client : pc[d] \in {"reread", "execute", "executed"}
  BY <1>7, <1>8 DEF IInv, CopiesPaid
<1>10. d = c
  BY <1>9 DEF IInv, Alone
<1> QED BY <1>9, <1>10

LEMMA StillHoldsStep ==
  ASSUME IInv, NEW c \in Client, Call(c)
  PROVE  StillHolds'
<1> DEFINE Holds(d) ==
      /\ pc[d] = "request" =>
           request \in From(op[d]) /\ (op[d] # "update" => read[d] = amount)
      /\ pc[d] \in {"create", "insert"} => request \in Payable /\ read[d] = amount
      /\ pc[d] = "insert" => Planned + at[d] <= amount
      /\ pc[d] \in {"move", "cancel"} => Changeable(at[d])
      /\ pc[d] \in {"execute", "executed"} => Executable(at[d]) /\ read[d] = amount
      /\ pc[d] = "executed" => next[d] = AfterExecute(d)
      /\ pc[d] = "voided" => next[d] = AfterVoid(at[d])
      /\ pc[d] \in {"replace", "replacing"} => exec[at[d]] = "CANCELED" /\ op[d] = "repost"
      /\ pc[d] = "replacing" => "unfinished" \in history \/ Copies(at[d]) = {}
      /\ pc[d] = "reread" =>
           Changeable(at[d]) /\ exec[at[d]] = "none" /\ op[d] = "repost"
<1> SUFFICES ASSUME Serial' PROVE StillHolds'
  BY DEF StillHolds
<1> SUFFICES Holds(c)'
  <2>1. \A d \in Client \ {c} : pc'[d] = "idle"
    BY SerialStep
  <2>2. \A d \in Client \ {c} : Holds(d)'
    BY <2>1
  <2> QED BY <2>2 DEF StillHolds
<1>1. Serial /\ TypeOK /\ WorksOnRows /\ Rows \subseteq Plan
  BY SerialStep, RowsTyped DEF IInv
<1>2. CASE pc'[c] \in {"idle", "void", "voiding"}
  BY <1>2
<1>3. CASE ReadRequest(c)
  <2>1. PICK o \in {"update", "submit", "approve", "reject", "drop"}, n \in Amount :
          request \in From(o) /\ (o # "update" => n = amount) /\ Begin(c, o, 0, n, "request")
    BY <1>3 DEF ReadRequest
  <2>2. /\ pc'[c] = "request" /\ op'[c] = o /\ read'[c] = n
        /\ request' = request /\ amount' = amount
    BY <1>1, <2>1 DEF Begin, Goto, TypeOK, requestVars
  <2>3. From(op[c])' = From(o)
    BY <2>2 DEF From
  <2> QED BY <2>1, <2>2, <2>3
<1>4. CASE ReadCreate(c)
  <2>1. /\ pc'[c] = "create" /\ read'[c] = amount
        /\ request' = request /\ amount' = amount /\ request \in Payable
    BY <1>1, <1>4 DEF ReadCreate, Begin, Goto, TypeOK, requestVars
  <2> QED BY <2>1
<1>5. CASE CheckCover(c) /\ pc'[c] # "idle"
  <2>1. /\ pc'[c] = "insert" /\ read'[c] = read[c] /\ at'[c] = at[c]
        /\ request' = request /\ amount' = amount /\ plans' = plans
        /\ pc[c] = "create" /\ Planned + at[c] <= read[c]
    BY <1>1, <1>5 DEF CheckCover, Goto, End, TypeOK, requestVars, local
  <2>2. request \in Payable /\ read[c] = amount
    BY <1>1, <2>1, SerialReads
  <2>3. Planned' = Planned
    BY <2>1 DEF Planned, SumOf, Rows
  <2> QED BY <2>1, <2>2, <2>3
<1>6. CASE ReadChange(c)
  <2>1. PICK p \in Rows, l \in {"move", "cancel"} : Changeable(p) /\ Begin(c, l, p, 0, l)
    BY <1>6 DEF ReadChange
  <2>2. pc'[c] = l /\ at'[c] = p /\ plans' = plans
    BY <1>1, <2>1 DEF Begin, Goto, TypeOK
  <2>3. Changeable(at[c])'
    BY <2>1, <2>2 DEF Changeable
  <2> QED BY <2>1, <2>2, <2>3
<1>7. CASE ReadExecute(c)
  <2>1. PICK p \in Rows : Executable(p) /\ Begin(c, "execute", p, amount, "execute")
    BY <1>7 DEF ReadExecute
  <2>2. /\ pc'[c] = "execute" /\ at'[c] = p /\ plans' = plans /\ exec' = exec
        /\ request' = request /\ amount' = amount /\ read'[c] = amount
    BY <1>1, <2>1 DEF Begin, Goto, TypeOK, paid, requestVars
  <2>3. Executable(at[c])'
    BY <2>1, <2>2 DEF Executable
  <2> QED BY <2>2, <2>3
<1>8. CASE Execute(c) /\ pc'[c] # "idle"
  <2>1. /\ pc'[c] = "executed" /\ at'[c] = at[c] /\ plans' = plans /\ exec' = exec
        /\ request' = request /\ amount' = amount /\ read'[c] = read[c]
        /\ pc[c] = "execute" /\ next'[c] = AfterExecute(c)
    BY <1>1, <1>8 DEF Execute, Goto, End, TypeOK, paid, requestVars
  <2>2. Executable(at[c]) /\ read[c] = amount
    BY <1>1, <2>1, SerialReads
  <2>3. Executable(at[c])'
    BY <2>1, <2>2 DEF Executable
  <2>4. AfterExecute(c)' = AfterExecute(c)
    BY <2>1 DEF AfterExecute, SumOf, Executed, Rows
  <2> QED BY <2>1, <2>2, <2>3, <2>4
<1>9. CASE Void(c)
  <2>1. /\ pc'[c] = "voided" /\ at'[c] = at[c] /\ plans' = plans /\ exec' = exec
        /\ amount' = amount /\ next'[c] = AfterVoid(at[c])
    BY <1>1, <1>9 DEF Void, Goto, TypeOK, paid, requestVars
  <2>2. AfterVoid(at[c])' = AfterVoid(at[c])
    BY <2>1 DEF AfterVoid, SumOf, Live, Rows
  <2> QED BY <2>1, <2>2
<1>10. CASE CommitVoid(c) /\ pc'[c] # "idle"
  <2>1. /\ pc'[c] = "replace" /\ at'[c] = at[c] /\ op'[c] = op[c] /\ op[c] = "repost"
    BY <1>1, <1>10 DEF CommitVoid, Goto, End, TypeOK, local
  <2>2. at[c] \in Plan
    BY <1>1, <1>10, WritersFind
  <2>3. exec'[at[c]] = "CANCELED"
    BY <1>1, <1>10, <2>2 DEF CommitVoid, TypeOK
  <2> QED BY <2>1, <2>3
<1>11. CASE FindCopy(c) /\ pc'[c] # "idle"
  <2>1. /\ pc'[c] = "replacing" /\ at'[c] = at[c] /\ op'[c] = op[c] /\ plans' = plans
        /\ exec' = exec /\ history' = history /\ pc[c] = "replace" /\ ~Reposted(at[c])
    BY <1>1, <1>11 DEF FindCopy, Goto, End, TypeOK, local, paid
  <2>2. exec[at[c]] = "CANCELED" /\ op[c] = "repost"
    BY <1>1, <2>1, SerialReads
  <2>3. "unfinished" \in history \/ Copies(at[c]) = {}
    BY <1>1, <2>1, CopyFound
  <2>4. Copies(at[c])' = Copies(at[c])
    BY <2>1 DEF Copies, Rows
  <2> QED BY <2>1, <2>2, <2>3, <2>4
<1>12. CASE WriteCopy(c)
  <2>1. PICK N \in Plan \ Rows : N = Len(plans) + 1 /\ plans'[N].status = "PLANNED"
    BY <1>12, Replaces
  <2>2. /\ pc'[c] = "reread" /\ at'[c] = N /\ op'[c] = op[c] /\ exec' = exec
    BY <1>1, <1>12, <2>1 DEF WriteCopy, Goto, TypeOK, paid
  <2>3. op[c] = "repost" /\ exec[N] = "none"
    BY <1>1, <1>12, <2>1, WritersFind, SerialRows
  <2>4. Changeable(at[c])'
    BY <2>1, <2>2 DEF Changeable
  <2> QED BY <2>2, <2>3, <2>4
<1>13. CASE ReadCopy(c) /\ pc'[c] # "idle"
  <2>1. /\ pc'[c] = "execute" /\ at'[c] = at[c] /\ plans' = plans /\ exec' = exec
        /\ request' = request /\ amount' = amount /\ read'[c] = amount /\ Executable(at[c])
    BY <1>1, <1>13 DEF ReadCopy, Goto, End, TypeOK, paid, requestVars
  <2>2. Executable(at[c])'
    BY <2>1 DEF Executable
  <2> QED BY <2>1, <2>2
<1>14. ReadVoid(c) \/ FindVoidedRun(c) => pc'[c] \in {"void", "voiding"}
  BY <1>1 DEF ReadVoid, FindVoidedRun, Begin, Goto, TypeOK
<1>15. \/ WriteRequest(c) \/ InsertPlan(c) \/ WriteMove(c) \/ WriteCancel(c)
       \/ CommitExecute(c) \/ Abort(c)
       => pc'[c] = "idle"
  BY <1>1 DEF WriteRequest, InsertPlan, WriteMove, WriteCancel, CommitExecute, Abort,
     End, Goto, TypeOK
<1> HIDE DEF Holds
<1> QED BY <1>2, <1>3, <1>4, <1>5, <1>6, <1>7, <1>8, <1>9, <1>10, <1>11, <1>12, <1>13,
        <1>14, <1>15 DEF Call

----------------------------------------------------------------------------
(* The theorems *)

LEMMA Initial == Init => IInv
<1> SUFFICES ASSUME Init PROVE IInv
  OBVIOUS
<1>1. /\ plans = <<>> /\ Rows = {} /\ Len(plans) = 0 /\ plans \in Seq(PlanRow)
      /\ \A p \in Plan : exec[p] = "none" /\ cash[p] = "none" /\ runs[p] = 0
      /\ \A c \in Client : pc[c] = "idle"
      /\ history = {} /\ request = "DRAFT" /\ amount \in Nat /\ amount >= 1
  <2>1. plans = <<>> /\ Rows = {} /\ Len(plans) = 0 /\ plans \in Seq(PlanRow)
    BY DEF Init, Rows
  <2>2. amount \in Nat /\ amount >= 1
    BY AmountAssumption DEF Init
  <2> QED BY <2>1, <2>2 DEF Init
<1>2. TypeOK
  <2>1. 0 \in 0 .. 1 + Cardinality(Client)
    BY ClientAssumption, FS_CardinalityType
  <2>2. Len(plans) <= MaxPlans
    BY <1>1, MaxPlansAssumption
  <2>3. /\ exec \in [Plan -> {"none", "EXECUTED", "CANCELED"}]
        /\ cash \in [Plan -> {"none", "POSTED", "VOIDED"}]
        /\ runs \in [Plan -> 0 .. 1 + Cardinality(Client)]
    BY <2>1 DEF Init
  <2>4. /\ pc \in [Client -> PC] /\ op \in [Client -> Op]
        /\ at \in [Client -> Nat] /\ read \in [Client -> Amount \cup {0}]
        /\ next \in [Client -> Status] /\ known \in [Client -> BOOLEAN]
    BY DEF Init, PC, Op, Status
  <2>5. request \in Status /\ amount \in Amount /\ approved \in Amount \cup {0}
    BY DEF Init, Status
  <2> QED BY <1>1, <2>2, <2>3, <2>4, <2>5 DEF TypeOK, PlanRow, PlanStatus
<1>3. WorksOnRows /\ RowsLocked /\ Alone /\ StillHolds
  BY <1>1 DEF WorksOnRows, RowsLocked, Alone, StillHolds
<1>4. RowsInOrder /\ RunsBounded
  BY <1>1 DEF RowsInOrder, RunsBounded
<1>5. RunsFollow
  BY <1>1 DEF RunsFollow
<1>6. MoneyFollowsExecution
  <2>1. 0 % 2 = 0
    OBVIOUS
  <2> QED BY <1>1, <2>1 DEF MoneyFollowsExecution, Standing
<1>7. OriginUnfolds
  <2>1. [p \in Rows |-> IF plans[p].from = 0 THEN p ELSE <<>>[plans[p].from]] = <<>>
    BY <1>1
  <2>2. Roots(plans, <<>>)
    BY <1>1, <2>1 DEF Roots, Rows
  <2> QED BY <2>2, OriginIs
<1>8. PlanFollowsExecution /\ CopiesFollow /\ CopiesPaid /\ OneLeaf
  BY <1>1 DEF PlanFollowsExecution, CopiesFollow, CopiesPaid, OneLeaf
<1>9. Approved
  BY <1>1 DEF Approved
<1>10. ClaimsCovered /\ StatusFollowsExecutions
  <2>1. Claims = {} /\ Live = {}
    BY <1>1 DEF Claims, Live
  <2>2. SumOf(Claims) = 0 /\ SumOf(Live) = 0
    BY <2>1, SumIsTotal, TotalEmpty
  <2> QED BY <1>1, <2>2 DEF ClaimsCovered, StatusFollowsExecutions
<1> QED BY <1>2, <1>3, <1>4, <1>5, <1>6, <1>7, <1>8, <1>9, <1>10 DEF IInv

LEMMA Stutters == IInv /\ UNCHANGED vars => IInv'
<1> SUFFICES ASSUME IInv, UNCHANGED vars PROVE IInv'
  OBVIOUS
<1> USE DEF vars, requestVars, paid, local
<1>1. Rows' = Rows /\ Live' = Live /\ Executed' = Executed
  BY DEF Rows, Live, Executed
<1>2. (\A S : SumOf(S)' = SumOf(S)) /\ \A p : Copies(p)' = Copies(p)
  BY <1>1 DEF SumOf, Copies
<1>3. TypeOK' /\ WorksOnRows' /\ RowsLocked'
  BY <1>1 DEF IInv, TypeOK, WorksOnRows, RowsLocked
<1>4. RowsInOrder' /\ RunsBounded' /\ RunsFollow' /\ MoneyFollowsExecution'
  <2>1. \A p : Voiders(p)' = Voiders(p)
    BY DEF Voiders
  <2> QED BY <1>1, <2>1 DEF IInv, RowsInOrder, RunsBounded, RunsFollow, HasVoidedRun,
             MoneyFollowsExecution, Standing
<1>5. Origin' = Origin /\ OriginUnfolds'
  <2>1. Roots(plans, Origin) /\ Earlier(plans)
    BY OriginIs, RowsEarlier DEF IInv
  <2>2. (\A f : Roots(plans, f) => Roots(plans, Origin))'
    BY OriginIs, PTL
  <2>3. Roots(plans, Origin')
    BY <2>1, <2>2
  <2>4. \A p \in DOMAIN plans : Origin'[p] = Origin[p]
    <3> DEFINE s == plans
               f == Origin
               g == Origin'
    <3>1. Earlier(s) /\ Roots(s, f) /\ Roots(s, g)
      BY <2>1, <2>3
    <3> HIDE DEF s, f, g
    <3>2. \A p \in DOMAIN s : g[p] = f[p]
      BY <3>1, RootsAgree
    <3> QED BY <3>2 DEF s, f, g
  <2>5. Origin' = Origin
    BY <2>1, <2>3, <2>4 DEF Roots
  <2>6. (OriginUnfolds <=> Roots(plans, Origin))'
    BY OriginIs, PTL
  <2> QED BY <2>3, <2>5, <2>6
<1>6. Alone' /\ Approved' /\ Serial' = Serial
  BY DEF IInv, Alone, Approved, Serial
<1>7. StillHolds'
  <2>1. Planned' = Planned
    BY <1>1 DEF Planned, SumOf
  <2>2. \A c \in Client : AfterExecute(c)' = AfterExecute(c)
    BY <1>1 DEF AfterExecute, SumOf
  <2>3. \A p : AfterVoid(p)' = AfterVoid(p)
    BY <1>1 DEF AfterVoid, SumOf
  <2>4. \A p : Changeable(p)' = Changeable(p) /\ Executable(p)' = Executable(p)
    BY DEF Changeable, Executable
  <2>5. \A c \in Client : AfterVoid(at[c])' = AfterVoid(at[c])
    BY <2>3
  <2>6. \A c \in Client : Copies(at[c])' = Copies(at[c])
    BY <1>2
  <2> QED BY <1>6, <2>1, <2>2, <2>4, <2>5, <2>6 DEF IInv, StillHolds
<1>8. PlanFollowsExecution' /\ CopiesFollow' /\ CopiesPaid' /\ OneLeaf'
  BY <1>1, <1>2, <1>5, <1>6 DEF IInv, PlanFollowsExecution, CopiesFollow, CopiesPaid, OneLeaf
<1>9. ClaimsCovered' /\ StatusFollowsExecutions'
  <2>1. Claims' = Claims
    BY <1>1, <1>2 DEF Claims
  <2>2. SumOf(Claims)' = SumOf(Claims) /\ SumOf(Live)' = SumOf(Live)
    BY <1>1, <2>1 DEF SumOf
  <2> QED BY <1>6, <2>2 DEF IInv, ClaimsCovered, StatusFollowsExecutions
<1> QED BY <1>3, <1>4, <1>5, <1>6, <1>7, <1>8, <1>9 DEF IInv

LEMMA Inductive == IInv /\ [Next]_vars => IInv'
<1>1. ASSUME IInv, NEW c \in Client, Call(c)
      PROVE  IInv'
  BY <1>1, TypeStep, WorksStep, LockedStep, OrderStep, RunsBoundedStep, RunsFollowStep,
     MoneyStep, OriginStep, AloneStep, StillHoldsStep, RowsStep, CopiesPaidStep,
     ApprovedStep, ClaimsStep, LeafStep, StatusStep DEF IInv
<1> QED BY <1>1, Stutters DEF Next, Quiescent

\* What IInv says holds in every state that calls can reach.
THEOREM Invariance == Spec => []IInv
BY Initial, Inductive, PTL DEF Spec

\* Whatever is interleaved, the money transaction and the ledger say of an
\* execution what it says itself (voidExecution, executePlan), and of calls one
\* after the other a plan is EXECUTED if and only if its execution stands.
THEOREM RowsAlwaysAgree == Spec => []RowsAgree
<1>1. IInv => RowsAgree
  BY DEF IInv, RowsAgree
<1> QED BY <1>1, Invariance, PTL

\* What is planned and paid is what the approver has seen: update is refused
\* once a request is submitted, and plans need an approved one.
THEOREM AmountIsApproved == Spec => []ApprovedAmount
<1>1. IInv => ApprovedAmount
  BY DEF IInv, Approved, ApprovedAmount
<1> QED BY <1>1, Invariance, PTL

\* The status that executePlan and voidExecution compute is what the executions
\* add up to, unless an execution comes after a void.
THEOREM StatusAlwaysFollows == Spec => []StatusFollowsExecutions
<1>1. IInv => StatusFollowsExecutions
  BY DEF IInv
<1> QED BY <1>1, Invariance, PTL

\* The money of a plan leaves once, however often it is moved, voided and
\* reposted, and never more than the request asks for.
THEOREM NoMoreIsPaid == Spec => []PaysNoMore
<1>1. ASSUME IInv PROVE PaidOnce
  <2> SUFFICES ASSUME Serial, "unfinished" \notin history,
                      NEW p \in Live, NEW q \in Live, Origin[p] = Origin[q]
               PROVE  p = q
    BY DEF PaidOnce
  <2>1. p \in Rows /\ q \in Rows /\ Copies(p) = {} /\ Copies(q) = {}
    BY <1>1, SerialRows DEF Live
  <2> QED BY <1>1, <2>1 DEF IInv, OneLeaf
<1>2. ASSUME IInv PROVE NeverOverpaid
  <2> SUFFICES ASSUME Serial, history \cap {"late", "unfinished"} = {}
               PROVE  SumOf(Live \cup {p \in Rows : plans[p].status = "PLANNED"}) <= amount
    BY DEF NeverOverpaid
  <2> PICK C : C = Claims
    OBVIOUS
  <2> PICK D : D = Live \cup {p \in Rows : plans[p].status = "PLANNED"}
    OBVIOUS
  <2>1. D \subseteq C /\ C \subseteq Rows
    <3>1. \A p \in Live : p \in Rows /\ Copies(p) = {} /\ exec[p] # "none"
      BY <1>2, SerialRows DEF Live
    <3>2. \A p \in Rows : plans[p].status = "PLANNED" => Copies(p) = {}
      BY <1>2, SerialRows
    <3> QED BY <3>1, <3>2 DEF Claims
  <2>2. Total(plans, C) <= amount
    BY <1>2, SumIsTotal DEF IInv, ClaimsCovered
  <2>3. plans \in Seq(PlanRow) /\ C \subseteq DOMAIN plans
    BY <1>2, <2>1, RowsTyped DEF IInv, Rows
  <2>4. Total(plans, D) <= Total(plans, C)
    BY <2>1, <2>3, TotalGrows
  <2>5. Total(plans, D) \in Nat /\ Total(plans, C) \in Nat /\ amount \in Nat
    <3>1. D \subseteq DOMAIN plans
      BY <2>1, <2>3
    <3>2. amount \in Nat
      BY <1>2, AmountAssumption DEF IInv, TypeOK
    <3> QED BY <2>3, <3>1, <3>2, TotalNat
  <2> QED BY <2>2, <2>4, <2>5, SumIsTotal
<1> QED BY <1>1, <1>2, Invariance, PTL DEF PaysNoMore

=============================================================================
