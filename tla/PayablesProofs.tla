---------------------------- MODULE PayablesProofs ----------------------------
(***************************************************************************)
(* Proofs about Payables and the Documents within, for any number of       *)
(* calls, months, runs, journals, edits and payments.                      *)
(*                                                                         *)
(* Documents promises what it does in two parts that do not meet: the      *)
(* months of journals are kept by a unique key (MonthsAreKept, OneBatch),  *)
(* the posting runs of the accrual only by calls that come one after the   *)
(* other (OneAccrual).  So a step is an accrual's, a batch's, an edit, or  *)
(* the end of a call, and each part minds its own.  What the services ask  *)
(* of each other is proved on top, from what a guard has read still being  *)
(* so when the call writes, unless past says why not.                      *)
(***************************************************************************)
EXTENDS Payables, SumLemmas

----------------------------------------------------------------------------
(* Rows of runs and journals *)

JournalRow == [status : {"ACTIVE", "PAUSED", "ARCHIVED"}, source : Source]

Patched(s, j, v) == [s EXCEPT ![j].status = v]

LEMMA JournalPut ==
  ASSUME NEW s \in Seq(JournalRow), NEW j \in DOMAIN s,
         NEW v, v \in {"ACTIVE", "PAUSED", "ARCHIVED"}
  PROVE  /\ Patched(s, j, v) \in Seq(JournalRow)
         /\ Len(Patched(s, j, v)) = Len(s) /\ DOMAIN Patched(s, j, v) = DOMAIN s
         /\ \A i \in DOMAIN s : Patched(s, j, v)[i].source = s[i].source
<1> DEFINE r == [s[j] EXCEPT !.status = v]
           t == [s EXCEPT ![j] = r]
<1>1. s[j] \in JournalRow
  OBVIOUS
<1>2. r \in JournalRow /\ r.source = s[j].source
  BY <1>1 DEF JournalRow
<1> HIDE DEF r
<1>3. /\ t \in Seq(JournalRow) /\ Len(t) = Len(s) /\ DOMAIN t = DOMAIN s
      /\ t[j] = r /\ \A i \in DOMAIN s \ {j} : t[i] = s[i]
  BY <1>2
<1>4. \A i \in DOMAIN s : t[i].source = s[i].source
  BY <1>2, <1>3
<1> QED BY <1>3, <1>4 DEF r, Patched

LEMMA JournalAppended ==
  ASSUME NEW s \in Seq(JournalRow), NEW b \in Source
  PROVE  LET t == Append(s, [status |-> "ACTIVE", source |-> b])
             n == Len(s) + 1
         IN  /\ t \in Seq(JournalRow) /\ Len(t) = n /\ DOMAIN t = DOMAIN s \cup {n}
             /\ \A i \in DOMAIN s : t[i] = s[i]
<1>1. [status |-> "ACTIVE", source |-> b] \in JournalRow
  BY DEF JournalRow
<1> QED BY <1>1

LEMMA LineAdded ==
  ASSUME NEW r \in Run, NEW b \in BOOLEAN
  PROVE  /\ WithLine(r, b) \in Run /\ WithLine(r, b).status = r.status
         /\ WithLine(r, b).lines = r.lines + 1 /\ WithLine(r, b).sum = r.sum + 1
         /\ WithLine(r, b).own = (r.own \/ b)
<1> DEFINE r1 == [r EXCEPT !.lines = @ + 1]
           r2 == [r1 EXCEPT !.sum = @ + 1]
           r3 == [r2 EXCEPT !.own = @ \/ b]
<1>1. /\ r1 \in Run /\ r1.status = r.status /\ r1.lines = r.lines + 1
      /\ r1.sum = r.sum /\ r1.own = r.own
  BY DEF Run
<1> HIDE DEF r1
<1>2. /\ r2 \in Run /\ r2.status = r.status /\ r2.lines = r.lines + 1
      /\ r2.sum = r.sum + 1 /\ r2.own = r.own
  BY <1>1 DEF Run
<1> HIDE DEF r2
<1>3. /\ r3 \in Run /\ r3.status = r2.status /\ r3.lines = r2.lines /\ r3.sum = r2.sum
  BY <1>2 DEF Run
<1>4. r3.own = (r2.own \/ b)
  BY <1>2 DEF Run
<1>5. WithLine(r, b) = r3
  BY DEF WithLine, r1, r2, r3
<1>6. r3.own = (r.own \/ b)
  BY <1>2, <1>4
<1> HIDE DEF r3
<1> QED BY <1>2, <1>3, <1>5, <1>6

LEMMA RunTypes ==
  ASSUME NEW r \in Run
  PROVE  /\ Mirror(r) \in Run /\ Mirror(r).status = "POSTED" /\ Mirror(r).sum = -r.sum
         /\ Mirror(r).lines = r.lines /\ Mirror(r).own = FALSE
         /\ NewRun(0) \in Run /\ NewRun(0).status = "POSTED" /\ NewRun(0).sum = 0
         /\ NewRun(0).lines = 0 /\ NewRun(0).own = FALSE
         /\ [r EXCEPT !.status = "VOIDED"] \in Run
         /\ [r EXCEPT !.status = "VOIDED"].sum = r.sum
         /\ [r EXCEPT !.status = "VOIDED"].status = "VOIDED"
<1>1. /\ Mirror(r) \in Run /\ Mirror(r).status = "POSTED" /\ Mirror(r).sum = -r.sum
      /\ Mirror(r).lines = r.lines /\ Mirror(r).own = FALSE
  BY DEF Run, Mirror
<1>2. /\ NewRun(0) \in Run /\ NewRun(0).status = "POSTED" /\ NewRun(0).sum = 0
      /\ NewRun(0).lines = 0 /\ NewRun(0).own = FALSE
  BY DEF Run, NewRun
<1>3. /\ [r EXCEPT !.status = "VOIDED"] \in Run
      /\ [r EXCEPT !.status = "VOIDED"].sum = r.sum
      /\ [r EXCEPT !.status = "VOIDED"].status = "VOIDED"
  BY DEF Run
<1> QED BY <1>1, <1>2, <1>3

\* getActivePostedRun finds the last run that stands, or none.
LEMMA ActiveRun ==
  ASSUME runs \in Seq(Run)
  PROVE  /\ Active \in {0} \cup DOMAIN runs /\ Active \in Nat
         /\ Active # 0 => runs[Active].status = "POSTED"
         /\ \A k \in DOMAIN runs : runs[k].status = "POSTED" => k <= Active
<1> DEFINE S == {0} \cup {k \in DOMAIN runs : runs[k].status = "POSTED"}
<1>1. S \in SUBSET (0 .. Len(runs)) /\ S # {} /\ Len(runs) \in Nat
  OBVIOUS
<1>2. \A k \in DOMAIN runs : k \in Nat
  OBVIOUS
<1>3. \A k \in DOMAIN runs : runs[k].status = "POSTED" => k \in S
  OBVIOUS
<1>4. \A k \in S : k = 0 \/ (k \in DOMAIN runs /\ runs[k].status = "POSTED")
  OBVIOUS
<1>5. Active = Max(S)
  BY DEF Active
<1> HIDE DEF S
<1>6. Max(S) \in S /\ \A y \in S : Max(S) >= y
  BY <1>1, Largest
<1>7. Active \in S
  BY <1>5, <1>6
<1>8. Active = 0 \/ (Active \in DOMAIN runs /\ runs[Active].status = "POSTED")
  BY <1>4, <1>7
<1>9. ASSUME NEW k \in DOMAIN runs, runs[k].status = "POSTED"
      PROVE  k <= Active
  <2>1. Max(S) >= k
    BY <1>3, <1>6, <1>9
  <2>2. k \in Nat /\ Max(S) \in Nat
    BY <1>2, <1>5, <1>8
  <2> QED BY <1>5, <2>1, <2>2
<1> QED BY <1>2, <1>8, <1>9

LEMMA OpenJournal ==
  ASSUME journals \in Seq(JournalRow)
  PROVE  /\ Max({0} \cup Open) \in {0} \cup Open /\ Max({0} \cup Open) \in Nat
         /\ Max({0} \cup Open) # 0 => Max({0} \cup Open) \in DOMAIN journals
         /\ Open # {} => Max({0} \cup Open) # 0
<1> DEFINE S == {0} \cup Open
<1>1. S \in SUBSET (0 .. Len(journals)) /\ S # {} /\ Len(journals) \in Nat
  BY DEF Open
<1>2. \A k \in Open : k \in Nat \ {0} /\ k \in DOMAIN journals
  BY DEF Open
<1>3. Max(S) \in S /\ \A y \in S : Max(S) >= y
  BY <1>1, Largest
<1>4. ASSUME NEW k \in Open
      PROVE  Max(S) # 0
  <2>1. Max(S) >= k /\ k \in Nat /\ k # 0
    BY <1>2, <1>3
  <2> HIDE DEF S
  <2> QED BY <2>1
<1>5. Open # {} => Max(S) # 0
  BY <1>4
<1>6. Max(S) = 0 \/ Max(S) \in Open
  BY <1>3
<1> QED BY <1>2, <1>3, <1>5, <1>6

----------------------------------------------------------------------------
(* What runs add up to *)

LEMMA SumOfRuns ==
  ASSUME NEW s \in Seq(Run)
  PROVE  /\ Added(s) \in Int /\ IsFiniteSet(DOMAIN s)
         /\ \A k \in DOMAIN s : s[k] \in Run /\ s[k].sum \in Int
<1>1. \A r \in Run : r.sum \in Int
  BY DEF Run
<1> QED BY <1>1, AddedRows

LEMMA SumOfPut ==
  ASSUME NEW s \in Seq(Run), NEW k \in DOMAIN s, NEW r \in Run
  PROVE  Added([s EXCEPT ![k] = r]) = Added(s) - s[k].sum + r.sum
<1>1. \A v \in Run : v.sum \in Int
  BY DEF Run
<1> QED BY <1>1, AddedPut

LEMMA SumOfAppended ==
  ASSUME NEW s \in Seq(Run), NEW r \in Run
  PROVE  Added(Append(s, r)) = Added(s) + r.sum
<1>1. \A v \in Run : v.sum \in Int
  BY DEF Run
<1> QED BY <1>1, AddedAppended

----------------------------------------------------------------------------
(* Steps by whose they are *)

\* A change by hand that the runs and journals do not see.
Touch == Edit /\ UNCHANGED <<doc, recurring, pc, call, lap>>

AccrualStep(c) ==
  \/ ReadAccrue(c) \/ FindRun(c) \/ MakeRun(c) \/ KeepAccrued(c) \/ LookUp(c)
  \/ Insert(c) \/ InsertDelta(c) \/ SetFlag(c) \/ FindJournal(c) \/ UpsertJournal(c)
  \/ AccrueAtOnce(c)
  \/ ReadVoid(c) \/ FindActive(c) \/ CommitVoid(c)

BatchStep(c) == ReadBatch(c) \/ Reserve(c) \/ Skip(c) \/ CommitMonth(c) \/ EndBatch(c)

EditStep ==
  \/ Update
  \/ \E s \in Source : CreateJournal(s)
  \/ \E j \in Journal, s \in {"ACTIVE", "PAUSED", "ARCHIVED"} : PatchJournal(j, s)
  \/ Touch

\* What a step within Payables does to the document.
DocumentMove ==
  \/ UNCHANGED vars \/ EditStep
  \/ \E c \in Client : AccrualStep(c) \/ BatchStep(c) \/ Abort(c)

LEMMA Moves ==
  Next \/ Touch \/ UNCHANGED vars => DocumentMove
  BY DEF Next, Steps, DocumentMove, EditStep, AccrualStep, BatchStep

----------------------------------------------------------------------------
(* What a step makes of the rows *)

LEMMA PairsAreNotEmpty == \A p \in Journal \X Month : p # <<>> /\ p = <<p[1], p[2]>>
  OBVIOUS

RunsAfter(t) == t \in Seq(Run) /\ Len(t) <= MaxRuns /\ DOMAIN runs \subseteq DOMAIN t

JournalsAfter(t) ==
  /\ t \in Seq(JournalRow) /\ Len(t) <= MaxJournals /\ DOMAIN journals \subseteq DOMAIN t
  /\ \A j \in DOMAIN journals : t[j].source = journals[j].source

Found == IF Active = 0 THEN NewRun(0) ELSE runs[Active]

Putting(x) == IF Active = 0 THEN Append(runs, x) ELSE [runs EXCEPT ![Active] = x]

LEMMA AtOnce ==
  ASSUME NEW c \in Client, AccrueAtOnce(c)
  PROVE  /\ pc[c] = "idle" /\ ~accrued /\ (Active = 0 => Len(runs) < MaxRuns)
         /\ accrued' = TRUE /\ UNCHANGED <<kind, life, reserved, made, pc, call, edits>>
         /\ lap' = IF \E e \in Client : pc[e] \in Accruing THEN lap \cup {"accrual"} ELSE lap
         /\ \/ kind # "receipt" /\ Booked(Found) /\ UNCHANGED <<runs, delta, journals>>
            \/ /\ kind # "receipt" /\ ~Booked(Found) /\ UNCHANGED delta
               /\ runs' = Putting(IF Found.own THEN Found ELSE WithLine(Found, TRUE))
               /\ \/ UNCHANGED journals
                  \/ /\ Open = {} => Len(journals) < MaxJournals
                     /\ journals' = Upserted(Max({0} \cup Open))
            \/ /\ kind = "receipt" /\ UNCHANGED journals
               /\ \/ runs' = Putting(Found) /\ UNCHANGED delta
                  \/ ~delta /\ delta' = TRUE /\ runs' = Putting(WithLine(Found, FALSE))
  BY DEF AccrueAtOnce, Found, Putting

LEMMA FoundIsRun ==
  ASSUME TypeOK
  PROVE  /\ Found \in Run /\ Found.status = "POSTED"
         /\ \A x \in Run : (Active = 0 => Len(runs) < MaxRuns) => RunsAfter(Putting(x))
<1>1. /\ runs \in Seq(Run) /\ Len(runs) <= MaxRuns /\ Len(runs) \in Nat
  BY DEF TypeOK
<1>2. /\ NewRun(0) \in Run /\ NewRun(0).status = "POSTED"
  BY DEF NewRun, Run
<1>3. Active \in {0} \cup DOMAIN runs /\ (Active # 0 => runs[Active].status = "POSTED")
  BY <1>1, ActiveRun
<1>4. Found \in Run /\ Found.status = "POSTED"
  BY <1>1, <1>2, <1>3, SumOfRuns DEF Found
<1>5. ASSUME NEW x \in Run, Active = 0, Len(runs) < MaxRuns
      PROVE  RunsAfter(Putting(x))
  <2>1. MaxRuns \in Nat
    BY BoundsAssumption
  <2>2. /\ Append(runs, x) \in Seq(Run) /\ Len(Append(runs, x)) = Len(runs) + 1
        /\ DOMAIN runs \subseteq DOMAIN Append(runs, x)
    BY <1>1, RowAppended
  <2> QED BY <1>1, <1>5, <2>1, <2>2 DEF RunsAfter, Putting
<1>6. ASSUME NEW x \in Run, Active # 0
      PROVE  RunsAfter(Putting(x))
  BY <1>1, <1>3, <1>6, RowPut DEF RunsAfter, Putting
<1> QED BY <1>4, <1>5, <1>6

LEMMA RunsAfterStep ==
  ASSUME TypeOK, CallsKnow, DocumentMove
  PROVE  RunsAfter(runs')
<1>1. /\ runs \in Seq(Run) /\ Len(runs) <= MaxRuns /\ Len(runs) \in Nat /\ MaxRuns \in Nat
      /\ \A k \in DOMAIN runs : runs[k] \in Run
  BY BoundsAssumption, SumOfRuns DEF TypeOK
<1>2. ASSUME UNCHANGED runs
      PROVE  RunsAfter(runs')
  BY <1>1, <1>2 DEF RunsAfter
<1>3. ASSUME NEW k \in DOMAIN runs, NEW r \in Run, runs' = [runs EXCEPT ![k] = r]
      PROVE  RunsAfter(runs')
  BY <1>1, <1>3, RowPut DEF RunsAfter
<1>4. ASSUME UNCHANGED vars \/ EditStep
      PROVE  RunsAfter(runs')
  BY <1>2, <1>4 DEF vars, doc, EditStep, Update, CreateJournal, PatchJournal, Touch
<1>5. ASSUME NEW c \in Client, BatchStep(c) \/ Abort(c)
      PROVE  RunsAfter(runs')
  BY <1>2, <1>5 DEF doc, BatchStep, ReadBatch, Reserve, Skip, CommitMonth, EndBatch, Abort
<1>6. ASSUME NEW c \in Client, MakeRun(c)
      PROVE  RunsAfter(runs')
  <2>1. NewRun(0) \in Run
    BY DEF NewRun, Run
  <2>2. runs' = Append(runs, NewRun(0)) /\ Len(runs) < MaxRuns
    BY <1>6 DEF MakeRun
  <2> QED BY <1>1, <2>1, <2>2, RowAppended DEF RunsAfter
<1>7. ASSUME NEW c \in Client, Insert(c) \/ InsertDelta(c)
      PROVE  RunsAfter(runs')
  <2>1. pc[c] \in {"look", "insert"}
    BY <1>7 DEF Insert, InsertDelta
  <2>2. seen[c] \in DOMAIN runs /\ runs[seen[c]] \in Run
    BY <1>1, <2>1 DEF CallsKnow
  <2>3. \A b \in BOOLEAN : WithLine(runs[seen[c]], b) \in Run
    BY <2>2, LineAdded
  <2>4. UNCHANGED runs \/ \E b \in BOOLEAN : runs' = [runs EXCEPT ![seen[c]] = WithLine(@, b)]
    BY <1>7 DEF Insert, InsertDelta
  <2> QED BY <1>2, <1>3, <2>2, <2>3, <2>4
<1>8. ASSUME NEW c \in Client, AccrueAtOnce(c)
      PROVE  RunsAfter(runs')
  <2>1. /\ Found \in Run
        /\ \A x \in Run : (Active = 0 => Len(runs) < MaxRuns) => RunsAfter(Putting(x))
    BY FoundIsRun
  <2>2. /\ Active = 0 => Len(runs) < MaxRuns
        /\ UNCHANGED runs \/ \E x \in {Found, WithLine(Found, TRUE), WithLine(Found, FALSE)} :
                               runs' = Putting(x)
    BY <1>8, AtOnce
  <2>3. WithLine(Found, TRUE) \in Run /\ WithLine(Found, FALSE) \in Run
    BY <2>1, LineAdded
  <2> QED BY <1>2, <2>1, <2>2, <2>3
<1>9. ASSUME NEW c \in Client, CommitVoid(c)
      PROVE  RunsAfter(runs')
  <2> DEFINE k == seen[c]
             v == [runs[k] EXCEPT !.status = "VOIDED"]
             t == [runs EXCEPT ![k] = v]
  <2>1. CASE UNCHANGED runs
    BY <1>2, <2>1
  <2>2. CASE k # 0 /\ Len(runs) < MaxRuns /\ runs' = Append(t, Mirror(runs[k]))
    <3>1. k \in DOMAIN runs /\ runs[k] \in Run
      BY <1>1, <1>9, <2>2 DEF CommitVoid, CallsKnow
    <3>2. v \in Run /\ Mirror(runs[k]) \in Run
      BY <3>1, RunTypes
    <3> HIDE DEF v
    <3>3. t \in Seq(Run) /\ Len(t) = Len(runs) /\ DOMAIN t = DOMAIN runs
      BY <1>1, <3>1, <3>2, RowPut
    <3> HIDE DEF t
    <3>4. /\ Append(t, Mirror(runs[k])) \in Seq(Run)
          /\ Len(Append(t, Mirror(runs[k]))) = Len(runs) + 1
          /\ DOMAIN runs \subseteq DOMAIN Append(t, Mirror(runs[k]))
      BY <3>2, <3>3, RowAppended
    <3> QED BY <1>1, <2>2, <3>4 DEF RunsAfter
  <2> QED BY <1>9, <2>1, <2>2 DEF CommitVoid
<1>10. ASSUME NEW c \in Client, AccrualStep(c)
       PROVE  RunsAfter(runs')
  <2>1. \/ UNCHANGED runs \/ MakeRun(c) \/ Insert(c) \/ InsertDelta(c) \/ AccrueAtOnce(c)
        \/ CommitVoid(c)
    BY <1>10 DEF AccrualStep, ReadAccrue, FindRun, KeepAccrued, LookUp, SetFlag, FindJournal,
                 UpsertJournal, ReadVoid, FindActive, doc
  <2> QED BY <1>2, <1>6, <1>7, <1>8, <1>9, <2>1
<1> QED BY <1>4, <1>5, <1>10 DEF DocumentMove

LEMMA UpsertedRow ==
  ASSUME TypeOK, NEW j, j = 0 => Len(journals) < MaxJournals, j # 0 => j \in DOMAIN journals
  PROVE  JournalsAfter(Upserted(j))
<1>1. /\ journals \in Seq(JournalRow) /\ Len(journals) <= MaxJournals /\ Len(journals) \in Nat
      /\ MaxJournals \in Nat
  BY BoundsAssumption DEF TypeOK, JournalRow
<1>2. CASE j = 0
  <2> DEFINE t == Append(journals, [status |-> "ACTIVE", source |-> AccrualType])
  <2>1. /\ t \in Seq(JournalRow) /\ Len(t) = Len(journals) + 1
        /\ DOMAIN t = DOMAIN journals \cup {Len(journals) + 1}
        /\ \A i \in DOMAIN journals : t[i] = journals[i]
    BY <1>1, TypeAssumption, JournalAppended DEF Source
  <2>2. Upserted(j) = t
    BY <1>2 DEF Upserted
  <2> HIDE DEF t
  <2> QED BY <1>1, <1>2, <2>1, <2>2 DEF JournalsAfter
<1>3. CASE j # 0
  <2> DEFINE t == [journals EXCEPT ![j].status = "ACTIVE"]
  <2>1. /\ t \in Seq(JournalRow) /\ Len(t) = Len(journals) /\ DOMAIN t = DOMAIN journals
        /\ \A i \in DOMAIN journals : t[i].source = journals[i].source
    <3>1. t = Patched(journals, j, "ACTIVE") /\ j \in DOMAIN journals
      BY <1>3 DEF Patched
    <3> HIDE DEF t
    <3> QED BY <1>1, <3>1, JournalPut
  <2>2. Upserted(j) = t
    BY <1>3 DEF Upserted
  <2> HIDE DEF t
  <2> QED BY <1>1, <2>1, <2>2 DEF JournalsAfter
<1> QED BY <1>2, <1>3

LEMMA JournalsAfterStep ==
  ASSUME TypeOK, CallsKnow, DocumentMove
  PROVE  JournalsAfter(journals')
<1>1. /\ journals \in Seq(JournalRow) /\ Len(journals) <= MaxJournals /\ Len(journals) \in Nat
      /\ MaxJournals \in Nat
  BY BoundsAssumption DEF TypeOK, JournalRow
<1>2. ASSUME UNCHANGED journals
      PROVE  JournalsAfter(journals')
  BY <1>1, <1>2 DEF JournalsAfter
<1>3. ASSUME NEW s \in Source, CreateJournal(s)
      PROVE  JournalsAfter(journals')
  <2> DEFINE t == Append(journals, [status |-> "ACTIVE", source |-> s])
  <2>1. /\ t \in Seq(JournalRow) /\ Len(t) = Len(journals) + 1
        /\ DOMAIN t = DOMAIN journals \cup {Len(journals) + 1}
        /\ \A i \in DOMAIN journals : t[i] = journals[i]
    BY <1>1, JournalAppended
  <2>2. journals' = t /\ Len(journals) < MaxJournals
    BY <1>3 DEF CreateJournal
  <2> HIDE DEF t
  <2> QED BY <1>1, <2>1, <2>2 DEF JournalsAfter
<1>4. ASSUME NEW j \in Journal, NEW s \in {"ACTIVE", "PAUSED", "ARCHIVED"}, PatchJournal(j, s)
      PROVE  JournalsAfter(journals')
  <2> DEFINE t == [journals EXCEPT ![j].status = s]
  <2>1. j \in DOMAIN journals /\ journals' = t
    BY <1>4 DEF PatchJournal
  <2>2. /\ t \in Seq(JournalRow) /\ Len(t) = Len(journals) /\ DOMAIN t = DOMAIN journals
        /\ \A i \in DOMAIN journals : t[i].source = journals[i].source
    <3>1. t = Patched(journals, j, s)
      BY DEF Patched
    <3> HIDE DEF t
    <3> QED BY <1>1, <2>1, <3>1, JournalPut
  <2> HIDE DEF t
  <2> QED BY <1>1, <2>1, <2>2 DEF JournalsAfter
<1>5. ASSUME UNCHANGED vars \/ EditStep
      PROVE  JournalsAfter(journals')
  <2>1. \/ UNCHANGED journals
        \/ \E s \in Source : CreateJournal(s)
        \/ \E j \in Journal, s \in {"ACTIVE", "PAUSED", "ARCHIVED"} : PatchJournal(j, s)
    BY <1>5 DEF vars, recurring, EditStep, Update, Touch
  <2> QED BY <1>2, <1>3, <1>4, <2>1
<1>6. ASSUME NEW c \in Client, BatchStep(c) \/ Abort(c)
      PROVE  JournalsAfter(journals')
  BY <1>2, <1>6 DEF recurring, BatchStep, ReadBatch, Reserve, Skip, CommitMonth, EndBatch, Abort
<1>7. ASSUME NEW c \in Client, UpsertJournal(c)
      PROVE  JournalsAfter(journals')
  <2>1. /\ seen[c] = 0 => Len(journals) < MaxJournals
        /\ seen[c] \in {0} \cup DOMAIN journals /\ journals' = Upserted(seen[c])
    BY <1>7 DEF UpsertJournal, CallsKnow
  <2>2. JournalsAfter(Upserted(seen[c]))
    BY <2>1, UpsertedRow
  <2> QED BY <2>1, <2>2
<1>8. ASSUME NEW c \in Client, AccrueAtOnce(c)
      PROVE  JournalsAfter(journals')
  <2> DEFINE j == Max({0} \cup Open)
  <2>1. j \in {0} \cup Open /\ (j # 0 => j \in DOMAIN journals) /\ (Open # {} => j # 0)
    BY <1>1, OpenJournal
  <2>2. \/ UNCHANGED journals
        \/ (Open = {} => Len(journals) < MaxJournals) /\ journals' = Upserted(j)
    BY <1>8, AtOnce
  <2> HIDE DEF j
  <2>3. CASE (Open = {} => Len(journals) < MaxJournals) /\ journals' = Upserted(j)
    <3>1. JournalsAfter(Upserted(j))
      BY <2>1, <2>3, UpsertedRow
    <3> QED BY <2>3, <3>1
  <2> QED BY <1>2, <2>2, <2>3
<1>9. ASSUME NEW c \in Client, AccrualStep(c)
      PROVE  JournalsAfter(journals')
  <2>1. UNCHANGED journals \/ UpsertJournal(c) \/ AccrueAtOnce(c)
    BY <1>9 DEF AccrualStep, ReadAccrue, FindRun, MakeRun, KeepAccrued, LookUp, Insert,
                InsertDelta, SetFlag, FindJournal, ReadVoid, FindActive, CommitVoid, recurring
  <2> QED BY <1>2, <1>7, <1>8, <2>1
<1> QED BY <1>5, <1>6, <1>9 DEF DocumentMove

----------------------------------------------------------------------------
(* Types *)

LEMMA Kinds ==
  /\ Accruing \cap Batching = {} /\ "idle" \notin Accruing /\ "idle" \notin Batching
  /\ "month" \notin Accruing /\ "month" \in Batching /\ "batch" \in Batching
  BY DEF Accruing, Batching

\* Where a call stands and what it holds.
CallsTyped ==
  /\ pc \in [Client -> {"idle"} \cup Accruing \cup Batching]
  /\ flag \in [Client -> BOOLEAN] /\ seen \in [Client -> Nat]
  /\ todo \in [Client -> SUBSET (Journal \X Month)]
  /\ at \in [Client -> {<<>>} \cup (Journal \X Month)]

LEMMA CallsEnd ==
  ASSUME CallsTyped, NEW c \in Client, End(c)
  PROVE  CallsTyped'
  BY DEF CallsTyped, End, Goto

LEMMA CallsStay ==
  ASSUME CallsTyped, UNCHANGED <<pc, call>>
  PROVE  CallsTyped'
  BY DEF CallsTyped, call

LEMMA CallsGo ==
  ASSUME CallsTyped, NEW c \in Client, NEW l \in Accruing \cup Batching, Goto(c, l),
         UNCHANGED <<flag, todo, at>>, UNCHANGED seen \/ \E n \in Nat : seen' = [seen EXCEPT ![c] = n]
  PROVE  CallsTyped'
  BY DEF CallsTyped, Goto

LEMMA AccrualTypes ==
  ASSUME TypeOK, CallsKnow, NEW c \in Client, AccrualStep(c)
  PROVE  CallsTyped'
<1>1. CallsTyped
  BY DEF TypeOK, CallsTyped
<1>2. Active \in Nat /\ Max({0} \cup Open) \in Nat
  BY ActiveRun, OpenJournal DEF TypeOK, JournalRow
<1>3. \A l \in {"find", "make", "look", "insert", "flag", "journal", "upsert", "void", "voiding"} :
        l \in Accruing \cup Batching
  BY DEF Accruing
<1>4. CASE KeepAccrued(c) \/ UpsertJournal(c) \/ CommitVoid(c)
  BY <1>1, <1>4, CallsEnd DEF KeepAccrued, UpsertJournal, CommitVoid
<1>5. CASE AccrueAtOnce(c)
  BY <1>1, <1>5, AtOnce, CallsStay
<1>6. CASE ReadAccrue(c)
  BY <1>1, <1>6 DEF TypeOK, CallsTyped, ReadAccrue, Begin, Goto, Accruing
<1>7. CASE FindRun(c) \/ FindJournal(c) \/ FindActive(c)
  BY <1>1, <1>2, <1>3, <1>7, CallsGo DEF FindRun, FindJournal, FindActive
<1>8. CASE MakeRun(c)
  <2>1. RunsAfter(runs')
    BY <1>8, RunsAfterStep DEF DocumentMove, AccrualStep
  <2>2. Len(runs') \in Nat
    BY <2>1 DEF RunsAfter
  <2> QED BY <1>1, <1>3, <1>8, <2>2, CallsGo DEF MakeRun
<1>9. CASE LookUp(c) \/ Insert(c) \/ InsertDelta(c) \/ ReadVoid(c)
  BY <1>1, <1>3, <1>9, CallsGo DEF LookUp, Insert, InsertDelta, ReadVoid, Begin, call
<1>10. CASE SetFlag(c)
  <2>1. CASE End(c)
    BY <1>1, <2>1, CallsEnd
  <2>2. CASE Goto(c, "journal") /\ UNCHANGED call
    BY <1>1, <1>3, <2>2, CallsGo DEF call
  <2> QED BY <1>10, <2>1, <2>2 DEF SetFlag
<1> QED BY <1>4, <1>5, <1>6, <1>7, <1>8, <1>9, <1>10 DEF AccrualStep

LEMMA BatchTypes ==
  ASSUME TypeOK, CallsKnow, NEW c \in Client, BatchStep(c)
  PROVE  CallsTyped' /\ reserved' \subseteq Journal \X Month /\ made' \in [Journal \X Month -> Nat]
<1>1. /\ CallsTyped /\ reserved \subseteq Journal \X Month
      /\ made \in [Journal \X Month -> Nat]
  BY DEF TypeOK, CallsTyped
<1>2. CASE EndBatch(c)
  BY <1>1, <1>2, CallsEnd DEF EndBatch, recurring
<1>3. CASE Skip(c)
  BY <1>1, <1>3 DEF CallsTyped, Skip, recurring
<1>4. CASE Reserve(c)
  <2>1. PICK p \in todo[c] \ reserved :
          /\ todo' = [todo EXCEPT ![c] = @ \ {p}]
          /\ at' = [at EXCEPT ![c] = p]
          /\ seen' = [seen EXCEPT ![c] = IF Recognised(p[1], p[2]) THEN 1 ELSE 0]
          /\ Goto(c, "month") /\ UNCHANGED <<recurring, flag>>
    BY <1>4 DEF Reserve
  <2>2. p \in Journal \X Month
    BY <1>1 DEF CallsTyped
  <2>3. \E n \in Nat : seen' = [seen EXCEPT ![c] = n]
    BY <2>1
  <2> QED BY <1>1, <2>1, <2>2, <2>3 DEF CallsTyped, Goto, Batching, recurring
<1>5. CASE CommitMonth(c)
  <2>1. at[c] \in Journal \X Month
    BY <1>1, <1>5 DEF CommitMonth, CallsKnow, CallsTyped
  <2>2. CallsTyped'
    BY <1>1, <1>5 DEF CommitMonth, CallsTyped, Goto, Batching
  <2> QED BY <1>1, <1>5, <2>1, <2>2 DEF CommitMonth
<1>6. CASE ReadBatch(c)
  <2>1. PICK T \in SUBSET {p \in Journal \X Month :
                             p[1] \in DOMAIN journals /\ journals[p[1]].status = "ACTIVE"} :
          /\ Begin(c, "batch", Batching, "batch")
          /\ todo' = [todo EXCEPT ![c] = T]
          /\ UNCHANGED <<recurring, flag, seen, at>>
    BY <1>6 DEF ReadBatch
  <2>2. T \in SUBSET (Journal \X Month)
    OBVIOUS
  <2> QED BY <1>1, <2>1, <2>2 DEF CallsTyped, Begin, Goto, Batching, recurring
<1> QED BY <1>2, <1>3, <1>4, <1>5, <1>6 DEF BatchStep

LEMMA TypeStep ==
  ASSUME TypeOK, CallsKnow, DocumentMove
  PROVE  TypeOK'
<1>1. /\ RunsAfter(runs') /\ JournalsAfter(journals')
  BY RunsAfterStep, JournalsAfterStep
<1>2. /\ runs' \in Seq(Run) /\ Len(runs') <= MaxRuns
      /\ journals' \in Seq([status : {"ACTIVE", "PAUSED", "ARCHIVED"}, source : Source])
      /\ Len(journals') <= MaxJournals
  BY <1>1 DEF RunsAfter, JournalsAfter, JournalRow
<1>3. CallsTyped /\ MaxEdits \in Nat
  BY BoundsAssumption DEF TypeOK, CallsTyped
<1> DEFINE Rest == /\ CallsTyped'
                   /\ reserved' \subseteq Journal \X Month
                   /\ made' \in [Journal \X Month -> Nat]
           Flags == /\ kind' \in Kind /\ life' \in BOOLEAN /\ accrued' \in BOOLEAN
                    /\ delta' \in BOOLEAN
                    /\ lap' \subseteq {"accrual", "batch"} /\ edits' \in 0 .. MaxEdits
<1>4. CASE UNCHANGED vars
  <2>1. CallsTyped'
    BY <1>3, <1>4, CallsStay DEF vars
  <2>2. Rest /\ Flags
    BY <1>4, <2>1 DEF TypeOK, vars, doc, recurring
  <2> QED BY <1>2, <2>2 DEF TypeOK, CallsTyped
<1>5. CASE EditStep
  <2>1. CallsTyped'
    BY <1>3, <1>5, CallsStay DEF EditStep, Update, CreateJournal, PatchJournal, Touch
  <2>2. Rest
    BY <1>5, <2>1 DEF TypeOK, recurring, EditStep, Update, CreateJournal, PatchJournal, Touch
  <2>3. edits' \in 0 .. MaxEdits
    <3>1. Edit
      BY <1>5 DEF EditStep, Update, CreateJournal, PatchJournal, Touch
    <3> QED BY <1>3, <3>1 DEF TypeOK, Edit
  <2>4. Flags
    BY <1>5, <2>3 DEF TypeOK, doc, EditStep, Update, CreateJournal, PatchJournal, Touch
  <2> QED BY <1>2, <2>2, <2>4 DEF TypeOK, CallsTyped
<1>6. ASSUME NEW c \in Client, BatchStep(c)
      PROVE  TypeOK'
  <2>1. Rest
    BY <1>6, BatchTypes
  <2>2. Flags
    BY <1>6 DEF TypeOK, doc, BatchStep, ReadBatch, Begin, Reserve, Skip, CommitMonth, EndBatch
  <2> QED BY <1>2, <2>1, <2>2 DEF TypeOK, CallsTyped
<1>7. ASSUME NEW c \in Client, Abort(c)
      PROVE  TypeOK'
  <2>1. CallsTyped'
    BY <1>3, <1>7, CallsEnd DEF Abort
  <2>2. Rest /\ Flags
    BY <1>7, <2>1 DEF TypeOK, Abort, doc, recurring
  <2> QED BY <1>2, <2>2 DEF TypeOK, CallsTyped
<1>8. ASSUME NEW c \in Client, AccrualStep(c)
      PROVE  TypeOK'
  <2>1. CallsTyped'
    BY <1>8, AccrualTypes
  <2>2. CASE AccrueAtOnce(c)
    <3>1. UNCHANGED <<kind, life, reserved, made, edits>> /\ accrued' = TRUE
          /\ (UNCHANGED delta \/ delta' = TRUE)
          /\ lap' = IF \E e \in Client : pc[e] \in Accruing THEN lap \cup {"accrual"} ELSE lap
      BY <2>2, AtOnce
    <3>2. Rest /\ Flags
      BY <2>1, <3>1 DEF TypeOK
    <3> QED BY <1>2, <3>2 DEF TypeOK, CallsTyped
  <2>3. CASE ~AccrueAtOnce(c)
    <3>1. UNCHANGED <<kind, life, reserved, made, edits>>
      BY <1>8, <2>3 DEF AccrualStep, ReadAccrue, FindRun, MakeRun, KeepAccrued, LookUp, Insert,
         InsertDelta, SetFlag, FindJournal, UpsertJournal, ReadVoid, FindActive, CommitVoid,
         doc, recurring
    <3>2. lap' \subseteq lap \cup {"accrual"}
      BY <1>8, <2>3 DEF AccrualStep, ReadAccrue, FindRun, MakeRun, KeepAccrued, LookUp, Insert,
         InsertDelta, SetFlag, FindJournal, UpsertJournal, ReadVoid, FindActive, CommitVoid,
         Begin
    <3>3. accrued' \in BOOLEAN /\ delta' \in BOOLEAN
      BY <1>8, <2>3 DEF AccrualStep, ReadAccrue, FindRun, MakeRun, KeepAccrued, LookUp, Insert,
         InsertDelta, SetFlag, FindJournal, UpsertJournal, ReadVoid, FindActive, CommitVoid,
         doc, TypeOK
    <3>4. Rest /\ Flags
      BY <2>1, <3>1, <3>2, <3>3 DEF TypeOK
    <3> QED BY <1>2, <3>4 DEF TypeOK, CallsTyped
  <2> QED BY <2>2, <2>3
<1> QED BY <1>4, <1>5, <1>6, <1>7, <1>8 DEF DocumentMove

----------------------------------------------------------------------------
(* What calls have found *)

CallKnows(c) ==
  /\ pc[c] \in {"look", "insert", "flag"} => seen[c] \in DOMAIN runs
  /\ pc[c] = "voiding" => seen[c] \in {0} \cup DOMAIN runs
  /\ pc[c] = "upsert" => seen[c] \in {0} \cup DOMAIN journals
  /\ at[c] # <<>> <=> pc[c] = "month"
  /\ pc[c] = "month" => at[c][1] \in DOMAIN journals /\ seen[c] \in {0, 1}
  /\ \A p \in todo[c] : p[1] \in DOMAIN journals

\* Rows that are added take nothing away from a call.
LEMMA KnowsStill ==
  ASSUME NEW c \in Client, CallKnows(c), RunsAfter(runs'), JournalsAfter(journals'),
         pc'[c] = pc[c], seen'[c] = seen[c], todo'[c] = todo[c], at'[c] = at[c]
  PROVE  CallKnows(c)'
  BY DEF CallKnows, RunsAfter, JournalsAfter

LEMMA EndedKnows ==
  ASSUME CallsTyped, NEW c \in Client, End(c)
  PROVE  /\ CallKnows(c)'
         /\ \A d \in Client \ {c} : /\ pc'[d] = pc[d] /\ seen'[d] = seen[d]
                                    /\ todo'[d] = todo[d] /\ at'[d] = at[d]
  BY DEF CallsTyped, End, Goto, CallKnows

LEMMA AccrualKnows ==
  ASSUME TypeOK, CallsKnow, NEW c \in Client, AccrualStep(c)
  PROVE  /\ CallKnows(c)'
         /\ \A d \in Client \ {c} : /\ pc'[d] = pc[d] /\ seen'[d] = seen[d]
                                    /\ todo'[d] = todo[d] /\ at'[d] = at[d]
<1>1. /\ CallsTyped /\ CallKnows(c)
  BY DEF TypeOK, CallsTyped, CallsKnow, CallKnows
<1>2. /\ RunsAfter(runs') /\ JournalsAfter(journals')
  BY RunsAfterStep, JournalsAfterStep DEF DocumentMove
<1>3. /\ Active \in {0} \cup DOMAIN runs
      /\ Max({0} \cup Open) \in {0} \cup DOMAIN journals
  BY ActiveRun, OpenJournal DEF TypeOK, JournalRow
<1>4. CASE KeepAccrued(c) \/ UpsertJournal(c) \/ CommitVoid(c)
  BY <1>1, <1>4, EndedKnows DEF KeepAccrued, UpsertJournal, CommitVoid
<1>5. CASE AccrueAtOnce(c)
  BY <1>1, <1>2, <1>5, AtOnce, KnowsStill DEF call
<1>6. CASE ReadAccrue(c) \/ ReadVoid(c)
  <2>1. /\ pc[c] = "idle" /\ pc'[c] \in {"find", "void"} /\ seen' = seen /\ todo' = todo
        /\ at' = at /\ \A d \in Client \ {c} : pc'[d] = pc[d]
    BY <1>1, <1>6 DEF ReadAccrue, ReadVoid, Begin, Goto, CallsTyped, call
  <2> QED BY <1>1, <1>2, <2>1 DEF CallKnows, JournalsAfter
<1>7. CASE FindRun(c) \/ FindActive(c)
  <2>1. /\ pc'[c] = "make" \/ (pc'[c] = "look" /\ Active # 0) \/ pc'[c] = "voiding"
        /\ pc[c] # "month" /\ seen'[c] = Active /\ todo' = todo
        /\ at' = at /\ \A d \in Client \ {c} : pc'[d] = pc[d] /\ seen'[d] = seen[d]
    BY <1>1, <1>7 DEF FindRun, FindActive, Goto, CallsTyped
  <2> QED BY <1>1, <1>2, <1>3, <2>1 DEF CallKnows, JournalsAfter, RunsAfter
<1>8. CASE MakeRun(c)
  <2>1. NewRun(0) \in Run
    BY DEF NewRun, Run
  <2>2. runs' = Append(runs, NewRun(0)) /\ runs \in Seq(Run)
    BY <1>8 DEF MakeRun, TypeOK
  <2>3. Len(runs') = Len(runs) + 1 /\ Len(runs') \in DOMAIN runs'
    BY <2>1, <2>2, RowAppended
  <2>4. /\ pc'[c] = "look" /\ pc[c] # "month" /\ seen'[c] = Len(runs') /\ todo' = todo
        /\ at' = at /\ \A d \in Client \ {c} : pc'[d] = pc[d] /\ seen'[d] = seen[d]
    BY <1>1, <1>8 DEF MakeRun, Goto, CallsTyped
  <2> QED BY <1>1, <1>2, <2>3, <2>4 DEF CallKnows, JournalsAfter
<1>9. CASE LookUp(c) \/ Insert(c) \/ InsertDelta(c)
  <2>1. /\ pc[c] \in {"look", "insert"} /\ pc'[c] \in {"insert", "flag"}
        /\ seen' = seen /\ todo' = todo
        /\ at' = at /\ \A d \in Client \ {c} : pc'[d] = pc[d]
    BY <1>1, <1>9 DEF LookUp, Insert, InsertDelta, Goto, CallsTyped, call
  <2> QED BY <1>1, <1>2, <2>1 DEF CallKnows, JournalsAfter, RunsAfter
<1>10. CASE SetFlag(c)
  <2>1. CASE End(c)
    BY <1>1, <2>1, EndedKnows
  <2>2. CASE Goto(c, "journal") /\ UNCHANGED call
    <3>1. /\ pc[c] = "flag" /\ pc'[c] = "journal" /\ seen' = seen /\ todo' = todo
          /\ at' = at /\ \A d \in Client \ {c} : pc'[d] = pc[d]
      BY <1>1, <1>10, <2>2 DEF SetFlag, Goto, CallsTyped, call
    <3> QED BY <1>1, <1>2, <3>1 DEF CallKnows, JournalsAfter
  <2> QED BY <1>10, <2>1, <2>2 DEF SetFlag
<1>11. CASE FindJournal(c)
  <2>1. /\ pc'[c] = "upsert"
        /\ pc[c] # "month" /\ seen'[c] = Max({0} \cup Open) /\ todo' = todo
        /\ at' = at /\ \A d \in Client \ {c} : pc'[d] = pc[d] /\ seen'[d] = seen[d]
    BY <1>1, <1>11 DEF FindJournal, Goto, CallsTyped
  <2> QED BY <1>1, <1>2, <1>3, <2>1 DEF CallKnows, JournalsAfter
<1> QED BY <1>4, <1>5, <1>6, <1>7, <1>8, <1>9, <1>10, <1>11 DEF AccrualStep

LEMMA BatchKnows ==
  ASSUME TypeOK, CallsKnow, NEW c \in Client, BatchStep(c)
  PROVE  /\ CallKnows(c)'
         /\ \A d \in Client \ {c} : /\ pc'[d] = pc[d] /\ seen'[d] = seen[d]
                                    /\ todo'[d] = todo[d] /\ at'[d] = at[d]
<1>1. /\ CallsTyped /\ CallKnows(c)
  BY DEF TypeOK, CallsTyped, CallsKnow, CallKnows
<1>2. CASE EndBatch(c)
  BY <1>1, <1>2, EndedKnows DEF EndBatch
<1>3. CASE Skip(c)
  <2>1. /\ journals' = journals /\ pc' = pc /\ seen' = seen /\ at' = at /\ runs' = runs
        /\ todo'[c] \subseteq todo[c] /\ \A d \in Client \ {c} : todo'[d] = todo[d]
    BY <1>1, <1>3 DEF Skip, CallsTyped, recurring, doc
  <2> QED BY <1>1, <2>1 DEF CallKnows
<1>4. CASE Reserve(c)
  <2>1. PICK p \in todo[c] \ reserved :
          /\ todo' = [todo EXCEPT ![c] = @ \ {p}]
          /\ at' = [at EXCEPT ![c] = p]
          /\ seen' = [seen EXCEPT ![c] = IF Recognised(p[1], p[2]) THEN 1 ELSE 0]
          /\ Goto(c, "month") /\ UNCHANGED <<recurring, flag>>
    BY <1>4 DEF Reserve
  <2>2. p # <<>> /\ p[1] \in DOMAIN journals
    BY <1>1, PairsAreNotEmpty DEF CallsTyped, CallKnows
  <2>3. /\ journals' = journals /\ pc'[c] = "month" /\ seen'[c] \in {0, 1} /\ at'[c] = p
        /\ todo'[c] \subseteq todo[c]
        /\ \A d \in Client \ {c} : /\ pc'[d] = pc[d] /\ seen'[d] = seen[d]
                                   /\ todo'[d] = todo[d] /\ at'[d] = at[d]
    BY <1>1, <2>1 DEF Goto, CallsTyped, recurring
  <2> QED BY <1>1, <2>2, <2>3 DEF CallKnows
<1>5. CASE CommitMonth(c)
  <2>1. /\ journals' = journals /\ pc'[c] = "batch" /\ at'[c] = <<>> /\ todo' = todo
        /\ \A d \in Client \ {c} : /\ pc'[d] = pc[d] /\ seen'[d] = seen[d]
                                   /\ at'[d] = at[d]
    BY <1>1, <1>5 DEF CommitMonth, Goto, CallsTyped
  <2> QED BY <1>1, <2>1 DEF CallKnows
<1>6. CASE ReadBatch(c)
  <2>1. PICK T \in SUBSET {p \in Journal \X Month :
                             p[1] \in DOMAIN journals /\ journals[p[1]].status = "ACTIVE"} :
          /\ Begin(c, "batch", Batching, "batch")
          /\ todo' = [todo EXCEPT ![c] = T]
          /\ UNCHANGED <<recurring, flag, seen, at>>
    BY <1>6 DEF ReadBatch
  <2>2. /\ journals' = journals /\ pc[c] = "idle" /\ pc'[c] = "batch" /\ at' = at
        /\ todo'[c] = T /\ seen' = seen
        /\ \A d \in Client \ {c} : pc'[d] = pc[d] /\ todo'[d] = todo[d]
    BY <1>1, <2>1 DEF Begin, Goto, CallsTyped, recurring
  <2>3. \A p \in T : p[1] \in DOMAIN journals
    OBVIOUS
  <2> QED BY <1>1, <2>2, <2>3 DEF CallKnows
<1> QED BY <1>2, <1>3, <1>4, <1>5, <1>6 DEF BatchStep

LEMMA CallsStep ==
  ASSUME TypeOK, CallsKnow, DocumentMove
  PROVE  CallsKnow'
<1>1. /\ CallsTyped /\ \A c \in Client : CallKnows(c)
  BY DEF TypeOK, CallsTyped, CallsKnow, CallKnows
<1>2. /\ RunsAfter(runs') /\ JournalsAfter(journals')
  BY RunsAfterStep, JournalsAfterStep
<1>3. ASSUME UNCHANGED <<pc, call>>
      PROVE  \A d \in Client : CallKnows(d)'
  <2>1. \A d \in Client : /\ pc'[d] = pc[d] /\ seen'[d] = seen[d]
                          /\ todo'[d] = todo[d] /\ at'[d] = at[d]
    BY <1>3 DEF call
  <2> QED BY <1>1, <1>2, <2>1, KnowsStill
<1>4. ASSUME NEW c \in Client, CallKnows(c)',
             \A d \in Client \ {c} : /\ pc'[d] = pc[d] /\ seen'[d] = seen[d]
                                     /\ todo'[d] = todo[d] /\ at'[d] = at[d]
      PROVE  \A d \in Client : CallKnows(d)'
  <2>1. ASSUME NEW d \in Client, d # c
        PROVE  CallKnows(d)'
    BY <1>1, <1>2, <1>4, <2>1, KnowsStill
  <2> QED BY <1>4, <2>1
<1>5. \A d \in Client : CallKnows(d)'
  <2>1. CASE UNCHANGED vars \/ EditStep
    BY <1>3, <2>1 DEF vars, EditStep, Update, CreateJournal, PatchJournal, Touch
  <2>2. ASSUME NEW c \in Client, AccrualStep(c)
        PROVE  \A d \in Client : CallKnows(d)'
    BY <1>4, <2>2, AccrualKnows
  <2>3. ASSUME NEW c \in Client, BatchStep(c)
        PROVE  \A d \in Client : CallKnows(d)'
    BY <1>4, <2>3, BatchKnows
  <2>4. ASSUME NEW c \in Client, Abort(c)
        PROVE  \A d \in Client : CallKnows(d)'
    BY <1>1, <1>4, <2>4, EndedKnows DEF Abort
  <2> QED BY <2>1, <2>2, <2>3, <2>4 DEF DocumentMove
<1> QED BY <1>5 DEF CallKnows, CallsKnow

----------------------------------------------------------------------------
(* The months of the journals *)

LEMMA JournalsTyped ==
  ASSUME TypeOK
  PROVE  /\ DOMAIN journals \subseteq Journal
         /\ \A j \in DOMAIN journals : journals[j].source \in Source
         /\ \A p \in Journal \X Month : made[p] \in Nat
<1>1. /\ journals \in Seq(JournalRow) /\ Len(journals) <= MaxJournals /\ MaxJournals \in Nat
      /\ made \in [Journal \X Month -> Nat]
  BY BoundsAssumption DEF TypeOK, JournalRow
<1>2. DOMAIN journals = 1 .. Len(journals) /\ Len(journals) \in Nat
  BY <1>1
<1>3. \A j \in DOMAIN journals : journals[j] \in JournalRow
  BY <1>1
<1>4. \A j \in DOMAIN journals : journals[j].source \in Source
  BY <1>3 DEF JournalRow
<1>5. DOMAIN journals \subseteq Journal
  BY <1>1, <1>2 DEF Journal
<1> QED BY <1>1, <1>4, <1>5

LEMMA JournalsNumbered == TypeOK => DOMAIN journals \subseteq Journal
  BY JournalsTyped

\* Journals keep their source, hence what they share.
LEMMA AlikeStays ==
  ASSUME JournalsAfter(journals'), NEW j \in DOMAIN journals, NEW i \in DOMAIN journals
  PROVE  i \in Alike(j) <=> i \in Alike(j)'
  BY DEF JournalsAfter, Alike

LEMMA RecognisedStays ==
  ASSUME TypeOK, JournalsAfter(journals'),
         \A p \in Journal \X Month : made[p] > 0 => made'[p] > 0,
         NEW j \in DOMAIN journals, NEW m \in Month, Recognised(j, m)
  PROVE  Recognised(j, m)'
<1>1. \A i \in Alike(j) : i \in DOMAIN journals /\ i \in Journal /\ i \in Alike(j)'
  <2>1. \A i \in Alike(j) : i \in DOMAIN journals
    BY DEF Alike
  <2> QED BY <2>1, JournalsTyped, AlikeStays
<1>2. \A i \in Alike(j) : made[<<i, m>>] > 0 => made'[<<i, m>>] > 0
  BY <1>1
<1> QED BY <1>1, <1>2 DEF Recognised

\* A journal that is added has made nothing yet.
LEMMA RecognisedBefore ==
  ASSUME TypeOK, TypeOK', MonthsAreKept, JournalsAfter(journals'), UNCHANGED made,
         NEW j \in DOMAIN journals, NEW m \in Month, Recognised(j, m)'
  PROVE  Recognised(j, m)
<1>1. PICK i \in Alike(j)' : made[<<i, m>>] > 0
  BY DEF Recognised
<1>2. DOMAIN journals' \subseteq Journal
  <2>1. (TypeOK => DOMAIN journals \subseteq Journal)'
    BY JournalsNumbered, PTL
  <2> QED BY <2>1
<1>3. i \in DOMAIN journals
  <2>1. i \in DOMAIN journals'
    BY <1>1 DEF Alike
  <2> QED BY <1>1, <1>2, <2>1 DEF MonthsAreKept
<1>4. i \in Alike(j)
  BY <1>1, <1>3, AlikeStays
<1> QED BY <1>1, <1>4 DEF Recognised

\* What neither begins a batch nor touches a month.
MonthQuiet ==
  /\ UNCHANGED <<reserved, made>>
  /\ "batch" \notin lap' => "batch" \notin lap
  /\ \A c \in Client :
       /\ pc'[c] \in Batching => pc[c] \in Batching
       /\ pc'[c] = "month" => pc[c] = "month" /\ seen'[c] = seen[c] /\ at'[c] = at[c]

LEMMA KeptInQuiet ==
  ASSUME TypeOK, TypeOK', CallsKnow, CallsKnow', MonthsAreKept, JournalsAfter(journals'),
         MonthQuiet
  PROVE  MonthsAreKept'
<1>1. ASSUME NEW j \in DOMAIN journals, NEW m \in Month, Recognised(j, m)
      PROVE  Recognised(j, m)'
  <2>1. \A p \in Journal \X Month : made[p] > 0 => made'[p] > 0
    BY DEF MonthQuiet
  <2> QED BY <1>1, <2>1, RecognisedStays
<1>2. ASSUME NEW j \in Journal, NEW m \in Month
      PROVE  /\ made'[<<j, m>>] <= 1
             /\ made'[<<j, m>>] > 0 => <<j, m>> \in reserved'
             /\ <<j, m>> \in reserved' => j \in DOMAIN journals' /\ Recognised(j, m)'
  BY <1>1 DEF MonthsAreKept, MonthQuiet, JournalsAfter
<1>3. ASSUME NEW c \in Client, pc'[c] = "month"
      PROVE  /\ at'[c] \notin reserved'
             /\ seen'[c] = 1 => Recognised(at[c][1], at[c][2])'
             /\ \A d \in Client \ {c} : at'[d] # at'[c]
  <2>1. /\ pc[c] = "month" /\ seen'[c] = seen[c] /\ at'[c] = at[c] /\ at[c] # <<>>
    BY <1>3 DEF MonthQuiet, CallsKnow
  <2>2. at[c] \in Journal \X Month /\ at[c][1] \in DOMAIN journals /\ at[c][2] \in Month
    BY <2>1 DEF TypeOK, CallsKnow
  <2>3. seen'[c] = 1 => Recognised(at[c][1], at[c][2])'
    <3> SUFFICES ASSUME seen'[c] = 1 PROVE Recognised(at[c][1], at[c][2])'
      OBVIOUS
    <3> DEFINE j == at[c][1]
               m == at[c][2]
    <3>1. j \in DOMAIN journals /\ m \in Month /\ Recognised(j, m) /\ UNCHANGED <<j, m>>
      BY <2>1, <2>2 DEF MonthsAreKept
    <3>2. \A i \in DOMAIN journals, n \in Month : Recognised(i, n) => Recognised(i, n)'
      BY <1>1
    <3> QED BY <2>1, <3>1, <3>2 DEF Recognised
  <2>4. ASSUME NEW d \in Client \ {c}
        PROVE  at'[d] # at'[c]
    <3>1. CASE pc'[d] = "month"
      BY <2>1, <3>1 DEF MonthQuiet, MonthsAreKept
    <3>2. CASE pc'[d] # "month"
      BY <2>1, <3>2 DEF CallsKnow
    <3> QED BY <3>1, <3>2
  <2> QED BY <2>1, <2>3, <2>4 DEF MonthQuiet, MonthsAreKept
<1> QED BY <1>2, <1>3 DEF MonthsAreKept

LEMMA OneBatchInQuiet ==
  ASSUME TypeOK, TypeOK', CallsKnow, CallsKnow', MonthsAreKept, OneBatch,
         JournalsAfter(journals'), MonthQuiet
  PROVE  OneBatch'
<1> SUFFICES ASSUME "batch" \notin lap'
             PROVE  /\ \A c, d \in Client : pc'[c] \in Batching /\ pc'[d] \in Batching => c = d
                    /\ \A j \in DOMAIN journals', m \in Month :
                         \A i \in Alike(j)' :
                           made'[<<i, m>>] > 0 /\ made'[<<j, m>>] > 0 => i = j
                    /\ \A c \in Client : pc'[c] = "month" /\ seen'[c] = 0 =>
                         ~Recognised(at[c][1], at[c][2])'
  BY DEF OneBatch
<1>1. /\ \A c, d \in Client : pc[c] \in Batching /\ pc[d] \in Batching => c = d
      /\ \A j \in DOMAIN journals, m \in Month :
           \A i \in Alike(j) : made[<<i, m>>] > 0 /\ made[<<j, m>>] > 0 => i = j
      /\ \A c \in Client : pc[c] = "month" /\ seen[c] = 0 =>
           ~Recognised(at[c][1], at[c][2])
  BY DEF OneBatch, MonthQuiet
<1>2. \A c, d \in Client : pc'[c] \in Batching /\ pc'[d] \in Batching => c = d
  BY <1>1 DEF MonthQuiet
<1>3. ASSUME NEW j \in DOMAIN journals', NEW m \in Month, NEW i \in Alike(j)',
             made'[<<i, m>>] > 0, made'[<<j, m>>] > 0
      PROVE  i = j
  <2>1. DOMAIN journals' \subseteq Journal
    <3>1. (TypeOK => DOMAIN journals \subseteq Journal)'
      BY JournalsNumbered, PTL
    <3> QED BY <3>1
  <2>2. \A k \in DOMAIN journals' : made'[<<k, m>>] > 0 => k \in DOMAIN journals
    BY <2>1 DEF MonthsAreKept, MonthQuiet
  <2>3. i \in DOMAIN journals /\ j \in DOMAIN journals
    <3>1. i \in DOMAIN journals'
      BY <1>3 DEF Alike
    <3> QED BY <1>3, <2>2, <3>1
  <2>4. i \in Alike(j)
    BY <1>3, <2>3, AlikeStays
  <2> QED BY <1>1, <1>3, <2>3, <2>4 DEF MonthQuiet
<1>4. ASSUME NEW c \in Client, pc'[c] = "month", seen'[c] = 0, Recognised(at[c][1], at[c][2])'
      PROVE  FALSE
  <2>1. /\ pc[c] = "month" /\ seen[c] = 0 /\ at'[c] = at[c] /\ at[c] # <<>>
    BY <1>4 DEF MonthQuiet, CallsKnow
  <2>2. at[c] \in Journal \X Month /\ at[c][1] \in DOMAIN journals /\ at[c][2] \in Month
    BY <2>1 DEF TypeOK, CallsKnow
  <2>3. \A i \in DOMAIN journals, n \in Month : Recognised(i, n)' => Recognised(i, n)
    BY RecognisedBefore DEF MonthQuiet
  <2> DEFINE j == at[c][1]
             m == at[c][2]
  <2>4. j \in DOMAIN journals /\ m \in Month /\ ~Recognised(j, m) /\ UNCHANGED <<j, m>>
    BY <1>1, <2>1, <2>2
  <2> QED BY <1>4, <2>1, <2>3, <2>4 DEF Recognised
<1> QED BY <1>2, <1>3, <1>4

\* Accruals, edits and ends of calls are quiet.
LEMMA QuietMoves ==
  ASSUME TypeOK, TypeOK', CallsKnow, CallsKnow', DocumentMove,
         \A c \in Client : ~ReadBatch(c) /\ ~Reserve(c) /\ ~CommitMonth(c)
  PROVE  MonthQuiet
<1>1. CallsTyped
  BY DEF TypeOK, CallsTyped
<1>2. CASE UNCHANGED vars \/ EditStep
  BY <1>2 DEF MonthQuiet, vars, recurring, call, EditStep, Update, CreateJournal, PatchJournal,
              Touch
<1>3. ASSUME NEW c \in Client, UNCHANGED <<reserved, made>>, "batch" \in lap => "batch" \in lap',
             \A d \in Client \ {c} : pc'[d] = pc[d] /\ seen'[d] = seen[d] /\ at'[d] = at[d],
             pc'[c] \notin Batching
      PROVE  MonthQuiet
  BY <1>3 DEF MonthQuiet, Batching
<1>4. ASSUME NEW c \in Client, End(c)
      PROVE  /\ pc'[c] \notin Batching
             /\ \A d \in Client \ {c} : pc'[d] = pc[d] /\ seen'[d] = seen[d] /\ at'[d] = at[d]
  BY <1>1, <1>4 DEF CallsTyped, End, Goto, Batching
<1>5. ASSUME NEW c \in Client, Abort(c) \/ EndBatch(c)
      PROVE  MonthQuiet
  BY <1>3, <1>4, <1>5 DEF Abort, EndBatch, recurring
<1>6. ASSUME NEW c \in Client, Skip(c)
      PROVE  MonthQuiet
  BY <1>6 DEF MonthQuiet, Skip, recurring
<1>7. ASSUME NEW c \in Client, AccrualStep(c)
      PROVE  MonthQuiet
  <2>1. CASE AccrueAtOnce(c)
    BY <2>1, AtOnce DEF MonthQuiet, call
  <2>2. CASE ~AccrueAtOnce(c)
    <3>1. /\ UNCHANGED <<reserved, made>>
          /\ "batch" \in lap => "batch" \in lap'
      BY <1>7, <2>2 DEF AccrualStep, ReadAccrue, FindRun, MakeRun, KeepAccrued, LookUp, Insert,
         InsertDelta, SetFlag, FindJournal, UpsertJournal, ReadVoid, FindActive, CommitVoid,
         Begin, recurring
    <3>2. End(c) \/ pc'[c] \notin Batching
      BY <1>1, <1>7, <2>2 DEF AccrualStep, ReadAccrue, FindRun, MakeRun, KeepAccrued, LookUp,
         Insert, InsertDelta, SetFlag, FindJournal, UpsertJournal, ReadVoid, FindActive,
         CommitVoid, Begin, Goto, CallsTyped, Batching
    <3>3. \A d \in Client \ {c} : pc'[d] = pc[d] /\ seen'[d] = seen[d] /\ at'[d] = at[d]
      BY <1>7, AccrualKnows
    <3> QED BY <1>3, <1>4, <3>1, <3>2, <3>3
  <2> QED BY <2>1, <2>2
<1> QED BY <1>2, <1>5, <1>6, <1>7 DEF DocumentMove, BatchStep

LEMMA ReadBatchKeeps ==
  ASSUME TypeOK, TypeOK', CallsKnow, CallsKnow', MonthsAreKept, OneBatch,
         NEW c \in Client, ReadBatch(c)
  PROVE  MonthsAreKept' /\ OneBatch'
<1>1. /\ pc[c] = "idle" /\ pc' = [pc EXCEPT ![c] = "batch"]
      /\ lap' = IF \E e \in Client : pc[e] \in Batching THEN lap \cup {"batch"} ELSE lap
      /\ UNCHANGED <<journals, reserved, made, seen, at>>
  BY DEF ReadBatch, Begin, Goto, recurring
<1>2. pc \in [Client -> {"idle"} \cup Accruing \cup Batching]
  BY DEF TypeOK
<1>3. /\ \A d \in Client \ {c} : pc'[d] = pc[d]
      /\ pc'[c] = "batch"
  BY <1>1, <1>2
<1>4. MonthsAreKept'
  BY <1>1, <1>3 DEF MonthsAreKept, Recognised, Alike
<1>5. ASSUME "batch" \notin lap'
      PROVE  /\ "batch" \notin lap
             /\ \A d, e \in Client : pc'[d] \in Batching /\ pc'[e] \in Batching => d = e
  BY <1>1, <1>3, <1>5
<1>6. OneBatch'
  BY <1>1, <1>3, <1>5 DEF OneBatch, Recognised, Alike
<1> QED BY <1>4, <1>6

LEMMA RecognisedAt ==
  ASSUME UNCHANGED <<journals, made>>, NEW d \in Client, NEW q, at'[d] = q
  PROVE  Recognised(at[d][1], at[d][2])' <=> Recognised(q[1], q[2])
  BY DEF Recognised, Alike

LEMMA ReserveKeeps ==
  ASSUME TypeOK, TypeOK', CallsKnow, CallsKnow', MonthsAreKept, OneBatch,
         NEW c \in Client, Reserve(c)
  PROVE  MonthsAreKept' /\ OneBatch'
<1>1. PICK p \in todo[c] \ reserved :
        /\ pc[c] = "batch" /\ ~Waits(c, p[1], p[2])
        /\ at' = [at EXCEPT ![c] = p]
        /\ seen' = [seen EXCEPT ![c] = IF Recognised(p[1], p[2]) THEN 1 ELSE 0]
        /\ Goto(c, "month") /\ UNCHANGED <<recurring, lap>>
  BY DEF Reserve
<1>2. /\ CallsTyped /\ p \in Journal \X Month /\ p = <<p[1], p[2]>>
  BY PairsAreNotEmpty DEF TypeOK, CallsTyped
<1>3. /\ pc'[c] = "month" /\ at'[c] = p
      /\ \A d \in Client \ {c} : pc'[d] = pc[d] /\ seen'[d] = seen[d] /\ at'[d] = at[d]
      /\ UNCHANGED <<journals, reserved, made, lap>>
      /\ seen'[c] = IF Recognised(p[1], p[2]) THEN 1 ELSE 0
  BY <1>1, <1>2 DEF CallsTyped, Goto, recurring
<1>4. \A d \in Client \ {c} : at[d] # p
  BY <1>1, <1>2 DEF Waits
<1>5. ASSUME NEW d \in Client, pc'[d] = "month"
      PROVE  /\ at'[d] \notin reserved'
             /\ seen'[d] = 1 => Recognised(at[d][1], at[d][2])'
             /\ \A e \in Client \ {d} : at'[e] # at'[d]
  <2>1. CASE d = c
    <3>1. at'[d] \notin reserved' /\ \A e \in Client \ {d} : at'[e] # at'[d]
      BY <1>1, <1>3, <1>4, <2>1
    <3>2. seen'[d] = 1 => Recognised(at[d][1], at[d][2])'
      BY <1>3, <2>1, RecognisedAt
    <3> QED BY <3>1, <3>2
  <2>2. CASE d # c
    <3>1. pc[d] = "month" /\ at'[d] = at[d] /\ seen'[d] = seen[d]
      BY <1>3, <1>5, <2>2
    <3>2. at'[d] \notin reserved'
      BY <1>3, <3>1 DEF MonthsAreKept
    <3>3. seen'[d] = 1 => Recognised(at[d][1], at[d][2])'
      BY <1>3, <3>1, RecognisedAt DEF MonthsAreKept
    <3>4. ASSUME NEW e \in Client \ {d}
          PROVE  at'[e] # at'[d]
      <4>1. CASE e = c
        BY <1>3, <1>4, <2>2, <3>1, <4>1
      <4>2. CASE e # c
        BY <1>3, <3>1, <4>2 DEF MonthsAreKept
      <4> QED BY <4>1, <4>2
    <3> QED BY <3>2, <3>3, <3>4
  <2> QED BY <2>1, <2>2
<1>6. MonthsAreKept'
  <2>1. \A j \in Journal, m \in Month :
          /\ made'[<<j, m>>] <= 1
          /\ made'[<<j, m>>] > 0 => <<j, m>> \in reserved'
          /\ <<j, m>> \in reserved' => j \in DOMAIN journals' /\ Recognised(j, m)'
    BY <1>3 DEF MonthsAreKept, Recognised, Alike
  <2> QED BY <1>5, <2>1 DEF MonthsAreKept
<1>7. OneBatch'
  <2> SUFFICES ASSUME "batch" \notin lap
               PROVE  OneBatch'
    BY <1>3 DEF OneBatch
  <2>1. \A d, e \in Client : pc'[d] \in Batching /\ pc'[e] \in Batching => d = e
    BY <1>1, <1>3, Kinds DEF OneBatch
  <2>2. \A j \in DOMAIN journals', m \in Month :
          \A i \in Alike(j)' : made'[<<i, m>>] > 0 /\ made'[<<j, m>>] > 0 => i = j
    BY <1>3 DEF OneBatch, Alike
  <2>3. ASSUME NEW d \in Client, pc'[d] = "month", seen'[d] = 0
        PROVE  ~Recognised(at[d][1], at[d][2])'
    <3>1. d = c
      BY <2>1, <2>3, <1>3, Kinds
    <3> QED BY <1>3, <2>3, <3>1, RecognisedAt
  <2> QED BY <2>1, <2>2, <2>3 DEF OneBatch
<1> QED BY <1>6, <1>7

LEMMA CommitMonthKeeps ==
  ASSUME TypeOK, TypeOK', CallsKnow, CallsKnow', MonthsAreKept, OneBatch,
         NEW c \in Client, CommitMonth(c)
  PROVE  MonthsAreKept' /\ OneBatch'
<1> DEFINE p == at[c]
           J == p[1]
           M == p[2]
<1>1. /\ CallsTyped /\ pc[c] = "month" /\ p # <<>>
  BY DEF TypeOK, CallsTyped, CommitMonth, CallsKnow
<1>2. /\ p \in Journal \X Month /\ p = <<J, M>> /\ J \in Journal /\ M \in Month
      /\ J \in DOMAIN journals /\ seen[c] \in {0, 1} /\ p \notin reserved
      /\ \A d \in Client \ {c} : at[d] # p
      /\ seen[c] = 1 => Recognised(J, M)
  BY <1>1, PairsAreNotEmpty DEF CallsTyped, CallsKnow, MonthsAreKept
<1>3. /\ pc'[c] = "batch" /\ at'[c] = <<>>
      /\ \A d \in Client \ {c} : pc'[d] = pc[d] /\ seen'[d] = seen[d] /\ at'[d] = at[d]
      /\ UNCHANGED <<journals, lap>> /\ reserved' = reserved \cup {p}
      /\ made' = IF seen[c] = 1 THEN made ELSE [made EXCEPT ![p] = @ + 1]
  BY <1>1 DEF CommitMonth, CallsTyped, Goto
<1>4. /\ made \in [Journal \X Month -> Nat]
      /\ DOMAIN journals \subseteq Journal
      /\ \A j \in DOMAIN journals : journals[j].source \in Source
  BY JournalsTyped DEF TypeOK
<1> HIDE DEF p, J, M
<1>5. made[p] = 0
  BY <1>2, <1>4 DEF MonthsAreKept
<1>6. /\ \A q \in Journal \X Month : q # p => made'[q] = made[q]
      /\ made'[p] = IF seen[c] = 1 THEN 0 ELSE 1
  BY <1>2, <1>3, <1>4, <1>5
<1>7. \A q \in Journal \X Month : made[q] > 0 => made'[q] > 0
  BY <1>5, <1>6
<1>8. JournalsAfter(journals')
  BY <1>3 DEF JournalsAfter, TypeOK, JournalRow
<1>9. \A j \in DOMAIN journals, m \in Month : Recognised(j, m) => Recognised(j, m)'
  BY <1>7, <1>8, RecognisedStays
<1>10. made'[<<J, M>>] > 0 \/ Recognised(J, M)
  BY <1>2, <1>6
<1>11. /\ J \in DOMAIN journals /\ journals' = journals
       /\ \A j : Alike(j)' = Alike(j)
       /\ J \in Alike(J)
  BY <1>2, <1>3 DEF Alike
<1>12. ASSUME NEW j \in Journal, NEW m \in Month
       PROVE  /\ made'[<<j, m>>] <= 1
              /\ made'[<<j, m>>] > 0 => <<j, m>> \in reserved'
              /\ <<j, m>> \in reserved' => j \in DOMAIN journals' /\ Recognised(j, m)'
  <2>1. CASE <<j, m>> = p
    <3>1. j = J /\ m = M
      BY <1>2, <2>1
    <3>2. Recognised(j, m)'
      <4>1. CASE Recognised(J, M)
        BY <1>2, <1>9, <3>1, <4>1
      <4>2. CASE made'[<<J, M>>] > 0
        BY <1>11, <3>1, <4>2 DEF Recognised
      <4> QED BY <1>10, <4>1, <4>2
    <3> QED BY <1>2, <1>3, <1>6, <2>1, <3>1, <3>2
  <2>2. CASE <<j, m>> # p
    <3>1. made'[<<j, m>>] = made[<<j, m>>]
      BY <1>6, <2>2
    <3>2. <<j, m>> \in reserved' => <<j, m>> \in reserved
      BY <1>3, <2>2
    <3> QED BY <1>3, <1>9, <3>1, <3>2 DEF MonthsAreKept
  <2> QED BY <2>1, <2>2
<1>13. ASSUME NEW d \in Client, pc'[d] = "month"
       PROVE  /\ d # c /\ pc[d] = "month" /\ at'[d] = at[d] /\ seen'[d] = seen[d]
              /\ at'[d] \notin reserved'
              /\ seen'[d] = 1 => Recognised(at[d][1], at[d][2])'
              /\ \A e \in Client \ {d} : at'[e] # at'[d]
  <2>1. d # c /\ pc[d] = "month" /\ at'[d] = at[d] /\ seen'[d] = seen[d]
    BY <1>3, <1>13
  <2>2. /\ at[d] # <<>> /\ at[d] \in Journal \X Month
        /\ at[d][1] \in DOMAIN journals /\ at[d][2] \in Month
    BY <2>1 DEF TypeOK, CallsKnow
  <2>3. at'[d] \notin reserved'
    BY <1>2, <1>3, <2>1 DEF MonthsAreKept
  <2>4. seen'[d] = 1 => Recognised(at[d][1], at[d][2])'
    <3> SUFFICES ASSUME seen'[d] = 1 PROVE Recognised(at[d][1], at[d][2])'
      OBVIOUS
    <3> DEFINE j == at[d][1]
               m == at[d][2]
    <3>1. j \in DOMAIN journals /\ m \in Month /\ Recognised(j, m) /\ UNCHANGED <<j, m>>
      BY <2>1, <2>2 DEF MonthsAreKept
    <3> QED BY <1>9, <2>1, <3>1 DEF Recognised
  <2>5. ASSUME NEW e \in Client \ {d}
        PROVE  at'[e] # at'[d]
    <3>1. CASE e = c
      BY <1>3, <2>1, <2>2, <3>1
    <3>2. CASE e # c
      BY <1>3, <2>1, <3>2 DEF MonthsAreKept
    <3> QED BY <3>1, <3>2
  <2> QED BY <2>1, <2>3, <2>4, <2>5
<1>14. MonthsAreKept'
  BY <1>12, <1>13 DEF MonthsAreKept
<1>15. OneBatch'
  <2> SUFFICES ASSUME "batch" \notin lap
               PROVE  OneBatch'
    BY <1>3 DEF OneBatch
  <2>1. \A d, e \in Client : pc'[d] \in Batching /\ pc'[e] \in Batching => d = e
    BY <1>1, <1>3, Kinds DEF OneBatch
  <2>2. ASSUME NEW j \in DOMAIN journals', NEW m \in Month, NEW i \in Alike(j)',
               made'[<<i, m>>] > 0, made'[<<j, m>>] > 0
        PROVE  i = j
    <3>1. /\ i \in DOMAIN journals /\ j \in DOMAIN journals /\ i \in Journal /\ j \in Journal
          /\ i \in Alike(j) /\ j \in Alike(i)
      BY <1>3, <1>4, <2>2 DEF Alike
    <3>2. CASE made[<<i, m>>] > 0 /\ made[<<j, m>>] > 0
      BY <3>1, <3>2 DEF OneBatch
    <3>3. ASSUME NEW k \in {i, j}, ~(made[<<k, m>>] > 0)
          PROVE  k = J /\ m = M /\ seen[c] = 0 /\ ~Recognised(J, M)
      <4>1. <<k, m>> = p /\ seen[c] = 0
        BY <1>2, <1>6, <2>2, <3>1, <3>3
      <4>2. ~Recognised(J, M)
        BY <1>1, <4>1 DEF OneBatch, J, M, p
      <4> QED BY <1>2, <4>1, <4>2
    <3>4. CASE ~(made[<<i, m>>] > 0) /\ ~(made[<<j, m>>] > 0)
      BY <3>3, <3>4
    <3>5. ASSUME NEW k \in {i, j}, NEW l \in {i, j}, ~(made[<<k, m>>] > 0), made[<<l, m>>] > 0
          PROVE  FALSE
      <4>1. k = J /\ m = M /\ ~Recognised(J, M)
        BY <3>3, <3>5
      <4>2. l \in Alike(J)
        BY <3>1, <4>1 DEF Alike
      <4> QED BY <3>5, <4>1, <4>2 DEF Recognised
    <3> QED BY <3>2, <3>4, <3>5
  <2>3. \A d \in Client : pc'[d] # "month"
    BY <1>1, <1>3, <1>13, Kinds DEF OneBatch
  <2> QED BY <2>1, <2>2, <2>3 DEF OneBatch
<1> QED BY <1>14, <1>15

LEMMA MonthsStep ==
  ASSUME TypeOK, CallsKnow, MonthsAreKept, OneBatch, DocumentMove
  PROVE  MonthsAreKept' /\ OneBatch'
<1>1. TypeOK' /\ CallsKnow' /\ JournalsAfter(journals')
  BY TypeStep, CallsStep, JournalsAfterStep
<1>2. CASE \A c \in Client : ~ReadBatch(c) /\ ~Reserve(c) /\ ~CommitMonth(c)
  BY <1>1, <1>2, QuietMoves, KeptInQuiet, OneBatchInQuiet
<1>3. CASE \E c \in Client : ReadBatch(c) \/ Reserve(c) \/ CommitMonth(c)
  BY <1>1, <1>3, ReadBatchKeeps, ReserveKeeps, CommitMonthKeeps
<1> QED BY <1>2, <1>3

----------------------------------------------------------------------------
(* Runs that take turns *)

\* RunsTakeTurns, as far as it is about the runs alone.
Turns(s) ==
  /\ \A k \in DOMAIN s : s[k].status = "POSTED" <=> k = Len(s)
  /\ s = <<>> => Added(s) = 0
  /\ s # <<>> =>
       LET l == s[Len(s)]
       IN  /\ l.sum \in {-1, 0, 1} /\ (Booked(l) <=> l.sum # 0)
           /\ Added(s) = IF l.sum = 1 THEN 1 ELSE 0
           /\ l.own => Booked(l)
           /\ Len(s) = 1 => l.sum # -1

LEMMA TurnsAre ==
  RunsTakeTurns <=>
    /\ Turns(runs)
    /\ runs # <<>> => (kind = "receipt" /\ ~delta => Last.sum = 0)
    /\ kind # "receipt" /\ accrued => runs # <<>> /\ Booked(Last)
<1>1. Sum = Added(runs)
  BY DEF Sum, Added
<1> QED BY <1>1 DEF RunsTakeTurns, Turns, Last

LEMMA FirstTurn ==
  ASSUME NEW s, s = <<>>, NEW r \in Run, r.status = "POSTED", r.sum \in {0, 1},
         Booked(r) <=> r.sum # 0, r.own => Booked(r)
  PROVE  LET t == Append(s, r)
         IN  /\ Turns(t) /\ t \in Seq(Run) /\ t # <<>> /\ Len(t) = 1 /\ t[Len(t)] = r
<1> DEFINE t == Append(s, r)
<1>1. s \in Seq(Run) /\ Len(s) = 0 /\ DOMAIN s = {}
  OBVIOUS
<1>2. /\ t \in Seq(Run) /\ Len(t) = 1 /\ DOMAIN t = {1} /\ t[1] = r
  BY <1>1, RowAppended
<1>3. Added(t) = r.sum
  <2>1. Added(t) = Added(s) + r.sum
    BY <1>1, SumOfAppended
  <2>2. Added(s) = 0
    BY AddedNone
  <2>3. r.sum \in Int
    BY DEF Run
  <2> HIDE DEF t
  <2> QED BY <2>1, <2>2, <2>3
<1>4. t # <<>>
  BY <1>2
<1> HIDE DEF t
<1>5. Turns(t)
  BY <1>2, <1>3, <1>4 DEF Turns
<1> QED BY <1>2, <1>4, <1>5 DEF t

LEMMA LastTurn ==
  ASSUME NEW s \in Seq(Run), Turns(s), s # <<>>, s[Len(s)].sum = 0,
         NEW r \in Run, r.status = "POSTED", r.sum = 1, Booked(r)
  PROVE  LET t == [s EXCEPT ![Len(s)] = r]
         IN  /\ Turns(t) /\ t \in Seq(Run) /\ t # <<>> /\ Len(t) = Len(s) /\ t[Len(t)] = r
<1> DEFINE n == Len(s)
           t == [s EXCEPT ![n] = r]
<1>1. n \in DOMAIN s /\ n \in Nat
  OBVIOUS
<1>2. /\ t \in Seq(Run) /\ Len(t) = n /\ DOMAIN t = DOMAIN s
      /\ t[n] = r /\ \A i \in DOMAIN s \ {n} : t[i] = s[i]
  BY <1>1, RowPut
<1>3. Added(t) = Added(s) - s[n].sum + r.sum
  BY <1>1, SumOfPut
<1>4. Added(s) = 0 /\ s[n].sum = 0
  BY DEF Turns
<1>5. t # <<>>
  BY <1>1, <1>2
<1>6. n \in DOMAIN s /\ n = Len(s)
  BY <1>1
<1> HIDE DEF t, n
<1>7. Added(t) = 1
  BY <1>3, <1>4
<1>8. \A k \in DOMAIN t : t[k].status = "POSTED" <=> k = Len(t)
  BY <1>2, <1>6 DEF Turns
<1>9. Turns(t)
  BY <1>2, <1>5, <1>7, <1>8 DEF Turns
<1> QED BY <1>2, <1>5, <1>6, <1>9 DEF t, n

LEMMA TurnBack ==
  ASSUME NEW s \in Seq(Run), Turns(s), s # <<>>
  PROVE  LET n == Len(s)
             t == Append([s EXCEPT ![n] = [s[n] EXCEPT !.status = "VOIDED"]], Mirror(s[n]))
         IN  /\ Turns(t) /\ t \in Seq(Run) /\ t # <<>> /\ t[Len(t)].sum = -s[n].sum
<1> DEFINE n == Len(s)
           v == [s[n] EXCEPT !.status = "VOIDED"]
           b == Mirror(s[n])
           u == [s EXCEPT ![n] = v]
           t == Append(u, b)
<1>1. n \in DOMAIN s /\ n \in Nat \ {0} /\ n = Len(s) /\ DOMAIN s = 1 .. n
  OBVIOUS
<1>2. s[n] \in Run
  BY <1>1
<1>3. /\ v \in Run /\ v.sum = s[n].sum /\ v.status = "VOIDED"
      /\ b \in Run /\ b.status = "POSTED" /\ b.sum = -s[n].sum
      /\ b.lines = s[n].lines /\ b.own = FALSE
  BY <1>2, RunTypes
<1> HIDE DEF v, b
<1>4. /\ u \in Seq(Run) /\ Len(u) = n /\ DOMAIN u = DOMAIN s
      /\ u[n] = v /\ \A i \in DOMAIN s \ {n} : u[i] = s[i]
  BY <1>1, <1>3, RowPut
<1>5. Added(u) = Added(s) - s[n].sum + v.sum
  BY <1>1, <1>3, SumOfPut
<1> HIDE DEF u
<1>6. /\ t \in Seq(Run) /\ Len(t) = n + 1 /\ DOMAIN t = DOMAIN u \cup {n + 1}
      /\ n + 1 \notin DOMAIN u /\ t[n + 1] = b /\ \A i \in DOMAIN u : t[i] = u[i]
  <2>1. Len(u) = n
    BY <1>4
  <2> HIDE DEF n
  <2> QED BY <1>3, <1>4, <2>1, RowAppended
<1>7. Added(t) = Added(u) + b.sum
  BY <1>3, <1>4, SumOfAppended
<1> HIDE DEF t, n
<1>8. /\ Added(s) \in Int /\ s[n].sum \in {-1, 0, 1}
      /\ Added(s) = IF s[n].sum = 1 THEN 1 ELSE 0
      /\ Booked(s[n]) <=> s[n].sum # 0
      /\ n = 1 => s[n].sum # -1
  BY <1>1, SumOfRuns DEF Turns
<1>9. Added(t) = IF b.sum = 1 THEN 1 ELSE 0
  <2>1. Added(t) = Added(s) - s[n].sum
    BY <1>3, <1>5, <1>7, <1>8
  <2> QED BY <1>3, <1>8, <2>1
<1>10. b.sum \in {-1, 0, 1} /\ (Booked(b) <=> b.sum # 0) /\ ~b.own
  BY <1>3, <1>8 DEF Booked
<1>11. \A k \in DOMAIN t : t[k].status = "POSTED" <=> k = Len(t)
  <2>1. \A k \in DOMAIN s \ {n} : s[k].status # "POSTED"
    BY <1>1 DEF Turns
  <2> QED BY <1>1, <1>3, <1>4, <1>6, <2>1
<1>12. t # <<>> /\ Len(t) # 1 /\ t[Len(t)] = b
  BY <1>1, <1>6
<1>13. Turns(t)
  BY <1>9, <1>10, <1>11, <1>12 DEF Turns
<1> QED BY <1>3, <1>6, <1>12, <1>13 DEF t, u, v, b, n

\* Of runs that take turns, the last one is the one that stands.
LEMMA ActiveIsLast ==
  ASSUME runs \in Seq(Run), Turns(runs)
  PROVE  /\ Active = Len(runs) /\ Len(runs) \in Nat
         /\ runs # <<>> <=> Len(runs) # 0
         /\ runs # <<>> => Last \in Run /\ Last.status = "POSTED" /\ Len(runs) \in DOMAIN runs
<1>1. /\ Active \in {0} \cup DOMAIN runs
      /\ Active # 0 => runs[Active].status = "POSTED"
      /\ \A k \in DOMAIN runs : runs[k].status = "POSTED" => k <= Active
  BY ActiveRun
<1>2. Len(runs) \in Nat /\ (runs # <<>> <=> Len(runs) # 0) /\ DOMAIN runs = 1 .. Len(runs)
  OBVIOUS
<1>3. CASE Len(runs) = 0
  BY <1>1, <1>2, <1>3
<1>4. CASE Len(runs) # 0
  <2>1. Len(runs) \in DOMAIN runs
    BY <1>2, <1>4
  <2>2. Last \in Run /\ Last.status = "POSTED"
    BY <2>1 DEF Turns, Last
  <2>3. Len(runs) <= Active /\ Active # 0
    BY <1>1, <1>2, <1>4, <2>1, <2>2 DEF Last
  <2>4. Active = Len(runs)
    BY <1>1, <2>3 DEF Turns
  <2> QED BY <1>2, <2>1, <2>2, <2>4
<1> QED BY <1>3, <1>4

----------------------------------------------------------------------------
(* Accruals one after the other *)

Claiming == {"make", "look", "insert", "flag"}

CallClaims(c) ==
  /\ pc[c] = "make" => runs = <<>>
  /\ pc[c] \in {"look", "insert", "flag"} => seen[c] = Len(runs)
  /\ pc[c] = "insert" => kind # "receipt" /\ ~Booked(Last)
  /\ pc[c] = "flag" /\ kind # "receipt" => Booked(Last)

LEMMA ClaimsAre ==
  OneAccrual <=>
    ("accrual" \notin lap =>
       /\ \A c, d \in Client : pc[c] \in Accruing /\ pc[d] \in Accruing => c = d
       /\ RunsTakeTurns /\ \A c \in Client : CallClaims(c))
  BY DEF OneAccrual, CallStands, CallClaims

\* What neither begins an accrual nor touches the runs.
AccrualQuiet ==
  /\ UNCHANGED <<kind, accrued, runs, delta>>
  /\ "accrual" \notin lap' => "accrual" \notin lap
  /\ \A c \in Client :
       /\ pc'[c] \in Accruing => pc[c] \in Accruing
       /\ pc'[c] \in Claiming => pc'[c] = pc[c] /\ seen'[c] = seen[c]

LEMMA TurnsInQuiet ==
  ASSUME OneAccrual, AccrualQuiet
  PROVE  OneAccrual'
<1> SUFFICES ASSUME "accrual" \notin lap'
             PROVE  /\ \A c, d \in Client : pc'[c] \in Accruing /\ pc'[d] \in Accruing => c = d
                    /\ RunsTakeTurns' /\ \A c \in Client : CallClaims(c)'
  BY DEF OneAccrual, CallStands, CallClaims
<1>1. /\ \A c, d \in Client : pc[c] \in Accruing /\ pc[d] \in Accruing => c = d
      /\ RunsTakeTurns /\ \A c \in Client : CallClaims(c)
  BY ClaimsAre DEF AccrualQuiet
<1>2. UNCHANGED <<kind, accrued, runs, delta>>
  BY DEF AccrualQuiet
<1>3. RunsTakeTurns'
  BY <1>1, <1>2 DEF RunsTakeTurns, Last, Sum
<1>4. \A c \in Client : CallClaims(c)'
  BY <1>1, <1>2 DEF CallClaims, Last, AccrualQuiet, Claiming
<1> QED BY <1>1, <1>3, <1>4 DEF AccrualQuiet

\* Batches, edits and ends of calls are quiet, and so are the steps of an accrual that
\* go on with its journal, or read for a void.
LEMMA QuietForRuns ==
  ASSUME TypeOK, DocumentMove,
         \A c \in Client : AccrualStep(c) => FindJournal(c) \/ UpsertJournal(c) \/ FindActive(c)
  PROVE  AccrualQuiet
<1>1. CallsTyped
  BY DEF TypeOK, CallsTyped
<1>2. CASE UNCHANGED vars \/ EditStep
  BY <1>2 DEF AccrualQuiet, vars, doc, call, EditStep, Update, CreateJournal, PatchJournal,
              Touch
<1>3. ASSUME NEW c \in Client, UNCHANGED <<kind, accrued, runs, delta>>,
             "accrual" \in lap => "accrual" \in lap',
             \A d \in Client \ {c} : pc'[d] = pc[d] /\ seen'[d] = seen[d],
             pc'[c] \notin Claiming, pc'[c] \in Accruing => pc[c] \in Accruing
      PROVE  AccrualQuiet
  BY <1>3 DEF AccrualQuiet
<1>4. ASSUME NEW c \in Client, End(c)
      PROVE  /\ pc'[c] \notin Accruing /\ pc'[c] \notin Claiming
             /\ \A d \in Client \ {c} : pc'[d] = pc[d] /\ seen'[d] = seen[d]
  BY <1>1, <1>4 DEF CallsTyped, End, Goto, Accruing, Claiming
<1>5. ASSUME NEW c \in Client, Abort(c) \/ EndBatch(c) \/ UpsertJournal(c)
      PROVE  AccrualQuiet
  BY <1>3, <1>4, <1>5 DEF Abort, EndBatch, UpsertJournal, doc
<1>6. ASSUME NEW c \in Client, FindJournal(c) \/ FindActive(c)
      PROVE  AccrualQuiet
  <2>1. /\ pc[c] \in Accruing /\ pc'[c] \notin Claiming
        /\ \A d \in Client \ {c} : pc'[d] = pc[d] /\ seen'[d] = seen[d]
        /\ UNCHANGED <<kind, accrued, runs, delta, lap>>
    BY <1>1, <1>6 DEF FindJournal, FindActive, Goto, CallsTyped, Accruing, Claiming, doc
  <2> QED BY <1>3, <2>1
<1>7. ASSUME NEW c \in Client, ReadBatch(c) \/ Reserve(c) \/ Skip(c) \/ CommitMonth(c)
      PROVE  AccrualQuiet
  <2>1. /\ pc'[c] \in {"batch", "month"}
        /\ \A d \in Client \ {c} : pc'[d] = pc[d] /\ seen'[d] = seen[d]
        /\ UNCHANGED <<kind, accrued, runs, delta>>
        /\ "accrual" \in lap => "accrual" \in lap'
    BY <1>1, <1>7 DEF ReadBatch, Begin, Reserve, Skip, CommitMonth, Goto, CallsTyped, doc
  <2>2. pc'[c] \notin Claiming /\ pc'[c] \notin Accruing
    BY <2>1 DEF Claiming, Accruing
  <2> QED BY <1>3, <2>1, <2>2
<1> QED BY <1>2, <1>5, <1>6, <1>7 DEF DocumentMove, BatchStep

\* A call that does not overlap another is alone at its step.
LEMMA AloneAtStep ==
  ASSUME TypeOK, CallsKnow, OneAccrual, NEW c \in Client, AccrualStep(c), ~AccrueAtOnce(c),
         "accrual" \notin lap'
  PROVE  /\ "accrual" \notin lap
         /\ RunsTakeTurns /\ CallClaims(c)
         /\ \A d \in Client \ {c} : pc'[d] \notin Accruing
<1>1. CallsTyped
  BY DEF TypeOK, CallsTyped
<1>2. \A d \in Client \ {c} : pc'[d] = pc[d]
  BY AccrualKnows
<1>3. CASE ReadAccrue(c) \/ ReadVoid(c)
  <2>1. lap' = IF \E e \in Client : pc[e] \in Accruing THEN lap \cup {"accrual"} ELSE lap
    BY <1>3 DEF ReadAccrue, ReadVoid, Begin
  <2> QED BY <1>2, <2>1, ClaimsAre
<1>4. CASE ~ReadAccrue(c) /\ ~ReadVoid(c)
  <2>1. pc[c] \in Accruing /\ UNCHANGED lap
    BY <1>4 DEF AccrualStep, FindRun, MakeRun, KeepAccrued, LookUp, Insert,
         InsertDelta, SetFlag, FindJournal, UpsertJournal, FindActive, CommitVoid, Accruing
  <2> QED BY <1>2, <2>1, ClaimsAre
<1> QED BY <1>3, <1>4

\* ... so that what remains is about the runs and that call.
LEMMA StepStands ==
  ASSUME TypeOK, CallsKnow, NEW c \in Client,
         \A d \in Client \ {c} : pc'[d] \notin Accruing,
         RunsTakeTurns', CallClaims(c)'
  PROVE  OneAccrual'
<1>1. \A d \in Client \ {c} : CallClaims(d)'
  BY DEF CallClaims, Accruing
<1>2. \A d \in Client : CallClaims(d)'
  BY <1>1
<1>3. \A d, e \in Client : pc'[d] \in Accruing /\ pc'[e] \in Accruing => d = e
  OBVIOUS
<1> QED BY <1>2, <1>3 DEF OneAccrual, CallStands, CallClaims

LEMMA TurnsThen ==
  ASSUME Turns(runs'),
         runs' # <<>> => (kind' = "receipt" /\ ~delta' => runs'[Len(runs')].sum = 0),
         kind' # "receipt" /\ accrued' => runs' # <<>> /\ Booked(runs'[Len(runs')])
  PROVE  RunsTakeTurns'
<1>1. Sum' = Added(runs')
  BY DEF Sum, Added
<1> QED BY <1>1 DEF RunsTakeTurns, Turns, Last

LEMMA TurnsSame ==
  ASSUME RunsTakeTurns, UNCHANGED <<kind, runs, delta>>,
         kind # "receipt" /\ accrued' => runs # <<>> /\ Booked(Last)
  PROVE  RunsTakeTurns'
  BY DEF RunsTakeTurns, Last, Sum

LEMMA BeginsAlone ==
  ASSUME TypeOK, NEW c \in Client, RunsTakeTurns, ReadAccrue(c) \/ ReadVoid(c)
  PROVE  RunsTakeTurns' /\ CallClaims(c)'
<1>1. RunsTakeTurns'
  BY DEF ReadAccrue, ReadVoid, doc, RunsTakeTurns, Last, Sum
<1>2. pc'[c] \in {"find", "void"}
  BY DEF ReadAccrue, ReadVoid, Begin, Goto, TypeOK
<1> QED BY <1>1, <1>2 DEF CallClaims

LEMMA FindRunAlone ==
  ASSUME TypeOK, NEW c \in Client, RunsTakeTurns, FindRun(c)
  PROVE  RunsTakeTurns' /\ CallClaims(c)'
<1>1. RunsTakeTurns'
  BY DEF FindRun, doc, RunsTakeTurns, Last, Sum
<1>2. Active = Len(runs) /\ (runs # <<>> <=> Len(runs) # 0)
  BY TurnsAre, ActiveIsLast DEF TypeOK
<1>3. /\ pc'[c] = (IF Active = 0 THEN "make" ELSE "look") /\ seen'[c] = Active
      /\ UNCHANGED runs
  BY DEF FindRun, Goto, TypeOK, doc
<1> QED BY <1>1, <1>2, <1>3 DEF CallClaims

LEMMA MakeRunAlone ==
  ASSUME TypeOK, NEW c \in Client, RunsTakeTurns, CallClaims(c), MakeRun(c)
  PROVE  RunsTakeTurns' /\ CallClaims(c)'
<1>1. /\ runs = <<>> /\ runs' = Append(runs, NewRun(0)) /\ UNCHANGED <<kind, accrued, delta>>
      /\ pc'[c] = "look" /\ seen'[c] = Len(runs')
  BY DEF CallClaims, MakeRun, Goto, TypeOK
<1>2. /\ NewRun(0) \in Run /\ NewRun(0).status = "POSTED" /\ NewRun(0).sum = 0
      /\ NewRun(0).lines = 0 /\ NewRun(0).own = FALSE
  BY DEF NewRun, Run
<1>3. ~Booked(NewRun(0))
  BY <1>2 DEF Booked
<1> DEFINE r == NewRun(0)
<1>4. r \in Run /\ r.status = "POSTED" /\ r.sum = 0 /\ ~Booked(r) /\ ~r.own
  BY <1>2, <1>3
<1>5. runs' = Append(runs, r)
  BY <1>1
<1> HIDE DEF r
<1>6. Turns(runs') /\ runs' # <<>> /\ runs'[Len(runs')] = r
  <2>1. /\ r.status = "POSTED" /\ r.sum \in {0, 1}
        /\ (Booked(r) <=> r.sum # 0) /\ (r.own => Booked(r))
    BY <1>4
  <2>2. runs = <<>> /\ r \in Run
    BY <1>1, <1>4
  <2> QED BY <1>5, <2>1, <2>2, FirstTurn
<1>7. ~(kind # "receipt" /\ accrued)
  BY <1>1, TurnsAre
<1>8. RunsTakeTurns'
  BY <1>1, <1>4, <1>6, <1>7, TurnsThen
<1> QED BY <1>1, <1>8 DEF CallClaims

LEMMA LookAlone ==
  ASSUME TypeOK, CallsKnow, NEW c \in Client, RunsTakeTurns, CallClaims(c),
         KeepAccrued(c) \/ LookUp(c)
  PROVE  RunsTakeTurns' /\ CallClaims(c)'
<1>1. seen[c] = Len(runs) /\ seen[c] \in DOMAIN runs /\ Last = runs[seen[c]]
  BY DEF KeepAccrued, LookUp, CallClaims, CallsKnow, Last
<1>2. runs # <<>>
  BY <1>1
<1>3. CASE KeepAccrued(c)
  <2>1. pc'[c] = "idle" /\ Booked(Last) /\ UNCHANGED <<kind, runs, delta>>
    BY <1>1, <1>3 DEF KeepAccrued, End, Goto, TypeOK
  <2> QED BY <1>2, <2>1, TurnsSame DEF CallClaims
<1>4. CASE LookUp(c)
  <2>1. /\ pc'[c] = "insert" /\ seen' = seen /\ ~Booked(Last) /\ kind # "receipt"
        /\ UNCHANGED <<kind, accrued, runs, delta>>
    BY <1>1, <1>4 DEF LookUp, Goto, TypeOK, call, doc
  <2>2. RunsTakeTurns'
    BY <2>1, TurnsAre, TurnsSame
  <2> QED BY <1>1, <2>1, <2>2 DEF CallClaims, Last
<1> QED BY <1>3, <1>4

\* A line is added to the last run, which had none.
LEMMA LineTurn ==
  ASSUME TypeOK, RunsTakeTurns, runs # <<>>, ~Booked(Last), NEW b \in BOOLEAN,
         runs' = [runs EXCEPT ![Len(runs)] = WithLine(Last, b)]
  PROVE  /\ Turns(runs') /\ runs' # <<>> /\ Len(runs') = Len(runs)
         /\ Booked(runs'[Len(runs')])
<1>1. runs \in Seq(Run) /\ Turns(runs)
  BY TurnsAre DEF TypeOK
<1>2. Last \in Run /\ Last.status = "POSTED"
  BY <1>1, ActiveIsLast
<1>3. Last.sum = 0 /\ Last = runs[Len(runs)]
  BY <1>1 DEF Turns, Last
<1> DEFINE r == WithLine(Last, b)
<1>4. /\ r \in Run /\ r.status = "POSTED" /\ r.lines = Last.lines + 1 /\ r.sum = Last.sum + 1
  BY <1>2, LineAdded
<1>5. Last.lines \in Nat
  BY <1>2 DEF Run
<1>6. runs' = [runs EXCEPT ![Len(runs)] = r]
  OBVIOUS
<1> HIDE DEF r
<1>7. r.sum = 1 /\ Booked(r)
  BY <1>3, <1>4, <1>5 DEF Booked
<1>8. runs[Len(runs)].sum = 0
  BY <1>3
<1> DEFINE t == [runs EXCEPT ![Len(runs)] = r]
<1>9. /\ Turns(t) /\ t # <<>> /\ Len(t) = Len(runs) /\ t[Len(t)] = r
  BY <1>1, <1>4, <1>7, <1>8, LastTurn
<1>10. runs' = t
  BY <1>6
<1> HIDE DEF t
<1>11. /\ Turns(runs') /\ runs' # <<>> /\ Len(runs') = Len(runs) /\ runs'[Len(runs')] = r
  BY <1>9, <1>10
<1> QED BY <1>7, <1>11

LEMMA InsertAlone ==
  ASSUME TypeOK, CallsKnow, NEW c \in Client, RunsTakeTurns, CallClaims(c), Insert(c)
  PROVE  RunsTakeTurns' /\ CallClaims(c)'
<1>1. /\ pc[c] = "insert" /\ kind # "receipt" /\ ~Booked(Last)
      /\ seen[c] = Len(runs) /\ seen[c] \in DOMAIN runs /\ Last = runs[seen[c]]
  BY DEF Insert, CallClaims, CallsKnow, Last
<1>2. runs # <<>>
  BY <1>1
<1>3. ~Last.own
  BY <1>1, <1>2, TurnsAre DEF Turns, Last
<1>4. /\ runs' = [runs EXCEPT ![Len(runs)] = WithLine(Last, TRUE)]
      /\ UNCHANGED <<kind, accrued, delta>> /\ pc'[c] = "flag" /\ seen' = seen
  BY <1>1, <1>3 DEF Insert, Goto, TypeOK, call
<1>5. /\ Turns(runs') /\ runs' # <<>> /\ Len(runs') = Len(runs)
      /\ Booked(runs'[Len(runs')])
  BY <1>1, <1>2, <1>4, LineTurn
<1>6. RunsTakeTurns'
  BY <1>1, <1>4, <1>5, TurnsThen
<1> QED BY <1>1, <1>4, <1>5, <1>6 DEF CallClaims, Last

LEMMA InsertDeltaAlone ==
  ASSUME TypeOK, CallsKnow, NEW c \in Client, RunsTakeTurns, CallClaims(c), InsertDelta(c)
  PROVE  RunsTakeTurns' /\ CallClaims(c)'
<1>1. /\ pc[c] = "look" /\ kind = "receipt" /\ UNCHANGED <<kind, accrued>>
      /\ seen[c] = Len(runs) /\ seen[c] \in DOMAIN runs /\ Last = runs[seen[c]]
      /\ pc'[c] = "flag" /\ seen' = seen
  BY DEF InsertDelta, CallClaims, CallsKnow, Last, Goto, TypeOK, call
<1>2. runs # <<>>
  BY <1>1
<1>3. CASE UNCHANGED <<runs, delta>>
  <2>1. RunsTakeTurns'
    BY <1>1, <1>3, TurnsSame
  <2> QED BY <1>1, <1>3, <2>1 DEF CallClaims
<1>4. CASE ~delta /\ delta' = TRUE /\ runs' = [runs EXCEPT ![Len(runs)] = WithLine(Last, FALSE)]
  <2>1. Last.sum = 0
    BY <1>1, <1>2, <1>4, TurnsAre
  <2>2. ~Booked(Last)
    BY <1>2, <2>1, TurnsAre DEF Turns, Last
  <2>3. Turns(runs') /\ runs' # <<>> /\ Len(runs') = Len(runs)
    BY <1>2, <1>4, <2>2, LineTurn
  <2>4. RunsTakeTurns'
    BY <1>1, <1>4, <2>3, TurnsThen
  <2> QED BY <1>1, <2>3, <2>4 DEF CallClaims
<1> QED BY <1>1, <1>3, <1>4 DEF InsertDelta

LEMMA SetFlagAlone ==
  ASSUME TypeOK, CallsKnow, NEW c \in Client, RunsTakeTurns, CallClaims(c), SetFlag(c)
  PROVE  RunsTakeTurns' /\ CallClaims(c)'
<1>1. /\ pc[c] = "flag" /\ seen[c] = Len(runs) /\ seen[c] \in DOMAIN runs
      /\ UNCHANGED <<kind, runs, delta>> /\ pc'[c] \in {"journal", "idle"}
  BY DEF SetFlag, CallClaims, CallsKnow, Goto, End, TypeOK
<1>2. runs # <<>> /\ (kind # "receipt" => Booked(Last))
  BY <1>1 DEF CallClaims
<1>3. RunsTakeTurns'
  BY <1>1, <1>2, TurnsSame
<1> QED BY <1>1, <1>3 DEF CallClaims

LEMMA CommitVoidAlone ==
  ASSUME TypeOK, CallsKnow, NEW c \in Client, RunsTakeTurns, CommitVoid(c)
  PROVE  RunsTakeTurns' /\ CallClaims(c)'
<1> DEFINE k == seen[c]
<1>1. /\ pc'[c] = "idle" /\ accrued' = FALSE /\ UNCHANGED <<kind, delta>>
      /\ k \in {0} \cup DOMAIN runs
  BY DEF CommitVoid, CallsKnow, Goto, End, TypeOK
<1>2. CallClaims(c)'
  BY <1>1 DEF CallClaims
<1>3. CASE UNCHANGED runs
  BY <1>1, <1>2, <1>3, TurnsSame
<1>4. CASE /\ k # 0 /\ runs[k].status # "VOIDED"
           /\ runs' = Append([runs EXCEPT ![k].status = "VOIDED"], Mirror(runs[k]))
  <2>1. k \in DOMAIN runs /\ runs \in Seq(Run) /\ Turns(runs) /\ runs # <<>>
    BY <1>1, <1>4, TurnsAre DEF TypeOK
  <2>2. runs[k].status = "POSTED"
    <3>1. runs[k] \in Run
      BY <2>1
    <3> QED BY <1>4, <3>1 DEF Run
  <2>3. k = Len(runs)
    BY <2>1, <2>2 DEF Turns
  <2> HIDE DEF k
  <2>4. runs' = Append([runs EXCEPT ![Len(runs)] = [runs[Len(runs)] EXCEPT !.status = "VOIDED"]],
                       Mirror(runs[Len(runs)]))
    BY <1>4, <2>3
  <2>5. Turns(runs') /\ runs' # <<>> /\ runs'[Len(runs')].sum = -runs[Len(runs)].sum
    BY <2>1, <2>4, TurnBack
  <2>6. kind = "receipt" /\ ~delta => runs[Len(runs)].sum = 0
    BY <2>1, TurnsAre DEF Last
  <2>7. kind' = "receipt" /\ ~delta' => runs'[Len(runs')].sum = 0
    BY <1>1, <2>5, <2>6
  <2> QED BY <1>1, <1>2, <2>5, <2>7, TurnsThen
<1> QED BY <1>3, <1>4 DEF CommitVoid

LEMMA AtOnceAlone ==
  ASSUME TypeOK, NEW c \in Client, RunsTakeTurns, AccrueAtOnce(c)
  PROVE  RunsTakeTurns'
<1>1. runs \in Seq(Run) /\ Turns(runs) /\ ~accrued
  BY TurnsAre, AtOnce DEF TypeOK
<1>2. /\ Active = Len(runs) /\ Len(runs) \in Nat
      /\ runs # <<>> <=> Len(runs) # 0
      /\ runs # <<>> => Last \in Run /\ Last.status = "POSTED" /\ Len(runs) \in DOMAIN runs
  BY <1>1, ActiveIsLast
<1>3. CASE UNCHANGED <<runs, delta>> /\ kind # "receipt" /\ Booked(Found)
  <2>1. runs # <<>> /\ Found = Last
    <3>1. ~Booked(NewRun(0))
      BY DEF NewRun, Booked
    <3> QED BY <1>2, <1>3, <3>1 DEF Found, Last
  <2>2. UNCHANGED kind
    BY AtOnce
  <2> QED BY <1>3, <2>1, <2>2, TurnsSame
<1>4. ASSUME NEW b \in BOOLEAN, UNCHANGED kind, ~Booked(Found),
             runs' = Putting(WithLine(Found, b)), kind = "receipt" => delta'
      PROVE  RunsTakeTurns'
  <2>1. CASE runs = <<>>
    <3> DEFINE r == WithLine(NewRun(0), b)
    <3>1. /\ NewRun(0) \in Run /\ NewRun(0).status = "POSTED" /\ NewRun(0).sum = 0
          /\ NewRun(0).lines = 0
      BY DEF NewRun, Run
    <3>2. r \in Run /\ r.status = "POSTED" /\ r.lines = 1 /\ r.sum = 1
      BY <3>1, LineAdded
    <3>3. runs' = Append(runs, r)
      BY <1>2, <1>4, <2>1 DEF Putting, Found
    <3> HIDE DEF r
    <3>4. Booked(r)
      BY <3>2 DEF Booked
    <3>5. r.sum \in {0, 1} /\ (Booked(r) <=> r.sum # 0) /\ (r.own => Booked(r))
      BY <3>2, <3>4
    <3>6. Turns(runs') /\ runs' # <<>> /\ runs'[Len(runs')] = r
      BY <2>1, <3>2, <3>3, <3>5, FirstTurn
    <3> QED BY <1>4, <3>4, <3>6, TurnsThen
  <2>2. CASE runs # <<>>
    <3>1. Found = Last
      BY <1>2, <2>2 DEF Found, Last
    <3>2. runs' = [runs EXCEPT ![Len(runs)] = WithLine(Last, b)]
      BY <1>2, <1>4, <2>2, <3>1 DEF Putting
    <3>3. /\ Turns(runs') /\ runs' # <<>> /\ Booked(runs'[Len(runs')])
      BY <1>4, <2>2, <3>1, <3>2, LineTurn
    <3> QED BY <1>4, <3>3, TurnsThen
  <2> QED BY <2>1, <2>2
<1>5. CASE /\ kind # "receipt" /\ ~Booked(Found) /\ UNCHANGED <<kind, delta>>
           /\ runs' = Putting(IF Found.own THEN Found ELSE WithLine(Found, TRUE))
  <2>1. ~Found.own
    <3>1. CASE runs = <<>>
      BY <1>2, <3>1 DEF Found, NewRun
    <3>2. CASE runs # <<>>
      <4>1. Found = Last
        BY <1>2, <3>2 DEF Found, Last
      <4> QED BY <1>1, <1>5, <3>2, <4>1 DEF Turns, Last
    <3> QED BY <3>1, <3>2
  <2>2. runs' = Putting(WithLine(Found, TRUE))
    BY <1>5, <2>1
  <2> QED BY <1>4, <1>5, <2>2
<1>6. CASE kind = "receipt" /\ UNCHANGED <<kind, delta>> /\ runs' = Putting(Found)
  <2>1. CASE runs = <<>>
    <3> DEFINE r == NewRun(0)
    <3>1. r \in Run /\ r.status = "POSTED" /\ r.sum = 0 /\ r.lines = 0 /\ r.own = FALSE
      BY DEF NewRun, Run
    <3>2. runs' = Append(runs, r)
      BY <1>2, <1>6, <2>1 DEF Putting, Found
    <3> HIDE DEF r
    <3>3. ~Booked(r)
      BY <3>1 DEF Booked
    <3>4. Turns(runs') /\ runs' # <<>> /\ runs'[Len(runs')] = r
      BY <2>1, <3>1, <3>2, <3>3, FirstTurn
    <3> QED BY <1>6, <3>1, <3>4, TurnsThen
  <2>2. CASE runs # <<>>
    <3>1. runs' = runs
      BY <1>1, <1>2, <1>6, <2>2 DEF Putting, Found
    <3> QED BY <1>6, <3>1, TurnsSame
  <2> QED BY <2>1, <2>2
<1>7. CASE /\ kind = "receipt" /\ ~delta /\ delta' = TRUE /\ UNCHANGED kind
           /\ runs' = Putting(WithLine(Found, FALSE))
  <2>1. ~Booked(Found)
    <3>1. CASE runs = <<>>
      BY <1>2, <3>1 DEF Found, NewRun, Booked
    <3>2. CASE runs # <<>>
      <4>1. Found = Last
        BY <1>2, <3>2 DEF Found, Last
      <4>2. Last.sum = 0
        BY <1>7, <3>2, TurnsAre
      <4> QED BY <1>1, <3>2, <4>1, <4>2 DEF Turns, Last
    <3> QED BY <3>1, <3>2
  <2> QED BY <1>4, <1>7, <2>1
<1>8. UNCHANGED kind
  BY AtOnce
<1> QED BY <1>3, <1>5, <1>6, <1>7, <1>8, AtOnce

LEMMA OneAccrualStep ==
  ASSUME TypeOK, CallsKnow, OneAccrual, DocumentMove
  PROVE  OneAccrual'
<1>1. CASE \A c \in Client : AccrualStep(c) => FindJournal(c) \/ UpsertJournal(c) \/ FindActive(c)
  BY <1>1, QuietForRuns, TurnsInQuiet
<1>2. ASSUME NEW c \in Client, AccrueAtOnce(c)
      PROVE  OneAccrual'
  <2> SUFFICES ASSUME "accrual" \notin lap'
               PROVE  OneAccrual'
    BY DEF OneAccrual
  <2>1. /\ "accrual" \notin lap /\ UNCHANGED pc
        /\ \A e \in Client : pc[e] \notin Accruing
    BY <1>2, AtOnce
  <2>2. RunsTakeTurns'
    BY <1>2, <2>1, AtOnceAlone, ClaimsAre
  <2>3. \A d \in Client : pc'[d] \notin Accruing
    BY <2>1
  <2>4. CallClaims(c)'
    BY <2>3 DEF CallClaims, Accruing
  <2> QED BY <2>2, <2>3, <2>4, StepStands
<1>3. ASSUME NEW c \in Client, AccrualStep(c), ~AccrueAtOnce(c),
             ~(FindJournal(c) \/ UpsertJournal(c) \/ FindActive(c))
      PROVE  OneAccrual'
  <2> SUFFICES ASSUME "accrual" \notin lap'
               PROVE  OneAccrual'
    BY DEF OneAccrual
  <2>1. /\ RunsTakeTurns /\ CallClaims(c)
        /\ \A d \in Client \ {c} : pc'[d] \notin Accruing
    BY <1>3, AloneAtStep
  <2>2. RunsTakeTurns' /\ CallClaims(c)'
    BY <1>3, <2>1, BeginsAlone, FindRunAlone, MakeRunAlone, LookAlone, InsertAlone,
       InsertDeltaAlone, SetFlagAlone, CommitVoidAlone DEF AccrualStep
  <2> QED BY <2>1, <2>2, StepStands
<1> QED BY <1>1, <1>2, <1>3

LEMMA DocumentStands ==
  ASSUME DocumentInv, DocumentMove
  PROVE  DocumentInv'
  BY TypeStep, CallsStep, MonthsStep, OneAccrualStep DEF DocumentInv

LEMMA DocumentStart ==
  ASSUME Init
  PROVE  DocumentInv
<1>1. TypeOK
  <2>1. <<>> \in Seq(Run) /\ <<>> \in Seq(JournalRow) /\ Len(<<>>) = 0
    OBVIOUS
  <2>2. /\ runs \in Seq(Run) /\ Len(runs) <= MaxRuns
        /\ journals \in Seq(JournalRow) /\ Len(journals) <= MaxJournals
    BY <2>1, BoundsAssumption DEF Init
  <2>3. /\ kind \in Kind /\ life \in BOOLEAN /\ accrued \in BOOLEAN /\ delta \in BOOLEAN
        /\ reserved \subseteq Journal \X Month /\ made \in [Journal \X Month -> Nat]
        /\ lap \subseteq {"accrual", "batch"} /\ edits \in 0 .. MaxEdits
    <3>1. life \in BOOLEAN
      <4>1. CASE kind = "spread"
        BY <4>1 DEF Init
      <4>2. CASE kind # "spread"
        BY <4>2 DEF Init
      <4> QED BY <4>1, <4>2
    <3>2. accrued \in BOOLEAN /\ delta \in BOOLEAN
      BY DEF Init
    <3>3. edits \in 0 .. MaxEdits
      BY BoundsAssumption DEF Init
    <3> QED BY <3>1, <3>2, <3>3 DEF Init
  <2>4. CallsTyped
    BY DEF Init, CallsTyped
  <2> QED BY <2>2, <2>3, <2>4 DEF TypeOK, CallsTyped, JournalRow
<1>2. /\ \A c \in Client : pc[c] = "idle" /\ at[c] = <<>> /\ todo[c] = {}
      /\ reserved = {} /\ journals = <<>> /\ runs = <<>> /\ ~accrued
      /\ \A p \in Journal \X Month : made[p] = 0
  BY DEF Init
<1>3. CallsKnow
  BY <1>2 DEF CallsKnow
<1>4. MonthsAreKept
  BY <1>2 DEF MonthsAreKept
<1>5. OneBatch
  BY <1>2 DEF OneBatch, Batching
<1>6. RunsTakeTurns
  <2>1. Added(runs) = 0
    BY <1>2, AddedNone
  <2>2. Turns(runs)
    BY <1>2, <2>1 DEF Turns
  <2> QED BY <1>2, <2>2, TurnsAre
<1>7. OneAccrual
  BY <1>2, <1>6 DEF OneAccrual, CallStands, Accruing
<1> QED BY <1>1, <1>3, <1>4, <1>5, <1>7 DEF DocumentInv

----------------------------------------------------------------------------
(* What surrounds the document *)

LEMMA MovesOfPayables ==
  ASSUME [PayablesNext]_<<vars, payable>>
  PROVE  DocumentMove
<1>1. CASE UNCHANGED vars
  BY <1>1, Moves
<1>2. CASE DocumentStep \/ \E c \in Client : BeginVoid(c) \/ PayAndAccrue(c)
  <2>1. \A c \in Client : AccrueAtOnce(c) => Steps
    BY DEF Steps
  <2>2. Next
    BY <1>2, <2>1 DEF DocumentStep, BeginVoid, PayAndAccrue, Next
  <2> QED BY <2>2, Moves
<1>3. CASE UpdatePaid
  BY <1>3, Moves DEF UpdatePaid, Touch
<1>4. UNCHANGED vars \/ DocumentStep \/ UpdatePaid
      \/ \E c \in Client : BeginVoid(c) \/ PayAndAccrue(c)
  BY DEF PayablesNext, Create, AccrueTwin, CancelPay, ReadLink, CreateInvoice, ReadPay,
         CommitPay, ReadUnreceive, CommitUnreceive, AddPayment, SumPayments, WritePaid, Fail
<1> QED BY <1>1, <1>2, <1>3, <1>4

\* What is forgotten of the past is that the field had missed a payment.
LEMMA PastGrows ==
  ASSUME [PayablesNext]_<<vars, payable>>
  PROVE  past \ {"stale"} \subseteq past'
  BY DEF PayablesNext, payable, Remember, Create, DocumentStep, BeginVoid, PayAndAccrue, UpdatePaid,
         AccrueTwin, CancelPay, ReadLink, CreateInvoice, ReadPay, CommitPay, ReadUnreceive,
         CommitUnreceive, AddPayment, SumPayments, WritePaid, Fail

LEMMA KindStays ==
  ASSUME DocumentMove
  PROVE  kind' = kind
<1>1. ASSUME NEW c \in Client, AccrueAtOnce(c)
      PROVE  kind' = kind
  BY <1>1, AtOnce
<1>2. ASSUME NEW c \in Client, AccrualStep(c), ~AccrueAtOnce(c)
      PROVE  kind' = kind
  BY <1>2 DEF AccrualStep, ReadAccrue, FindRun, MakeRun, KeepAccrued, LookUp, Insert, InsertDelta,
     SetFlag, FindJournal, UpsertJournal, ReadVoid, FindActive, CommitVoid, doc
<1>3. ASSUME NEW c \in Client, BatchStep(c) \/ Abort(c)
      PROVE  kind' = kind
  BY <1>3 DEF doc, BatchStep, ReadBatch, Reserve, Skip, CommitMonth, EndBatch, Abort
<1>4. CASE UNCHANGED vars \/ EditStep
  BY <1>4 DEF vars, doc, EditStep, Update, CreateJournal, PatchJournal, Touch
<1> QED BY <1>1, <1>2, <1>3, <1>4 DEF DocumentMove

\* Only the beginning of a void makes one, and only the end of one takes the flag away.
LEMMA VoidsGoOn ==
  ASSUME TypeOK, Steps \/ UNCHANGED vars \/ Touch
  PROVE  /\ Voiding' => Voiding
         /\ accrued /\ ~Voiding => accrued'
<1>1. CallsTyped
  BY DEF TypeOK, CallsTyped
<1>2. ASSUME NEW c \in Client, AccrueAtOnce(c)
      PROVE  UNCHANGED pc /\ accrued'
  BY <1>2, AtOnce
<1>3. ASSUME NEW c \in Client,
             \A d \in Client \ {c} : pc'[d] = pc[d],
             pc'[c] \in {"void", "voiding"} => pc[c] \in {"void", "voiding"}
      PROVE  Voiding' => Voiding
  BY <1>3 DEF Voiding
<1>4. ASSUME NEW c \in Client,
             \/ ReadAccrue(c) \/ FindRun(c) \/ MakeRun(c) \/ KeepAccrued(c) \/ LookUp(c)
             \/ Insert(c) \/ InsertDelta(c) \/ SetFlag(c) \/ FindJournal(c) \/ UpsertJournal(c)
             \/ FindActive(c) \/ CommitVoid(c)
      PROVE  /\ Voiding' => Voiding
             /\ accrued /\ ~Voiding => accrued'
  <2>1. \A d \in Client \ {c} : pc'[d] = pc[d]
    BY <1>1, <1>4 DEF ReadAccrue, FindRun, MakeRun, KeepAccrued, LookUp, Insert,
       InsertDelta, SetFlag, FindJournal, UpsertJournal, FindActive, CommitVoid, End, Goto, Begin,
       CallsTyped
  <2>2. pc'[c] \in {"void", "voiding"} => pc[c] \in {"void", "voiding"}
    BY <1>1, <1>4 DEF ReadAccrue, FindRun, MakeRun, KeepAccrued, LookUp, Insert,
       InsertDelta, SetFlag, FindJournal, UpsertJournal, FindActive, CommitVoid, End, Goto, Begin,
       CallsTyped
  <2>3. accrued /\ ~CommitVoid(c) => accrued'
    BY <1>4 DEF ReadAccrue, FindRun, MakeRun, KeepAccrued, LookUp, Insert,
       InsertDelta, SetFlag, FindJournal, UpsertJournal, FindActive, doc
  <2>4. CommitVoid(c) => Voiding
    BY DEF CommitVoid, Voiding
  <2> QED BY <1>3, <2>1, <2>2, <2>3, <2>4
<1>5. ASSUME NEW c \in Client, BatchStep(c) \/ Abort(c)
      PROVE  (Voiding' => Voiding) /\ accrued' = accrued
  <2>1. accrued' = accrued
    BY <1>5 DEF doc, BatchStep, ReadBatch, Reserve, Skip, CommitMonth, EndBatch, Abort
  <2>2. /\ pc'[c] \notin {"void", "voiding"} \/ pc' = pc
        /\ \A d \in Client \ {c} : pc'[d] = pc[d]
    BY <1>1, <1>5 DEF BatchStep, ReadBatch, Reserve, Skip, CommitMonth, EndBatch, Abort, End, Goto,
       Begin, CallsTyped
  <2> QED BY <1>3, <2>1, <2>2
<1>6. CASE UNCHANGED vars \/ EditStep
  <2>1. UNCHANGED <<pc, accrued>>
    BY <1>6 DEF vars, doc, EditStep, Update, CreateJournal, PatchJournal, Touch
  <2> QED BY <2>1 DEF Voiding
<1>7. Steps => \/ EditStep
               \/ \E c \in Client :
                    \/ ReadAccrue(c) \/ FindRun(c) \/ MakeRun(c) \/ KeepAccrued(c) \/ LookUp(c)
                    \/ Insert(c) \/ InsertDelta(c) \/ SetFlag(c) \/ FindJournal(c)
                    \/ UpsertJournal(c) \/ FindActive(c) \/ CommitVoid(c)
                    \/ AccrueAtOnce(c) \/ BatchStep(c) \/ Abort(c)
  BY DEF Steps, EditStep, BatchStep
<1>8. Touch => EditStep
  BY DEF EditStep
<1> QED BY <1>2, <1>4, <1>5, <1>6, <1>7, <1>8 DEF Voiding

LEMMA PayablesTypeStep ==
  ASSUME PayablesTypeOK, [PayablesNext]_<<vars, payable>>
  PROVE  PayablesTypeOK'
<1>1. MaxPayments \in Nat
  BY MaxPaymentsAssumption
<1>2. CASE UNCHANGED <<vars, payable>> \/ Create \/ AccrueTwin \/ CancelPay
  BY <1>2 DEF PayablesTypeOK, payable, standing, kept, Create, AccrueTwin, CancelPay
<1>3. CASE DocumentStep \/ \E c \in Client : BeginVoid(c) \/ PayAndAccrue(c)
  BY <1>3 DEF PayablesTypeOK, standing, kept, DocumentStep, BeginVoid, PayAndAccrue, Remember,
              Crossing
<1>4. CASE UpdatePaid
  BY <1>1, <1>4 DEF PayablesTypeOK, standing, UpdatePaid, Remember
<1> DEFINE Turned == /\ step \in [Client -> {"idle", "file", "pay", "unreceive", "sum", "paid"}]
                     /\ sum \in [Client -> 0 .. MaxPayments]
<1>5. ASSUME NEW c \in Client,
             \/ Done(c)
             \/ /\ \E l \in {"file", "pay", "unreceive", "sum", "paid"} : Turn(c, l)
                /\ UNCHANGED sum \/ sum' = [sum EXCEPT ![c] = payments]
      PROVE  Turned'
  BY <1>1, <1>5 DEF PayablesTypeOK, Done, Turn
<1>6. ASSUME NEW c \in Client, ReadLink(c) \/ CreateInvoice(c)
      PROVE  PayablesTypeOK'
  <2>1. Turned'
    BY <1>5, <1>6 DEF ReadLink, CreateInvoice
  <2> QED BY <1>6, <2>1 DEF PayablesTypeOK, standing, kept, ReadLink, CreateInvoice
<1>7. ASSUME NEW c \in Client, ReadPay(c) \/ CommitPay(c)
      PROVE  PayablesTypeOK'
  <2>1. Turned'
    BY <1>5, <1>7 DEF ReadPay, CommitPay
  <2> QED BY <1>7, <2>1 DEF PayablesTypeOK, standing, kept, ReadPay, CommitPay, Remember, Crossing
<1>8. ASSUME NEW c \in Client, ReadUnreceive(c) \/ CommitUnreceive(c)
      PROVE  PayablesTypeOK'
  <2>1. Turned'
    BY <1>5, <1>8 DEF ReadUnreceive, CommitUnreceive
  <2> QED BY <1>8, <2>1 DEF PayablesTypeOK, standing, kept, ReadUnreceive, CommitUnreceive
<1>9. ASSUME NEW c \in Client, AddPayment(c)
      PROVE  PayablesTypeOK'
  <2>1. payments' \in 0 .. MaxPayments
    BY <1>1, <1>9 DEF PayablesTypeOK, AddPayment
  <2>2. Turned'
    BY <1>5, <1>9 DEF AddPayment
  <2> QED BY <1>9, <2>1, <2>2 DEF PayablesTypeOK, standing, AddPayment, Remember
<1>10. ASSUME NEW c \in Client, SumPayments(c) \/ WritePaid(c)
       PROVE  PayablesTypeOK'
  <2>1. Turned'
    BY <1>5, <1>10 DEF SumPayments, WritePaid
  <2>2. sum[c] \in 0 .. MaxPayments
    BY DEF PayablesTypeOK
  <2> QED BY <1>10, <2>1, <2>2 DEF PayablesTypeOK, standing, kept, SumPayments, WritePaid
<1>11. ASSUME NEW c \in Client, Fail(c)
       PROVE  PayablesTypeOK'
  <2>1. Turned'
    BY <1>5, <1>11 DEF Fail
  <2> QED BY <1>11, <2>1 DEF PayablesTypeOK, standing, kept, Fail, Remember
<1> QED BY <1>2, <1>3, <1>4, <1>6, <1>7, <1>8, <1>9, <1>10, <1>11 DEF PayablesNext

LEMMA FiledStep ==
  ASSUME PayablesTypeOK, FiledFirst, [PayablesNext]_<<vars, payable>>
  PROVE  FiledFirst'
<1>1. CASE UNCHANGED <<vars, payable>> \/ Create \/ AccrueTwin \/ CancelPay
  BY <1>1 DEF FiledFirst, At, vars, doc, payable, standing, Create, AccrueTwin, CancelPay
<1>2. CASE DocumentStep \/ UpdatePaid \/ \E c \in Client : BeginVoid(c) \/ PayAndAccrue(c)
  BY <1>2 DEF FiledFirst, standing, DocumentStep, UpdatePaid, BeginVoid, PayAndAccrue
<1>3. ASSUME NEW c \in Client,
             \/ ReadLink(c) \/ CreateInvoice(c) \/ ReadUnreceive(c) \/ CommitUnreceive(c)
             \/ AddPayment(c) \/ SumPayments(c) \/ WritePaid(c) \/ Fail(c)
      PROVE  FiledFirst'
  <2>1. step'[c] # "pay" /\ \A d \in Client \ {c} : step'[d] = step[d]
    BY <1>3 DEF ReadLink, CreateInvoice, ReadUnreceive, CommitUnreceive, AddPayment, SumPayments,
       WritePaid, Fail, Turn, Done, PayablesTypeOK
  <2>2. At("pay")' => At("pay")
    BY <2>1 DEF At
  <2> QED BY <1>3, <2>2 DEF FiledFirst, vars, doc, standing, ReadLink, CreateInvoice,
     ReadUnreceive, CommitUnreceive, AddPayment, SumPayments, WritePaid, Fail
<1>4. ASSUME NEW c \in Client, ReadPay(c)
      PROVE  FiledFirst'
  BY <1>4 DEF FiledFirst, standing, ReadPay
<1>5. ASSUME NEW c \in Client, CommitPay(c)
      PROVE  FiledFirst'
  BY <1>5 DEF FiledFirst, At, CommitPay
<1> QED BY <1>1, <1>2, <1>3, <1>4, <1>5 DEF PayablesNext

LEMMA PaidStep ==
  ASSUME TypeOK, PayablesTypeOK, PaidStands, [PayablesNext]_<<vars, payable>>
  PROVE  PaidStands'
<1> SUFFICES ASSUME "crossed" \notin past', execution' # "none" \/ At("pay")'
             PROVE  accrued' /\ ~Voiding'
  BY DEF PaidStands
<1>1. "crossed" \notin past
  BY PastGrows
<1>2. ASSUME accrued, ~Voiding, Steps \/ UNCHANGED vars \/ Touch
      PROVE  accrued' /\ ~Voiding'
  BY <1>2, VoidsGoOn
<1>3. ASSUME execution # "none" \/ At("pay"), Steps \/ UNCHANGED vars \/ Touch
      PROVE  accrued' /\ ~Voiding'
  BY <1>1, <1>2, <1>3 DEF PaidStands
<1>4. CASE UNCHANGED <<vars, payable>> \/ Create \/ AccrueTwin \/ CancelPay
  <2>1. execution # "none" \/ At("pay")
    BY <1>4 DEF At, payable, standing, Create, AccrueTwin, CancelPay
  <2>2. UNCHANGED vars
    BY <1>4 DEF Create, AccrueTwin, CancelPay
  <2> QED BY <1>3, <2>1, <2>2
<1>5. ASSUME NEW c \in Client,
             \/ ReadLink(c) \/ CreateInvoice(c) \/ ReadUnreceive(c) \/ CommitUnreceive(c)
             \/ AddPayment(c) \/ SumPayments(c) \/ WritePaid(c) \/ Fail(c) \/ CommitPay(c)
      PROVE  accrued' /\ ~Voiding'
  <2>1. UNCHANGED vars
    BY <1>5 DEF ReadLink, CreateInvoice, ReadUnreceive, CommitUnreceive, AddPayment, SumPayments,
       WritePaid, Fail, CommitPay
  <2>2. step'[c] # "pay" /\ \A d \in Client \ {c} : step'[d] = step[d]
    BY <1>5 DEF ReadLink, CreateInvoice, ReadUnreceive, CommitUnreceive, AddPayment, SumPayments,
       WritePaid, Fail, CommitPay, Turn, Done, PayablesTypeOK
  <2>3. At("pay")' => At("pay")
    BY <2>2 DEF At
  <2>4. execution' = execution \/ At("pay")
    BY <1>5 DEF ReadLink, CreateInvoice, ReadUnreceive, CommitUnreceive, AddPayment, SumPayments,
       WritePaid, Fail, CommitPay, standing, At
  <2> QED BY <1>3, <2>1, <2>3, <2>4
<1>6. ASSUME NEW c \in Client, ReadPay(c)
      PROVE  accrued' /\ ~Voiding'
  <2>1. accrued /\ ~Voiding /\ UNCHANGED vars
    BY <1>6 DEF ReadPay, MayBePaid, Remember, Crossing
  <2> QED BY <1>2, <2>1
<1>7. ASSUME NEW c \in Client, PayAndAccrue(c)
      PROVE  accrued' /\ ~Voiding'
  <2>1. ~Voiding /\ AccrueAtOnce(c)
    BY <1>7 DEF PayAndAccrue, Remember, Crossing
  <2>2. accrued' /\ UNCHANGED pc
    BY <2>1, AtOnce
  <2> QED BY <2>1, <2>2 DEF Voiding
<1>8. ASSUME NEW c \in Client, BeginVoid(c)
      PROVE  FALSE
  BY <1>8 DEF BeginVoid, Unpaid, Remember, At, standing
<1>9. CASE UpdatePaid \/ DocumentStep
  <2>1. execution # "none" \/ At("pay")
    BY <1>9 DEF UpdatePaid, DocumentStep, standing, At
  <2>2. Steps \/ Touch
    BY <1>9 DEF UpdatePaid, DocumentStep, Touch
  <2> QED BY <1>3, <2>1, <2>2
<1> QED BY <1>4, <1>5, <1>6, <1>7, <1>8, <1>9 DEF PayablesNext

LEMMA PassedStep ==
  ASSUME TypeOK, PayablesTypeOK, FiledFirst, PaidStands, PassedStands,
         [PayablesNext]_<<vars, payable>>
  PROVE  PassedStands'
<1>1. kind' = kind
  BY MovesOfPayables, KindStays
<1>2. past \cap {"late", "crossed"} \subseteq past'
  BY PastGrows
<1> DEFINE Free == past \cap {"late", "crossed"} = {} /\ twin = "none"
<1>3. Free' => Free
  <2>1. twin # "none" => twin' # "none"
    BY DEF PayablesNext, payable, standing, Create, DocumentStep, BeginVoid, PayAndAccrue,
       UpdatePaid, AccrueTwin, CancelPay, ReadLink, CreateInvoice, ReadPay, CommitPay,
       ReadUnreceive, CommitUnreceive, AddPayment, SumPayments, WritePaid, Fail
  <2> QED BY <1>2, <2>1
<1>4. ASSUME At("unreceive"), Free' => ~accrued' /\ execution' = "none"
      PROVE  PassedStands'
  BY <1>1, <1>4 DEF PassedStands
<1>5. ASSUME At("unreceive"), UNCHANGED <<accrued, execution>>
      PROVE  PassedStands'
  BY <1>3, <1>4, <1>5 DEF PassedStands
<1>6. ASSUME ~At("unreceive")'
      PROVE  PassedStands'
  BY <1>6 DEF PassedStands
<1>7. CASE UNCHANGED <<vars, payable>> \/ Create \/ AccrueTwin \/ UpdatePaid
  <2>1. UNCHANGED <<accrued, execution, step>>
    BY <1>7 DEF vars, doc, payable, standing, Create, AccrueTwin, UpdatePaid
  <2> QED BY <1>5, <1>6, <2>1 DEF At
<1>8. CASE CancelPay
  <2>1. At("unreceive")' => At("unreceive")
    BY <1>8 DEF CancelPay, At
  <2>2. At("unreceive") /\ Free => FALSE
    BY <1>8 DEF PassedStands, CancelPay
  <2> QED BY <1>3, <1>4, <1>6, <2>1, <2>2
<1>9. ASSUME NEW c \in Client,
             \/ ReadLink(c) \/ CreateInvoice(c) \/ ReadPay(c) \/ CommitUnreceive(c)
             \/ AddPayment(c) \/ SumPayments(c) \/ WritePaid(c) \/ Fail(c)
      PROVE  PassedStands'
  <2>1. step'[c] # "unreceive" /\ \A d \in Client \ {c} : step'[d] = step[d]
    BY <1>9 DEF ReadLink, CreateInvoice, CommitUnreceive, AddPayment, SumPayments,
       WritePaid, Fail, ReadPay, Turn, Done, PayablesTypeOK
  <2>2. At("unreceive")' => At("unreceive")
    BY <2>1 DEF At
  <2>3. UNCHANGED <<accrued, execution>>
    BY <1>9 DEF vars, doc, standing, ReadLink, CreateInvoice, CommitUnreceive, AddPayment,
       SumPayments, WritePaid, Fail, ReadPay
  <2> QED BY <1>5, <1>6, <2>2, <2>3
<1>10. ASSUME NEW c \in Client, CommitPay(c)
       PROVE  PassedStands'
  <2>1. step'[c] # "unreceive" /\ \A d \in Client \ {c} : step'[d] = step[d]
    BY <1>10 DEF CommitPay, Done, Turn, PayablesTypeOK
  <2>2. At("unreceive")' => At("unreceive")
    BY <2>1 DEF At
  <2>3. At("pay")
    BY <1>10 DEF CommitPay, At
  <2>4. At("unreceive") /\ Free => FALSE
    BY <2>3 DEF PassedStands, PaidStands
  <2> QED BY <1>3, <1>4, <1>6, <2>2, <2>4
<1>11. ASSUME NEW c \in Client, PayAndAccrue(c)
       PROVE  PassedStands'
  <2>1. kind = "expense" /\ UNCHANGED step
    BY <1>11 DEF PayAndAccrue
  <2> QED BY <1>6, <2>1 DEF PassedStands, At
<1>12. ASSUME NEW c \in Client, BeginVoid(c)
       PROVE  PassedStands'
  <2>1. UNCHANGED <<step, execution, accrued>>
    BY <1>12 DEF BeginVoid, standing, ReadVoid, doc
  <2> QED BY <1>5, <1>6, <2>1 DEF At
<1>13. CASE DocumentStep
  <2>1. UNCHANGED <<step, execution>>
    BY <1>13 DEF DocumentStep, standing
  <2>2. At("unreceive") => accrued' = accrued \/ ~accrued' \/ "late" \in past'
    BY <1>13 DEF DocumentStep, Remember, TypeOK
  <2> QED BY <1>3, <1>4, <1>6, <2>1, <2>2 DEF At, PassedStands
<1>14. ASSUME NEW c \in Client, ReadUnreceive(c)
       PROVE  PassedStands'
  <2>1. kind = "receipt" /\ (Passes = {} \/ TRUE \in Passes)
        /\ UNCHANGED <<accrued, execution, past, twin>>
    BY <1>14 DEF ReadUnreceive, vars, doc, standing
  <2>2. ASSUME twin = "none"
        PROVE  ~accrued /\ execution = "none"
    <3>1. CASE ~filed
      BY <3>1 DEF FiledFirst
    <3>2. CASE filed
      <4>1. Passes = {~accrued /\ Unpaid}
        BY <2>2, <3>2 DEF Passes
      <4>2. ~accrued /\ Unpaid
        BY <2>1, <4>1
      <4> QED BY <4>2 DEF Unpaid
    <3> QED BY <3>1, <3>2
  <2> QED BY <1>1, <2>1, <2>2 DEF PassedStands
<1> QED BY <1>7, <1>8, <1>9, <1>10, <1>11, <1>12, <1>13, <1>14 DEF PayablesNext

Adding(c) == step[c] \in {"sum", "paid"}

\* What leaves payments kept by hand, and the calls at work on them, alone.
SumQuiet ==
  /\ UNCHANGED <<payments, amountPaid>>
  /\ \A w \in {"together", "stale"} : w \in past => w \in past'
  /\ \A c \in Client : Adding(c) \/ Adding(c)' => step'[c] = step[c] /\ sum'[c] = sum[c]

LEMMA SummedInQuiet ==
  ASSUME SummedStands, SumQuiet
  PROVE  SummedStands'
<1> SUFFICES ASSUME "together" \notin past'
             PROVE  /\ \A c, d \in Client : Adding(c)' /\ Adding(d)' => c = d
                    /\ \A c \in Client : step'[c] = "paid" => sum'[c] = payments'
                    /\ "stale" \notin past' /\ ~At("sum")' /\ ~At("paid")' =>
                         amountPaid' = payments'
  BY DEF SummedStands, Adding
<1>1. /\ \A c, d \in Client : Adding(c) /\ Adding(d) => c = d
      /\ \A c \in Client : step[c] = "paid" => sum[c] = payments
      /\ "stale" \notin past /\ ~At("sum") /\ ~At("paid") => amountPaid = payments
  BY DEF SummedStands, SumQuiet, Adding
<1>2. \A c \in Client : /\ Adding(c) <=> Adding(c)'
                        /\ Adding(c) => step'[c] = step[c] /\ sum'[c] = sum[c]
  BY DEF SumQuiet, Adding
<1>3. (At("sum")' <=> At("sum")) /\ (At("paid")' <=> At("paid"))
  BY <1>2 DEF At, Adding
<1> QED BY <1>1, <1>2, <1>3 DEF SumQuiet, Adding

LEMMA QuietForSums ==
  ASSUME PayablesTypeOK, [PayablesNext]_<<vars, payable>>, ~UpdatePaid,
         \A c \in Client : Adding(c) => ~Fail(c),
         \A c \in Client : ~AddPayment(c) /\ ~SumPayments(c) /\ ~WritePaid(c)
  PROVE  SumQuiet
<1>1. CASE UNCHANGED <<vars, payable>> \/ Create \/ AccrueTwin \/ CancelPay \/ DocumentStep
           \/ \E c \in Client : BeginVoid(c) \/ PayAndAccrue(c)
  <2>1. UNCHANGED <<payments, amountPaid, step, sum>> /\ past \subseteq past'
    BY <1>1 DEF payable, kept, Create, AccrueTwin, CancelPay, DocumentStep, BeginVoid, PayAndAccrue,
                Remember
  <2> QED BY <2>1 DEF SumQuiet
<1>2. ASSUME NEW c \in Client,
             \/ ReadLink(c) \/ CreateInvoice(c) \/ ReadPay(c) \/ CommitPay(c) \/ ReadUnreceive(c)
             \/ CommitUnreceive(c) \/ Fail(c)
      PROVE  SumQuiet
  <2>1. UNCHANGED <<payments, amountPaid>> /\ past \subseteq past'
    BY <1>2 DEF kept, ReadLink, CreateInvoice, ReadPay, CommitPay, ReadUnreceive, CommitUnreceive,
       Fail, Remember
  <2>2. ~Adding(c)
    BY <1>2 DEF Adding, ReadLink, CreateInvoice, ReadPay, CommitPay, ReadUnreceive, CommitUnreceive
  <2>3. /\ step'[c] \notin {"sum", "paid"}
        /\ \A d \in Client \ {c} : step'[d] = step[d] /\ sum'[d] = sum[d]
    BY <1>2 DEF ReadLink, CreateInvoice, ReadPay, CommitPay, ReadUnreceive, CommitUnreceive, Fail,
       Turn, Done, PayablesTypeOK
  <2> QED BY <2>1, <2>2, <2>3 DEF SumQuiet, Adding
<1> QED BY <1>1, <1>2 DEF PayablesNext

LEMMA SummedStep ==
  ASSUME PayablesTypeOK, SummedStands, [PayablesNext]_<<vars, payable>>
  PROVE  SummedStands'
<1>1. CASE /\ ~UpdatePaid
           /\ \A c \in Client : Adding(c) => ~Fail(c)
           /\ \A c \in Client : ~AddPayment(c) /\ ~SumPayments(c) /\ ~WritePaid(c)
  BY <1>1, QuietForSums, SummedInQuiet
<1>2. CASE UpdatePaid
  <2>1. "stale" \in past' /\ past \subseteq past' /\ UNCHANGED <<payments, step, sum>>
    BY <1>2 DEF UpdatePaid, Remember
  <2> QED BY <2>1 DEF SummedStands
<1> SUFFICES ASSUME NEW c \in Client,
                    \/ Adding(c) /\ Fail(c)
                    \/ AddPayment(c) \/ SumPayments(c) \/ WritePaid(c),
                    "together" \notin past'
             PROVE  /\ \A d, e \in Client : Adding(d)' /\ Adding(e)' => d = e
                    /\ \A d \in Client : step'[d] = "paid" => sum'[d] = payments'
                    /\ "stale" \notin past' /\ ~At("sum")' /\ ~At("paid")' =>
                         amountPaid' = payments'
  BY <1>1, <1>2 DEF SummedStands, Adding
<1>3. "together" \notin past
  BY PastGrows
<1>4. /\ \A d, e \in Client : Adding(d) /\ Adding(e) => d = e
      /\ \A d \in Client : step[d] = "paid" => sum[d] = payments
  BY <1>3 DEF SummedStands, Adding
<1>5. \A d \in Client \ {c} : step'[d] = step[d] /\ sum'[d] = sum[d]
  BY DEF Fail, AddPayment, SumPayments, WritePaid, Turn, Done, PayablesTypeOK
<1>6. \A d \in Client \ {c} : ~Adding(d)
  <2>1. CASE AddPayment(c)
    BY <2>1 DEF AddPayment, Remember, At, Adding
  <2>2. CASE ~AddPayment(c)
    <3>1. Adding(c)
      BY <2>2 DEF SumPayments, WritePaid, Adding
    <3> QED BY <1>4, <3>1
  <2> QED BY <2>1, <2>2
<1>7. \A d \in Client \ {c} : ~Adding(d)'
  BY <1>5, <1>6 DEF Adding
<1>8. \A d \in Client \ {c} : step'[d] # "paid" /\ step'[d] # "sum"
  BY <1>7 DEF Adding
<1>9. CASE AddPayment(c)
  <2>1. step'[c] = "sum"
    BY <1>9 DEF AddPayment, Turn, PayablesTypeOK
  <2> QED BY <1>7, <1>8, <2>1 DEF At
<1>10. CASE SumPayments(c)
  <2>1. step'[c] = "paid" /\ sum'[c] = payments /\ payments' = payments
    BY <1>10 DEF SumPayments, Turn, PayablesTypeOK, kept
  <2> QED BY <1>7, <1>8, <2>1 DEF At
<1>11. CASE WritePaid(c)
  <2>1. step'[c] = "idle" /\ amountPaid' = sum[c] /\ sum[c] = payments /\ payments' = payments
    BY <1>4, <1>11 DEF WritePaid, Turn, Done, PayablesTypeOK
  <2> QED BY <1>7, <1>8, <2>1
<1>12. CASE Adding(c) /\ Fail(c)
  <2>1. step'[c] = "idle" /\ "stale" \in past'
    BY <1>12 DEF Fail, Adding, Turn, Done, PayablesTypeOK, Remember
  <2> QED BY <1>7, <1>8, <2>1
<1> QED BY <1>9, <1>10, <1>11, <1>12

----------------------------------------------------------------------------
(* The invariant *)

LEMMA Initial == PayablesInit => IInv
<1> SUFFICES ASSUME PayablesInit
             PROVE  IInv
  OBVIOUS
<1>1. DocumentInv
  BY DocumentStart DEF PayablesInit
<1>2. PayablesTypeOK
  <2>1. payments \in 0 .. MaxPayments /\ amountPaid \in 0 .. MaxPayments
    BY MaxPaymentsAssumption DEF PayablesInit
  <2>2. sum \in [Client -> 0 .. MaxPayments]
    BY MaxPaymentsAssumption DEF PayablesInit
  <2>3. step \in [Client -> {"idle", "file", "pay", "unreceive", "sum", "paid"}]
    BY DEF PayablesInit
  <2>4. filed \in BOOLEAN
    BY DEF PayablesInit
  <2> QED BY <2>1, <2>2, <2>3, <2>4 DEF PayablesInit, PayablesTypeOK
<1>3. /\ ~At("pay") /\ ~At("unreceive") /\ ~At("sum") /\ ~At("paid")
      /\ \A c \in Client : step[c] = "idle"
  BY DEF PayablesInit, At
<1>4. FiledFirst /\ PaidStands /\ PassedStands /\ SummedStands
  BY <1>3 DEF PayablesInit, Init, FiledFirst, PaidStands, PassedStands, SummedStands
<1> QED BY <1>1, <1>2, <1>4 DEF IInv

LEMMA Inductive == IInv /\ [PayablesNext]_<<vars, payable>> => IInv'
<1> SUFFICES ASSUME IInv, [PayablesNext]_<<vars, payable>>
             PROVE  IInv'
  OBVIOUS
<1>1. /\ DocumentInv /\ TypeOK /\ PayablesTypeOK
      /\ FiledFirst /\ PaidStands /\ PassedStands /\ SummedStands
  BY DEF IInv, DocumentInv
<1>2. DocumentInv'
  BY <1>1, MovesOfPayables, DocumentStands
<1>3. PayablesTypeOK'
  BY <1>1, PayablesTypeStep
<1>4. FiledFirst' /\ PaidStands' /\ PassedStands' /\ SummedStands'
  BY <1>1, FiledStep, PaidStep, PassedStep, SummedStep
<1> QED BY <1>2, <1>3, <1>4 DEF IInv

\* Whatever calls overlap, fail or are made again, the document, its runs and journals,
\* its payments and its receipt are in one of the states that IInv describes.
THEOREM Invariance == PayablesSpec => []IInv
<1>1. IInv /\ UNCHANGED <<vars, payable>> => IInv'
  BY Inductive
<1> QED BY Initial, Inductive, PTL DEF PayablesSpec

\* At most one of some numbers that are at most one is not nothing.
LEMMA SumOfOne ==
  ASSUME NEW S, IsFiniteSet(S), NEW f, \A x \in S : f[x] \in Nat /\ f[x] <= 1,
         \A x, y \in S : f[x] > 0 /\ f[y] > 0 => x = y
  PROVE  SumFunctionOnSet(f, S) <= 1
<1>1. CASE \A x \in S : f[x] = 0
  BY <1>1, SumZero
<1>2. ASSUME NEW x \in S, f[x] # 0
      PROVE  SumFunctionOnSet(f, S) <= 1
  <2>1. \A y \in S \ {x} : f[y] = 0
    BY <1>2
  <2>2. IsFiniteSet(S \ {x})
    BY FS_RemoveElement
  <2>3. SumFunctionOnSet(f, S \ {x}) = 0
    BY <2>1, <2>2, SumZero
  <2>4. SumFunctionOnSet(f, S) = f[x] + SumFunctionOnSet(f, S \ {x})
    BY SumRemove
  <2> QED BY <1>2, <2>3, <2>4
<1> QED BY <1>1, <1>2

LEMMA MonthIsRecognisedOnce ==
  ASSUME DocumentInv
  PROVE  DocumentMonthOnce
<1> SUFFICES ASSUME "batch" \notin lap, NEW m \in Month, NEW t \in Type
             PROVE  SumFunctionOnSet([j \in Journal |-> made[<<j, m>>]],
                                     {j \in DOMAIN journals : journals[j].source = t}) <= 1
  BY DEF DocumentMonthOnce
<1> DEFINE f == [j \in Journal |-> made[<<j, m>>]]
           S == {j \in DOMAIN journals : journals[j].source = t}
<1>1. DOMAIN journals \subseteq Journal /\ \A p \in Journal \X Month : made[p] \in Nat
  BY JournalsTyped DEF DocumentInv
<1>2. IsFiniteSet(S)
  <2>1. IsFiniteSet(Journal)
    BY BoundsAssumption, FS_Interval DEF Journal
  <2>2. S \subseteq Journal
    BY <1>1
  <2> QED BY <2>1, <2>2, FS_Subset
<1>3. \A j \in S : f[j] \in Nat /\ f[j] <= 1
  BY <1>1 DEF DocumentInv, MonthsAreKept
<1>4. \A i, j \in S : f[i] > 0 /\ f[j] > 0 => i = j
  <2>1. \A i, j \in S : i \in Alike(j)
    BY TypeAssumption DEF Alike
  <2> QED BY <1>1, <2>1 DEF DocumentInv, OneBatch
<1> HIDE DEF f, S
<1>5. SumFunctionOnSet(f, S) <= 1
  BY <1>2, <1>3, <1>4, SumOfOne
<1> QED BY <1>5 DEF f, S

\* A call that is made again, after its process has ended anywhere or only to be sure,
\* books nothing twice: neither the accrual nor, for one type of journals, a month.
THEOREM NothingIsBookedTwice == PayablesSpec => []RetriesAreSafe
<1>1. IInv => RetriesAreSafe
  <2> SUFFICES ASSUME IInv
               PROVE  RetriesAreSafe
    OBVIOUS
  <2>1. TypeOK /\ DocumentInv /\ DocumentMonthOnce
    BY MonthIsRecognisedOnce DEF IInv, DocumentInv
  <2>2. AccruedOnce
    <3> SUFFICES ASSUME "accrual" \notin lap
                 PROVE  Sum \in {0, 1}
      BY DEF AccruedOnce
    <3>1. RunsTakeTurns
      BY <2>1 DEF DocumentInv, OneAccrual
    <3>2. CASE runs = <<>>
      BY <3>1, <3>2 DEF RunsTakeTurns
    <3>3. CASE runs # <<>>
      BY <3>1, <3>3 DEF RunsTakeTurns
    <3> QED BY <3>2, <3>3
  <2> QED BY <2>1, <2>2 DEF RetriesAreSafe
<1> QED BY <1>1, Invariance, PTL

\* Whatever batches overlap, a journal makes one entry for a month, and a month that is
\* marked as run has its entry.
THEOREM MonthIsMadeOnce == PayablesSpec => []MonthOnce
<1>1. IInv => MonthOnce
  <2> SUFFICES ASSUME IInv
               PROVE  MonthOnce
    OBVIOUS
  <2>1. DOMAIN journals \subseteq Journal /\ MonthsAreKept
    BY JournalsTyped DEF IInv, DocumentInv
  <2> QED BY <2>1 DEF MonthOnce, MonthsAreKept
<1> QED BY <1>1, Invariance, PTL

\* What is paid is accrued, what is paid by hand adds up, and a receipt is not voided
\* beneath an invoice that is accrued or paid, but for the races that past names.
THEOREM GuardsAlwaysHold == PayablesSpec => GuardsHold
<1>1. IInv => PayablesTypeOK /\ PaidIsAccrued /\ PaidAddsUp
  <2> SUFFICES ASSUME IInv
               PROVE  PayablesTypeOK /\ PaidIsAccrued /\ PaidAddsUp
    OBVIOUS
  <2>1. PayablesTypeOK /\ PaidStands /\ SummedStands /\ OneAccrual
    BY DEF IInv, DocumentInv
  <2>2. PaidAddsUp
    BY <2>1 DEF PaidAddsUp, SummedStands
  <2>3. PaidIsAccrued
    <3> SUFFICES ASSUME execution # "none", "crossed" \notin past
                 PROVE  /\ accrued
                        /\ kind # "receipt" /\ NeverVoided /\ "accrual" \notin lap => Sum = 1
      BY DEF PaidIsAccrued
    <3>1. accrued
      BY <2>1 DEF PaidStands
    <3>2. ASSUME kind # "receipt", NeverVoided, "accrual" \notin lap
          PROVE  Sum = 1
      <4>1. RunsTakeTurns
        BY <2>1, <3>2 DEF OneAccrual
      <4>2. runs # <<>> /\ Booked(Last)
        BY <3>1, <3>2, <4>1 DEF RunsTakeTurns
      <4>3. Len(runs) = 1
        <5>1. runs \in Seq(Run)
          BY DEF IInv, DocumentInv, TypeOK
        <5>2. 1 \in DOMAIN runs
          BY <4>2, <5>1
        <5>3. runs[1].status = "POSTED" <=> 1 = Len(runs)
          BY <4>1, <5>2 DEF RunsTakeTurns
        <5> QED BY <3>2, <5>2, <5>3 DEF NeverVoided
      <4> QED BY <4>1, <4>2, <4>3 DEF RunsTakeTurns
    <3> QED BY <3>1, <3>2
  <2> QED BY <2>1, <2>2, <2>3
<1>2. IInv /\ [PayablesNext]_<<vars, payable>> => [InvoiceHoldsReceipt]_receipt
  <2> SUFFICES ASSUME IInv, [PayablesNext]_<<vars, payable>>, receipt' # receipt
               PROVE  InvoiceHoldsReceipt
    OBVIOUS
  <2>1. PICK c \in Client : CommitUnreceive(c)
    BY DEF PayablesNext, payable, standing, Create, DocumentStep, BeginVoid, PayAndAccrue,
       UpdatePaid, AccrueTwin, CancelPay, ReadLink, CreateInvoice, ReadPay, CommitPay,
       ReadUnreceive, AddPayment, SumPayments, WritePaid, Fail
  <2>2. At("unreceive")
    BY <2>1 DEF CommitUnreceive, At
  <2> QED BY <2>2 DEF IInv, PassedStands, InvoiceHoldsReceipt
<1> QED BY <1>1, <1>2, Invariance, PTL DEF PayablesSpec, GuardsHold

=============================================================================
