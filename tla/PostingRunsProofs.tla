------------------------- MODULE PostingRunsProofs -------------------------
(***************************************************************************)
(* Safety of the posting-run protocol for every set of documents and any   *)
(* number of concurrent requests: one lemma per action shows that it       *)
(* preserves the inductive invariant IInv of PostingRuns.                  *)
(*                                                                         *)
(* The second part is about one sale, SalesDocuments, for any calls, keys, *)
(* cuts and requests: what the operators return, then one lemma for each   *)
(* part of the inductive invariant SaleIInv.                               *)
(***************************************************************************)
EXTENDS PostingRuns, SalesDocuments, SumLemmas, TLAPS

LEMMA InitInv == Init => IInv
  BY DocAssumption DEF Init, IInv, TypeOK, Gapless, PendingRunMutex, ViewsGapless,
     TopIsRead, CleanOutside, TargetIsCommitted, NewMirrors, MirrorOnce,
     ReversalFollows, MirrorImpliesVoided, NothingWritten, PC, Op, NoRun, Answered

----------------------------------------------------------------------------
(* Type correctness *)

LEMMA PatchedType ==
  ASSUME TypeOK, NEW q \in Req, NEW r \in Run
  PROVE  Patched(q, r) \in Run
  BY DEF TypeOK, Patched, Voided, Run

LEMMA ViewType ==
  ASSUME TypeOK, NEW q \in Req
  PROVE  /\ RunView(q) \subseteq Run /\ EntryView(q) \subseteq Entry
         /\ \A d : Versions(RunView(q), d) \subseteq Nat \ {0}
         /\ \A d : Versions(Posted(RunView(q)), d) \subseteq Nat \ {0}
<1>1. runs \cup newRuns[q] \subseteq Run
  BY DEF TypeOK
<1>2. RunView(q) \subseteq Run
  BY <1>1, PatchedType DEF RunView
<1>3. EntryView(q) \subseteq Entry
  BY DEF TypeOK, EntryView
<1>4. QED
  BY <1>2, <1>3 DEF Versions, Posted, Run

LEMMA KeyType ==
  ASSUME NEW v \in Nat, NEW k \in LineKey
  PROVE  /\ ReversalKey(v, k) \in LineKey
         /\ Len(ReversalKey(v, k)) = Len(k) + 1
         /\ ReversalKey(v, k)[1] = v
  BY DEF ReversalKey, LineKey

LEMMA RollbackType ==
  ASSUME TypeOK, NEW q \in Req, NEW l \in {"conflict", "failed"}, Rollback(q, l)
  PROVE  TypeOK'
  BY DEF TypeOK, Rollback, Goto, PC, rows, local, NoRun

LEMMA StepType ==
  ASSUME TypeOK, NEW q \in Req, Step(q)
  PROVE  TypeOK'
<1>1. CASE ReadActive(q)
  BY <1>1, ViewType DEF TypeOK, ReadActive, Goto, PC, rows, writes, NoRun
<1>2. CASE FindRun(q)
  BY <1>2 DEF TypeOK, FindRun, Goto, PC, rows, writes
<1>3. CASE ReadMax(q)
  BY <1>3, ViewType DEF TypeOK, ReadMax, Goto, PC, rows, writes, NoRun
<1>4. CASE InsertRun(q)
  <2>1. [doc |-> doc[q], ver |-> NextVersion(q), status |-> "POSTED",
         rev |-> NoRun, from |-> RepostedFrom(q)] \in Run
    BY DEF TypeOK, Run, NextVersion, RepostedFrom, NoRun
  <2>2. newRuns' \in [Req -> SUBSET Run]
    BY <1>4, <2>1 DEF TypeOK, InsertRun
  <2>3. act' \in [Req -> Nat] /\ pc' \in [Req -> PC]
    BY <1>4 DEF TypeOK, InsertRun, Goto, PC, NextVersion
  <2>4. QED
    BY <1>4, <2>2, <2>3 DEF TypeOK, InsertRun, rows
<1>5. CASE InsertConflict(q)
  BY <1>5, RollbackType DEF InsertConflict
<1>6. CASE MirrorEntries(q)
  <2>1. ASSUME NEW e \in EntryView(q)
        PROVE  ReversalKey(act[q], e.key) \in LineKey
    BY ViewType, KeyType DEF TypeOK, Entry
  <2>2. ASSUME NEW e \in EntryView(q)
        PROVE  [doc |-> doc[q], run |-> NextVersion(q), by |-> q,
                key |-> ReversalKey(act[q], e.key)] \in Entry
    BY <2>1 DEF TypeOK, Entry, NextVersion
  <2>3. newEntries' \in [Req -> SUBSET Entry]
    BY <1>6, <2>2 DEF TypeOK, MirrorEntries, RunEntries
  <2>4. QED
    BY <1>6, <2>3 DEF TypeOK, MirrorEntries, Goto, PC, rows, NextVersion
<1>7. CASE CheckEntries(q)
  BY <1>7 DEF TypeOK, CheckEntries, Goto, PC, rows, writes
<1>8. CASE WriteEntries(q)
  <2>1. <<act[q]>> \in LineKey
    BY DEF TypeOK, LineKey
  <2>2. QED
    BY <1>8, <2>1 DEF TypeOK, WriteEntries, Goto, PC, rows, local, Entry
<1>9. CASE Commit(q)
  <2>1. runs' \subseteq Run /\ entries' \subseteq Entry
    BY <1>9, ViewType DEF Commit
  <2>2. docStatus' \in [Doc -> {"DRAFT", "POSTED"}]
    BY <1>9 DEF TypeOK, Commit, StatusWritten
  <2>3. QED
    BY <1>9, <2>1, <2>2 DEF TypeOK, Commit, Goto, PC, local, NoRun
<1>10. QED
  BY <1>1, <1>2, <1>3, <1>4, <1>5, <1>6, <1>7, <1>8, <1>9 DEF Step

LEMMA NextType == TypeOK /\ [Next]_vars => TypeOK'
<1> SUFFICES ASSUME TypeOK, [Next]_vars
             PROVE  TypeOK'
  OBVIOUS
<1>1. ASSUME NEW q \in Req, NEW o \in Op, NEW d \in Doc, Begin(q, o, d)
      PROVE  TypeOK'
  BY <1>1 DEF TypeOK, Begin, Goto, PC, rows, writes
<1>2. ASSUME NEW q \in Req, Abort(q)
      PROVE  TypeOK'
  BY <1>2, RollbackType DEF Abort
<1>3. CASE UNCHANGED vars
  BY <1>3 DEF TypeOK, vars
<1>4. QED
  BY <1>1, <1>2, <1>3, StepType DEF Next, Quiescent

----------------------------------------------------------------------------
(* Steps that write no row: only the program counter and what was read *)

LEMMA SameRows ==
  ASSUME IInv, UNCHANGED <<rows, writes>>, TypeOK',
         \A p \in Req : newRuns[p] # {} => doc'[p] = doc[p],
         TopIsRead', CleanOutside', TargetIsCommitted',
         \A p \in Req : newEntries[p] # {} => doc'[p] = doc[p]
  PROVE  IInv'
<1>1. Gapless' /\ MirrorOnce' /\ ReversalFollows' /\ MirrorImpliesVoided'
  BY DEF IInv, Gapless, MirrorOnce, ReversalFollows, MirrorImpliesVoided, rows
<1>2. PendingRunMutex'
  BY DEF IInv, PendingRunMutex, writes
<1>3. ViewsGapless'
  BY DEF IInv, ViewsGapless, Committed, writes, rows
<1>4. NewMirrors'
  BY DEF IInv, NewMirrors, writes, rows
<1>5. QED
  BY <1>1, <1>2, <1>3, <1>4 DEF IInv

LEMMA BeginInv ==
  ASSUME IInv, NEW q \in Req, NEW o \in Op, NEW d \in Doc, Begin(q, o, d)
  PROVE  IInv'
<1>1. NothingWritten(q) /\ goal[q] = "posting"
  BY DEF IInv, CleanOutside, Answered, Begin
<1>2. \A p \in Req \ {q} : doc'[p] = doc[p] /\ pc'[p] = pc[p]
  BY DEF Begin, IInv, TypeOK, Goto
<1>3. pc'[q] = "active"
  BY DEF Begin, IInv, TypeOK, Goto
<1>4. TypeOK'
  BY NextType DEF IInv, Next
<1>5. TopIsRead'
  BY <1>2, <1>3 DEF IInv, TopIsRead, Begin, Committed, rows, writes
<1>6. CleanOutside'
  BY <1>1, <1>2, <1>3 DEF IInv, CleanOutside, Answered, Begin, NothingWritten, writes
<1>7. TargetIsCommitted'
  BY <1>1, <1>2, <1>3 DEF IInv, TargetIsCommitted, Begin, Committed, NextVersion,
     rows, writes, NothingWritten
<1>8. UNCHANGED <<rows, writes>>
  BY DEF Begin
<1>9. QED
  BY <1>1, <1>2, <1>4, <1>5, <1>6, <1>7, <1>8, SameRows DEF NothingWritten

LEMMA ReadActiveInv ==
  ASSUME IInv, NEW q \in Req, ReadActive(q)
  PROVE  IInv'
<1>1. NothingWritten(q)
  BY DEF IInv, CleanOutside, Answered, ReadActive
<1>2. PICK a \in Versions(RunView(q), doc[q]) \cup {NoRun} :
        /\ IsLatest(Posted(RunView(q)), doc[q], a)
        /\ act' = [act EXCEPT ![q] = a]
        /\ Goto(q, IF a = NoRun
                    THEN IF op[q] = "void" THEN "done" ELSE "max"
                    ELSE IF op[q] = "post" THEN "has" ELSE "find")
  BY DEF ReadActive
<1>3. a # NoRun => Committed(doc[q], a)
  BY <1>1 DEF NothingWritten, Versions, RunView, Patched, Voided, Committed
<1>4. \A p \in Req \ {q} : act'[p] = act[p] /\ pc'[p] = pc[p]
  BY <1>2 DEF IInv, TypeOK, Goto
<1>5. /\ act'[q] = a
      /\ pc'[q] \in {"done", "max", "has", "find"}
      /\ pc'[q] = "find" => a # NoRun
  BY <1>2 DEF IInv, TypeOK, Goto
<1>6. TypeOK'
  BY NextType DEF IInv, Next, Step
<1>7. TopIsRead'
  BY <1>4, <1>5 DEF IInv, TopIsRead, ReadActive, Committed, rows, writes
<1>8. CleanOutside'
  BY <1>1, <1>4, <1>5 DEF IInv, CleanOutside, Answered, ReadActive, NothingWritten, writes
<1>9. TargetIsCommitted'
  <2>1. goal[q] = "posting" /\ voiding[q] = NoRun
    BY <1>1 DEF IInv, CleanOutside, Answered, ReadActive, NothingWritten
  <2>2. QED
    BY <2>1, <1>3, <1>4, <1>5 DEF IInv, TargetIsCommitted, ReadActive, Committed,
       NextVersion, rows, writes
<1>10. QED
  BY <1>6, <1>7, <1>8, <1>9, SameRows DEF ReadActive

LEMMA FindRunInv ==
  ASSUME IInv, NEW q \in Req, FindRun(q)
  PROVE  IInv'
<1>1. NothingWritten(q) /\ Committed(doc[q], act[q])
  BY DEF IInv, CleanOutside, Answered, TargetIsCommitted, FindRun
<1>2. \A p \in Req \ {q} : goal'[p] = goal[p] /\ pc'[p] = pc[p]
  BY DEF FindRun, IInv, TypeOK, Goto
<1>3. /\ pc'[q] \in {"commit", "max"}
      /\ goal'[q] \in {goal[q], "reversal"}
  BY DEF FindRun, IInv, TypeOK, Goto
<1>4. TypeOK'
  BY NextType DEF IInv, Next, Step
<1>5. TopIsRead'
  BY <1>2, <1>3 DEF IInv, TopIsRead, FindRun, Committed, rows, writes
<1>6. CleanOutside'
  BY <1>2, <1>3 DEF IInv, CleanOutside, Answered, FindRun, NothingWritten, writes
<1>7. TargetIsCommitted'
  BY <1>1, <1>2, <1>3 DEF IInv, TargetIsCommitted, FindRun, Committed,
     NextVersion, NothingWritten, rows, writes
<1>8. QED
  BY <1>4, <1>5, <1>6, <1>7, SameRows DEF FindRun

\* A view whose own runs are all above the committed ones.
LEMMA OwnAreLatest ==
  ASSUME IInv, NEW q \in Req, NEW r \in newRuns[q], NEW v \in Nat,
         Committed(doc[q], v)
  PROVE  v < r.ver
<1>1. r.ver \in Nat \ {0} /\ doc[q] \in Doc
  BY DEF IInv, TypeOK, Run
<1>2. PICK s \in runs : s.doc = doc[q] /\ s.ver = v
  BY DEF Committed
<1>3. r.ver \in 1 .. v => Committed(doc[q], r.ver)
  BY <1>2 DEF IInv, Gapless, Committed
<1>4. QED
  BY <1>1, <1>3 DEF IInv, ViewsGapless

LEMMA ViewVersions ==
  ASSUME IInv, NEW q \in Req
  PROVE  \A v : v \in Versions(RunView(q), doc[q]) <=>
                 Committed(doc[q], v) \/ \E r \in newRuns[q] : r.ver = v
<1>1. \A r \in runs \cup newRuns[q] :
        Patched(q, r).doc = r.doc /\ Patched(q, r).ver = r.ver
  BY DEF Patched, Run, IInv, TypeOK
<1>2. \A r \in newRuns[q] : r.doc = doc[q]
  BY DEF IInv, ViewsGapless
<1>3. QED
  BY <1>1, <1>2 DEF Versions, RunView, Committed

LEMMA ReadMaxInv ==
  ASSUME IInv, NEW q \in Req, ReadMax(q)
  PROVE  IInv'
<1>1. PICK n \in Versions(RunView(q), doc[q]) \cup {NoRun} :
        IsLatest(RunView(q), doc[q], n) /\ top' = [top EXCEPT ![q] = n]
  BY DEF ReadMax
<1>2. \A p \in Req \ {q} : top'[p] = top[p] /\ pc'[p] = pc[p]
  BY <1>1 DEF ReadMax, IInv, TypeOK, Goto
<1>3. pc'[q] = "insert" /\ top'[q] = n
  BY <1>1 DEF ReadMax, IInv, TypeOK, Goto
<1>4. TypeOK'
  BY NextType DEF IInv, Next, Step
<1>5. TopIsRead'
  <2>1. CASE newRuns[q] = {}
    <3>1. n = NoRun \/ Committed(doc[q], n)
      BY <2>1, ViewVersions
    <3>2. QED
      BY <2>1, <3>1, <1>2, <1>3 DEF IInv, TopIsRead, ReadMax, Committed, rows, writes
  <2>2. CASE newRuns[q] # {}
    <3>1. \A r \in newRuns[q] : r.ver <= n
      BY <1>1, ViewVersions DEF IsLatest
    <3>2. n \in Nat /\ n # 0
      BY <2>2, <3>1, ViewType DEF NoRun, IInv, TypeOK, Run
    <3>3. ~Committed(doc[q], n)
      BY <2>2, <3>1, <3>2, OwnAreLatest DEF IInv, TypeOK, Run
    <3>4. \E r \in newRuns[q] : r.ver = n
      BY <3>2, <3>3, ViewVersions DEF NoRun
    <3>5. QED
      BY <2>2, <3>1, <3>4, <1>2, <1>3 DEF IInv, TopIsRead, ReadMax, Committed,
         rows, writes
  <2>3. QED
    BY <2>1, <2>2
<1>6. CleanOutside'
  BY <1>2, <1>3 DEF IInv, CleanOutside, Answered, ReadMax, NothingWritten, writes
<1>7. TargetIsCommitted'
  BY <1>2, <1>3 DEF IInv, TargetIsCommitted, ReadMax, Committed, NextVersion,
     rows, writes
<1>8. QED
  BY <1>4, <1>5, <1>6, <1>7, SameRows DEF ReadMax

LEMMA CheckEntriesInv ==
  ASSUME IInv, NEW q \in Req, CheckEntries(q)
  PROVE  IInv'
<1>1. \A p \in Req \ {q} : goal'[p] = goal[p] /\ pc'[p] = pc[p]
  BY DEF CheckEntries, IInv, TypeOK, Goto
<1>2. pc'[q] \in {"commit", "write"} /\ goal'[q] \in {goal[q], "answer"}
  BY DEF CheckEntries, IInv, TypeOK, Goto
<1>3. TypeOK'
  BY NextType DEF IInv, Next, Step
<1>4. TopIsRead'
  BY <1>1, <1>2 DEF IInv, TopIsRead, CheckEntries, Committed, rows, writes
<1>5. CleanOutside'
  BY <1>1, <1>2 DEF IInv, CleanOutside, Answered, CheckEntries, NothingWritten, writes
<1>6. TargetIsCommitted'
  BY <1>1, <1>2 DEF IInv, TargetIsCommitted, CheckEntries, Committed,
     NextVersion, rows, writes
<1>7. QED
  BY <1>3, <1>4, <1>5, <1>6, SameRows DEF CheckEntries

----------------------------------------------------------------------------
(* Steps that write rows of the open transaction *)

\* The unique key makes the inserted version the first one above the committed
\* runs, and the request the only one with an uncommitted run of the document.
LEMMA InsertRunInv ==
  ASSUME IInv, NEW q \in Req, InsertRun(q)
  PROVE  IInv'
<1> DEFINE v == NextVersion(q)
           new == [doc |-> doc[q], ver |-> v, status |-> "POSTED",
                   rev |-> NoRun, from |-> RepostedFrom(q)]
<1>1. v \in Nat \ {0} /\ v = top[q] + 1 /\ top[q] \in Nat
  BY DEF IInv, TypeOK, NextVersion
<1>2. /\ newRuns'[q] = newRuns[q] \cup {new}
      /\ \A p \in Req \ {q} : newRuns'[p] = newRuns[p]
  BY DEF InsertRun, IInv, TypeOK
<1>3. \A p \in Req \ {q} : pc'[p] = pc[p] /\ act'[p] = act[p]
  BY DEF InsertRun, IInv, TypeOK, Goto
<1>4. /\ pc'[q] \in {"mirror", "write", "has"}
      /\ pc'[q] = "mirror" => goal[q] = "reversal"
      /\ goal[q] = "reversal" => act'[q] = act[q]
  BY DEF InsertRun, IInv, TypeOK, Goto
<1>5. TypeOK'
  BY NextType DEF IInv, Next, Step
<1>6. ~Committed(doc[q], v) /\ \A s \in newRuns[q] : s.ver # v
  BY DEF InsertRun, KeyTaken, SameKey, Committed, IInv, ViewsGapless
<1>7. \A p \in Req \ {q} : \A s \in newRuns[p] : s.doc = doc[q] => s.ver # v
  BY DEF InsertRun, KeyHeld, SameKey
<1>8. \A u \in 1 .. top[q] :
        Committed(doc[q], u) \/ \E s \in newRuns[q] : s.ver = u
  <2>1. CASE newRuns[q] = {}
    <3>1. top[q] = 0 \/ Committed(doc[q], top[q])
      BY <2>1 DEF InsertRun, IInv, TopIsRead, NoRun
    <3>2. QED
      BY <3>1, <1>1 DEF IInv, Gapless, Committed
  <2>2. CASE newRuns[q] # {}
    <3>1. PICK r \in newRuns[q] : r.ver = top[q]
      BY <2>2 DEF InsertRun, IInv, TopIsRead
    <3>2. QED
      BY <3>1 DEF IInv, ViewsGapless
  <2>3. QED
    BY <2>1, <2>2
<1>9. Gapless' /\ MirrorOnce' /\ ReversalFollows' /\ MirrorImpliesVoided'
  BY DEF IInv, Gapless, MirrorOnce, ReversalFollows, MirrorImpliesVoided,
     InsertRun, rows
<1>10. ASSUME NEW p \in Req \ {q}, newRuns[p] # {}
       PROVE  doc[p] # doc[q]
  <2> SUFFICES ASSUME doc[p] = doc[q]
               PROVE  FALSE
    OBVIOUS
  <2>1. newRuns[q] = {}
    BY <1>10 DEF IInv, PendingRunMutex
  <2>2. PICK r \in newRuns[p] : TRUE
    BY <1>10
  <2>3. r.ver \in Nat \ {0} /\ r.doc = doc[q] /\ ~Committed(doc[q], r.ver)
    BY <2>2 DEF IInv, TypeOK, Run, ViewsGapless
  <2>4. CASE r.ver <= top[q]
    <3>1. r.ver \in 1 .. top[q]
      BY <1>1, <2>3, <2>4
    <3>2. QED
      BY <3>1, <1>8, <2>1, <2>3
  <2>5. CASE r.ver > top[q]
    <3>1. v \in 1 .. r.ver
      BY <1>1, <2>3, <2>5
    <3>2. \E s \in newRuns[p] : s.ver = v
      BY <3>1, <1>6 DEF IInv, ViewsGapless
    <3>3. QED
      BY <3>2, <1>7 DEF IInv, ViewsGapless
  <2>6. QED
    BY <1>1, <2>3, <2>4, <2>5
<1>11. PendingRunMutex'
  BY <1>2, <1>10 DEF IInv, PendingRunMutex, InsertRun
<1>12. ViewsGapless'
  <2>1. \A u \in 1 .. v : u \in 1 .. top[q] \/ u = v
    BY <1>1
  <2>2. ASSUME NEW r \in newRuns'[q]
        PROVE  /\ r.doc = doc[q] /\ r.status = "POSTED"
               /\ ~Committed(doc[q], r.ver)
               /\ \A u \in 1 .. r.ver :
                    Committed(doc[q], u) \/ \E s \in newRuns'[q] : s.ver = u
               /\ \A s \in newRuns'[q] : r.ver = s.ver => r = s
    <3>1. CASE r = new
      BY <3>1, <2>1, <1>2, <1>6, <1>8
    <3>2. CASE r \in newRuns[q]
      BY <3>2, <1>2, <1>6 DEF IInv, ViewsGapless
    <3>3. QED
      BY <1>2, <3>1, <3>2
  <2>3. QED
    BY <2>2, <1>2 DEF IInv, ViewsGapless, InsertRun, Committed, rows
<1>13. TopIsRead'
  BY <1>2, <1>3, <1>4 DEF IInv, TopIsRead, InsertRun, Committed, rows
<1>14. CleanOutside'
  BY <1>2, <1>3, <1>4 DEF IInv, CleanOutside, Answered, NothingWritten, InsertRun
<1>15. TargetIsCommitted'
  <2>1. new \in newRuns'[q] /\ new.ver = NextVersion(q)
    BY <1>2
  <2>2. \A p \in Req : newRuns[p] \subseteq newRuns'[p]
    BY <1>2
  <2>3. QED
    BY <2>1, <2>2, <1>3, <1>4
    DEF IInv, TargetIsCommitted, InsertRun, Committed, NextVersion, rows
<1>16. NewMirrors'
  BY DEF IInv, NewMirrors, InsertRun, rows
<1>17. QED
  BY <1>5, <1>9, <1>11, <1>12, <1>13, <1>14, <1>15, <1>16 DEF IInv

LEMMA RollbackInv ==
  ASSUME IInv, NEW q \in Req, NEW l \in {"conflict", "failed"}, Rollback(q, l),
         pc[q] # "idle"
  PROVE  IInv'
<1>1. \A p \in Req \ {q} : /\ pc'[p] = pc[p] /\ newRuns'[p] = newRuns[p]
                           /\ newEntries'[p] = newEntries[p]
                           /\ voiding'[p] = voiding[p]
                           /\ reversal'[p] = reversal[p]
  BY DEF Rollback, IInv, TypeOK, Goto
<1>2. /\ pc'[q] = l /\ newRuns'[q] = {} /\ newEntries'[q] = {}
      /\ voiding'[q] = NoRun
  BY DEF Rollback, IInv, TypeOK, Goto
<1>3. TypeOK'
  BY RollbackType DEF IInv
<1>4. Gapless' /\ MirrorOnce' /\ ReversalFollows' /\ MirrorImpliesVoided'
  BY DEF IInv, Gapless, MirrorOnce, ReversalFollows, MirrorImpliesVoided,
     Rollback, rows
<1>5. PendingRunMutex' /\ ViewsGapless' /\ TopIsRead'
  BY <1>1, <1>2 DEF IInv, PendingRunMutex, ViewsGapless, TopIsRead, Committed,
     Rollback, rows, local
<1>6. CleanOutside' /\ NewMirrors'
  BY <1>1, <1>2 DEF IInv, CleanOutside, Answered, NewMirrors, NothingWritten, Rollback,
     rows, local
<1>7. TargetIsCommitted'
  <2>1. UNCHANGED <<runs, doc, act, goal, top>>
    BY DEF Rollback, rows, local
  <2>2. \A p \in Req : newRuns[p] = newRuns'[p] \/ p = q
    BY <1>1
  <2>3. QED
    BY <1>1, <1>2, <2>1, <2>2 DEF IInv, TargetIsCommitted, Committed, NextVersion
<1>8. QED
  BY <1>3, <1>4, <1>5, <1>6, <1>7 DEF IInv

\* Line-level idempotency and the lock together: a reversal line is new, both
\* among the committed lines and among those of the request.
LEMMA MirrorEntriesInv ==
  ASSUME IInv, NEW q \in Req, MirrorEntries(q)
  PROVE  IInv'
<1> DEFINE a == act[q]
           new == {[doc |-> doc[q], run |-> NextVersion(q), by |-> q, key |-> k] :
                     k \in {ReversalKey(a, e.key) : e \in
                              {x \in RunEntries(q, a) :
                                 ~LineExists(q, ReversalKey(a, x.key))}}}
<1>1. /\ newEntries'[q] = newEntries[q] \cup new
      /\ \A p \in Req \ {q} : newEntries'[p] = newEntries[p]
  BY DEF MirrorEntries, IInv, TypeOK
<1>2. /\ voiding'[q] = a /\ reversal'[q] = NextVersion(q)
      /\ \A p \in Req \ {q} : /\ voiding'[p] = voiding[p] /\ goal'[p] = goal[p]
                              /\ reversal'[p] = reversal[p] /\ pc'[p] = pc[p]
      /\ goal'[q] = "posting" /\ pc'[q] \in {"commit", "max"}
  BY DEF MirrorEntries, IInv, TypeOK, Goto
<1>3. /\ Committed(doc[q], a)
      /\ \E r \in newRuns[q] : r.ver = NextVersion(q)
  BY DEF MirrorEntries, IInv, TargetIsCommitted
<1>4. a # NoRun /\ a \in Nat
  BY <1>3 DEF Committed, IInv, TypeOK, Run, NoRun
<1>5. TypeOK'
  BY NextType DEF IInv, Next, Step
<1>6. ASSUME NEW e \in new
      PROVE  /\ e.doc = doc[q] /\ Len(e.key) > 1 /\ e.key[1] = a
             /\ \A f \in EntryView(q) : f.doc = doc[q] => e.key # f.key
             /\ \A f \in new : e.key = f.key => e = f
  <2>1. PICK x \in RunEntries(q, a) :
          /\ ~LineExists(q, ReversalKey(a, x.key))
          /\ e = [doc |-> doc[q], run |-> NextVersion(q), by |-> q,
                  key |-> ReversalKey(a, x.key)]
    BY <1>6
  <2>2. x.key \in LineKey
    BY ViewType DEF IInv, RunEntries, Entry
  <2>3. Len(ReversalKey(a, x.key)) = Len(x.key) + 1 /\ ReversalKey(a, x.key)[1] = a
    BY <2>2, <1>4, KeyType
  <2>4. Len(x.key) \in Nat /\ Len(x.key) # 0
    BY <2>2 DEF LineKey
  <2>5. e.doc = doc[q] /\ Len(e.key) > 1 /\ e.key[1] = a
    BY <2>1, <2>3, <2>4
  <2>6. \A f \in EntryView(q) : f.doc = doc[q] => e.key # f.key
    BY <2>1 DEF LineExists
  <2>7. \A f \in new : e.key = f.key => e = f
    BY <2>1
  <2>8. QED
    BY <2>5, <2>6, <2>7
<1>7. Gapless' /\ MirrorOnce' /\ ReversalFollows' /\ MirrorImpliesVoided'
  BY DEF IInv, Gapless, MirrorOnce, ReversalFollows, MirrorImpliesVoided,
     MirrorEntries, rows
<1>8. PendingRunMutex' /\ ViewsGapless' /\ TopIsRead'
  BY <1>2 DEF IInv, PendingRunMutex, ViewsGapless, TopIsRead, Committed,
     MirrorEntries, rows
<1>9. CleanOutside'
  BY <1>1, <1>2 DEF IInv, CleanOutside, Answered, NothingWritten, MirrorEntries
<1>10. TargetIsCommitted'
  <2>1. UNCHANGED <<runs, newRuns, doc, act, top>>
    BY DEF MirrorEntries, rows
  <2>2. QED
    BY <1>2, <1>3, <2>1 DEF IInv, TargetIsCommitted, Committed, NextVersion
<1>11. NewMirrors'
  <2>1. UNCHANGED <<entries, doc>>
    BY DEF MirrorEntries, rows
  <2>2. voiding[q] = NoRun
    BY DEF MirrorEntries, IInv, TargetIsCommitted, CleanOutside, Answered
  <2>3. QED
    BY <1>1, <1>2, <1>4, <1>6, <2>1, <2>2 DEF IInv, NewMirrors, EntryView
<1>12. QED
  BY <1>5, <1>7, <1>8, <1>9, <1>10, <1>11 DEF IInv

LEMMA WriteEntriesInv ==
  ASSUME IInv, NEW q \in Req, WriteEntries(q)
  PROVE  IInv'
<1>1. \A e \in newEntries'[q] : e \in newEntries[q] \/
        e = [doc |-> doc[q], run |-> act[q], key |-> <<act[q]>>, by |-> q]
  BY DEF WriteEntries, IInv, TypeOK
<1>2. \A p \in Req \ {q} : newEntries'[p] = newEntries[p] /\ pc'[p] = pc[p]
  BY DEF WriteEntries, IInv, TypeOK, Goto
<1>3. pc'[q] = "commit"
  BY DEF WriteEntries, IInv, TypeOK, Goto
<1>4. UNCHANGED <<rows, newRuns, voiding, reversal, op, doc, act, goal, top>>
  BY DEF WriteEntries, local
<1>5. TypeOK'
  BY NextType DEF IInv, Next, Step
<1>6. Gapless' /\ MirrorOnce' /\ ReversalFollows' /\ MirrorImpliesVoided'
  BY <1>4 DEF IInv, Gapless, MirrorOnce, ReversalFollows, MirrorImpliesVoided, rows
<1>7. PendingRunMutex' /\ ViewsGapless' /\ TopIsRead'
  BY <1>2, <1>3, <1>4 DEF IInv, PendingRunMutex, ViewsGapless, TopIsRead,
     Committed, rows
<1>8. CleanOutside' /\ TargetIsCommitted'
  BY <1>2, <1>3, <1>4 DEF IInv, CleanOutside, Answered, TargetIsCommitted, NothingWritten,
     Committed, NextVersion, rows
<1>9. NewMirrors'
  <2>1. ASSUME NEW e, e = [doc |-> doc[q], run |-> act[q], key |-> <<act[q]>>, by |-> q]
        PROVE  Len(e.key) = 1 /\ e.doc = doc[q]
    BY <2>1
  <2>2. ASSUME NEW e \in newEntries'[q], Len(e.key) > 1
        PROVE  e \in newEntries[q]
    <3>1. CASE e = [doc |-> doc[q], run |-> act[q], key |-> <<act[q]>>, by |-> q]
      <4>1. Len(e.key) = 1
        BY <3>1, <2>1
      <4>2. QED
        BY <4>1, <2>2
    <3>2. QED
      BY <1>1, <3>1
  <2>3. \A e \in newEntries'[q] : e.doc = doc[q]
    BY <1>1 DEF IInv, NewMirrors
  <2>4. ASSUME NEW e \in newEntries'[q], NEW f \in newEntries'[q],
               Len(e.key) > 1, e.key = f.key
        PROVE  e = f
    BY <2>2, <2>4 DEF IInv, NewMirrors
  <2>5. QED
    BY <1>2, <1>4, <2>2, <2>3, <2>4 DEF IInv, NewMirrors, rows
<1>10. QED
  BY <1>5, <1>6, <1>7, <1>8, <1>9 DEF IInv

----------------------------------------------------------------------------
(* Commit: the rows of the transaction become the committed ones *)

\* Every row of the old ledger survives, VOIDED ones as VOIDED.
LEMMA CommitRows ==
  ASSUME IInv, NEW q \in Req, Commit(q)
  PROVE  /\ runs' = {Patched(q, r) : r \in runs \cup newRuns[q]}
         /\ \A r \in runs \cup newRuns[q] :
              /\ Patched(q, r).doc = r.doc /\ Patched(q, r).ver = r.ver
              /\ Patched(q, r).from = r.from
              /\ r.status = "VOIDED" => Patched(q, r).status = "VOIDED"
         /\ \A d, v : Committed(d, v)' <=>
              Committed(d, v) \/ (d = doc[q] /\ \E r \in newRuns[q] : r.ver = v)
<1>1. runs' = {Patched(q, r) : r \in runs \cup newRuns[q]}
  BY DEF Commit, RunView
<1>2. \A r \in runs \cup newRuns[q] :
        /\ Patched(q, r).doc = r.doc /\ Patched(q, r).ver = r.ver
        /\ Patched(q, r).from = r.from
        /\ r.status = "VOIDED" => Patched(q, r).status = "VOIDED"
  BY DEF Patched, Run, IInv, TypeOK
<1>3. \A r \in newRuns[q] : r.doc = doc[q]
  BY DEF IInv, ViewsGapless
<1>4. \A d, v : Committed(d, v)' <=> \E r \in runs \cup newRuns[q] : r.doc = d /\ r.ver = v
  BY <1>1, <1>2 DEF Committed
<1>5. \A d, v : Committed(d, v)' <=>
        Committed(d, v) \/ (d = doc[q] /\ \E r \in newRuns[q] : r.ver = v)
  BY <1>3, <1>4 DEF Committed
<1>6. QED
  BY <1>1, <1>2, <1>5

LEMMA CommitInv ==
  ASSUME IInv, NEW q \in Req, Commit(q)
  PROVE  IInv'
<1>1. /\ runs' = {Patched(q, r) : r \in runs \cup newRuns[q]}
      /\ \A r \in runs \cup newRuns[q] :
           /\ Patched(q, r).doc = r.doc /\ Patched(q, r).ver = r.ver
           /\ r.status = "VOIDED" => Patched(q, r).status = "VOIDED"
  BY CommitRows
<1>2. \A d, v : Committed(d, v)' <=>
        Committed(d, v) \/ (d = doc[q] /\ \E r \in newRuns[q] : r.ver = v)
  BY CommitRows
<1>3. \A p \in Req \ {q} : /\ newRuns'[p] = newRuns[p] /\ pc'[p] = pc[p]
                           /\ newEntries'[p] = newEntries[p]
                           /\ voiding'[p] = voiding[p]
                           /\ reversal'[p] = reversal[p]
  BY DEF Commit, IInv, TypeOK, Goto
<1>4. /\ newRuns'[q] = {} /\ newEntries'[q] = {} /\ voiding'[q] = NoRun
      /\ pc'[q] = "done" /\ UNCHANGED <<op, doc, act, goal, top>>
      /\ entries' = entries \cup newEntries[q]
  BY DEF Commit, IInv, TypeOK, Goto, local, EntryView
<1>5. TypeOK'
  BY NextType DEF IInv, Next, Step
<1>6. \A p \in Req \ {q} : newRuns[p] # {} /\ doc[p] = doc[q] =>
        /\ newRuns[q] = {} /\ voiding[q] = NoRun
        /\ \A e \in newEntries[q] : ~(Len(e.key) > 1)
  BY DEF IInv, PendingRunMutex, TargetIsCommitted, NewMirrors
<1>7. Gapless'
  <2>1. ASSUME NEW r \in runs \cup newRuns[q], NEW v \in 1 .. r.ver
        PROVE  Committed(r.doc, v)'
    <3>1. CASE r \in runs
      <4>1. Committed(r.doc, v)
        BY <3>1 DEF IInv, Gapless, Committed
      <4>2. QED
        BY <4>1, <1>2
    <3>2. CASE r \in newRuns[q]
      <4>1. /\ r.doc = doc[q]
            /\ Committed(doc[q], v) \/ \E s \in newRuns[q] : s.ver = v
        BY <3>2 DEF IInv, ViewsGapless
      <4>2. QED
        BY <4>1, <1>2
    <3>3. QED
      BY <3>1, <3>2
  <2>2. \A r \in runs' : \A v \in 1 .. r.ver : Committed(r.doc, v)'
    BY <2>1, <1>1
  <2>3. \A r, s \in runs \cup newRuns[q] :
          r.doc = s.doc /\ r.ver = s.ver => r = s
    BY DEF IInv, Gapless, ViewsGapless, Committed
  <2>4. \A r, s \in runs' : r.doc = s.doc /\ r.ver = s.ver => r = s
    BY <2>3, <1>1
  <2>5. QED
    BY <2>2, <2>4 DEF Gapless, Committed
<1>8. PendingRunMutex'
  BY <1>3, <1>4 DEF IInv, PendingRunMutex
<1>9. ViewsGapless'
  <2>1. ASSUME NEW p \in Req \ {q}, NEW r \in newRuns[p], NEW d, NEW v, d = doc[p]
        PROVE  Committed(d, v)' <=> Committed(d, v)
    BY <1>2, <1>6, <2>1
  <2>2. ASSUME NEW p \in Req \ {q}, NEW r \in newRuns[p]
        PROVE  /\ r.doc = doc[p] /\ r.status = "POSTED"
               /\ ~\E s \in runs' : s.doc = doc[p] /\ s.ver = r.ver
               /\ \A v \in 1 .. r.ver :
                    \/ \E s \in runs' : s.doc = doc[p] /\ s.ver = v
                    \/ \E s \in newRuns[p] : s.ver = v
               /\ \A s \in newRuns[p] : r.ver = s.ver => r = s
    <3>1. /\ r.doc = doc[p] /\ r.status = "POSTED" /\ ~Committed(doc[p], r.ver)
          /\ \A v \in 1 .. r.ver :
               Committed(doc[p], v) \/ \E s \in newRuns[p] : s.ver = v
          /\ \A s \in newRuns[p] : r.ver = s.ver => r = s
      BY <2>2 DEF IInv, ViewsGapless
    <3>2. QED
      BY <3>1, <2>1 DEF Committed
  <2>3. QED
    BY <2>2, <1>3, <1>4 DEF ViewsGapless, Committed
<1>10. TopIsRead'
  BY <1>2, <1>3, <1>4 DEF IInv, TopIsRead
<1>11. CleanOutside'
  BY <1>3, <1>4 DEF IInv, CleanOutside, Answered, NothingWritten
<1>12. TargetIsCommitted'
  <2>1. \A p \in Req \ {q} : NextVersion(p)' = NextVersion(p)
    BY <1>4 DEF NextVersion
  <2>2. QED
    BY <2>1, <1>2, <1>3, <1>4 DEF IInv, TargetIsCommitted
<1>13. NewMirrors'
  <2>1. ASSUME NEW p \in Req \ {q}, NEW e \in newEntries[p], Len(e.key) > 1,
               NEW f \in entries', e.doc = f.doc
        PROVE  e.key # f.key
    <3>1. e.doc = doc[p] /\ voiding[p] # NoRun /\ newRuns[p] # {}
      BY <2>1 DEF IInv, NewMirrors, TargetIsCommitted
    <3>2. CASE f \in entries
      BY <2>1, <3>2 DEF IInv, NewMirrors
    <3>3. CASE f \in newEntries[q]
      <4>1. f.doc = doc[q]
        BY <3>3 DEF IInv, NewMirrors
      <4>2. ~(Len(f.key) > 1)
        BY <4>1, <3>1, <3>3, <1>6, <2>1
      <4>3. QED
        BY <4>2, <2>1
    <3>4. QED
      BY <1>4, <3>2, <3>3
  <2>2. QED
    BY <2>1, <1>3, <1>4 DEF IInv, NewMirrors
<1>14. MirrorOnce'
  BY <1>4 DEF IInv, MirrorOnce, NewMirrors
<1>15. ReversalFollows'
  <2>1. ASSUME NEW r \in runs \cup newRuns[q], Patched(q, r).status = "VOIDED"
        PROVE  \E s \in runs \cup newRuns[q] :
                 s.doc = r.doc /\ s.ver = Patched(q, r).rev /\ r.ver < s.ver
    <3>1. CASE Voided(q, r)
      <4>1. PICK s \in newRuns[q] : s.ver = reversal[q]
        BY <3>1 DEF Voided, IInv, TargetIsCommitted
      <4>2. s.doc = doc[q] /\ r.doc = doc[q] /\ r.ver = voiding[q]
        BY <3>1, <4>1 DEF Voided, IInv, ViewsGapless
      <4>3. voiding[q] < s.ver
        BY <3>1, <4>1, OwnAreLatest DEF Voided, IInv, TargetIsCommitted, TypeOK
      <4>4. Patched(q, r).rev = reversal[q]
        BY <3>1 DEF Patched, IInv, TypeOK, Run
      <4>5. QED
        BY <4>1, <4>2, <4>3, <4>4
    <3>2. CASE ~Voided(q, r)
      <4>1. Patched(q, r) = r /\ r \in runs
        BY <2>1, <3>2 DEF Patched, IInv, ViewsGapless
      <4>2. QED
        BY <4>1, <2>1 DEF IInv, ReversalFollows
    <3>3. QED
      BY <3>1, <3>2
  <2>2. QED
    BY <2>1, <1>1 DEF ReversalFollows
<1>16. MirrorImpliesVoided'
  <2>1. ASSUME NEW e \in entries', Len(e.key) > 1
        PROVE  \E r \in runs \cup newRuns[q] :
                 /\ r.doc = e.doc /\ r.ver = e.key[1]
                 /\ Patched(q, r).status = "VOIDED"
    <3>1. CASE e \in entries
      BY <2>1, <3>1, <1>1 DEF IInv, MirrorImpliesVoided
    <3>2. CASE e \in newEntries[q]
      <4>1. voiding[q] # NoRun /\ e.key[1] = voiding[q] /\ e.doc = doc[q]
        BY <2>1, <3>2 DEF IInv, NewMirrors
      <4>2. PICK r \in runs : r.doc = doc[q] /\ r.ver = voiding[q]
        BY <4>1 DEF IInv, TargetIsCommitted, Committed
      <4>3. Patched(q, r).status = "VOIDED"
        BY <4>1, <4>2 DEF Patched, Voided, IInv, TypeOK, Run
      <4>4. QED
        BY <4>1, <4>2, <4>3
    <3>3. QED
      BY <1>4, <3>1, <3>2
  <2>2. QED
    BY <2>1, <1>1 DEF MirrorImpliesVoided
<1>17. QED
  BY <1>5, <1>7, <1>8, <1>9, <1>10, <1>11, <1>12, <1>13, <1>14, <1>15, <1>16 DEF IInv

----------------------------------------------------------------------------
(* The theorems *)

LEMMA NextInv == IInv /\ [Next]_vars => IInv'
<1> SUFFICES ASSUME IInv, [Next]_vars
             PROVE  IInv'
  OBVIOUS
<1>1. ASSUME NEW q \in Req, Step(q)
      PROVE  IInv'
  <2>1. InsertConflict(q) => Rollback(q, "conflict") /\ pc[q] # "idle"
    BY DEF InsertConflict
  <2>2. QED
    BY <1>1, <2>1, ReadActiveInv, FindRunInv, ReadMaxInv, InsertRunInv, RollbackInv,
       MirrorEntriesInv, CheckEntriesInv, WriteEntriesInv, CommitInv DEF Step
<1>2. ASSUME NEW q \in Req, Abort(q)
      PROVE  IInv'
  BY <1>2, RollbackInv DEF Abort
<1>3. ASSUME NEW q \in Req, NEW o \in Op, NEW d \in Doc, Begin(q, o, d)
      PROVE  IInv'
  BY <1>3, BeginInv
<1>4. CASE UNCHANGED vars
  <2>1. /\ UNCHANGED <<rows, writes>> /\ UNCHANGED local
        /\ UNCHANGED pc
    BY <1>4 DEF vars, rows, writes, local
  <2>2. TopIsRead' /\ CleanOutside' /\ TargetIsCommitted'
    BY <2>1 DEF IInv, TopIsRead, CleanOutside, Answered, TargetIsCommitted, Committed,
       NothingWritten, NextVersion, rows, writes, local
  <2>3. TypeOK'
    BY <1>4, NextType DEF IInv
  <2>4. QED
    BY <2>1, <2>2, <2>3, SameRows DEF local
<1>5. QED
  BY <1>1, <1>2, <1>3, <1>4 DEF Next, Quiescent

\* Every reachable state satisfies the inductive invariant.
THEOREM Invariance == Spec => []IInv
<1>1. QED
  BY InitInv, NextInv, PTL DEF Spec

\* The state of the ledger and of every open transaction is well typed.
THEOREM TypeCorrect == Spec => []TypeOK
<1>1. IInv => TypeOK
  BY DEF IInv
<1>2. QED
  BY <1>1, Invariance, PTL

\* Whatever number of requests post, void and repost a document at once, at
\* most one open transaction has inserted a posting run for it.
THEOREM Mutex == Spec => []PendingRunMutex
<1>1. IInv => PendingRunMutex
  BY DEF IInv
<1>2. QED
  BY <1>1, Invariance, PTL

\* A request waits for the key of a run at most once removed: who holds a key
\* that is waited for goes on, also when a repost inserts its second run.  So no
\* requests, however many, ever wait in a circle.
THEOREM HolderGoesOn == Spec => []NoChain
<1>1. IInv => NoChain
  <2> SUFFICES ASSUME IInv, NEW p \in Req, NEW q \in Req, NEW o \in Req,
                      WaitsFor(q, p), WaitsFor(p, o)
               PROVE  FALSE
    BY DEF NoChain
  <2>1. PendingRunMutex /\ ViewsGapless
    BY DEF IInv
  <2>2. PICK s \in newRuns[o] : s.doc = doc[p] /\ o # p
    BY DEF WaitsFor, SameKey
  <2>3. doc[o] = doc[p]
    BY <2>1, <2>2 DEF ViewsGapless
  <2>4. newRuns[p] # {}
    BY DEF WaitsFor
  <2> QED BY <2>1, <2>2, <2>3, <2>4 DEF PendingRunMutex
<1> QED BY <1>1, Invariance, PTL

\* The committed versions of a document are 1, 2, 3, ... without a hole.
THEOREM VersionsAreGapless == Spec => []Gapless
<1>1. IInv => Gapless
  BY DEF IInv
<1>2. QED
  BY <1>1, Invariance, PTL

\* No accounting entry is reversed twice, although createEntry only looks
\* before it inserts and the table has no unique key on docLineId.
THEOREM ReversedOnce == Spec => []MirrorOnce
<1>1. IInv => MirrorOnce
  BY DEF IInv
<1>2. QED
  BY <1>1, Invariance, PTL

\* Every VOIDED run names a later committed run as its reversal, and reversal
\* lines are only ever visible next to a VOIDED run.
THEOREM VoidIsReversed == Spec => [](ReversalFollows /\ MirrorImpliesVoided)
<1>1. IInv => ReversalFollows /\ MirrorImpliesVoided
  BY DEF IInv
<1>2. QED
  BY <1>1, Invariance, PTL

\* Versions without holes, no line taken back twice, every VOIDED version with
\* its reversal, and no reversal without its VOIDED version: all at once.
THEOREM LedgerStaysInOrder == Spec => []LedgerInOrder
<1>1. IInv => LedgerInOrder
  BY DEF IInv, LedgerInOrder
<1>2. QED
  BY <1>1, Invariance, PTL

LEMMA KeepsRuns ==
  ASSUME IInv, [Next]_vars
  PROVE  \A r \in runs : \E s \in runs' :
           /\ s.doc = r.doc /\ s.ver = r.ver /\ s.from = r.from
           /\ r.status = "VOIDED" => s.status = "VOIDED"
<1>1. ASSUME NEW q \in Req, Commit(q), NEW r \in runs
      PROVE  \E s \in runs' :
               /\ s.doc = r.doc /\ s.ver = r.ver /\ s.from = r.from
               /\ r.status = "VOIDED" => s.status = "VOIDED"
  <2>1. Patched(q, r) \in runs'
    BY <1>1, CommitRows
  <2>2. QED
    BY <1>1, <2>1, CommitRows
<1>2. CASE UNCHANGED runs
  BY <1>2
<1>3. ASSUME NEW q \in Req, Step(q), ~Commit(q)
      PROVE  UNCHANGED runs
  BY <1>3 DEF Step, ReadActive, FindRun, ReadMax, InsertRun, InsertConflict,
     MirrorEntries, CheckEntries, WriteEntries, Rollback, rows
<1>4. ASSUME NEW q \in Req, Abort(q)
      PROVE  UNCHANGED runs
  BY <1>4 DEF Abort, Rollback, rows
<1>5. ASSUME NEW q \in Req, NEW o \in Op, NEW d \in Doc, Begin(q, o, d)
      PROVE  UNCHANGED runs
  BY <1>5 DEF Begin, rows
<1>6. QED
  BY <1>1, <1>2, <1>3, <1>4, <1>5 DEF Next, Quiescent, vars

\* A run that is VOIDED stays VOIDED, and no run ever disappears.
THEOREM AppendOnly == Spec => VoidedForever
<1>1. IInv /\ [Next]_vars =>
        [\A r \in runs : \E s \in runs' :
          /\ s.doc = r.doc /\ s.ver = r.ver /\ s.from = r.from
          /\ r.status = "VOIDED" => s.status = "VOIDED"]_vars
  BY KeepsRuns
<1>2. QED
  BY <1>1, Invariance, PTL DEF Spec, VoidedForever

----------------------------------------------------------------------------
(* The refinement: PostingRuns implements Ledger.  RInv adds to IInv what an *)
(* open transaction has written when it stands at each of its statements.    *)

LEMMA InitRInv == Init => RInv
<1>1. Init => WrittenSoFar /\ FromIsFree /\ LinesHaveRuns
  BY DEF Init, WrittenSoFar, Written, FromIsFree, LinesHaveRuns
<1>2. QED
  BY <1>1, InitInv DEF RInv

\* What a request has written stays described while others commit.
LEMMA OthersKeepWritten ==
  ASSUME NEW p \in Req, Written(p),
         pc'[p] = pc[p], op'[p] = op[p], doc'[p] = doc[p], act'[p] = act[p],
         goal'[p] = goal[p], top'[p] = top[p], newRuns'[p] = newRuns[p],
         newEntries'[p] = newEntries[p], voiding'[p] = voiding[p],
         reversal'[p] = reversal[p], entries \subseteq entries',
         \A d, v : Committed(d, v) => Committed(d, v)'
  PROVE  Written(p)'
<1>1. MirrorsOf(p) \subseteq MirrorsOf(p)'
  BY DEF MirrorsOf
<1>2. /\ NothingWritten(p) => NothingWritten(p)'
      /\ Reversed(p) => Reversed(p)'
      /\ BothRuns(p) => BothRuns(p)'
      /\ \A n, f : OnlyRun(p, n, f) => OnlyRun(p, n, f)'
      /\ PostedLine(p)' = PostedLine(p) /\ NextVersion(p)' = NextVersion(p)
      /\ Committed(doc[p], act[p]) => Committed(doc[p], act[p])'
  BY <1>1 DEF NothingWritten, Reversed, BothRuns, OnlyRun, PostedLine, NextVersion
<1>3. \A M \in SUBSET MirrorsOf(p) : M \in SUBSET (MirrorsOf(p)')
  BY <1>1
<1>4. QED
  BY <1>1, <1>2, <1>3 DEF Written

\* A step of one request leaves what the others have read and written alone.
LEMMA StepIsLocal ==
  ASSUME TypeOK, NEW q \in Req, Step(q) \/ Abort(q), NEW p \in Req \ {q}
  PROVE  /\ pc'[p] = pc[p] /\ op'[p] = op[p] /\ doc'[p] = doc[p]
         /\ act'[p] = act[p] /\ goal'[p] = goal[p] /\ top'[p] = top[p]
         /\ newRuns'[p] = newRuns[p] /\ newEntries'[p] = newEntries[p]
         /\ voiding'[p] = voiding[p] /\ reversal'[p] = reversal[p]
<1>1. CASE ReadActive(q) \/ FindRun(q) \/ ReadMax(q) \/ CheckEntries(q)
  BY <1>1 DEF TypeOK, ReadActive, FindRun, ReadMax, CheckEntries, Goto, writes
<1>2. CASE InsertRun(q) \/ MirrorEntries(q) \/ WriteEntries(q) \/ Commit(q)
  BY <1>2 DEF TypeOK, InsertRun, MirrorEntries, WriteEntries, Commit, Goto, local
<1>3. CASE InsertConflict(q) \/ Abort(q)
  BY <1>3 DEF TypeOK, InsertConflict, Abort, Rollback, Goto, local
<1>4. QED
  BY <1>1, <1>2, <1>3 DEF Step

\* Only a commit changes the rows, and it only adds lines and versions.
LEMMA OnlyCommitWrites ==
  ASSUME NEW q \in Req, Step(q) \/ Abort(q), ~Commit(q)
  PROVE  UNCHANGED <<runs, entries, docStatus>>
<1>1. CASE Step(q)
  BY <1>1 DEF Step, ReadActive, FindRun, ReadMax, InsertRun, InsertConflict,
     MirrorEntries, CheckEntries, WriteEntries, Rollback, rows
<1>2. CASE Abort(q)
  BY <1>2 DEF Abort, Rollback, rows
<1>3. QED
  BY <1>1, <1>2

LEMMA RowsGrow ==
  ASSUME IInv, NEW q \in Req, Step(q) \/ Abort(q)
  PROVE  entries \subseteq entries' /\ \A d, v : Committed(d, v) => Committed(d, v)'
<1>1. CASE Commit(q)
  BY <1>1, CommitRows DEF Commit, EntryView
<1>2. CASE ~Commit(q)
  BY <1>2, OnlyCommitWrites DEF Committed
<1>3. QED
  BY <1>1, <1>2

LEMMA OthersWritten ==
  ASSUME RInv, NEW q \in Req, Step(q) \/ Abort(q), NEW p \in Req \ {q}
  PROVE  Written(p)'
<1>1. Written(p) /\ TypeOK /\ IInv
  BY DEF RInv, IInv, WrittenSoFar
<1>2. QED
  BY <1>1, StepIsLocal, RowsGrow, OthersKeepWritten

\* Reading steps: what q has written is as it was.
LEMMA ReadsKeepWritten ==
  ASSUME RInv, NEW q \in Req,
         ReadActive(q) \/ FindRun(q) \/ ReadMax(q) \/ CheckEntries(q)
  PROVE  Written(q)'
<1>1. UNCHANGED <<runs, entries, newRuns, newEntries, voiding, reversal, op, doc>>
  BY DEF ReadActive, FindRun, ReadMax, CheckEntries, rows, writes
<1>2. IInv /\ TypeOK /\ Written(q)
  BY DEF RInv, IInv, WrittenSoFar
<1>3. CASE ReadActive(q)
  <2>1. NothingWritten(q)
    BY <1>2, <1>3 DEF IInv, CleanOutside, Answered, ReadActive
  <2>2. PICK a \in Versions(RunView(q), doc[q]) \cup {NoRun} :
          /\ act' = [act EXCEPT ![q] = a]
          /\ Goto(q, IF a = NoRun
                    THEN IF op[q] = "void" THEN "done" ELSE "max"
                    ELSE IF op[q] = "post" THEN "has" ELSE "find")
    BY <1>3 DEF ReadActive
  <2>3. a # NoRun => Committed(doc[q], a)
    BY <2>1 DEF NothingWritten, Versions, RunView, Patched, Voided, Committed
  <2>4. /\ act'[q] = a /\ pc'[q] \in {"done", "max", "has", "find"}
        /\ pc'[q] = "has" => a # NoRun
        /\ pc'[q] = "find" => op[q] # "post"
    BY <1>2, <2>2 DEF TypeOK, Goto
  <2>5. NothingWritten(q)' /\ (a # NoRun => Committed(doc[q], a)')
    BY <2>1, <2>3, <1>1 DEF NothingWritten, Committed
  <2>6. goal'[q] = "posting"
    BY <1>2, <1>3 DEF IInv, CleanOutside, ReadActive
  <2>7. QED
    BY <2>4, <2>5, <2>6, <1>1 DEF Written
<1>4. CASE FindRun(q)
  <2>1. NothingWritten(q) /\ Committed(doc[q], act[q])
    BY <1>2, <1>4 DEF IInv, CleanOutside, Answered, TargetIsCommitted, FindRun
  <2>2. pc'[q] \in {"commit", "max"} /\ act' = act
    BY <1>2, <1>4 DEF FindRun, TypeOK, Goto
  <2>3. NothingWritten(q)' /\ Committed(doc[q], act[q])'
    BY <2>1, <2>2, <1>1 DEF NothingWritten, Committed
  <2>4. op[q] # "post"
    BY <1>2, <1>4 DEF Written, FindRun
  <2>5. QED
    BY <2>2, <2>3, <2>4, <1>1 DEF Written
<1>5. CASE ReadMax(q)
  <2>1. pc[q] = "max" /\ pc'[q] = "insert" /\ UNCHANGED <<act, goal>>
    BY <1>2, <1>5 DEF ReadMax, TypeOK, Goto
  <2>2. QED
    BY <1>1, <1>2, <2>1 DEF Written, NothingWritten, Reversed, Committed, MirrorsOf
<1>6. CASE CheckEntries(q)
  <2>1. /\ pc[q] = "has" /\ UNCHANGED act
        /\ pc'[q] = IF RunEntries(q, act[q]) # {} THEN "commit" ELSE "write"
        /\ goal'[q] = "reversal" => goal[q] = "reversal"
    BY <1>2, <1>6 DEF CheckEntries, TypeOK, Goto
  <2>2. CASE NothingWritten(q) /\ Committed(doc[q], act[q])
    BY <2>1, <2>2, <1>1, <1>2 DEF Written, NothingWritten, Committed
  <2>3. CASE OnlyRun(q, act[q], NoRun)
    <3>1. /\ newRuns[q] = {Book!Version(doc[q], act[q], NoRun)}
          /\ newEntries[q] = {} /\ voiding[q] = NoRun
      BY <2>3 DEF OnlyRun
    <3>2. ~Committed(doc[q], act[q])
      <4>1. \E r \in newRuns[q] : r.ver = act[q]
        BY <3>1 DEF Book!Version
      <4>2. QED
        BY <4>1, <1>2 DEF IInv, ViewsGapless
    <3>3. RunEntries(q, act[q]) = {}
      BY <3>1, <3>2 DEF RInv, LinesHaveRuns, RunEntries, EntryView
    <3>4. pc'[q] = "write"
      BY <3>3, <2>1
    <3>5. \E r \in newRuns[q] : r.from = NoRun
      BY <3>1 DEF Book!Version, NoRun
    <3>6. QED
      BY <3>4, <3>5, <2>3, <2>1, <1>1, <1>2 DEF Written, OnlyRun
  <2>4. QED
    BY <1>2, <2>1, <2>2, <2>3 DEF Written
<1>7. QED
  BY <1>3, <1>4, <1>5, <1>6

\* The first run is inserted for the posting or for the reversal; a second one
\* replaces the version whose reversal was inserted first.
LEMMA InsertWritten ==
  ASSUME RInv, NEW q \in Req, InsertRun(q)
  PROVE  Written(q)'
<1> DEFINE n == NextVersion(q)
<1>1. UNCHANGED <<runs, entries, newEntries, voiding, reversal, op, doc, goal, top>>
  BY DEF InsertRun, rows
<1>2. IInv /\ TypeOK /\ Written(q) /\ pc[q] = "insert"
  BY DEF RInv, IInv, WrittenSoFar, InsertRun
<1>3. newRuns'[q] = newRuns[q] \cup {Book!Version(doc[q], n, RepostedFrom(q))}
  BY <1>2 DEF InsertRun, TypeOK, Book!Version, NoRun
<1>4. n \in Nat /\ n = top[q] + 1
  BY <1>2 DEF NextVersion, TypeOK
<1>5. IF goal[q] = "reversal"
        THEN pc'[q] = "mirror" /\ act' = act
        ELSE /\ pc'[q] = IF op[q] = "repost" THEN "write" ELSE "has"
             /\ act'[q] = n
  BY <1>2 DEF InsertRun, Goto, TypeOK
<1>6. CASE NothingWritten(q)
  <2>1. /\ newRuns'[q] = {Book!Version(doc[q], n, RepostedFrom(q))}
        /\ newEntries'[q] = {} /\ voiding'[q] = NoRun
    BY <1>1, <1>3, <1>6 DEF NothingWritten
  <2>2. CASE goal[q] = "reversal"
    <3>1. RepostedFrom(q) = NoRun
      BY <2>2 DEF RepostedFrom
    <3>2. NextVersion(q)' = n
      BY <1>1 DEF NextVersion
    <3>3. QED
      BY <2>1, <2>2, <3>1, <3>2, <1>1, <1>2, <1>5 DEF Written, OnlyRun
  <2>3. CASE goal[q] # "reversal" /\ op[q] # "repost"
    <3>1. RepostedFrom(q) = NoRun
      BY <2>3 DEF RepostedFrom
    <3>2. QED
      BY <2>1, <2>3, <3>1, <1>1, <1>5 DEF Written, OnlyRun
  <2>4. CASE goal[q] # "reversal" /\ op[q] = "repost"
    <3>1. \E r \in newRuns'[q] : r.from = RepostedFrom(q)
      BY <2>1 DEF Book!Version
    <3>2. \E r \in newRuns'[q] : OnlyRun(q, act[q], r.from)'
      BY <2>1, <2>4, <3>1, <1>1, <1>5 DEF OnlyRun
    <3>3. QED
      BY <2>4, <3>2, <1>1, <1>5 DEF Written
  <2>5. QED
    BY <2>2, <2>3, <2>4
<1>7. CASE /\ Reversed(q) /\ op[q] = "repost" /\ goal[q] = "posting"
           /\ act[q] = voiding[q]
  <2>1. RepostedFrom(q) = voiding[q] /\ newRuns[q] # {}
    BY <1>7 DEF RepostedFrom, Reversed
  <2>2. \E r \in newRuns[q] : r.ver = top[q]
    BY <2>1, <1>2 DEF IInv, TopIsRead
  <2>3. top[q] = reversal[q]
    BY <2>2, <1>7 DEF Reversed, Book!Version
  <2>4. MirrorsOf(q)' = MirrorsOf(q)
    BY <1>1 DEF MirrorsOf
  <2>5. BothRuns(q)' /\ newEntries'[q] \subseteq MirrorsOf(q)'
    BY <2>1, <2>3, <2>4, <1>1, <1>3, <1>4, <1>5, <1>7 DEF BothRuns, Reversed
  <2>6. pc'[q] = "write"
    BY <1>5, <1>7
  <2>7. QED
    BY <2>5, <2>6, <1>1, <1>7 DEF Written
<1>8. QED
  BY <1>2, <1>6, <1>7 DEF Written

LEMMA MirrorWritten ==
  ASSUME RInv, NEW q \in Req, MirrorEntries(q)
  PROVE  Written(q)'
<1>1. UNCHANGED <<runs, entries, newRuns, op, doc, act, top>>
  BY DEF MirrorEntries, rows
<1>2. IInv /\ TypeOK /\ pc[q] = "mirror" /\ OnlyRun(q, NextVersion(q), NoRun)
  BY DEF RInv, IInv, WrittenSoFar, Written, MirrorEntries
<1>3. /\ voiding'[q] = act[q] /\ reversal'[q] = NextVersion(q)
      /\ goal'[q] = "posting"
      /\ pc'[q] = IF op[q] = "void" THEN "commit" ELSE "max"
  BY <1>2 DEF MirrorEntries, TypeOK, Goto
<1>4. Committed(doc[q], act[q]) /\ act[q] # NoRun
  <2>1. goal[q] = "reversal"
    BY <1>2 DEF IInv, TargetIsCommitted
  <2>2. Committed(doc[q], act[q])
    BY <2>1, <1>2 DEF IInv, TargetIsCommitted
  <2>3. QED
    BY <2>2, <1>2 DEF Committed, TypeOK, Run, NoRun
<1>5. newEntries'[q] \subseteq MirrorsOf(q)'
  <2>1. \A x \in RunEntries(q, act[q]) :
          x \in entries /\ x.doc = doc[q] /\ x.run = act[q]
    BY <1>2 DEF RunEntries, EntryView, OnlyRun
  <2>2. newEntries'[q] =
          {[doc |-> doc[q], run |-> NextVersion(q), by |-> q, key |-> k] :
             k \in {ReversalKey(act[q], e.key) : e \in
                      {x \in RunEntries(q, act[q]) :
                         ~LineExists(q, ReversalKey(act[q], x.key))}}}
    BY <1>2 DEF MirrorEntries, TypeOK, OnlyRun
  <2>3. ASSUME NEW e \in newEntries'[q]
        PROVE  \E x \in entries :
                 /\ x.doc = doc[q] /\ x.run = act[q]
                 /\ e = Book!Line(doc[q], NextVersion(q), ReversalKey(act[q], x.key), q)
    BY <2>1, <2>2 DEF Book!Line
  <2>4. QED
    BY <2>3, <1>1, <1>3 DEF MirrorsOf
<1>6. Reversed(q)'
  BY <1>1, <1>2, <1>3, <1>4, <1>5 DEF Reversed, OnlyRun
<1>7. Committed(doc[q], act[q])'
  BY <1>1, <1>4 DEF Committed
<1>8. CASE op[q] = "repost"
  BY <1>1, <1>3, <1>6, <1>7, <1>8 DEF Written
<1>9. CASE op[q] = "void"
  BY <1>1, <1>3, <1>6, <1>9 DEF Written
<1>10. op[q] # "post"
  BY <1>2 DEF IInv, TargetIsCommitted, RInv, WrittenSoFar, Written
<1>11. QED
  BY <1>8, <1>9, <1>10, <1>2 DEF TypeOK, Op

\* The lines go under a committed version found empty, or under the version
\* just inserted, which has no line yet.
LEMMA WriteWritten ==
  ASSUME RInv, NEW q \in Req, WriteEntries(q)
  PROVE  Written(q)'
<1>1. UNCHANGED <<runs, entries, newRuns, voiding, reversal, op, doc, act, goal, top>>
  BY DEF WriteEntries, rows, local
<1>2. IInv /\ TypeOK /\ Written(q) /\ pc[q] = "write" /\ pc'[q] = "commit"
  BY DEF RInv, IInv, WrittenSoFar, WriteEntries, TypeOK, Goto
<1>3. newEntries'[q] = newEntries[q] \cup
        IF LineExists(q, <<act[q]>>) THEN {} ELSE {PostedLine(q)}
  BY <1>2 DEF WriteEntries, TypeOK, PostedLine, Book!Line
<1>4. /\ PostedLine(q)' = PostedLine(q) /\ MirrorsOf(q)' = MirrorsOf(q)
      /\ goal'[q] = "reversal" => op'[q] # "post"
  BY <1>1, <1>2 DEF PostedLine, MirrorsOf, Written
<1>5. CASE NothingWritten(q) /\ Committed(doc[q], act[q])
  <2>1. CASE LineExists(q, <<act[q]>>)
    BY <2>1, <1>1, <1>2, <1>3, <1>4, <1>5 DEF Written, NothingWritten
  <2>2. CASE ~LineExists(q, <<act[q]>>)
    <3>1. newEntries'[q] = {PostedLine(q)} /\ voiding'[q] = NoRun /\ newRuns'[q] = {}
      BY <2>2, <1>1, <1>3, <1>5 DEF NothingWritten
    <3>2. Committed(doc[q], act[q])'
      BY <1>1, <1>5 DEF Committed
    <3>3. QED
      BY <3>1, <3>2, <1>2, <1>4 DEF Written
  <2>3. QED
    BY <2>1, <2>2
\* A version of its own has no committed line.
<1>6. ASSUME \E r \in newRuns[q] : r.ver = act[q],
             \A e \in newEntries[q] : Len(e.key) # 1
      PROVE  newEntries'[q] = newEntries[q] \cup {PostedLine(q)}
  <2>1. ~Committed(doc[q], act[q])
    BY <1>6, <1>2 DEF IInv, ViewsGapless
  <2>2. Len(<<act[q]>>) = 1 /\ <<act[q]>>[1] = act[q]
    OBVIOUS
  <2>3. \A e \in entries : e.doc = doc[q] => e.key # <<act[q]>>
    BY <2>1, <2>2 DEF RInv, LinesHaveRuns
  <2>4. \A e \in newEntries[q] : e.key # <<act[q]>>
    BY <2>2, <1>6
  <2>5. QED
    BY <2>3, <2>4, <1>3 DEF LineExists, EntryView
<1>7. ASSUME NEW r \in newRuns[q], OnlyRun(q, act[q], r.from)
      PROVE  Written(q)'
  <2>1. /\ newRuns[q] = {Book!Version(doc[q], act[q], r.from)}
        /\ newEntries[q] = {} /\ voiding[q] = NoRun /\ r.ver = act[q]
    BY <1>7 DEF OnlyRun, Book!Version
  <2>2. newEntries'[q] = {PostedLine(q)}
    BY <2>1, <1>6
  <2>3. newRuns'[q] = {Book!Version(doc[q], act[q], r.from)}' /\ r \in newRuns'[q]
    BY <2>1, <1>1
  <2>4. QED
    BY <2>1, <2>2, <2>3, <1>1, <1>2, <1>4 DEF Written
<1>8. CASE BothRuns(q) /\ newEntries[q] \subseteq MirrorsOf(q)
  <2>1. \E r \in newRuns[q] : r.ver = act[q]
    BY <1>8 DEF BothRuns, Book!Version
  <2>2. \A e \in newEntries[q] : Len(e.key) # 1
    <3> SUFFICES ASSUME NEW e \in newEntries[q]
                 PROVE  Len(e.key) # 1
      OBVIOUS
    <3>1. PICK x \in entries : e.key = ReversalKey(voiding[q], x.key)
      BY <1>8 DEF MirrorsOf, Book!Line
    <3>2. x.key \in LineKey /\ voiding[q] \in Nat
      BY <1>2 DEF TypeOK, Entry
    <3>3. Len(e.key) = Len(x.key) + 1
      BY <3>1, <3>2, KeyType
    <3>4. Len(x.key) \in Nat /\ Len(x.key) # 0
      BY <3>2 DEF LineKey
    <3>5. QED
      BY <3>3, <3>4
  <2>3. newEntries'[q] = newEntries[q] \cup {PostedLine(q)}
    BY <2>1, <2>2, <1>6
  <2>4. BothRuns(q)'
    BY <1>1, <1>8 DEF BothRuns
  <2>5. \E M \in SUBSET MirrorsOf(q)' : newEntries'[q] = M \cup {PostedLine(q)'}
    BY <2>3, <1>4, <1>8
  <2>6. QED
    BY <2>4, <2>5, <1>2, <1>4 DEF Written
<1>9. QED
  BY <1>2, <1>5, <1>7, <1>8 DEF Written

LEMMA WrittenInv ==
  ASSUME RInv, NEW q \in Req, Step(q) \/ Abort(q)
  PROVE  WrittenSoFar'
<1>1. CASE Commit(q) \/ InsertConflict(q) \/ Abort(q)
  <2>1. pc'[q] \in Answered /\ goal' = goal /\ op' = op
    BY <1>1 DEF Commit, InsertConflict, Abort, Rollback, Goto, local, Answered,
       RInv, IInv, TypeOK
  <2>2. Written(q)
    BY DEF RInv, WrittenSoFar
  <2>3. Written(q)'
    BY <2>1, <2>2 DEF Written, Answered
  <2>4. QED
    BY <2>3, OthersWritten DEF WrittenSoFar
<1>2. CASE Step(q) /\ ~Commit(q) /\ ~InsertConflict(q)
  <2>1. Written(q)'
    BY <1>2, ReadsKeepWritten, InsertWritten, MirrorWritten, WriteWritten DEF Step
  <2>2. QED
    BY <2>1, OthersWritten DEF WrittenSoFar
<1>3. QED
  BY <1>1, <1>2

\* The unique key on repostedFromRunId keeps a version from being replaced by
\* two; a rival cannot commit one while the request holds its own.
LEMMA FromIsFreeInv ==
  ASSUME RInv, NEW q \in Req, Step(q) \/ Abort(q)
  PROVE  FromIsFree'
<1>1. IInv /\ TypeOK /\ WrittenSoFar /\ FromIsFree
  BY DEF RInv, IInv
<1> SUFFICES ASSUME NEW p \in Req, NEW r \in newRuns'[p], r.from # NoRun
             PROVE  /\ Committed(doc[p], r.from)'
                    /\ ~ \E s \in runs' : s.doc = doc[p] /\ s.from = r.from
                    /\ doc' = doc
  BY DEF FromIsFree
<1>2. doc' = doc
  BY <1>1 DEF Step, ReadActive, FindRun, ReadMax, InsertRun, InsertConflict, Abort,
     MirrorEntries, CheckEntries, WriteEntries, Commit, Rollback, local
<1>3. CASE Commit(q)
  <2>1. newRuns'[q] = {}
    BY <1>1, <1>3 DEF Commit, TypeOK
  <2>2. p # q /\ r \in newRuns[p]
    BY <2>1, <1>1, StepIsLocal
  <2>3. /\ Committed(doc[p], r.from)
        /\ ~ \E s \in runs : s.doc = doc[p] /\ s.from = r.from
    BY <2>2, <1>1 DEF FromIsFree
  <2>4. \A s \in newRuns[q] : s.doc # doc[p]
    BY <2>2, <1>1 DEF IInv, PendingRunMutex, ViewsGapless
  <2>5. ~ \E s \in runs' : s.doc = doc[p] /\ s.from = r.from
    BY <2>3, <2>4, <1>1, <1>3, CommitRows
  <2>6. QED
    BY <2>3, <2>5, <1>1, <1>2, RowsGrow
<1>4. CASE InsertRun(q)
  <2>1. runs' = runs
    BY <1>4 DEF InsertRun, rows
  <2>2. CASE r \in newRuns[p]
    BY <2>1, <2>2, <1>1, <1>2 DEF FromIsFree, Committed
  <2>3. CASE r \notin newRuns[p]
    <3>1. p = q /\ r.from = RepostedFrom(q)
      BY <2>3, <1>1, <1>4 DEF InsertRun, TypeOK
    <3>2. r.from = act[q] /\ act[q] # NoRun
      BY <3>1 DEF RepostedFrom
    <3>3. Committed(doc[q], r.from)
      BY <3>2, <1>1, <1>4 DEF WrittenSoFar, Written, InsertRun
    <3>4. ~ \E s \in runs : s.doc = doc[q] /\ s.from = r.from
      BY <3>1, <1>4 DEF InsertRun, KeyTaken, SameKey
    <3>5. QED
      BY <3>1, <3>3, <3>4, <2>1, <1>2 DEF Committed
  <2>4. QED
    BY <2>2, <2>3
<1>5. CASE ~Commit(q) /\ ~InsertRun(q)
  <2>1. runs' = runs
    BY <1>5, OnlyCommitWrites
  <2>2. CASE p = q
    <3>1. newRuns'[q] = newRuns[q] \/ newRuns'[q] = {}
      BY <1>1, <1>5 DEF TypeOK, Step, ReadActive, FindRun, ReadMax, InsertConflict,
         Abort, MirrorEntries, CheckEntries, WriteEntries, Rollback, writes
    <3>2. QED
      BY <2>1, <2>2, <3>1, <1>1, <1>2 DEF FromIsFree, Committed
  <2>3. CASE p # q
    <3>1. newRuns'[p] = newRuns[p]
      BY <2>3, <1>1, StepIsLocal
    <3>2. QED
      BY <2>1, <3>1, <1>1, <1>2 DEF FromIsFree, Committed
  <2>4. QED
    BY <2>2, <2>3
<1>6. QED
  BY <1>3, <1>4, <1>5

\* What the lines of a transaction about to commit are: lines that take back
\* others, under the reversal run, and at most one line under the own run.
LEMMA NewLines ==
  ASSUME RInv, NEW q \in Req, pc[q] = "commit", NEW e \in newEntries[q]
  PROVE  /\ e.doc = doc[q]
         /\ Committed(doc[q], e.run) \/ \E r \in newRuns[q] : r.ver = e.run
         /\ Len(e.key) = 1 => e.key[1] = e.run
<1>1. IInv /\ TypeOK /\ Written(q)
  BY DEF RInv, IInv, WrittenSoFar
<1>2. \A x : x \in MirrorsOf(q) => x.run = reversal[q] /\ x.doc = doc[q] /\ Len(x.key) # 1
  <2> SUFFICES ASSUME NEW y \in entries
               PROVE  Len(ReversalKey(voiding[q], y.key)) # 1
    BY DEF MirrorsOf, Book!Line
  <2>1. y.key \in LineKey /\ voiding[q] \in Nat
    BY <1>1 DEF TypeOK, Entry
  <2>2. Len(y.key) \in Nat /\ Len(y.key) # 0
    BY <2>1 DEF LineKey
  <2>3. Len(ReversalKey(voiding[q], y.key)) = Len(y.key) + 1
    BY <2>1, KeyType
  <2>4. QED
    BY <2>2, <2>3
<1>3. /\ PostedLine(q).run = act[q] /\ PostedLine(q).doc = doc[q]
      /\ PostedLine(q).key = <<act[q]>>
  BY DEF PostedLine, Book!Line
<1>4. <<act[q]>>[1] = act[q]
  OBVIOUS
<1>5. CASE Reversed(q)
  BY <1>2, <1>5 DEF Reversed, Book!Version
<1>6. CASE /\ newEntries[q] = {PostedLine(q)}
           /\ \/ newRuns[q] = {} /\ Committed(doc[q], act[q])
              \/ \E r \in newRuns[q] : newRuns[q] = {Book!Version(doc[q], act[q], r.from)}
  BY <1>3, <1>4, <1>6 DEF Book!Version
<1>7. CASE /\ BothRuns(q)
           /\ \E M \in SUBSET MirrorsOf(q) : newEntries[q] = M \cup {PostedLine(q)}
  <2>1. \A n \in {reversal[q], act[q]} : \E r \in newRuns[q] : r.ver = n
    BY <1>7 DEF BothRuns, Book!Version
  <2>2. e \in MirrorsOf(q) \/ e = PostedLine(q)
    BY <1>7
  <2>3. QED
    BY <2>1, <2>2, <1>2, <1>3, <1>4
<1>8. QED
  BY <1>1, <1>5, <1>6, <1>7 DEF Written, NothingWritten

LEMMA LinesInv ==
  ASSUME RInv, NEW q \in Req, Step(q) \/ Abort(q)
  PROVE  LinesHaveRuns'
<1>1. IInv /\ LinesHaveRuns
  BY DEF RInv
<1>2. CASE Commit(q)
  <2>1. entries' = entries \cup newEntries[q] /\ pc[q] = "commit"
    BY <1>2 DEF Commit, EntryView
  <2>2. \A d, v : Committed(d, v)' <=>
          Committed(d, v) \/ (d = doc[q] /\ \E r \in newRuns[q] : r.ver = v)
    BY <1>1, <1>2, CommitRows
  <2>3. \A e \in newEntries[q] :
          Committed(e.doc, e.run)' /\ (Len(e.key) = 1 => e.key[1] = e.run)
    BY <2>1, <2>2, NewLines
  <2>4. QED
    BY <2>1, <2>2, <2>3, <1>1 DEF LinesHaveRuns
<1>3. CASE ~Commit(q)
  BY <1>1, <1>3, OnlyCommitWrites DEF LinesHaveRuns, Committed
<1>4. QED
  BY <1>2, <1>3

LEMMA NextRInv == RInv /\ [Next]_vars => RInv'
<1> SUFFICES ASSUME RInv, [Next]_vars
             PROVE  RInv'
  OBVIOUS
<1>1. IInv' /\ IInv /\ TypeOK
  BY NextInv DEF RInv, IInv
<1>2. ASSUME NEW q \in Req, Step(q) \/ Abort(q)
      PROVE  RInv'
  BY <1>1, <1>2, WrittenInv, FromIsFreeInv, LinesInv DEF RInv
<1>3. ASSUME NEW q \in Req, NEW o \in Op, NEW d \in Doc, Begin(q, o, d)
      PROVE  RInv'
  <2>1. UNCHANGED <<runs, entries, newRuns, newEntries, voiding, reversal, act, goal, top>>
    BY <1>3 DEF Begin, rows, writes
  <2>2. \A p \in Req \ {q} : pc'[p] = pc[p] /\ op'[p] = op[p] /\ doc'[p] = doc[p]
    BY <1>1, <1>3 DEF Begin, TypeOK, Goto
  <2>3. pc'[q] = "active" /\ goal[q] = "posting" /\ newRuns[q] = {}
    BY <1>1, <1>3 DEF Begin, TypeOK, Goto, IInv, CleanOutside, NothingWritten
  <2>4. \A p \in Req \ {q} : Written(p)'
    BY <2>1, <2>2, OthersKeepWritten DEF RInv, WrittenSoFar, Committed
  <2>5. Written(q)'
    BY <2>1, <2>3 DEF Written
  <2>6. FromIsFree'
    BY <2>1, <2>2, <2>3 DEF RInv, FromIsFree, Committed
  <2>7. LinesHaveRuns'
    BY <2>1 DEF RInv, LinesHaveRuns, Committed
  <2>8. QED
    BY <1>1, <2>4, <2>5, <2>6, <2>7 DEF RInv, WrittenSoFar
<1>4. CASE UNCHANGED vars
  <2>1. \A p \in Req : Written(p)'
    BY <1>4, OthersKeepWritten DEF RInv, WrittenSoFar, vars, Committed
  <2>2. FromIsFree' /\ LinesHaveRuns'
    BY <1>4 DEF RInv, FromIsFree, LinesHaveRuns, vars, Committed
  <2>3. QED
    BY <1>1, <2>1, <2>2 DEF RInv, WrittenSoFar
<1>5. QED
  BY <1>2, <1>3, <1>4 DEF Next, Quiescent

\* The first version a transaction has inserted is the next one of its document.
LEMMA FirstIsFresh ==
  ASSUME RInv, NEW q \in Req, NEW r \in newRuns[q],
         \A s \in newRuns[q] : r.ver <= s.ver
  PROVE  Book!Fresh(doc[q], r.ver)
<1>1. IInv /\ r.ver \in Nat \ {0} /\ doc[q] \in Doc
  BY DEF RInv, IInv, TypeOK, Run
<1>2. \A v : v \in Book!VersionsOf(doc[q]) <=> Committed(doc[q], v)
  BY DEF Book!VersionsOf, Committed
<1>3. \A v \in Book!VersionsOf(doc[q]) : v \in Nat
  BY <1>1 DEF Book!VersionsOf, IInv, TypeOK, Run
<1>4. \A v \in Book!VersionsOf(doc[q]) : v < r.ver
  BY <1>1, <1>2, <1>3, OwnAreLatest
<1>5. r.ver # 1 => Committed(doc[q], r.ver - 1)
  <2> SUFFICES ASSUME r.ver # 1
               PROVE  Committed(doc[q], r.ver - 1)
    OBVIOUS
  <2>1. r.ver - 1 \in 1 .. r.ver
    BY <1>1
  <2>2. \A s \in newRuns[q] : s.ver \in Nat /\ s.ver # r.ver - 1
    BY <1>1 DEF IInv, TypeOK, Run
  <2>3. QED
    BY <1>1, <2>1, <2>2 DEF IInv, ViewsGapless
<1>6. r.ver \in {1} \cup {v + 1 : v \in Book!VersionsOf(doc[q])}
  BY <1>1, <1>2, <1>5
<1>7. QED
  BY <1>4, <1>6 DEF Book!Fresh

LEMMA CommitRuns ==
  ASSUME RInv, NEW q \in Req, Commit(q)
  PROVE  /\ voiding[q] = NoRun => runs' = runs \cup newRuns[q]
         /\ voiding[q] # NoRun =>
              runs' = Book!VoidedBy(doc[q], voiding[q], reversal[q]) \cup newRuns[q]
<1>1. IInv /\ TypeOK /\ runs' = {Patched(q, r) : r \in runs \cup newRuns[q]}
  BY CommitRows DEF RInv, IInv
<1>2. ASSUME voiding[q] = NoRun
      PROVE  runs' = runs \cup newRuns[q]
  BY <1>1, <1>2 DEF Patched, Voided
<1>3. ASSUME voiding[q] # NoRun
      PROVE  runs' = Book!VoidedBy(doc[q], voiding[q], reversal[q]) \cup newRuns[q]
  <2>1. ASSUME NEW r \in newRuns[q]
        PROVE  Patched(q, r) = r
    <3>1. r.ver # voiding[q]
      <4>1. Committed(doc[q], voiding[q])
        BY <1>1, <1>3 DEF IInv, TargetIsCommitted
      <4>2. ~Committed(doc[q], r.ver)
        BY <1>1 DEF IInv, ViewsGapless
      <4> QED BY <4>1, <4>2
    <3>2. QED
      BY <3>1 DEF Patched, Voided
  <2>2. ASSUME NEW r \in runs
        PROVE  Patched(q, r) =
                 IF r.doc = doc[q] /\ r.ver = voiding[q]
                   THEN [r EXCEPT !.status = "VOIDED", !.rev = reversal[q]] ELSE r
    BY <1>3 DEF Patched, Voided
  <2>3. {Patched(q, r) : r \in runs} = Book!VoidedBy(doc[q], voiding[q], reversal[q])
    BY ONLY <2>2 DEF Book!VoidedBy
  <2>4. {Patched(q, r) : r \in newRuns[q]} = newRuns[q]
    BY <2>1
  <2>5. QED
    BY <1>1, <2>3, <2>4
<1>4. QED
  BY <1>2, <1>3

\* The reversals of a transaction are reversals the ledger has not seen.
LEMMA MirrorsAreReversals ==
  ASSUME RInv, NEW q \in Req, NEW M, M \subseteq MirrorsOf(q), M \subseteq newEntries[q]
  PROVE  M \in Book!Some(Book!Reversals(doc[q], voiding[q], reversal[q], q))
<1>1. IInv /\ TypeOK
  BY DEF RInv, IInv
<1>2. ASSUME NEW e \in M
      PROVE  e \in Book!Reversals(doc[q], voiding[q], reversal[q], q)
  <2>1. PICK x \in entries :
          /\ x.doc = doc[q] /\ x.run = voiding[q]
          /\ e = Book!Line(doc[q], reversal[q], ReversalKey(voiding[q], x.key), q)
    BY <1>2 DEF MirrorsOf
  <2>2. e.key = ReversalKey(voiding[q], x.key) /\ e.doc = doc[q]
    BY <2>1 DEF Book!Line
  <2>3. Len(e.key) > 1
    <3>1. x.key \in LineKey /\ voiding[q] \in Nat
      BY <1>1 DEF TypeOK, Entry
    <3>2. Len(x.key) \in Nat /\ Len(x.key) # 0
      BY <3>1 DEF LineKey
    <3>3. Len(e.key) = Len(x.key) + 1
      BY <2>2, <3>1, KeyType
    <3>4. QED
      BY <3>2, <3>3
  <2>4. \A f \in entries : f.doc = doc[q] => f.key # e.key
    BY <2>2, <2>3, <1>1 DEF IInv, NewMirrors
  <2>5. QED
    BY <2>1, <2>2, <2>4 DEF Book!Reversals, ReversalKey
<1>3. QED
  BY <1>2 DEF Book!Some

\* A commit appends a posting, a reversal, both, or nothing to the ledger.
LEMMA CommitRefines ==
  ASSUME RInv, NEW q \in Req, Commit(q)
  PROVE  Book!Next \/ UNCHANGED <<runs, entries>>
<1> DEFINE d == doc[q]
           v == voiding[q]
           n == reversal[q]
<1>1. /\ IInv /\ TypeOK /\ Written(q) /\ FromIsFree /\ pc[q] = "commit" /\ d \in Doc
      /\ v \in Nat
  BY DEF RInv, IInv, WrittenSoFar, Commit, TypeOK
<1>2. entries' = entries \cup newEntries[q]
  BY DEF Commit, EntryView
<1>3. /\ v = NoRun => runs' = runs \cup newRuns[q]
      /\ v # NoRun => runs' = Book!VoidedBy(d, v, n) \cup newRuns[q]
  BY CommitRuns
<1>4. v # NoRun => v \in Book!VersionsOf(d)
  BY <1>1 DEF IInv, TargetIsCommitted, Committed, Book!VersionsOf
<1>5. \A m : Book!Fresh(d, m) => m \in {1} \cup {u + 1 : u \in Book!VersionsOf(d)}
  BY DEF Book!Fresh
<1>6. CASE NothingWritten(q)
  BY <1>2, <1>3, <1>6 DEF NothingWritten
<1>7. CASE Reversed(q)
  <2>1. Book!Fresh(d, n)
    <3>1. PICK r \in newRuns[q] : r = Book!Version(d, n, NoRun)
      BY <1>7 DEF Reversed
    <3>2. r.ver = n /\ r.ver \in Nat /\ \A s \in newRuns[q] : s = r
      BY <3>1, <1>1, <1>7 DEF Reversed, Book!Version, TypeOK, Run
    <3>3. QED
      BY <3>2, FirstIsFresh
  <2>2. newEntries[q] \in Book!Some(Book!Reversals(d, v, n, q))
    BY <1>7, MirrorsAreReversals DEF Reversed
  <2>3. Book!Void(d, v, n, q)
    BY <2>1, <2>2, <1>2, <1>3, <1>4, <1>7 DEF Book!Void, Reversed, NoRun
  <2>4. QED
    BY <2>1, <2>3, <1>1, <1>4, <1>5, <1>7 DEF Book!Next, Reversed
<1>8. CASE /\ newEntries[q] = {PostedLine(q)} /\ v = NoRun
           /\ newRuns[q] = {} /\ Committed(d, act[q])
  <2>1. act[q] \in Book!VersionsOf(d)
    BY <1>8 DEF Committed, Book!VersionsOf
  <2>2. Book!PostUnder(d, act[q], q)
    BY <2>1, <1>2, <1>3, <1>8 DEF Book!PostUnder, PostedLine
  <2>3. QED
    BY <2>1, <2>2, <1>1 DEF Book!Next
<1>9. ASSUME newEntries[q] = {PostedLine(q)}, v = NoRun, NEW r \in newRuns[q],
             newRuns[q] = {Book!Version(d, act[q], r.from)}
      PROVE  Book!Next
  <2>1. r = Book!Version(d, act[q], r.from) /\ r.ver = act[q] /\ r.from \in Nat
    BY <1>1, <1>9 DEF Book!Version, TypeOK, Run
  <2>2. Book!Fresh(d, act[q])
    <3>1. r.ver \in Nat /\ \A s \in newRuns[q] : s = r
      BY <1>1, <1>9, <2>1 DEF TypeOK, Run
    <3>2. QED
      BY <2>1, <3>1, FirstIsFresh
  <2>3. r.from \in Book!VersionsOf(d) \cup {0} /\ Book!Replaceable(d, r.from)
    BY <1>1 DEF FromIsFree, Committed, Book!VersionsOf, Book!Replaceable, NoRun
  <2>4. Book!Post(d, act[q], r.from, q)
    BY <2>2, <2>3, <1>2, <1>3, <1>9 DEF Book!Post, PostedLine
  <2>5. QED
    BY <2>2, <2>3, <2>4, <1>1, <1>5 DEF Book!Next
<1>10. ASSUME BothRuns(q), NEW M \in SUBSET MirrorsOf(q),
              newEntries[q] = M \cup {PostedLine(q)}
       PROVE  Book!Next
  <2>1. /\ v # NoRun /\ act[q] = n + 1
        /\ newRuns[q] = {Book!Version(d, n, NoRun), Book!Version(d, n + 1, v)}
    BY <1>10 DEF BothRuns
  <2>2. n \in Nat
    BY <1>1 DEF TypeOK
  <2>3. Book!Fresh(d, n)
    <3>1. PICK r \in newRuns[q] : r = Book!Version(d, n, NoRun)
      BY <2>1
    <3>2. r.ver = n /\ \A s \in newRuns[q] : r.ver <= s.ver
      BY <2>1, <2>2, <3>1 DEF Book!Version
    <3>3. QED
      BY <3>2, FirstIsFresh
  <2>4. Book!Replaceable(d, v)
    <3>1. \E r \in newRuns[q] : r.from = v
      BY <2>1 DEF Book!Version
    <3>2. QED
      BY <2>1, <3>1, <1>1 DEF FromIsFree, Book!Replaceable
  <2>5. M \in Book!Some(Book!Reversals(d, v, n, q))
    BY <1>10, MirrorsAreReversals
  <2>6. entries' = entries \cup M \cup {Book!Line(d, n + 1, <<n + 1>>, q)}
    BY <2>1, <1>2, <1>10 DEF PostedLine
  <2>7. runs' = Book!VoidedBy(d, v, n) \cup
                  {Book!Version(d, n, 0), Book!Version(d, n + 1, v)}
    BY <2>1, <1>3 DEF NoRun
  <2>8. Book!Repost(d, v, n, q)
    BY <2>1, <2>3, <2>4, <2>5, <2>6, <2>7, <1>4 DEF Book!Repost
  <2>9. QED
    BY <2>1, <2>3, <2>8, <1>1, <1>4, <1>5 DEF Book!Next
<1>11. QED
  BY <1>1, <1>6, <1>7, <1>8, <1>9, <1>10 DEF Written

\* The posting runs of a document type, with any number of requests at work on
\* any number of documents, behave as the abstract ledger: each request takes
\* effect in the one step in which its transaction commits.
THEOREM Refinement == Spec => ImplementsLedger
<1>1. Init => Book!Init
  BY DEF Init, Book!Init
<1>2. RInv /\ [Next]_vars => [Book!Next]_<<runs, entries>>
  <2> SUFFICES ASSUME RInv, [Next]_vars
               PROVE  Book!Next \/ UNCHANGED <<runs, entries>>
    OBVIOUS
  <2>1. ASSUME NEW q \in Req, Step(q) \/ Abort(q)
        PROVE  Book!Next \/ UNCHANGED <<runs, entries>>
    BY <2>1, CommitRefines, OnlyCommitWrites
  <2>2. ASSUME NEW q \in Req, NEW o \in Op, NEW d \in Doc, Begin(q, o, d)
        PROVE  UNCHANGED <<runs, entries>>
    BY <2>2 DEF Begin, rows
  <2>3. CASE UNCHANGED vars
    BY <2>3 DEF vars
  <2>4. QED
    BY <2>1, <2>2, <2>3 DEF Next, Quiescent
<1>3. QED
  BY <1>1, <1>2, InitRInv, NextRInv, PTL DEF Spec, ImplementsLedger, Book!Spec

----------------------------------------------------------------------------
(* Sales documents: what the operators return *)

LEMMA GreaterOfTwo ==
  ASSUME NEW a \in Int, NEW b \in Int
  PROVE  Max({a, b}) \in {a, b} /\ Max({a, b}) >= a /\ Max({a, b}) >= b
<1>1. \E x \in {a, b} : \A y \in {a, b} : x >= y
  <2>1. CASE a >= b
    BY <2>1
  <2>2. CASE b >= a
    BY <2>2
  <2> QED BY <2>1, <2>2
<1> QED BY <1>1 DEF Max

LEMMA LesserOfTwo ==
  ASSUME NEW a \in Int, NEW b \in Int
  PROVE  Min({a, b}) \in {a, b} /\ Min({a, b}) <= a
<1>1. \E x \in {a, b} : \A y \in {a, b} : x <= y
  <2>1. CASE a <= b
    BY <2>1
  <2>2. CASE b <= a
    BY <2>2
  <2> QED BY <2>1, <2>2
<1> QED BY <1>1 DEF Min

\* What leaves by one movement is no more than what is sold.
LEMMA CutsAre ==
  /\ Sold \in Nat
  /\ \A s \in Cuts :
       /\ s \in Seq(Nat \ {0}) /\ s # <<>> /\ Len(s) \in Nat /\ DOMAIN s = 1 .. Len(s)
       /\ IsFiniteSet(DOMAIN s)
       /\ \A m \in DOMAIN s : s[m] \in 0 .. Sold
<1>1. ASSUME NEW s \in Cuts
      PROVE  /\ s \in Seq(Nat \ {0}) /\ s # <<>> /\ Len(s) \in Nat /\ DOMAIN s = 1 .. Len(s)
             /\ IsFiniteSet(DOMAIN s) /\ \A m \in DOMAIN s : s[m] \in Nat
  <2>1. s \in Seq(Nat \ {0}) /\ s # <<>>
    BY CutsAssumption
  <2>2. Len(s) \in Nat /\ DOMAIN s = 1 .. Len(s)
    BY <2>1
  <2>3. IsFiniteSet(DOMAIN s)
    BY <2>2, FS_Interval
  <2> QED BY <2>1, <2>2, <2>3
<1>2. ASSUME NEW s \in Cuts
      PROVE  Sold \in Nat /\ \A m \in DOMAIN s : s[m] <= Sold
  <2>1. Total(s) \in Nat /\ \A m \in DOMAIN s : s[m] <= Total(s)
    BY <1>1, SumNat DEF Total
  <2>2. (CHOOSE t \in Cuts : TRUE) \in Cuts
    OBVIOUS
  <2>3. Total(s) = Sold
    BY <2>2, CutsAssumption DEF Sold
  <2> QED BY <2>1, <2>3
<1>3. Cuts # {}
  BY CutsAssumption
<1>4. Sold \in Nat
  BY <1>2, <1>3
<1> QED BY <1>1, <1>2, <1>4

LEMMA MovesAre ==
  ASSUME SaleTypeOK
  PROVE  /\ Len(moves) \in Nat /\ Movement = 1 .. Len(moves) /\ IsFiniteSet(Movement)
         /\ \A m \in Movement : moves[m] \in 0 .. Sold
         /\ moves = <<>> <=> Movement = {}
         /\ \A S \in SUBSET Movement : S \in UNION {SUBSET DOMAIN s : s \in Cuts}
<1>1. PICK s : s \in Cuts
  BY CutsAssumption
<1>2. CASE moves = <<>>
  <2>1. Len(moves) = 0 /\ Movement = {} /\ 1 .. 0 = {}
    BY <1>2 DEF Movement
  <2> QED BY <1>1, <1>2, <2>1, FS_EmptySet
<1>3. CASE moves \in Cuts
  <2>1. /\ moves # <<>> /\ Len(moves) \in Nat /\ Movement = 1 .. Len(moves)
        /\ IsFiniteSet(Movement) /\ \A m \in Movement : moves[m] \in 0 .. Sold
        /\ moves \in Seq(Nat \ {0})
    BY <1>3, CutsAre DEF Movement
  <2>2. Movement # {}
    BY <2>1
  <2>3. \A S \in SUBSET Movement : S \in UNION {SUBSET DOMAIN t : t \in Cuts}
    BY <1>3 DEF Movement
  <2> QED BY <2>1, <2>2, <2>3
<1> QED BY <1>2, <1>3 DEF SaleTypeOK

LEMMA LinesAre ==
  /\ <<>> \in Lines /\ NoLines \in Lines
  /\ \A f \in Lines : f \in [DOMAIN f -> 0 .. Sold]
  /\ \A S \in UNION {SUBSET DOMAIN s : s \in Cuts} : [S -> 0 .. Sold] \subseteq Lines
<1>1. PICK s : s \in Cuts
  BY CutsAssumption
<1>2. {} \in UNION {SUBSET DOMAIN t : t \in Cuts}
  BY <1>1
<1>3. <<>> \in [{} -> 0 .. Sold]
  OBVIOUS
<1>4. <<>> \in Lines
  BY <1>2, <1>3 DEF Lines
<1>5. \A f \in Lines : f \in [DOMAIN f -> 0 .. Sold]
  BY DEF Lines
<1>6. \A S \in UNION {SUBSET DOMAIN t : t \in Cuts} : [S -> 0 .. Sold] \subseteq Lines
  BY DEF Lines
<1> QED BY <1>4, <1>5, <1>6 DEF NoLines

\* A slice is within what is available of its movement.
LEMMA SlicesFit ==
  ASSUME SaleTypeOK, LinesWithin, NEW c \in Client, NEW n \in Nat
  PROVE  /\ DOMAIN Slices(c, n) \subseteq DOMAIN prev[c]
         /\ DOMAIN prev[c] \subseteq Movement
         /\ \A m \in DOMAIN Slices(c, n) :
              /\ Slices(c, n)[m] \in Nat /\ Slices(c, n)[m] <= moves[m]
              /\ prev[c][m] <= moves[m] => Slices(c, n)[m] + prev[c][m] <= moves[m]
<1> DEFINE a == Available(c)
<1>1. DOMAIN prev[c] \in {{}, Movement} /\ prev[c] \in [DOMAIN prev[c] -> Nat]
  BY DEF LinesWithin, SaleTypeOK
<1>2. /\ Movement = 1 .. Len(moves) /\ Len(moves) \in Nat
      /\ \A m \in Movement : moves[m] \in 0 .. Sold
  BY MovesAre
<1>3. DOMAIN a = DOMAIN prev[c]
  BY DEF Available
<1>4. ASSUME NEW m \in DOMAIN prev[c]
      PROVE  /\ moves[m] \in Nat /\ prev[c][m] \in Nat
             /\ a[m] \in Nat /\ a[m] <= moves[m]
             /\ prev[c][m] <= moves[m] => a[m] = moves[m] - prev[c][m]
  <2>1. moves[m] \in Nat /\ prev[c][m] \in Nat
    BY <1>1, <1>2
  <2>2. a[m] = Max({0, moves[m] - prev[c][m]})
    BY DEF Available
  <2> DEFINE d == moves[m] - prev[c][m]
  <2>3. d \in Int
    BY <2>1
  <2>4. Max({0, d}) \in {0, d} /\ Max({0, d}) >= 0 /\ Max({0, d}) >= d
    <3> HIDE DEF d
    <3> QED BY <2>3, GreaterOfTwo
  <2> QED BY <2>1, <2>2, <2>4
<1>5. ASSUME NEW m \in DOMAIN prev[c]
      PROVE  Slice(a, n, m) \in Nat /\ Slice(a, n, m) <= a[m]
  <2> DEFINE before == SumFunctionOnSet(a, 1 .. m - 1)
  <2>1. m \in Nat /\ IsFiniteSet(1 .. m - 1)
    <3>1. m \in Nat /\ m - 1 \in Int
      BY <1>1, <1>2
    <3> DEFINE k == m - 1
    <3>2. k \in Int
      BY <3>1
    <3> HIDE DEF k
    <3>3. IsFiniteSet(1 .. k)
      BY <3>2, FS_Interval
    <3> QED BY <3>1, <3>3 DEF k
  <2>2. 1 .. m - 1 \subseteq DOMAIN prev[c]
    BY <1>1, <1>2
  <2>3. \A j \in 1 .. m - 1 : a[j] \in Nat
    BY <1>4, <2>2
  <2> HIDE DEF a
  <2>4. before \in Nat
    BY <2>1, <2>3, SumNat
  <2> DEFINE d == n - before
             e == Min({a[m], d})
  <2>5. d \in Int /\ a[m] \in Nat
    BY <1>4, <2>4
  <2>6. e \in {a[m], d} /\ e <= a[m]
    <3> HIDE DEF d
    <3> QED BY <2>5, LesserOfTwo
  <2>7. e \in Int
    BY <2>5, <2>6
  <2>8. Max({0, e}) \in {0, e} /\ Max({0, e}) >= 0
    <3> HIDE DEF e
    <3> QED BY <2>7, GreaterOfTwo
  <2>9. Slice(a, n, m) = Max({0, e})
    BY DEF Slice
  <2> HIDE DEF e
  <2> QED BY <2>5, <2>6, <2>7, <2>8, <2>9
<1>6. /\ DOMAIN Slices(c, n) \subseteq DOMAIN prev[c]
      /\ \A m \in DOMAIN Slices(c, n) : Slices(c, n)[m] = Slice(a, n, m)
  BY <1>3 DEF Slices
<1>7. DOMAIN prev[c] \subseteq Movement
  BY <1>1
<1> HIDE DEF a
<1>8. ASSUME NEW m \in DOMAIN Slices(c, n)
      PROVE  /\ Slices(c, n)[m] \in Nat /\ Slices(c, n)[m] <= moves[m]
             /\ prev[c][m] <= moves[m] => Slices(c, n)[m] + prev[c][m] <= moves[m]
  <2>1. m \in DOMAIN prev[c]
    BY <1>6
  <2> QED BY <1>4, <1>5, <1>6, <2>1
<1> QED BY <1>6, <1>7, <1>8

\* The next line of a return, in movements it has not taken from yet.
LEMMA LineTaken ==
  ASSUME SaleTypeOK, LinesWithin, NEW c \in Client, NextLine(c)
  PROVE  \E n \in Nat \ {0} :
           LET s == Slices(c, n)
           IN  /\ DOMAIN s # {} /\ DOMAIN s \cap DOMAIN took[c] = {}
               /\ took' = [took EXCEPT ![c] = [m \in DOMAIN s \cup DOMAIN took[c] |->
                             IF m \in DOMAIN s THEN s[m] ELSE took[c][m]]]
               /\ want' = [want EXCEPT ![c] = Tail(want[c])]
               /\ Tail(want[c]) \in Seq(Nat \ {0})
<1> DEFINE n == Head(want[c])
           s == Slices(c, n)
<1>1. /\ want[c] # <<>> /\ Total(s) = n /\ ~Meets(s, took[c])
      /\ took' = [took EXCEPT ![c] = [m \in DOMAIN s \cup DOMAIN took[c] |->
                    IF m \in DOMAIN s
                      THEN s[m] + IF m \in DOMAIN took[c] THEN took[c][m] ELSE 0
                      ELSE took[c][m]]]
      /\ want' = [want EXCEPT ![c] = Tail(want[c])]
  BY DEF NextLine
<1>2. want[c] \in Seq(Nat \ {0})
  BY DEF SaleTypeOK
<1>3. n \in Nat \ {0} /\ Tail(want[c]) \in Seq(Nat \ {0})
  BY <1>1, <1>2
<1>4. DOMAIN s \cap DOMAIN took[c] = {}
  BY <1>1 DEF Meets
<1>5. \A m \in DOMAIN s : s[m] \in Nat
  <2> HIDE DEF n
  <2> QED BY <1>3, SlicesFit
<1> HIDE DEF s, n
<1>6. DOMAIN s # {}
  <2>1. DOMAIN s = {} => Total(s) = 0
    BY SumEmpty DEF Total
  <2> QED BY <1>1, <1>3, <2>1
<1>7. [m \in DOMAIN s \cup DOMAIN took[c] |->
         IF m \in DOMAIN s
           THEN s[m] + IF m \in DOMAIN took[c] THEN took[c][m] ELSE 0
           ELSE took[c][m]]
      = [m \in DOMAIN s \cup DOMAIN took[c] |-> IF m \in DOMAIN s THEN s[m] ELSE took[c][m]]
  <2>1. ASSUME NEW m \in DOMAIN s
        PROVE  s[m] + (IF m \in DOMAIN took[c] THEN took[c][m] ELSE 0) = s[m]
    BY <1>4, <1>5, <2>1
  <2> QED BY <2>1
<1>8. took' = [took EXCEPT ![c] = [m \in DOMAIN s \cup DOMAIN took[c] |->
                 IF m \in DOMAIN s THEN s[m] ELSE took[c][m]]]
  BY <1>1, <1>7
<1> QED BY <1>1, <1>3, <1>4, <1>6, <1>8 DEF s

----------------------------------------------------------------------------
(* The runs of a sale *)

\* A run is taken back by a run of the opposite sign, once.
LEMMA TakenBackIs ==
  ASSUME SaleTypeOK, NEW k \in DOMAIN postings
  PROVE  /\ TakenBack(k) \in Seq(SaleRun) /\ Len(TakenBack(k)) \in Nat
         /\ Len(postings) <= Len(TakenBack(k)) /\ TakenBack(k) # <<>>
         /\ ~postings[k].voided =>
              /\ Len(TakenBack(k)) = Len(postings) + 1
              /\ TakenBack(k)[Len(TakenBack(k))].sum = -postings[k].sum
              /\ ~TakenBack(k)[Len(TakenBack(k))].voided
              /\ Added(TakenBack(k)) = Added(postings) - postings[k].sum
<1>0. /\ postings \in Seq(SaleRun) /\ Len(postings) \in Nat /\ postings # <<>>
      /\ postings[k] \in SaleRun
  BY DEF SaleTypeOK
<1>a. postings[k].sum \in {1, -1} /\ postings[k].from \in Nat
  BY <1>0 DEF SaleRun
<1>b. \A e \in SaleRun : e.sum \in Int
  BY DEF SaleRun
<1>1. CASE postings[k].voided
  BY <1>0, <1>1 DEF TakenBack
<1>2. CASE ~postings[k].voided
  <2> DEFINE v == [postings[k] EXCEPT !.voided = TRUE]
             p == [postings EXCEPT ![k] = v]
             b == [sum |-> -postings[k].sum, voided |-> FALSE, from |-> 0]
  <2>1. v \in SaleRun /\ v.sum = postings[k].sum
    BY <1>0 DEF SaleRun
  <2>2. b \in SaleRun /\ b.sum = -postings[k].sum
    BY <1>a DEF SaleRun
  <2>3. ~b.voided
    OBVIOUS
  <2>4. TakenBack(k) = Append(p, b)
    BY <1>0, <1>2 DEF TakenBack
  <2> HIDE DEF v, b
  <2>5. p \in Seq(SaleRun) /\ Len(p) = Len(postings)
    BY <1>0, <2>1, RowPut
  <2>6. Added(p) = Added(postings) - postings[k].sum + v.sum
    BY <1>0, <1>b, <2>1, AddedPut
  <2> HIDE DEF p
  <2>7. /\ Append(p, b) \in Seq(SaleRun) /\ Len(Append(p, b)) = Len(p) + 1
        /\ Append(p, b)[Len(p) + 1] = b
    BY <2>2, <2>5, RowAppended
  <2>8. Added(Append(p, b)) = Added(p) + b.sum
    BY <1>b, <2>2, <2>5, AddedAppended
  <2>9. Added(postings) \in Int
    BY <1>0, <1>b, AddedRows
  <2>10. Added(TakenBack(k)) = Added(postings) - postings[k].sum
    BY <1>a, <2>1, <2>2, <2>4, <2>6, <2>8, <2>9
  <2>11. /\ TakenBack(k) \in Seq(SaleRun) /\ Len(TakenBack(k)) = Len(postings) + 1
         /\ TakenBack(k)[Len(TakenBack(k))].sum = -postings[k].sum
    BY <2>2, <2>4, <2>5, <2>7
  <2>12. ~TakenBack(k)[Len(TakenBack(k))].voided
    BY <2>3, <2>4, <2>5, <2>7
  <2>13. TakenBack(k) # <<>>
    BY <1>0, <2>11
  <2> QED BY <1>0, <1>2, <2>10, <2>11, <2>12, <2>13
<1> QED BY <1>1, <1>2

\* A posting counts the sale once more.
LEMMA PostedOn ==
  ASSUME NEW r \in Seq(SaleRun), NEW k \in Nat
  PROVE  LET t == Append(r, Posting(k))
         IN  /\ t \in Seq(SaleRun) /\ Len(t) = Len(r) + 1 /\ t # <<>>
             /\ t[Len(t)].sum = 1 /\ ~t[Len(t)].voided
             /\ Added(t) = Added(r) + 1
<1> DEFINE t == Append(r, Posting(k))
           q == Posting(k)
<1>1. q \in SaleRun /\ q.sum = 1
  BY DEF Posting, SaleRun
<1>2. ~q.voided
  BY DEF Posting
<1>3. \A e \in SaleRun : e.sum \in Int
  BY DEF SaleRun
<1> HIDE DEF q
<1>4. /\ Append(r, q) \in Seq(SaleRun) /\ Len(Append(r, q)) = Len(r) + 1
      /\ Append(r, q)[Len(r) + 1] = q
  BY <1>1, RowAppended
<1>5. Added(Append(r, q)) = Added(r) + q.sum
  BY <1>1, <1>3, AddedAppended
<1>6. t = Append(r, q)
  BY DEF q
<1>7. Append(r, q) # <<>>
  <2>1. Len(r) \in Nat
    OBVIOUS
  <2>2. Len(Append(r, q)) # 0
    BY <1>4, <2>1
  <2>3. Len(<<>>) = 0
    OBVIOUS
  <2> QED BY <2>2, <2>3, Zenon
<1> QED BY <1>1, <1>2, <1>4, <1>5, <1>6, <1>7

LEMMA NetIs == Net = Added(postings)
  BY DEF Net, Added

\* What a repost posts upon
LEMMA ReplacedIs ==
  ASSUME SaleTypeOK, NEW c \in Client
  PROVE  /\ Replaced(seen[c]) \in Seq(SaleRun) /\ Len(Replaced(seen[c])) \in Nat
         /\ seen[c] \in Nat
<1>1. seen[c] \in 0 .. Len(postings) /\ postings \in Seq(SaleRun) /\ Len(postings) \in Nat
  BY DEF SaleTypeOK
<1>2. CASE seen[c] = 0
  BY <1>1, <1>2 DEF Replaced
<1>3. CASE seen[c] # 0
  <2>1. seen[c] \in DOMAIN postings
    BY <1>1, <1>3
  <2> QED BY <1>1, <1>3, <2>1, TakenBackIs DEF Replaced
<1> QED BY <1>2, <1>3

\* The active run is there, unless there is none.
LEMMA ActiveIs ==
  ASSUME SaleTypeOK
  PROVE  /\ Active \in 0 .. Len(postings)
         /\ postings = <<>> => Active = 0
         /\ postings # <<>> /\ ~postings[Len(postings)].voided => Active = Len(postings)
<1> DEFINE A == {0} \cup {k \in DOMAIN postings : ~postings[k].voided}
<1>1. Len(postings) \in Nat /\ postings \in Seq(SaleRun) /\ DOMAIN postings = 1 .. Len(postings)
  BY DEF SaleTypeOK
<1>2. A \in SUBSET (0 .. Len(postings)) /\ A # {}
  BY <1>1
<1>3. postings # <<>> => Len(postings) \in DOMAIN postings
  BY <1>1
<1>4. Active = Max(A)
  BY DEF Active
<1>5. postings # <<>> /\ ~postings[Len(postings)].voided => Len(postings) \in A
  BY <1>3
<1> HIDE DEF A
<1>6. Max(A) \in A /\ \A y \in A : Max(A) >= y
  BY <1>1, <1>2, Largest
<1>7. Active \in 0 .. Len(postings)
  BY <1>2, <1>4, <1>6
<1>8. postings = <<>> => Active = 0
  BY <1>7
<1>9. postings # <<>> /\ ~postings[Len(postings)].voided => Active = Len(postings)
  BY <1>1, <1>4, <1>5, <1>6, <1>7
<1> QED BY <1>7, <1>8, <1>9

----------------------------------------------------------------------------
(* Types, and what a step leaves alone *)

\* A call at its end knows nothing.
LEMMA SaleCallEnds ==
  ASSUME SaleTypeOK, NEW c \in Client, End(c), postings' \in Seq(SaleRun),
         Len(postings) <= Len(postings')
  PROVE  /\ step' \in [Client -> {"idle"} \cup OfSale \cup OfReturn]
         /\ seen' \in [Client -> 0 .. Len(postings')] /\ key' \in [Client -> SUBSET Key]
         /\ want' \in [Client -> Seq(Nat \ {0})]
         /\ DOMAIN prev' = Client /\ \A d \in Client : prev'[d] \in [DOMAIN prev'[d] -> Nat]
         /\ took' \in [Client -> Lines]
         /\ step'[c] = "idle" /\ prev'[c] = <<>> /\ took'[c] = <<>>
<1>1. step' = [step EXCEPT ![c] = "idle"] /\ seen' = [seen EXCEPT ![c] = 0]
  BY DEF End, Turn
<1>2. key' = [key EXCEPT ![c] = {}] /\ want' = [want EXCEPT ![c] = <<>>]
  BY DEF End
<1>3. prev' = [prev EXCEPT ![c] = <<>>] /\ took' = [took EXCEPT ![c] = NoLines]
  BY DEF End
<1>4. step' \in [Client -> {"idle"} \cup OfSale \cup OfReturn] /\ step'[c] = "idle"
  BY <1>1 DEF SaleTypeOK
<1>5. seen' \in [Client -> 0 .. Len(postings')]
  <2>1. Len(postings) \in Nat /\ Len(postings') \in Nat
    BY DEF SaleTypeOK
  <2>2. 0 .. Len(postings) \subseteq 0 .. Len(postings') /\ 0 \in 0 .. Len(postings')
    BY <2>1
  <2>3. seen \in [Client -> 0 .. Len(postings)]
    BY DEF SaleTypeOK
  <2> QED BY <1>1, <2>2, <2>3
<1>6. key' \in [Client -> SUBSET Key]
  BY <1>2 DEF SaleTypeOK
<1>7. want' \in [Client -> Seq(Nat \ {0})]
  <2>1. <<>> \in Seq(Nat \ {0})
    OBVIOUS
  <2> QED BY <1>2, <2>1 DEF SaleTypeOK
<1>8. took' \in [Client -> Lines] /\ took'[c] = <<>>
  BY <1>3, LinesAre DEF SaleTypeOK, NoLines
<1>9. DOMAIN prev = Client /\ \A d \in Client : prev[d] \in [DOMAIN prev[d] -> Nat]
  BY DEF SaleTypeOK
<1>10. DOMAIN prev' = Client /\ prev'[c] = <<>> /\ \A d \in Client \ {c} : prev'[d] = prev[d]
  BY <1>3, <1>9
<1>11. <<>> \in [DOMAIN <<>> -> Nat]
  OBVIOUS
<1>12. \A d \in Client : prev'[d] \in [DOMAIN prev'[d] -> Nat]
  BY <1>9, <1>10, <1>11
<1> QED BY <1>4, <1>5, <1>6, <1>7, <1>8, <1>10, <1>12

LEMMA OtherCallsStand ==
  ASSUME SaleTypeOK, NEW c \in Client, SaleCall(c), NEW e \in Client, e # c
  PROVE  /\ step'[e] = step[e] /\ seen'[e] = seen[e] /\ key'[e] = key[e]
         /\ want'[e] = want[e] /\ prev'[e] = prev[e] /\ took'[e] = took[e]
<1> USE DEF SaleTypeOK, Turn, return
<1>1. ASSUME End(c)
      PROVE  /\ step'[e] = step[e] /\ seen'[e] = seen[e] /\ key'[e] = key[e]
             /\ want'[e] = want[e] /\ prev'[e] = prev[e] /\ took'[e] = took[e]
  BY <1>1 DEF End
<1>2. CASE CommitPost(c) \/ CommitVoid(c) \/ CommitRepost(c) \/ CommitReturn(c) \/ GiveUp(c)
  BY <1>1, <1>2 DEF CommitPost, CommitVoid, CommitRepost, CommitReturn, GiveUp
<1>3. CASE ReadPost(c) \/ ReadVoid(c) \/ ReadRepost(c)
  <2>1. \E l : ReadSale(c, l)
    BY <1>3 DEF ReadPost, ReadVoid, ReadRepost
  <2> QED BY <2>1 DEF ReadSale
<1>4. CASE ReadReturn(c)
  BY <1>4 DEF ReadReturn
<1>5. CASE InsertReturn(c)
  BY <1>1, <1>5 DEF InsertReturn
<1>6. CASE NextLine(c)
  BY <1>6 DEF NextLine
<1> QED BY <1>2, <1>3, <1>4, <1>5, <1>6 DEF SaleCall

\* What was noted stays so.
LEMMA NotedStays ==
  ASSUME SaleNext \/ UNCHANGED saleVars
  PROVE  history \subseteq history'
<1>1. ASSUME NEW S, Note(S)
      PROVE  history \subseteq history'
  BY <1>1 DEF Note
<1>2. ASSUME NEW c \in Client, ReadPost(c) \/ ReadVoid(c) \/ ReadRepost(c)
      PROVE  \E S : Note(S)
  <2>1. \E l : ReadSale(c, l)
    BY <1>2 DEF ReadPost, ReadVoid, ReadRepost
  <2> QED BY <2>1 DEF ReadSale
<1>3. ASSUME NEW c \in Client, ReadReturn(c)
      PROVE  \E S : Note(S)
  BY <1>3 DEF ReadReturn
<1>4. ASSUME NEW c \in Client,
             \/ CommitPost(c) \/ CommitVoid(c) \/ CommitRepost(c) \/ InsertReturn(c)
             \/ NextLine(c) \/ CommitReturn(c) \/ GiveUp(c)
      PROVE  history' = history
  BY <1>4 DEF CommitPost, CommitVoid, CommitRepost, InsertReturn, NextLine, CommitReturn, GiveUp
<1>5. UNCHANGED saleVars => history' = history
  BY DEF saleVars
<1> QED BY <1>1, <1>2, <1>3, <1>4, <1>5 DEF SaleNext, SaleCall

\* What is written, and by whom
LEMMA WhoCommits ==
  ASSUME NEW c \in Client, SaleCall(c)
  PROVE  /\ UNCHANGED sale \/ CommitPost(c) \/ CommitVoid(c) \/ CommitRepost(c)
         /\ UNCHANGED returns \/ CommitReturn(c)
<1>1. CASE ReadPost(c) \/ ReadVoid(c) \/ ReadRepost(c)
  <2>1. \E l : ReadSale(c, l)
    BY <1>1 DEF ReadPost, ReadVoid, ReadRepost
  <2> QED BY <2>1 DEF ReadSale
<1>2. CASE ReadReturn(c) \/ InsertReturn(c) \/ NextLine(c) \/ CommitReturn(c) \/ GiveUp(c)
  BY <1>2 DEF ReadReturn, InsertReturn, NextLine, CommitReturn, GiveUp
<1>3. CASE CommitPost(c) \/ CommitVoid(c) \/ CommitRepost(c)
  BY <1>3 DEF CommitPost, CommitVoid, CommitRepost
<1> QED BY <1>1, <1>2, <1>3 DEF SaleCall

\* What the commits on the sale make of its runs and its goods.
LEMMA RunsGrow ==
  ASSUME SaleTypeOK, GoodsTell, NEW c \in Client, SaleCall(c)
  PROVE  /\ postings' \in Seq(SaleRun) /\ Len(postings) <= Len(postings')
         /\ postings # <<>> => postings' # <<>>
         /\ \/ UNCHANGED <<moves, outcomes>> /\ (postings = <<>> => postings' = <<>>)
            \/ UNCHANGED <<moves, outcomes>> /\ moves # <<>>
            \/ /\ moves = <<>> /\ moves' \in Cuts /\ outcomes' = outcomes + 1
               /\ postings' # <<>>
<1>0. postings \in Seq(SaleRun) /\ Len(postings) \in Nat
  BY DEF SaleTypeOK
<1>1. ASSUME NEW r \in Seq(SaleRun), NEW k \in Nat, PostWithRun(r),
             postings' = Append(r, Posting(k)), Len(postings) <= Len(r)
      PROVE  /\ postings' \in Seq(SaleRun) /\ Len(postings) <= Len(postings') /\ postings' # <<>>
             /\ \/ UNCHANGED <<moves, outcomes>> /\ moves # <<>>
                \/ moves = <<>> /\ moves' \in Cuts /\ outcomes' = outcomes + 1
  <2>1. /\ postings' \in Seq(SaleRun) /\ Len(postings') = Len(r) + 1 /\ postings' # <<>>
    BY <1>1, PostedOn
  <2>2. Len(r) \in Nat
    OBVIOUS
  <2> QED BY <1>0, <1>1, <2>1, <2>2 DEF PostWithRun, Leaves
<1>2. CASE CommitPost(c)
  <2>1. /\ PostWithRun(postings) /\ postings' = Append(postings, Posting(0))
        /\ Len(postings) <= Len(postings)
    BY <1>0, <1>2 DEF CommitPost
  <2> QED BY <1>0, <1>1, <2>1
<1>3. CASE CommitRepost(c)
  <2> DEFINE r == Replaced(seen[c])
  <2>1. PostWithRun(r) /\ postings' = Append(r, Posting(seen[c]))
    BY <1>3 DEF CommitRepost
  <2>2. r \in Seq(SaleRun) /\ seen[c] \in Nat
    BY ReplacedIs
  <2>3. Len(postings) <= Len(r)
    <3>1. seen[c] \in 0 .. Len(postings)
      BY DEF SaleTypeOK
    <3>2. seen[c] # 0 => seen[c] \in DOMAIN postings
      BY <1>0, <3>1
    <3> QED BY <1>0, <3>2, TakenBackIs DEF Replaced
  <2> HIDE DEF r
  <2> QED BY <1>0, <1>1, <2>1, <2>2, <2>3
<1>4. CASE CommitVoid(c)
  <2>1. seen[c] \in DOMAIN postings
    <3>1. seen[c] \in 0 .. Len(postings) /\ seen[c] # 0
      BY <1>4 DEF SaleTypeOK, GoodsTell, CommitVoid
    <3> QED BY <1>0, <3>1
  <2>2. postings' = TakenBack(seen[c]) /\ UNCHANGED <<moves, outcomes>>
    BY <1>4 DEF CommitVoid
  <2>3. postings # <<>>
    BY <2>1
  <2> QED BY <2>1, <2>2, <2>3, TakenBackIs
<1>5. CASE ~(CommitPost(c) \/ CommitVoid(c) \/ CommitRepost(c))
  <2>1. UNCHANGED sale
    BY <1>5, WhoCommits
  <2> QED BY <1>0, <2>1 DEF sale
<1> QED BY <1>2, <1>3, <1>4, <1>5

----------------------------------------------------------------------------
(* What has come back *)

LEMMA OperationsAre ==
  ASSUME SaleTypeOK, NEW r \in DOMAIN returns
  PROVE  /\ returns[r] \in Operation /\ returns[r].key \in Key /\ returns[r].sale \in Int
         /\ returns[r].lines \in [DOMAIN returns[r].lines -> 0 .. Sold]
<1>1. returns[r] \in Operation
  BY DEF SaleTypeOK
<1>2. returns[r].lines \in Lines
  BY <1>1 DEF Operation
<1> QED BY <1>1, <1>2, LinesAre DEF Operation

LEMMA ReturnedRows ==
  ASSUME SaleTypeOK, NEW m
  PROVE  /\ IsFiniteSet(DOMAIN returns)
         /\ \A r \in DOMAIN returns : Back(returns[r], m) \in Nat
         /\ Returned(m) \in Nat
<1> DEFINE f == [r \in DOMAIN returns |-> Back(returns[r], m)]
<1>1. IsFiniteSet(DOMAIN returns)
  <2>1. Len(returns) \in Nat /\ DOMAIN returns = 1 .. Len(returns)
    BY DEF SaleTypeOK
  <2> QED BY <2>1, FS_Interval
<1>2. ASSUME NEW r \in DOMAIN returns
      PROVE  Back(returns[r], m) \in Nat
  <2>1. returns[r].lines \in [DOMAIN returns[r].lines -> 0 .. Sold] /\ Sold \in Nat
    BY OperationsAre, CutsAre
  <2> QED BY <2>1 DEF Back
<1>3. \A r \in DOMAIN returns : f[r] \in Nat
  BY <1>2
<1>4. Returned(m) = SumFunctionOnSet(f, DOMAIN returns)
  BY DEF Returned
<1> HIDE DEF f
<1>5. Returned(m) \in Nat
  BY <1>1, <1>3, <1>4, SumNat
<1> QED BY <1>1, <1>2, <1>5

\* Of a movement no return names, nothing has come back.
LEMMA NothingReturned ==
  ASSUME SaleTypeOK, NEW m, \A r \in DOMAIN returns : m \notin DOMAIN returns[r].lines
  PROVE  Returned(m) = 0
<1> DEFINE f == [r \in DOMAIN returns |-> Back(returns[r], m)]
<1>1. \A r \in DOMAIN returns : f[r] = 0
  BY DEF Back
<1>2. Returned(m) = SumFunctionOnSet(f, DOMAIN returns)
  BY DEF Returned
<1>3. IsFiniteSet(DOMAIN returns)
  BY ReturnedRows
<1> HIDE DEF f
<1> QED BY <1>1, <1>2, <1>3, SumZero

\* The operation that a commit adds
LEMMA ReturnAdded ==
  ASSUME SaleTypeOK, KeysHeld, NEW c \in Client, CommitReturn(c)
  PROVE  LET n == Len(returns')
         IN  /\ returns' \in Seq(Operation) /\ n = Len(returns) + 1
             /\ DOMAIN returns' = DOMAIN returns \cup {n} /\ n \notin DOMAIN returns
             /\ \A r \in DOMAIN returns : returns'[r] = returns[r]
             /\ key[c] = {returns'[n].key} /\ returns'[n].lines = took[c]
             /\ returns'[n].sale = Net
<1>1. PICK k \in Key : key[c] = {k}
  BY DEF CommitReturn, KeysHeld, OfReturn
<1> DEFINE o == [key |-> k, lines |-> took[c], sale |-> Net]
<1>2. (CHOOSE j \in key[c] : TRUE) = k
  BY <1>1
<1>3. returns' = Append(returns, o)
  BY <1>2 DEF CommitReturn
<1>4. Net \in Int
  <2>1. postings \in Seq(SaleRun)
    BY DEF SaleTypeOK
  <2>2. \A e \in SaleRun : e.sum \in Int
    BY DEF SaleRun
  <2> QED BY <2>1, <2>2, AddedRows, NetIs
<1>5. took[c] \in Lines
  BY DEF SaleTypeOK
<1>6. o \in Operation /\ o.key = k /\ o.lines = took[c] /\ o.sale = Net
  BY <1>1, <1>4, <1>5 DEF Operation
<1>7. returns \in Seq(Operation)
  BY DEF SaleTypeOK
<1> HIDE DEF o
<1>8. /\ returns' \in Seq(Operation) /\ Len(returns') = Len(returns) + 1
      /\ DOMAIN returns' = DOMAIN returns \cup {Len(returns')}
      /\ Len(returns') \notin DOMAIN returns
      /\ returns'[Len(returns')] = o
      /\ \A r \in DOMAIN returns : returns'[r] = returns[r]
  BY <1>3, <1>6, <1>7, RowAppended
<1> QED BY <1>1, <1>6, <1>8

\* It takes back what it has written.
LEMMA ReturnedAdded ==
  ASSUME SaleTypeOK, KeysHeld, NEW c \in Client, CommitReturn(c), NEW m
  PROVE  Returned(m)' = Returned(m) + IF m \in DOMAIN took[c] THEN took[c][m] ELSE 0
<1> DEFINE n == Len(returns')
           b == IF m \in DOMAIN took[c] THEN took[c][m] ELSE 0
           f == [r \in DOMAIN returns |-> Back(returns[r], m)]
           g == [r \in DOMAIN returns' |-> Back(returns'[r], m)]
<1>1. /\ DOMAIN returns' = DOMAIN returns \cup {n} /\ n \notin DOMAIN returns
      /\ \A r \in DOMAIN returns : returns'[r] = returns[r]
      /\ returns'[n].lines = took[c]
  BY ReturnAdded
<1>2. b \in Nat
  <2>1. took[c] \in [DOMAIN took[c] -> 0 .. Sold] /\ Sold \in Nat
    BY LinesAre, CutsAre DEF SaleTypeOK
  <2> QED BY <2>1
<1>3. IsFiniteSet(DOMAIN returns) /\ \A r \in DOMAIN returns : Back(returns[r], m) \in Nat
  BY ReturnedRows
<1>4. \A r \in DOMAIN returns : f[r] \in Int /\ g[r] = f[r]
  BY <1>1, <1>3
<1>5. g[n] = b
  BY <1>1 DEF Back
<1>6. /\ Returned(m) = SumFunctionOnSet(f, DOMAIN returns)
      /\ Returned(m)' = SumFunctionOnSet(g, DOMAIN returns \cup {n})
  BY <1>1 DEF Returned
<1> HIDE DEF f, g, n, b
<1>7. \A r \in DOMAIN returns \cup {n} : g[r] \in Int
  BY <1>2, <1>4, <1>5
<1>8. SumFunctionOnSet(g, DOMAIN returns \cup {n}) = SumFunctionOnSet(g, DOMAIN returns) + g[n]
  BY <1>1, <1>3, <1>7, SumAdd
<1>9. SumFunctionOnSet(g, DOMAIN returns) = SumFunctionOnSet(f, DOMAIN returns)
  BY <1>3, <1>4, SumSame
<1>10. Returned(m)' = Returned(m) + b
  BY <1>5, <1>6, <1>8, <1>9
<1> QED BY <1>10 DEF b

LEMMA SaleTypes ==
  ASSUME SaleTypeOK, KeysHeld, GoodsTell, LinesWithin, SaleNext \/ UNCHANGED saleVars
  PROVE  SaleTypeOK'
<1> USE DEF sale, return
<1> HIDE DEF Lines, SaleRun, Operation
<1>0. Len(postings) \in Nat /\ Len(returns) \in Nat
  BY DEF SaleTypeOK
<1>1. CASE UNCHANGED saleVars
  BY <1>1 DEF saleVars, SaleTypeOK
<1>2. ASSUME NEW c \in Client, SaleCall(c)
      PROVE  /\ postings' \in Seq(SaleRun) /\ Len(postings) <= Len(postings')
             /\ moves' \in Cuts \cup {<<>>} /\ outcomes' \in Nat
  <2>1. /\ postings' \in Seq(SaleRun) /\ Len(postings) <= Len(postings')
        /\ \/ UNCHANGED <<moves, outcomes>>
           \/ moves' \in Cuts /\ outcomes' = outcomes + 1
    BY <1>2, RunsGrow
  <2> QED BY <2>1 DEF SaleTypeOK
<1>3. ASSUME NEW c \in Client, CommitPost(c) \/ CommitVoid(c) \/ CommitRepost(c)
      PROVE  SaleTypeOK'
  <2>1. SaleCall(c)
    BY <1>3 DEF SaleCall
  <2>2. End(c) /\ UNCHANGED returns /\ status' \in {"DRAFT", "POSTED"}
    BY <1>3 DEF CommitPost, CommitVoid, CommitRepost, PostWithRun
  <2>3. /\ postings' \in Seq(SaleRun) /\ Len(postings) <= Len(postings')
        /\ moves' \in Cuts \cup {<<>>} /\ outcomes' \in Nat
    BY <1>2, <2>1
  <2>4. /\ step' \in [Client -> {"idle"} \cup OfSale \cup OfReturn]
        /\ seen' \in [Client -> 0 .. Len(postings')] /\ key' \in [Client -> SUBSET Key]
        /\ want' \in [Client -> Seq(Nat \ {0})]
        /\ DOMAIN prev' = Client /\ \A d \in Client : prev'[d] \in [DOMAIN prev'[d] -> Nat]
        /\ took' \in [Client -> Lines]
    BY <2>2, <2>3, SaleCallEnds
  <2> QED BY <2>2, <2>3, <2>4 DEF SaleTypeOK
<1>4. ASSUME NEW c \in Client, ReadPost(c) \/ ReadVoid(c) \/ ReadRepost(c)
      PROVE  SaleTypeOK'
  <2>1. PICK l \in OfSale : ReadSale(c, l)
    BY <1>4 DEF ReadPost, ReadVoid, ReadRepost, OfSale
  <2>2. seen' \in [Client -> 0 .. Len(postings)]
    <3>1. Active \in 0 .. Len(postings) /\ seen' = [seen EXCEPT ![c] = Active]
      BY <2>1, ActiveIs DEF ReadSale
    <3> QED BY <3>1 DEF SaleTypeOK
  <2>3. step' \in [Client -> {"idle"} \cup OfSale \cup OfReturn]
    BY <2>1 DEF ReadSale, Turn, SaleTypeOK
  <2> QED BY <2>1, <2>2, <2>3 DEF ReadSale, SaleTypeOK
<1>5. ASSUME NEW c \in Client, ReadReturn(c)
      PROVE  SaleTypeOK'
  <2>1. PICK k \in Key, w \in Requests :
          /\ key' = [key EXCEPT ![c] = {k}] /\ want' = [want EXCEPT ![c] = w]
          /\ Turn(c, "insert") /\ UNCHANGED <<sale, returns, seen, prev, took>>
    BY <1>5 DEF ReadReturn
  <2>2. w \in Seq(Nat \ {0})
    BY RequestsAssumption
  <2>3. key' \in [Client -> SUBSET Key] /\ want' \in [Client -> Seq(Nat \ {0})]
    BY <2>1, <2>2 DEF SaleTypeOK
  <2>4. step' \in [Client -> {"idle"} \cup OfSale \cup OfReturn]
    BY <2>1 DEF Turn, OfReturn, SaleTypeOK
  <2> QED BY <2>1, <2>3, <2>4 DEF SaleTypeOK
<1>6. ASSUME NEW c \in Client, End(c), UNCHANGED <<sale, returns>>
      PROVE  SaleTypeOK'
  <2>1. postings' \in Seq(SaleRun) /\ Len(postings) <= Len(postings')
    BY <1>0, <1>6 DEF SaleTypeOK
  <2>2. /\ step' \in [Client -> {"idle"} \cup OfSale \cup OfReturn]
        /\ seen' \in [Client -> 0 .. Len(postings')] /\ key' \in [Client -> SUBSET Key]
        /\ want' \in [Client -> Seq(Nat \ {0})]
        /\ DOMAIN prev' = Client /\ \A d \in Client : prev'[d] \in [DOMAIN prev'[d] -> Nat]
        /\ took' \in [Client -> Lines]
    BY <1>6, <2>1, SaleCallEnds
  <2> QED BY <1>6, <2>1, <2>2 DEF SaleTypeOK
<1>7. ASSUME NEW c \in Client, InsertReturn(c)
      PROVE  SaleTypeOK'
  <2>1. CASE End(c)
    BY <1>6, <1>7, <2>1 DEF InsertReturn
  <2>2. CASE ~End(c)
    <3> DEFINE p == [m \in Movement |-> Returned(m)]
    <3>1. /\ prev' = [prev EXCEPT ![c] = p] /\ Turn(c, "line")
          /\ UNCHANGED <<seen, key, want, took, sale, returns>>
      BY <1>7, <2>2 DEF InsertReturn
    <3>2. \A m \in Movement : Returned(m) \in Nat
      BY ReturnedRows
    <3>3. p \in [DOMAIN p -> Nat]
      BY <3>2
    <3> HIDE DEF p
    <3>4. DOMAIN prev = Client /\ \A d \in Client : prev[d] \in [DOMAIN prev[d] -> Nat]
      BY DEF SaleTypeOK
    <3>5. DOMAIN prev' = Client /\ prev'[c] = p /\ \A d \in Client \ {c} : prev'[d] = prev[d]
      BY <3>1, <3>4
    <3>6. \A d \in Client : prev'[d] \in [DOMAIN prev'[d] -> Nat]
      BY <3>3, <3>4, <3>5
    <3>7. step' \in [Client -> {"idle"} \cup OfSale \cup OfReturn]
      BY <3>1 DEF Turn, OfReturn, SaleTypeOK
    <3> QED BY <3>1, <3>5, <3>6, <3>7 DEF SaleTypeOK
  <2> QED BY <2>1, <2>2
<1>8. ASSUME NEW c \in Client, NextLine(c)
      PROVE  SaleTypeOK'
  <2>1. PICK n \in Nat \ {0} :
          LET s == Slices(c, n)
          IN  /\ took' = [took EXCEPT ![c] = [m \in DOMAIN s \cup DOMAIN took[c] |->
                             IF m \in DOMAIN s THEN s[m] ELSE took[c][m]]]
              /\ want' = [want EXCEPT ![c] = Tail(want[c])]
              /\ Tail(want[c]) \in Seq(Nat \ {0})
    BY <1>8, LineTaken
  <2> DEFINE s == Slices(c, n)
             t == [m \in DOMAIN s \cup DOMAIN took[c] |->
                     IF m \in DOMAIN s THEN s[m] ELSE took[c][m]]
  <2>2. /\ DOMAIN s \subseteq Movement
        /\ \A m \in DOMAIN s : s[m] \in Nat /\ s[m] <= moves[m]
    BY SlicesFit
  <2>3. DOMAIN took[c] \subseteq Movement /\ took[c] \in [DOMAIN took[c] -> 0 .. Sold]
    BY LinesAre DEF LinesWithin, SaleTypeOK
  <2> HIDE DEF s
  <2>4. t \in Lines
    <3>1. \A m \in DOMAIN s : s[m] \in 0 .. Sold
      <4>1. Sold \in Nat /\ \A m \in Movement : moves[m] \in 0 .. Sold
        BY CutsAre, MovesAre
      <4> QED BY <2>2, <4>1
    <3>2. t \in [DOMAIN s \cup DOMAIN took[c] -> 0 .. Sold]
      BY <2>3, <3>1
    <3>3. DOMAIN s \cup DOMAIN took[c] \in UNION {SUBSET DOMAIN q : q \in Cuts}
      BY <2>2, <2>3, MovesAre
    <3> HIDE DEF t
    <3> QED BY <3>2, <3>3, LinesAre
  <2>5. took' = [took EXCEPT ![c] = t]
    BY <2>1 DEF s
  <2> HIDE DEF t
  <2>6. took' \in [Client -> Lines]
    BY <2>4, <2>5 DEF SaleTypeOK
  <2>7. want' \in [Client -> Seq(Nat \ {0})]
    BY <2>1 DEF SaleTypeOK
  <2>8. /\ UNCHANGED <<sale, returns, seen, key, prev>>
        /\ Turn(c, "commit") \/ Turn(c, "line")
    BY <1>8 DEF NextLine
  <2>9. step' \in [Client -> {"idle"} \cup OfSale \cup OfReturn]
    BY <2>8 DEF Turn, OfReturn, SaleTypeOK
  <2> QED BY <2>6, <2>7, <2>8, <2>9 DEF SaleTypeOK
<1>9. ASSUME NEW c \in Client, CommitReturn(c)
      PROVE  SaleTypeOK'
  <2>1. returns' \in Seq(Operation)
    BY <1>9, ReturnAdded
  <2>2. End(c) /\ UNCHANGED sale
    BY <1>9 DEF CommitReturn
  <2>3. postings' \in Seq(SaleRun) /\ Len(postings) <= Len(postings')
    BY <1>0, <2>2 DEF SaleTypeOK
  <2>4. /\ step' \in [Client -> {"idle"} \cup OfSale \cup OfReturn]
        /\ seen' \in [Client -> 0 .. Len(postings')] /\ key' \in [Client -> SUBSET Key]
        /\ want' \in [Client -> Seq(Nat \ {0})]
        /\ DOMAIN prev' = Client /\ \A d \in Client : prev'[d] \in [DOMAIN prev'[d] -> Nat]
        /\ took' \in [Client -> Lines]
    BY <2>2, <2>3, SaleCallEnds
  <2> QED BY <2>1, <2>2, <2>3, <2>4 DEF SaleTypeOK
<1>10. ASSUME NEW c \in Client, GiveUp(c)
       PROVE  SaleTypeOK'
  <2>1. End(c) /\ UNCHANGED <<sale, returns>>
    BY <1>10 DEF GiveUp
  <2> QED BY <1>6, <2>1
<1> QED BY <1>1, <1>3, <1>4, <1>5, <1>7, <1>8, <1>9, <1>10 DEF SaleNext, SaleCall

----------------------------------------------------------------------------
(* What a call does to itself *)

LEMMA SaleCallGoesOn ==
  ASSUME SaleTypeOK, NEW c \in Client, SaleCall(c)
  PROVE  \/ step'[c] = "idle" /\ prev'[c] = <<>> /\ took'[c] = <<>>
         \/ /\ ReadPost(c) \/ ReadVoid(c) \/ ReadRepost(c)
            /\ step[c] = "idle" /\ step'[c] \in OfSale
            /\ prev'[c] = prev[c] /\ took'[c] = took[c]
         \/ /\ ReadReturn(c) /\ step[c] = "idle" /\ step'[c] = "insert"
            /\ prev'[c] = prev[c] /\ took'[c] = took[c]
            /\ \E k \in Key : key'[c] = {k}
         \/ /\ InsertReturn(c) /\ step[c] = "insert" /\ step'[c] = "line"
            /\ prev'[c] = [m \in Movement |-> Returned(m)]
            /\ key'[c] = key[c] /\ took'[c] = took[c] /\ ~KeyKnown(c)
            /\ ~ \E d \in Client \ {c} : step[d] \in Inserted /\ key[d] = key[c]
         \/ /\ NextLine(c) /\ step[c] = "line" /\ step'[c] \in Inserted
            /\ key'[c] = key[c] /\ prev'[c] = prev[c]
<1> USE DEF SaleTypeOK, Turn
<1>0. ASSUME End(c)
      PROVE  step'[c] = "idle" /\ prev'[c] = <<>> /\ took'[c] = <<>>
  BY <1>0 DEF End, NoLines
<1>1. CASE CommitPost(c) \/ CommitVoid(c) \/ CommitRepost(c) \/ CommitReturn(c) \/ GiveUp(c)
  BY <1>0, <1>1 DEF CommitPost, CommitVoid, CommitRepost, CommitReturn, GiveUp
<1>2. CASE ReadPost(c) \/ ReadVoid(c) \/ ReadRepost(c)
  <2>1. PICK l \in OfSale : ReadSale(c, l)
    BY <1>2 DEF ReadPost, ReadVoid, ReadRepost, OfSale
  <2> QED BY <1>2, <2>1 DEF ReadSale, return
<1>3. CASE ReadReturn(c)
  BY <1>3 DEF ReadReturn
<1>4. CASE InsertReturn(c)
  BY <1>0, <1>4 DEF InsertReturn
<1>5. CASE NextLine(c)
  BY <1>5 DEF NextLine, Inserted
<1> QED BY <1>1, <1>2, <1>3, <1>4, <1>5 DEF SaleCall

----------------------------------------------------------------------------
(* Keys *)

LEMMA KeysStep ==
  ASSUME SaleTypeOK, KeysHeld, KeyOnce, SaleNext \/ UNCHANGED saleVars
  PROVE  KeysHeld' /\ KeyOnce'
<1> DEFINE Has(e) == /\ step[e] \in OfReturn => \E k \in Key : key[e] = {k}
                     /\ step[e] \in Inserted => ~KeyKnown(e)
<1>0. \A e \in Client : Has(e)
  BY DEF KeysHeld
<1>1. CASE UNCHANGED saleVars
  BY <1>1 DEF saleVars, return, KeysHeld, KeyOnce, KeyKnown
<1>2. ASSUME NEW c \in Client, SaleCall(c)
      PROVE  KeysHeld' /\ KeyOnce'
  <2>1. \A e \in Client \ {c} : step'[e] = step[e] /\ key'[e] = key[e]
    BY <1>2, OtherCallsStand
  <2>0. "idle" \notin OfReturn \cup Inserted /\ "insert" \notin Inserted
        /\ OfSale \cap (OfReturn \cup Inserted) = {} /\ Inserted \subseteq OfReturn
        /\ "line" \in Inserted
    BY DEF OfSale, OfReturn, Inserted
  <2>2. CASE CommitReturn(c)
    <3> DEFINE n == Len(returns')
    <3>1. /\ DOMAIN returns' = DOMAIN returns \cup {n} /\ n \notin DOMAIN returns
          /\ \A r \in DOMAIN returns : returns'[r] = returns[r]
          /\ key[c] = {returns'[n].key}
      BY <2>2, ReturnAdded
    <3>2. step[c] = "commit" /\ step'[c] = "idle"
      BY <2>2 DEF CommitReturn, End, Turn, SaleTypeOK
    <3>3. ~KeyKnown(c) /\ step[c] \in Inserted
      BY <1>0, <3>2 DEF Inserted
    <3> HIDE DEF n
    <3>4. \A r \in DOMAIN returns : returns[r].key # returns'[n].key
      BY <3>1, <3>3 DEF KeyKnown
    <3>5. KeyOnce'
      BY <3>1, <3>4 DEF KeyOnce
    <3>6. ASSUME NEW e \in Client, e # c, step[e] \in Inserted
          PROVE  ~KeyKnown(e)'
      <4>1. key[e] # key[c]
        BY <3>3, <3>6 DEF KeysHeld
      <4>2. PICK k \in Key : key[e] = {k}
        BY <1>0, <2>0, <3>6
      <4>3. returns'[n].key \notin key[e]
        BY <3>1, <4>1, <4>2
      <4> QED BY <1>0, <2>1, <3>1, <3>6, <4>3 DEF KeyKnown
    <3> QED BY <1>0, <2>0, <2>1, <3>2, <3>5, <3>6 DEF KeysHeld
  <2>3. CASE ~CommitReturn(c)
    <3>1. returns' = returns
      BY <1>2, <2>3, WhoCommits
    <3>2. KeyOnce'
      BY <3>1 DEF KeyOnce
    <3>3. \A e \in Client \ {c} : Has(e)'
      BY <1>0, <2>1, <3>1 DEF KeyKnown
    <3>4. CASE step'[c] \notin OfReturn
      BY <2>0, <2>1, <3>2, <3>3, <3>4 DEF KeysHeld
    <3>5. CASE ReadReturn(c) /\ step'[c] = "insert" /\ \E k \in Key : key'[c] = {k}
      BY <2>0, <2>1, <3>2, <3>3, <3>5 DEF KeysHeld
    <3>6. CASE /\ step[c] = "insert" /\ step'[c] = "line" /\ key'[c] = key[c] /\ ~KeyKnown(c)
               /\ ~ \E d \in Client \ {c} : step[d] \in Inserted /\ key[d] = key[c]
      <4>1. \E k \in Key : key'[c] = {k}
        BY <1>0, <3>6 DEF OfReturn
      <4>2. ~KeyKnown(c)'
        BY <3>1, <3>6 DEF KeyKnown
      <4> QED BY <2>0, <2>1, <3>2, <3>3, <3>6, <4>1, <4>2 DEF KeysHeld
    <3>7. CASE step[c] = "line" /\ step'[c] \in Inserted /\ key'[c] = key[c]
      <4>1. step[c] \in Inserted /\ Has(c)'
        BY <1>0, <2>0, <3>1, <3>7 DEF KeyKnown
      <4>2. \A d, e \in Client : step'[d] \in Inserted => step[d] \in Inserted /\ key'[d] = key[d]
        BY <2>1, <3>7, <4>1
      <4> QED BY <2>1, <3>2, <3>3, <4>1, <4>2 DEF KeysHeld
    <3> HIDE DEF Has
    <3> QED BY <1>2, <2>0, <3>4, <3>5, <3>6, <3>7, SaleCallGoesOn
  <2> QED BY <2>2, <2>3
<1> QED BY <1>1, <1>2 DEF SaleNext

----------------------------------------------------------------------------
(* The goods *)

LEMMA GoodsStep ==
  ASSUME SaleTypeOK, KeysHeld, GoodsTell, GoodsLeaveOnce, LinesWithin, WithinMovement,
         SaleNext \/ UNCHANGED saleVars
  PROVE  GoodsTell' /\ GoodsLeaveOnce' /\ LinesWithin' /\ WithinMovement'
<1> DEFINE Knows(e) == /\ step[e] = "commit" => moves # <<>>
                       /\ step[e] = "void" => seen[e] # 0
           Within(e) ==
             /\ DOMAIN prev[e] \in {{}, Movement}
             /\ step[e] \notin Inserted => DOMAIN took[e] = {}
             /\ \A m \in DOMAIN took[e] : m \in Movement /\ took[e][m] <= moves[m]
<1>0. \A e \in Client : Knows(e) /\ Within(e)
  BY DEF GoodsTell, LinesWithin
<1>1. CASE UNCHANGED saleVars
  BY <1>1 DEF saleVars, return, sale, GoodsTell, GoodsLeaveOnce, LinesWithin, WithinMovement,
              Movement
<1>2. ASSUME NEW c \in Client, SaleCall(c)
      PROVE  GoodsTell' /\ GoodsLeaveOnce' /\ LinesWithin' /\ WithinMovement'
  <2>1. \A e \in Client \ {c} : /\ step'[e] = step[e] /\ seen'[e] = seen[e]
                                /\ prev'[e] = prev[e] /\ took'[e] = took[e]
    BY <1>2, OtherCallsStand
  <2>2. /\ postings # <<>> => postings' # <<>>
        /\ \/ UNCHANGED <<moves, outcomes>> /\ (postings = <<>> => postings' = <<>>)
           \/ UNCHANGED <<moves, outcomes>> /\ moves # <<>>
           \/ /\ moves = <<>> /\ moves' \in Cuts /\ outcomes' = outcomes + 1
              /\ postings' # <<>>
    BY <1>2, RunsGrow
  <2>3. moves' # <<>> <=> postings' # <<>>
    <3>1. moves = <<>> <=> postings = <<>>
      BY DEF GoodsTell
    <3>2. \A s \in Cuts : s # <<>>
      BY CutsAre
    <3> QED BY <2>2, <3>1, <3>2
  <2>4. GoodsLeaveOnce'
    <3>1. moves = <<>> <=> postings = <<>>
      BY DEF GoodsTell
    <3>2. outcomes = IF postings = <<>> THEN 0 ELSE 1
      BY DEF GoodsLeaveOnce
    <3>3. outcomes' = IF postings' = <<>> THEN 0 ELSE 1
      BY <2>2, <3>1, <3>2
    <3> QED BY <3>3 DEF GoodsLeaveOnce
  <2>5. moves' = moves \/ moves = <<>>
    BY <2>2
  <2>6. moves = <<>> => Movement = {}
    BY MovesAre
  <2>7. moves' = moves => Movement' = Movement
    BY DEF Movement
  <2>8. \A e \in Client \ {c} : Knows(e)'
    <3>1. moves # <<>> => moves' # <<>>
      BY <2>5
    <3> QED BY <1>0, <2>1, <3>1
  <2>9. \A e \in Client \ {c} : Within(e)'
    <3>1. ASSUME NEW e \in Client \ {c}
          PROVE  Within(e)'
      <4>1. Within(e) /\ step'[e] = step[e] /\ prev'[e] = prev[e] /\ took'[e] = took[e]
        BY <1>0, <2>1
      <4>2. CASE moves' = moves
        BY <2>7, <4>1, <4>2
      <4>3. CASE moves = <<>>
        BY <2>6, <4>1, <4>3
      <4> HIDE DEF Within
      <4> QED BY <2>5, <4>2, <4>3
    <3> QED BY <3>1
  <2>10. Knows(c)' /\ Within(c)'
    <3>1. CASE step'[c] = "idle" /\ prev'[c] = <<>> /\ took'[c] = <<>>
      BY <3>1
    <3>2. CASE ReadPost(c) \/ ReadVoid(c) \/ ReadRepost(c)
      <4>1. /\ step[c] = "idle" /\ step'[c] \in OfSale
            /\ prev'[c] = prev[c] /\ took'[c] = took[c]
            /\ step'[c] = "void" => seen'[c] # 0
            /\ moves' = moves
        <5>1. PICK l \in OfSale : /\ ReadSale(c, l)
                                  /\ l = "void" => Active # 0
          BY <3>2 DEF ReadPost, ReadVoid, ReadRepost, OfSale
        <5>2. step[c] = "idle" /\ step'[c] = l
          BY <5>1 DEF ReadSale, Turn, SaleTypeOK
        <5>3. seen'[c] = Active
          BY <5>1 DEF ReadSale, SaleTypeOK
        <5>4. moves' = moves /\ prev' = prev /\ took' = took
          BY <5>1 DEF ReadSale, sale, return
        <5> QED BY <5>1, <5>2, <5>3, <5>4
      <4>2. "idle" \notin Inserted /\ \A l \in OfSale : l \notin Inserted /\ l # "commit"
        BY DEF OfSale, Inserted
      <4> QED BY <1>0, <2>7, <4>1, <4>2
    <3>3. CASE ReadReturn(c) \/ InsertReturn(c)
      <4>1. moves' = moves
        BY <3>3 DEF ReadReturn, InsertReturn, sale
      <4>2. DOMAIN took[c] = {}
        <5>1. step[c] \in {"idle", "insert"}
          BY <3>3 DEF ReadReturn, InsertReturn
        <5> QED BY <1>0, <5>1 DEF Inserted
      <4>3. \/ step'[c] = "idle" /\ prev'[c] = <<>> /\ took'[c] = <<>>
            \/ /\ step'[c] \in {"insert", "line"} /\ took'[c] = took[c]
               /\ prev'[c] = prev[c] \/ prev'[c] = [m \in Movement |-> Returned(m)]
        <5>1. CASE ReadReturn(c)
          BY <5>1 DEF ReadReturn, Turn, SaleTypeOK
        <5>2. CASE InsertReturn(c)
          BY <5>2 DEF InsertReturn, End, NoLines, Turn, SaleTypeOK
        <5> QED BY <3>3, <5>1, <5>2
      <4> QED BY <1>0, <2>7, <3>1, <4>1, <4>2, <4>3
    <3>4. CASE NextLine(c)
      <4>1. /\ moves' = moves /\ prev'[c] = prev[c] /\ step[c] = "line"
            /\ step'[c] \in Inserted
        BY <3>4 DEF NextLine, sale, Turn, Inserted, SaleTypeOK
      <4>2. PICK n \in Nat \ {0} :
              LET s == Slices(c, n)
              IN  /\ DOMAIN s # {} /\ DOMAIN s \cap DOMAIN took[c] = {}
                  /\ took' = [took EXCEPT ![c] = [m \in DOMAIN s \cup DOMAIN took[c] |->
                                IF m \in DOMAIN s THEN s[m] ELSE took[c][m]]]
        BY <3>4, LineTaken
      <4> DEFINE s == Slices(c, n)
      <4>3. /\ DOMAIN s \subseteq Movement /\ DOMAIN s # {}
            /\ \A m \in DOMAIN s : s[m] <= moves[m]
        BY <4>2, SlicesFit
      <4>4. took'[c] = [m \in DOMAIN s \cup DOMAIN took[c] |->
                          IF m \in DOMAIN s THEN s[m] ELSE took[c][m]]
        BY <4>2 DEF SaleTypeOK
      <4> HIDE DEF s
      <4>5. \A m \in DOMAIN took'[c] : m \in Movement /\ took'[c][m] <= moves[m]
        BY <1>0, <4>3, <4>4
      <4>6. moves' # <<>>
        BY <2>6, <4>1, <4>3
      <4>7. step'[c] # "void"
        BY <4>1 DEF Inserted
      <4> QED BY <1>0, <2>7, <4>1, <4>5, <4>6, <4>7
    <3> HIDE DEF Knows, Within
    <3> QED BY <1>2, <3>1, <3>2, <3>3, <3>4, SaleCallGoesOn
  <2>11. WithinMovement'
    <3>1. CASE CommitReturn(c)
      <4> DEFINE n == Len(returns')
      <4>1. /\ DOMAIN returns' = DOMAIN returns \cup {n} /\ n \notin DOMAIN returns
            /\ \A r \in DOMAIN returns : returns'[r] = returns[r]
            /\ returns'[n].lines = took[c]
        BY <3>1, ReturnAdded
      <4>2. moves' = moves
        BY <3>1 DEF CommitReturn, sale
      <4> HIDE DEF n
      <4>3. \A m \in DOMAIN took[c] : m \in Movement /\ took[c][m] <= moves[m]
        BY <1>0
      <4> QED BY <2>7, <4>1, <4>2, <4>3 DEF WithinMovement
    <3>2. CASE ~CommitReturn(c)
      <4>1. returns' = returns
        BY <1>2, <3>2, WhoCommits
      <4> QED BY <2>5, <2>6, <2>7, <4>1 DEF WithinMovement
    <3> QED BY <3>1, <3>2
  <2>12. GoodsTell'
    <3> HIDE DEF Within
    <3>1. \A e \in Client : Knows(e)'
      BY <2>8, <2>10
    <3> QED BY <2>3, <3>1 DEF GoodsTell
  <2>13. LinesWithin'
    <3> HIDE DEF Knows
    <3>1. \A e \in Client : Within(e)'
      BY <2>9, <2>10
    <3> QED BY <3>1 DEF LinesWithin
  <2> QED BY <2>4, <2>11, <2>12, <2>13
<1> QED BY <1>1, <1>2 DEF SaleNext

----------------------------------------------------------------------------
(* The returns *)

LEMMA ReturnsStep ==
  ASSUME SaleTypeOK, KeysHeld, GoodsTell, LinesWithin, WithinMovement,
         ReturnsTakeTurns, WithinSale, Never({"together"}), Never({"together"})',
         SaleNext \/ UNCHANGED saleVars
  PROVE  ReturnsTakeTurns' /\ WithinSale'
<1> DEFINE Knows(e) ==
             step[e] \in Inserted =>
               /\ \A m \in DOMAIN prev[e] : prev[e][m] = Returned(m)
               /\ \A m \in DOMAIN took[e] : Returned(m) + took[e][m] <= moves[m]
<1>0. /\ \A e \in Client : Knows(e)
      /\ \A m \in Movement : Returned(m) <= moves[m]
      /\ \A d, e \in Client : step[d] \in OfReturn /\ step[e] \in OfReturn => d = e
  BY DEF ReturnsTakeTurns, WithinSale
<1>a. Inserted \subseteq OfReturn /\ "idle" \notin OfReturn /\ OfSale \cap OfReturn = {}
  BY DEF Inserted, OfReturn, OfSale
<1>1. CASE UNCHANGED saleVars
  BY <1>1 DEF saleVars, return, sale, ReturnsTakeTurns, WithinSale, Never, Returned, Movement
<1>2. ASSUME NEW c \in Client, SaleCall(c)
      PROVE  ReturnsTakeTurns' /\ WithinSale'
  <2>1. \A e \in Client \ {c} : step'[e] = step[e] /\ prev'[e] = prev[e] /\ took'[e] = took[e]
    BY <1>2, OtherCallsStand
  <2>2. CASE CommitReturn(c)
    <3>1. step[c] \in OfReturn /\ step'[c] = "idle" /\ moves' = moves
      BY <2>2 DEF CommitReturn, OfReturn, End, Turn, SaleTypeOK, sale
    <3>2. \A e \in Client : step'[e] \notin OfReturn
      BY <1>0, <1>a, <2>1, <3>1
    <3>3. ReturnsTakeTurns'
      BY <1>a, <3>2 DEF ReturnsTakeTurns
    <3>4. step[c] \in Inserted
      BY <2>2 DEF CommitReturn, Inserted
    <3>5. ASSUME NEW m \in Movement
          PROVE  Returned(m)' <= moves[m]
      <4>1. Returned(m)' = Returned(m) + IF m \in DOMAIN took[c] THEN took[c][m] ELSE 0
        BY <2>2, ReturnedAdded
      <4>2. Returned(m) \in Nat /\ Returned(m) <= moves[m]
        BY <1>0, ReturnedRows
      <4>3. m \in DOMAIN took[c] => Returned(m) + took[c][m] <= moves[m]
        BY <1>0, <3>4
      <4> QED BY <4>1, <4>2, <4>3
    <3> QED BY <3>1, <3>3, <3>5 DEF WithinSale, Movement
  <2>3. CASE ~CommitReturn(c)
    <3>0. returns' = returns
      BY <1>2, <2>3, WhoCommits
    <3>1. \A m : Returned(m)' = Returned(m)
      BY <3>0 DEF Returned
    <3>2. CASE moves' = moves
      <4>1. WithinSale'
        BY <1>0, <3>1, <3>2 DEF WithinSale, Movement
      <4>2. \A e \in Client \ {c} : Knows(e)'
        BY <1>0, <2>1, <3>1, <3>2
      <4>3. CASE step'[c] \notin OfReturn
        <5>1. Knows(c)'
          BY <1>a, <4>3
        <5>2. \A d, e \in Client : step'[d] \in OfReturn /\ step'[e] \in OfReturn => d = e
          BY <1>0, <2>1, <4>3
        <5> QED BY <4>1, <4>2, <5>1, <5>2 DEF ReturnsTakeTurns
      <4>4. CASE ReadReturn(c)
        <5>1. ~AtWork(OfReturn) /\ step'[c] = "insert"
          BY <4>4 DEF ReadReturn, Note, Never, Turn, SaleTypeOK
        <5>2. \A e \in Client \ {c} : step'[e] \notin OfReturn
          BY <2>1, <5>1 DEF AtWork
        <5>3. Knows(c)'
          BY <5>1 DEF Inserted
        <5> QED BY <4>1, <4>2, <5>2, <5>3 DEF ReturnsTakeTurns
      <4>5. CASE step[c] \in OfReturn /\ Knows(c)'
        <5>1. \A d, e \in Client : step'[d] \in OfReturn /\ step'[e] \in OfReturn => d = e
          BY <1>0, <2>1, <4>5
        <5> QED BY <4>1, <4>2, <4>5, <5>1 DEF ReturnsTakeTurns
      <4>6. CASE /\ InsertReturn(c) /\ step[c] = "insert" /\ step'[c] = "line"
                 /\ prev'[c] = [m \in Movement |-> Returned(m)]
                 /\ took'[c] = took[c]
        <5>1. step[c] \in OfReturn /\ step[c] \notin Inserted
          BY <4>6 DEF OfReturn, Inserted
        <5>2. DOMAIN took'[c] = {}
          BY <4>6, <5>1 DEF LinesWithin
        <5>3. \A m \in DOMAIN prev'[c] : prev'[c][m] = Returned(m)
          BY <4>6
        <5>4. Knows(c)'
          BY <3>1, <5>2, <5>3
        <5> QED BY <4>5, <5>1, <5>4
      <4>7. CASE NextLine(c) /\ step[c] = "line" /\ prev'[c] = prev[c]
        <5>1. step[c] \in Inserted /\ step[c] \in OfReturn
          BY <4>7 DEF OfReturn, Inserted
        <5>2. PICK n \in Nat \ {0} :
                LET s == Slices(c, n)
                IN  /\ DOMAIN s # {} /\ DOMAIN s \cap DOMAIN took[c] = {}
                    /\ took' = [took EXCEPT ![c] = [m \in DOMAIN s \cup DOMAIN took[c] |->
                                  IF m \in DOMAIN s THEN s[m] ELSE took[c][m]]]
          BY <4>7, LineTaken
        <5> DEFINE s == Slices(c, n)
        <5>3. took'[c] = [m \in DOMAIN s \cup DOMAIN took[c] |->
                            IF m \in DOMAIN s THEN s[m] ELSE took[c][m]]
          BY <5>2 DEF SaleTypeOK
        <5>4. /\ DOMAIN s \subseteq DOMAIN prev[c] /\ DOMAIN prev[c] \subseteq Movement
              /\ \A m \in DOMAIN s :
                   /\ s[m] \in Nat
                   /\ prev[c][m] <= moves[m] => s[m] + prev[c][m] <= moves[m]
          BY <5>2, SlicesFit
        <5> HIDE DEF s
        <5>5. ASSUME NEW m \in DOMAIN s
              PROVE  Returned(m) + s[m] <= moves[m]
          <6>1. prev[c][m] = Returned(m) /\ Returned(m) <= moves[m]
            BY <1>0, <5>1, <5>4
          <6>2. s[m] \in Nat /\ s[m] + prev[c][m] <= moves[m]
            BY <5>4, <6>1
          <6>3. Returned(m) \in Nat
            BY ReturnedRows
          <6>4. s[m] + Returned(m) = Returned(m) + s[m]
            BY <6>2, <6>3
          <6> QED BY <6>1, <6>2, <6>4
        <5>6. \A m \in DOMAIN took'[c] : Returned(m) + took'[c][m] <= moves[m]
          BY <1>0, <5>1, <5>3, <5>5
        <5>7. \A m \in DOMAIN prev'[c] : prev'[c][m] = Returned(m)
          BY <1>0, <4>7, <5>1
        <5>8. Knows(c)'
          BY <3>1, <3>2, <5>6, <5>7
        <5> QED BY <4>5, <5>1, <5>8
      <4> HIDE DEF Knows
      <4> QED BY <1>2, <1>a, <4>3, <4>4, <4>6, <4>7, SaleCallGoesOn
    <3>3. CASE moves' # moves
      <4>1. moves = <<>> /\ moves' \in Cuts
        BY <1>2, <3>3, RunsGrow
      <4>2. Movement = {}
        BY <4>1, MovesAre
      <4>3. CommitPost(c) \/ CommitVoid(c) \/ CommitRepost(c)
        BY <1>2, <3>3, WhoCommits DEF sale
      <4>4. step'[c] = "idle"
        BY <4>3 DEF CommitPost, CommitVoid, CommitRepost, End, Turn, SaleTypeOK
      <4>5. \A e \in Client : DOMAIN prev[e] = {} /\ DOMAIN took[e] = {}
        BY <4>2 DEF LinesWithin
      <4>6. \A e \in Client : Knows(e)'
        BY <1>a, <2>1, <4>4, <4>5
      <4>7. \A d, e \in Client : step'[d] \in OfReturn /\ step'[e] \in OfReturn => d = e
        BY <1>0, <1>a, <2>1, <4>4
      <4>8. ReturnsTakeTurns'
        BY <4>6, <4>7 DEF ReturnsTakeTurns
      <4>9. \A m : Returned(m) = 0
        BY <4>2, NothingReturned DEF WithinMovement
      <4>10. \A m \in DOMAIN moves' : moves'[m] \in 0 .. Sold
        BY <4>1, CutsAre
      <4>11. Sold \in Nat
        BY CutsAre
      <4>12. \A m \in DOMAIN moves' : Returned(m)' <= moves'[m]
        BY <3>1, <4>9, <4>10, <4>11
      <4> QED BY <4>8, <4>12 DEF WithinSale, Movement
    <3> QED BY <3>2, <3>3
  <2> QED BY <2>2, <2>3
<1> QED BY <1>1, <1>2 DEF SaleNext

----------------------------------------------------------------------------
(* The books *)

\* What a commit on the sale makes of its books, when it knows the last run.
LEMMA BooksKept ==
  ASSUME SaleTypeOK, GoodsTell, BooksStand, NEW c \in Client,
         CommitPost(c) \/ CommitVoid(c) \/ CommitRepost(c)
  PROVE  /\ postings' # <<>> /\ ~postings'[Len(postings')].voided
         /\ Net' = IF postings'[Len(postings')].sum = 1 THEN 1 ELSE 0
         /\ status' = "POSTED" <=> postings'[Len(postings')].sum = 1
<1>1. postings \in Seq(SaleRun) /\ Len(postings) \in Nat /\ Net' = Added(postings')
  BY DEF SaleTypeOK, Net, Added
<1>2. step[c] \in OfSale
  BY DEF CommitPost, CommitVoid, CommitRepost, OfSale
<1>3. seen[c] = Len(postings) /\ (postings # <<>> => step[c] # "post" /\ postings[seen[c]].sum = 1)
  BY <1>2 DEF BooksStand
<1>4. postings # <<>> => ~postings[Len(postings)].voided
  BY DEF BooksStand
<1>5. postings # <<>> => Added(postings) = 1
  BY <1>3, NetIs DEF BooksStand
<1>6. postings = <<>> => Added(postings) = 0
  BY AddedNone
<1>7. ASSUME NEW r \in Seq(SaleRun), NEW k \in Nat, postings' = Append(r, Posting(k)),
             Added(r) = 0, status' = "POSTED"
      PROVE  /\ postings' # <<>> /\ ~postings'[Len(postings')].voided
             /\ Net' = IF postings'[Len(postings')].sum = 1 THEN 1 ELSE 0
             /\ status' = "POSTED" <=> postings'[Len(postings')].sum = 1
  <2>1. /\ postings' # <<>> /\ postings'[Len(postings')].sum = 1
        /\ Added(postings') = 0 + 1
    BY <1>7, PostedOn
  <2>2. ~postings'[Len(postings')].voided
    BY <1>7, PostedOn
  <2> QED BY <1>1, <1>7, <2>1, <2>2
<1>8. postings # <<>> =>
        /\ seen[c] \in DOMAIN postings /\ seen[c] # 0
        /\ TakenBack(seen[c]) \in Seq(SaleRun) /\ TakenBack(seen[c]) # <<>>
        /\ Added(TakenBack(seen[c])) = 0
        /\ TakenBack(seen[c])[Len(TakenBack(seen[c]))].sum = -1
  <2>1. SUFFICES ASSUME postings # <<>>
                 PROVE  /\ seen[c] \in DOMAIN postings /\ seen[c] # 0
                        /\ TakenBack(seen[c]) \in Seq(SaleRun) /\ TakenBack(seen[c]) # <<>>
                        /\ Added(TakenBack(seen[c])) = 0
                        /\ TakenBack(seen[c])[Len(TakenBack(seen[c]))].sum = -1
    OBVIOUS
  <2>2. seen[c] \in DOMAIN postings /\ seen[c] # 0
    BY <1>1, <1>3, <2>1
  <2>3. ~postings[seen[c]].voided
    BY <1>3, <1>4, <2>1
  <2>4. /\ TakenBack(seen[c]) \in Seq(SaleRun) /\ TakenBack(seen[c]) # <<>>
        /\ TakenBack(seen[c])[Len(TakenBack(seen[c]))].sum = -postings[seen[c]].sum
        /\ Added(TakenBack(seen[c])) = Added(postings) - postings[seen[c]].sum
    BY <2>2, <2>3, TakenBackIs
  <2> QED BY <1>3, <1>5, <2>1, <2>2, <2>4
<1>9. CASE CommitPost(c)
  <2>1. /\ status' = "POSTED" /\ step[c] = "post"
        /\ postings' = Append(postings, Posting(0))
    BY <1>9 DEF CommitPost, PostWithRun
  <2> QED BY <1>1, <1>3, <1>6, <1>7, <2>1
<1>10. CASE CommitVoid(c)
  <2>1. step[c] = "void" /\ postings' = TakenBack(seen[c]) /\ status' = "DRAFT"
    BY <1>10 DEF CommitVoid
  <2>2. postings # <<>>
    <3>1. seen[c] # 0
      BY <2>1 DEF GoodsTell
    <3>2. Len(<<>>) = 0
      OBVIOUS
    <3> QED BY <1>3, <3>1, <3>2, Zenon
  <2>3. ~postings'[Len(postings')].voided
    <3>1. ~postings[seen[c]].voided
      BY <1>3, <1>4, <2>2
    <3> QED BY <1>8, <2>1, <2>2, <3>1, TakenBackIs
  <2> QED BY <1>1, <1>8, <2>1, <2>2, <2>3
<1>11. CASE CommitRepost(c)
  <2>1. postings' = Append(Replaced(seen[c]), Posting(seen[c])) /\ status' = "POSTED"
    BY <1>11 DEF CommitRepost, PostWithRun
  <2>2. Replaced(seen[c]) \in Seq(SaleRun) /\ seen[c] \in Nat
    BY ReplacedIs
  <2>3. Added(Replaced(seen[c])) = 0
    <3>1. CASE postings = <<>>
      <4>1. seen[c] = 0
        BY <1>3, <3>1
      <4> QED BY <1>6, <3>1, <4>1 DEF Replaced
    <3>2. CASE postings # <<>>
      BY <1>8, <3>2 DEF Replaced
    <3> QED BY <3>1, <3>2
  <2> QED BY <1>7, <2>1, <2>2, <2>3
<1> QED BY <1>9, <1>10, <1>11

LEMMA BooksStep ==
  ASSUME SaleTypeOK, KeysHeld, GoodsTell, BooksStand, ReturnHasSale,
         Never({"beside", "again"}), Never({"beside", "again"})',
         SaleNext \/ UNCHANGED saleVars
  PROVE  BooksStand' /\ ReturnHasSale'
<1> DEFINE Alone == \A d, e \in Client :
                      step[d] \in OfSale /\ step[e] \in OfSale \cup OfReturn => d = e
           last == postings[Len(postings)]
           Books == IF postings = <<>>
                      THEN status = "POSTED" => "entered" \in history
                      ELSE /\ ~last.voided
                           /\ Net = IF last.sum = 1 THEN 1 ELSE 0
                           /\ status = "POSTED" <=> last.sum = 1
           Knows(e) == /\ step[e] \in OfSale =>
                            /\ seen[e] = Len(postings)
                            /\ postings # <<>> => step[e] # "post" /\ postings[seen[e]].sum = 1
                       /\ step[e] \in OfReturn => status = "POSTED"
<1>0. Alone /\ Books /\ \A e \in Client : Knows(e)
  BY DEF BooksStand
<1>a. /\ "idle" \notin OfSale \cup OfReturn /\ OfSale \cap OfReturn = {}
      /\ Inserted \subseteq OfReturn /\ "insert" \in OfReturn
  BY DEF OfSale, OfReturn, Inserted
<1>b. history \subseteq history'
  BY NotedStays
<1>c. \A r \in DOMAIN returns : returns[r].sale = 1
  BY DEF ReturnHasSale
<1>d. Alone' /\ Books' /\ (\A e \in Client : Knows(e)') => BooksStand'
  BY DEF BooksStand
<1>1. CASE UNCHANGED saleVars
  BY <1>1 DEF saleVars, return, sale, BooksStand, ReturnHasSale, Never, Net
<1>2. ASSUME NEW c \in Client, SaleCall(c)
      PROVE  BooksStand' /\ ReturnHasSale'
  <2>1. \A e \in Client \ {c} : step'[e] = step[e] /\ seen'[e] = seen[e]
    BY <1>2, OtherCallsStand
  <2>2. CASE CommitPost(c) \/ CommitVoid(c) \/ CommitRepost(c)
    <3>1. step[c] \in OfSale /\ step'[c] = "idle" /\ returns' = returns
      BY <2>2 DEF CommitPost, CommitVoid, CommitRepost, OfSale, End, Turn, SaleTypeOK
    <3>2. \A e \in Client : step'[e] \notin OfSale \cup OfReturn
      BY <1>0, <1>a, <2>1, <3>1
    <3>3. Books'
      BY <2>2, BooksKept
    <3>4. Alone' /\ \A e \in Client : Knows(e)'
      BY <3>2
    <3>5. ReturnHasSale'
      BY <1>c, <3>1 DEF ReturnHasSale, Never
    <3> QED BY <1>d, <3>3, <3>4, <3>5
  <2>3. CASE ~(CommitPost(c) \/ CommitVoid(c) \/ CommitRepost(c))
    <3>0. UNCHANGED sale
      BY <1>2, <2>3, WhoCommits
    <3>1. status' = status /\ postings' = postings /\ Net' = Net
      BY <3>0 DEF sale, Net
    <3>2. Books'
      BY <1>0, <1>b, <3>1
    <3>3. \A e \in Client \ {c} : Knows(e)'
      BY <1>0, <2>1, <3>1
    <3>4. BooksStand'
      <4>1. CASE step'[c] = "idle"
        <5>1. Alone' /\ Knows(c)'
          BY <1>0, <1>a, <2>1, <4>1
        <5> QED BY <1>d, <3>2, <3>3, <5>1
      <4>2. CASE ReadPost(c) \/ ReadVoid(c) \/ ReadRepost(c)
        <5>1. PICK l \in OfSale : /\ ReadSale(c, l)
                                  /\ l = "post" => Active = 0
          BY <4>2 DEF ReadPost, ReadVoid, ReadRepost, OfSale
        <5>2. step'[c] = l /\ seen'[c] = Active
          BY <5>1 DEF ReadSale, Turn, SaleTypeOK
        <5>3. ~AtWork(OfSale \cup OfReturn) /\ ~(Active # 0 /\ postings[Active].sum = -1)
          BY <5>1 DEF ReadSale, Note, Never
        <5>4. \A e \in Client \ {c} : step'[e] \notin OfSale \cup OfReturn
          BY <2>1, <5>3 DEF AtWork
        <5>5. Active = Len(postings) /\ (postings # <<>> => Active # 0)
          <6>1. postings \in Seq(SaleRun) /\ Len(postings) \in Nat
            BY DEF SaleTypeOK
          <6>2. postings # <<>> => Active = Len(postings) /\ Len(postings) # 0
            BY <1>0, <6>1, ActiveIs
          <6>3. postings = <<>> => Active = 0 /\ Len(postings) = 0
            BY ActiveIs
          <6> QED BY <6>2, <6>3
        <5>6. postings # <<>> => postings[Active].sum = 1
          <6>1. postings \in Seq(SaleRun) /\ Active \in 0 .. Len(postings)
            BY ActiveIs DEF SaleTypeOK
          <6>2. postings # <<>> => postings[Active] \in SaleRun
            BY <5>5, <6>1
          <6> QED BY <5>3, <5>5, <6>2 DEF SaleRun
        <5>7. Knows(c)'
          <6>1. l \notin OfReturn
            BY <1>a
          <6> QED BY <3>1, <5>1, <5>2, <5>5, <5>6, <6>1
        <5>8. Alone'
          BY <5>4
        <5> HIDE DEF Alone, Books, Knows
        <5> QED BY <1>d, <3>2, <3>3, <5>7, <5>8
      <4>3. CASE ReadReturn(c)
        <5>1. status = "POSTED" /\ ~AtWork(OfSale) /\ step'[c] = "insert"
          BY <4>3 DEF ReadReturn, Note, Never, Turn, SaleTypeOK
        <5>2. \A e \in Client : step'[e] \notin OfSale
          BY <1>a, <2>1, <5>1 DEF AtWork
        <5>3. Alone' /\ Knows(c)'
          BY <3>1, <5>1, <5>2
        <5> HIDE DEF Alone, Books, Knows
        <5> QED BY <1>d, <3>2, <3>3, <5>3
      <4>4. CASE step[c] \in OfReturn /\ step'[c] \in OfReturn
        <5>1. Knows(c)'
          BY <1>0, <1>a, <3>1, <4>4
        <5>2. \A e \in Client : step[e] \notin OfSale
          BY <1>0, <1>a, <4>4
        <5>3. Alone'
          BY <1>a, <2>1, <4>4, <5>2
        <5> HIDE DEF Alone, Books, Knows
        <5> QED BY <1>d, <3>2, <3>3, <5>1, <5>3
      <4>5. {"line", "insert"} \subseteq OfReturn
        BY DEF OfReturn
      <4> QED BY <1>2, <1>a, <4>1, <4>2, <4>3, <4>4, <4>5, SaleCallGoesOn
    <3>5. ReturnHasSale'
      <4>1. CASE CommitReturn(c)
        <5> DEFINE n == Len(returns')
        <5>1. /\ DOMAIN returns' = DOMAIN returns \cup {n}
              /\ \A r \in DOMAIN returns : returns'[r] = returns[r]
              /\ returns'[n].sale = Net
          BY <4>1, ReturnAdded
        <5>2. step[c] = "commit" /\ step[c] \in OfReturn
          BY <4>1 DEF CommitReturn, OfReturn
        <5>3. postings # <<>> /\ status = "POSTED"
          BY <1>0, <5>2 DEF GoodsTell
        <5>4. Net = 1
          BY <1>0, <5>3
        <5> HIDE DEF n
        <5> QED BY <1>c, <5>1, <5>4 DEF ReturnHasSale
      <4>2. CASE ~CommitReturn(c)
        <5>1. returns' = returns
          BY <1>2, <4>2, WhoCommits
        <5> QED BY <1>c, <5>1 DEF ReturnHasSale
      <4> QED BY <4>1, <4>2
    <3> QED BY <3>4, <3>5
  <2> QED BY <2>2, <2>3
<1> QED BY <1>1, <1>2 DEF SaleNext

----------------------------------------------------------------------------
(* The whole *)

LEMMA SaleStart == SaleInit => SaleIInv
<1> SUFFICES ASSUME SaleInit
             PROVE  SaleIInv
  OBVIOUS
<1>1. postings = <<>> /\ moves = <<>> /\ outcomes = 0 /\ returns = <<>>
  BY DEF SaleInit
<1>2. \A c \in Client : step[c] = "idle" /\ prev[c] = <<>> /\ took[c] = <<>>
  BY DEF SaleInit, NoLines
<1>3. DOMAIN <<>> = {} /\ Len(<<>>) = 0 /\ <<>> \in Seq(Nat \ {0})
  OBVIOUS
<1>4. SaleTypeOK
  <2>1. <<>> \in Seq(SaleRun) /\ <<>> \in Seq(Operation) /\ <<>> \in [DOMAIN <<>> -> Nat]
    OBVIOUS
  <2>2. took \in [Client -> Lines]
    BY LinesAre DEF SaleInit
  <2>3. /\ step \in [Client -> {"idle"} \cup OfSale \cup OfReturn]
        /\ key \in [Client -> SUBSET Key]
        /\ want \in [Client -> Seq(Nat \ {0})]
        /\ DOMAIN prev = Client
    BY <1>3 DEF SaleInit
  <2>4. seen \in [Client -> 0 .. Len(postings)]
    BY <1>1, <1>3 DEF SaleInit
  <2>5. status \in {"DRAFT", "POSTED"} /\ outcomes \in Nat
    BY <1>1 DEF SaleInit
  <2> QED BY <1>1, <1>2, <2>1, <2>2, <2>3, <2>4, <2>5 DEF SaleTypeOK
<1>5. "idle" \notin OfSale \cup OfReturn \cup Inserted /\ "idle" \notin {"commit", "void"}
  BY DEF OfSale, OfReturn, Inserted
<1>6. KeysHeld /\ KeyOnce /\ GoodsTell
  BY <1>1, <1>2, <1>3, <1>5 DEF KeysHeld, KeyOnce, GoodsTell
<1>7. GoodsLeaveOnce /\ LinesWithin /\ WithinMovement
  BY <1>1, <1>2, <1>3 DEF GoodsLeaveOnce, LinesWithin, WithinMovement
<1>8. ReturnsTakeTurns /\ WithinSale
  BY <1>1, <1>2, <1>3, <1>5 DEF ReturnsTakeTurns, WithinSale, Movement
<1>9. BooksStand /\ ReturnHasSale
  <2>1. status = "POSTED" => "entered" \in history
    BY DEF SaleInit
  <2> QED BY <1>1, <1>2, <1>3, <1>5, <2>1 DEF BooksStand, ReturnHasSale
<1> QED BY <1>4, <1>6, <1>7, <1>8, <1>9 DEF SaleIInv

LEMMA SaleStep ==
  ASSUME SaleIInv, SaleNext \/ UNCHANGED saleVars
  PROVE  SaleIInv'
<1>1. /\ SaleTypeOK /\ KeysHeld /\ KeyOnce /\ GoodsTell /\ GoodsLeaveOnce
      /\ LinesWithin /\ WithinMovement
  BY DEF SaleIInv
<1>2. SaleTypeOK'
  BY <1>1, SaleTypes
<1>3. KeysHeld' /\ KeyOnce'
  BY <1>1, KeysStep
<1>4. GoodsTell' /\ GoodsLeaveOnce' /\ LinesWithin' /\ WithinMovement'
  BY <1>1, GoodsStep
<1>5. history \subseteq history'
  BY NotedStays
<1>6. ASSUME Never({"together"})'
      PROVE  ReturnsTakeTurns' /\ WithinSale'
  <2>1. Never({"together"})
    BY <1>5, <1>6 DEF Never
  <2>2. ReturnsTakeTurns /\ WithinSale
    BY <2>1 DEF SaleIInv
  <2> QED BY <1>1, <1>6, <2>1, <2>2, ReturnsStep
<1>7. ASSUME Never({"beside", "again"})'
      PROVE  BooksStand' /\ ReturnHasSale'
  <2>1. Never({"beside", "again"})
    BY <1>5, <1>7 DEF Never
  <2>2. BooksStand /\ ReturnHasSale
    BY <2>1 DEF SaleIInv
  <2> QED BY <1>1, <1>7, <2>1, <2>2, BooksStep
<1> QED BY <1>2, <1>3, <1>4, <1>6, <1>7 DEF SaleIInv

\* Over any sale, whatever calls meet on it: keys are held, the goods have left
\* exactly when there is a run, returns stay within the movements, and what holds
\* of calls that come one by one holds until the first that does not.
THEOREM SaleInvariance == SaleSpec => []SaleIInv
<1>1. SaleIInv /\ [SaleNext]_saleVars => SaleIInv'
  BY SaleStep
<1> QED BY SaleStart, <1>1, PTL DEF SaleSpec

\* Goods come back once: a key has one operation, no return takes back more of a
\* movement than left by it (createReturnWithRestock), and no more comes back than
\* was sold when returns come one after the other.
THEOREM ReturnsAlwaysAddUp == SaleSpec => []ReturnsAddUp
<1>1. SaleIInv => ReturnsAddUp
  BY DEF SaleIInv, ReturnsAddUp, WithinSale
<1> QED BY SaleInvariance, <1>1, PTL

\* The goods leave once, a sale that calls have changed one by one is in the books
\* exactly when it is POSTED (postSalesDocument, voidSalesDocument,
\* repostSalesDocument), and a return finds it there.
THEOREM SaleAlwaysAddsUp == SaleSpec => []SaleAddsUp
<1>1. ASSUME SaleIInv
      PROVE  SaleAddsUp
  <2>1. GoodsLeaveOnce
    BY <1>1 DEF SaleIInv
  <2>2. ReturnHasSale
    BY <1>1 DEF SaleIInv, ReturnHasSale
  <2>3. ASSUME Never({"beside", "again", "entered"})
        PROVE  Net = IF status = "POSTED" THEN 1 ELSE 0
    <3>1. Never({"beside", "again"}) /\ "entered" \notin history
      BY <2>3 DEF Never
    <3>2. BooksStand
      BY <1>1, <3>1 DEF SaleIInv
    <3>3. CASE postings = <<>>
      <4>1. Net = 0
        BY <3>3, NetIs, AddedNone
      <4> QED BY <3>1, <3>2, <3>3, <4>1 DEF BooksStand
    <3>4. CASE postings # <<>>
      BY <3>2, <3>4 DEF BooksStand
    <3> QED BY <3>3, <3>4
  <2>4. StatusFollowsBooks
    BY <2>3 DEF StatusFollowsBooks
  <2> QED BY <2>1, <2>2, <2>4 DEF SaleAddsUp
<1> QED BY SaleInvariance, <1>1, PTL

=============================================================================
