---------------------------- MODULE PostingRuns ----------------------------
(***************************************************************************)
(* The versioned ledger of one document type: AccountingPostingRun and     *)
(* AccountingEntry rows, as PostingRunsService writes them for its callers *)
(* postSalesDocument, voidSalesDocument and repostSalesDocument.           *)
(*                                                                         *)
(* Every request runs ONE interactive transaction at READ COMMITTED.  An   *)
(* action is one statement of it, or a few consecutive ones of which only  *)
(* the first reads rows that another request can change.  A statement      *)
(* reads the committed rows and the request's own writes (RunView,         *)
(* EntryView).  An INSERT whose unique key another open transaction holds  *)
(* waits for that transaction to end; one whose key is committed fails     *)
(* with P2002, which aborts the transaction: the statements the catch      *)
(* blocks then issue on the same tx can only fail.                         *)
(***************************************************************************)
EXTENDS Integers, Sequences, FiniteSets

CONSTANTS
  Doc,  \* documents of the document type
  Req   \* requests; each one is a single HTTP call

ASSUME DocAssumption == Doc # {}

NoRun == 0

VARIABLES
  runs,        \* committed posting runs
  entries,     \* committed accounting entries
  docStatus,   \* committed SalesDocument.status
  newRuns,     \* runs inserted by the open transaction of a request
  newEntries,  \* entries inserted by the open transaction of a request
  voiding,     \* version the open transaction has marked VOIDED, or NoRun
  reversal,    \* version it wrote to reversalRunId of that run
  pc,          \* next statement of a request
  op,          \* the endpoint called
  doc,         \* the document it is called for
  act,         \* the run the request works on: active run, then its own run
  goal,        \* what the run it is about to create is for
  top          \* the highest version the request has read

rows   == <<runs, entries, docStatus>>
writes == <<newRuns, newEntries, voiding, reversal>>
local  == <<op, doc, act, goal, top>>
vars   == <<runs, entries, docStatus, newRuns, newEntries, voiding, reversal,
            pc, op, doc, act, goal, top>>

Op == {"post", "void", "repost"}

Run == [doc: Doc, ver: Nat \ {0}, status: {"POSTED", "VOIDED"},
        rev: Nat, from: Nat]

\* The docLineId of an entry, as the runs it names: "...:run:5" is <<5>> and
\* "reversal:6:...:run:5" is <<6, 5>>, so a key of odd length is a posting (or
\* a reversal of a reversal) and one of even length takes it back.
LineKey == Seq(Nat) \ {<<>>}

Entry == [doc: Doc, run: Nat, key: LineKey, by: Req]

PC == {"idle", "active", "find", "max", "insert", "mirror", "has", "write",
       "commit", "done", "conflict", "failed"}

Answered == {"done", "conflict", "failed"}

----------------------------------------------------------------------------
(* What a statement of request q sees *)

Voided(q, r) == voiding[q] # NoRun /\ r.doc = doc[q] /\ r.ver = voiding[q]

\* Fault: the update that ends voidRun leaves reversalRunId out.
PatchedNoReversal(q, r) ==
  IF Voided(q, r) THEN [r EXCEPT !.status = "VOIDED"] ELSE r

Patched(q, r) ==
  IF Voided(q, r) THEN [r EXCEPT !.status = "VOIDED", !.rev = reversal[q]]
                  ELSE r

RunView(q) == {Patched(q, r) : r \in runs \cup newRuns[q]}

EntryView(q) == entries \cup newEntries[q]

Versions(S, d) == {r.ver : r \in {x \in S : x.doc = d}}

\* n is the highest version of d in S, NoRun when d has none: findFirst with
\* orderBy version desc, and aggregate({_max: {version}}) ?? 0.
IsLatest(S, d, n) ==
  /\ n \in Versions(S, d) \cup {NoRun}
  /\ \A v \in Versions(S, d) : v <= n

Posted(S) == {r \in S : r.status = "POSTED"}

RunEntries(q, v) == {e \in EntryView(q) : e.doc = doc[q] /\ e.run = v}

\* createEntry finds a row of the document with this docLineId
LineExists(q, k) == \E e \in EntryView(q) : e.doc = doc[q] /\ e.key = k

\* `reversal:${run.id}:${origDocLineId}`
ReversalKey(v, k) == <<v>> \o k

\* UNIQUE (docType, docId, version) and UNIQUE (repostedFromRunId)
SameKey(r, v, d, f) ==
  r.doc = d /\ (r.ver = v \/ (f # NoRun /\ r.from = f))

KeyTaken(q, v, f) ==
  \E r \in runs \cup newRuns[q] : SameKey(r, v, doc[q], f)

\* Fault: the schema has no UNIQUE (docType, docId, version).
KeyHeldByNobody(q, v, f) == FALSE

KeyHeld(q, v, f) ==
  \E p \in Req \ {q} : \E r \in newRuns[p] : SameKey(r, v, doc[q], f)

NextVersion(q) == top[q] + 1

\* repostSalesDocument passes active?.id; every other caller passes null
RepostedFrom(q) ==
  IF op[q] = "repost" /\ goal[q] = "posting" THEN act[q] ELSE NoRun

----------------------------------------------------------------------------
Init ==
  /\ runs = {} /\ entries = {}
  /\ docStatus = [d \in Doc |-> "DRAFT"]
  /\ newRuns = [q \in Req |-> {}]
  /\ newEntries = [q \in Req |-> {}]
  /\ voiding = [q \in Req |-> NoRun]
  /\ reversal = [q \in Req |-> NoRun]
  /\ pc = [q \in Req |-> "idle"]
  /\ op = [q \in Req |-> "post"]
  /\ doc = [q \in Req |-> CHOOSE d \in Doc : TRUE]
  /\ act = [q \in Req |-> NoRun]
  /\ goal = [q \in Req |-> "posting"]
  /\ top = [q \in Req |-> 0]

Goto(q, l) == pc' = [pc EXCEPT ![q] = l]

\* The request arrives: one of the three endpoints, called for a document.
Begin(q, o, d) ==
  /\ pc[q] = "idle"
  /\ op' = [op EXCEPT ![q] = o]
  /\ doc' = [doc EXCEPT ![q] = d]
  /\ Goto(q, "active")
  /\ UNCHANGED <<rows, writes, act, goal, top>>

\* getActivePostedRun.  voidSalesDocument reads it before its transaction
\* opens and answers "no active run" when there is none.
ReadActive(q) ==
  /\ pc[q] = "active"
  /\ \E a \in Versions(RunView(q), doc[q]) \cup {NoRun} :
       /\ IsLatest(Posted(RunView(q)), doc[q], a)
       /\ act' = [act EXCEPT ![q] = a]
       /\ Goto(q, IF a = NoRun
                    THEN IF op[q] = "void" THEN "done" ELSE "max"
                    ELSE IF op[q] = "post" THEN "has" ELSE "find")
  /\ UNCHANGED <<rows, writes, op, doc, goal, top>>

\* voidRun re-reads the run: a VOIDED one is left as it is.
FindRun(q) ==
  /\ pc[q] = "find"
  /\ \E r \in RunView(q) :
       /\ r.doc = doc[q] /\ r.ver = act[q]
       /\ IF r.status = "VOIDED"
            THEN /\ Goto(q, IF op[q] = "void" THEN "commit" ELSE "max")
                 /\ UNCHANGED goal
            ELSE /\ Goto(q, "max")
                 /\ goal' = [goal EXCEPT ![q] = "reversal"]
  /\ UNCHANGED <<rows, writes, op, doc, act, top>>

\* The aggregate both createNextRun and getOrCreatePostedRun issue.
ReadMax(q) ==
  /\ pc[q] = "max"
  /\ \E n \in Versions(RunView(q), doc[q]) \cup {NoRun} :
       /\ IsLatest(RunView(q), doc[q], n)
       /\ top' = [top EXCEPT ![q] = n]
  /\ Goto(q, "insert")
  /\ UNCHANGED <<rows, writes, op, doc, act, goal>>

\* The INSERT succeeds.  A run made to carry a posting becomes the run the
\* request works on; one made to carry a reversal leaves it.
InsertRun(q) ==
  /\ pc[q] = "insert"
  /\ ~KeyTaken(q, NextVersion(q), RepostedFrom(q))
  /\ ~KeyHeld(q, NextVersion(q), RepostedFrom(q))
  /\ newRuns' = [newRuns EXCEPT ![q] = @ \cup
        {[doc |-> doc[q], ver |-> NextVersion(q), status |-> "POSTED",
          rev |-> NoRun, from |-> RepostedFrom(q)]}]
  /\ IF goal[q] = "reversal"
       THEN Goto(q, "mirror") /\ UNCHANGED act
       ELSE /\ Goto(q, IF op[q] = "repost" THEN "write" ELSE "has")
            /\ act' = [act EXCEPT ![q] = NextVersion(q)]
  /\ UNCHANGED <<rows, newEntries, voiding, reversal, op, doc, goal, top>>

\* The transaction of q is gone, whatever it wrote with it.
Rollback(q, l) ==
  /\ newRuns' = [newRuns EXCEPT ![q] = {}]
  /\ newEntries' = [newEntries EXCEPT ![q] = {}]
  /\ voiding' = [voiding EXCEPT ![q] = NoRun]
  /\ reversal' = [reversal EXCEPT ![q] = NoRun]
  /\ Goto(q, l)
  /\ UNCHANGED <<rows, local>>

\* Fault: the catch block reads the version again for as long as it takes.
InsertConflictRetries(q) ==
  /\ pc[q] = "insert"
  /\ KeyTaken(q, NextVersion(q), RepostedFrom(q))
  /\ Goto(q, "max")
  /\ UNCHANGED <<rows, writes, local>>

\* The INSERT raises P2002.  The re-read of the catch block runs on the
\* aborted transaction and raises in turn, so the request fails.
InsertConflict(q) ==
  /\ pc[q] = "insert"
  /\ KeyTaken(q, NextVersion(q), RepostedFrom(q))
  /\ Rollback(q, "conflict")

\* The rest of voidRun: one reversal line per entry of the run, each one
\* through createEntry, then the run is marked VOIDED.
MirrorEntries(q) ==
  /\ pc[q] = "mirror"
  /\ newEntries' = [newEntries EXCEPT ![q] = @ \cup
        {[doc |-> doc[q], run |-> NextVersion(q), by |-> q, key |-> k] :
           k \in {ReversalKey(act[q], e.key) : e \in
                    {x \in RunEntries(q, act[q]) :
                       ~LineExists(q, ReversalKey(act[q], x.key))}}}]
  /\ voiding' = [voiding EXCEPT ![q] = act[q]]
  /\ reversal' = [reversal EXCEPT ![q] = NextVersion(q)]
  /\ goal' = [goal EXCEPT ![q] = "posting"]
  /\ Goto(q, IF op[q] = "void" THEN "commit" ELSE "max")
  /\ UNCHANGED <<rows, newRuns, op, doc, act, top>>

\* hasEntries: postSalesDocument answers "already posted" when the run has one.
CheckEntries(q) ==
  /\ pc[q] = "has"
  /\ Goto(q, IF RunEntries(q, act[q]) # {} THEN "commit" ELSE "write")
  /\ goal' = [goal EXCEPT ![q] =
        IF RunEntries(q, act[q]) # {} THEN "answer" ELSE @]
  /\ UNCHANGED <<rows, writes, op, doc, act, top>>

\* postWithRun writes the lines of the document (one stands for all of them)
\* under docLineId "...:run:<run>".
WriteEntries(q) ==
  /\ pc[q] = "write"
  /\ newEntries' = [newEntries EXCEPT ![q] = @ \cup
        IF LineExists(q, <<act[q]>>) THEN {}
        ELSE {[doc |-> doc[q], run |-> act[q], key |-> <<act[q]>>, by |-> q]}]
  /\ Goto(q, "commit")
  /\ UNCHANGED <<rows, newRuns, voiding, reversal, local>>

\* The status the handler writes to the document last: void writes DRAFT,
\* postWithRun writes POSTED, the "already posted" answer writes nothing.
StatusWritten(q) ==
  IF op[q] = "void" THEN "DRAFT"
  ELSE IF goal[q] = "answer" THEN docStatus[doc[q]] ELSE "POSTED"

Commit(q) ==
  /\ pc[q] = "commit"
  /\ runs' = RunView(q)
  /\ entries' = EntryView(q)
  /\ docStatus' = [docStatus EXCEPT ![doc[q]] = StatusWritten(q)]
  /\ newRuns' = [newRuns EXCEPT ![q] = {}]
  /\ newEntries' = [newEntries EXCEPT ![q] = {}]
  /\ voiding' = [voiding EXCEPT ![q] = NoRun]
  /\ reversal' = [reversal EXCEPT ![q] = NoRun]
  /\ Goto(q, "done")
  /\ UNCHANGED local

\* The process dies, the connection breaks or the interactive transaction
\* times out: the database rolls the transaction back.
Abort(q) ==
  /\ pc[q] \notin {"idle"} \cup Answered
  /\ Rollback(q, "failed")

Step(q) ==
  \/ ReadActive(q) \/ FindRun(q) \/ ReadMax(q) \/ InsertRun(q)
  \/ InsertConflict(q) \/ MirrorEntries(q) \/ CheckEntries(q)
  \/ WriteEntries(q) \/ Commit(q)

\* Every request is answered; the server waits for more.
Quiescent ==
  /\ \A q \in Req : pc[q] \in Answered
  /\ UNCHANGED vars

Next ==
  \/ \E q \in Req : Step(q) \/ Abort(q) \/ \E o \in Op, d \in Doc : Begin(q, o, d)
  \/ Quiescent

Spec == Init /\ [][Next]_vars

\* A request the server has taken goes on until it is answered.
FairSpec == Spec /\ \A q \in Req : WF_vars(Step(q))

----------------------------------------------------------------------------
TypeOK ==
  /\ runs \subseteq Run
  /\ entries \subseteq Entry
  /\ docStatus \in [Doc -> {"DRAFT", "POSTED"}]
  /\ newRuns \in [Req -> SUBSET Run]
  /\ newEntries \in [Req -> SUBSET Entry]
  /\ voiding \in [Req -> Nat] /\ reversal \in [Req -> Nat]
  /\ pc \in [Req -> PC] /\ op \in [Req -> Op] /\ doc \in [Req -> Doc]
  /\ act \in [Req -> Nat] /\ top \in [Req -> Nat]
  /\ goal \in [Req -> {"posting", "reversal", "answer"}]

\* The unique key on (docType, docId, version) makes the uncommitted run of a
\* request a lock on its document: no two open transactions both hold a run
\* they have inserted for it, however stale the version each has read.
PendingRunMutex ==
  \A p, q \in Req :
    p # q /\ newRuns[p] # {} /\ newRuns[q] # {} => doc[p] # doc[q]

\* Versions of a document count 1, 2, 3, ...: neither a rollback nor a lost
\* race leaves a hole or a version used twice.
Gapless ==
  /\ \A r \in runs : \A v \in 1 .. r.ver :
       \E s \in runs : s.doc = r.doc /\ s.ver = v
  /\ \A r, s \in runs : r.doc = s.doc /\ r.ver = s.ver => r = s

\* No entry is reversed twice: concurrent voids of a run may each create a
\* reversal run, but only one of them carries the reversal of an entry.
MirrorOnce ==
  \A e, f \in entries :
    e.doc = f.doc /\ e.key = f.key /\ Len(e.key) > 1 => e = f

\* A VOIDED run names a later, committed run of its document as its reversal.
ReversalFollows ==
  \A r \in runs : r.status = "VOIDED" =>
    \E s \in runs : s.doc = r.doc /\ s.ver = r.rev /\ r.ver < s.ver

\* Reversal lines and the VOIDED mark appear together: no reader ever finds
\* the reversal of an entry while the run of the entry still counts as posted.
MirrorImpliesVoided ==
  \A e \in entries : Len(e.key) > 1 =>
    \E r \in runs : r.doc = e.doc /\ r.ver = e.key[1] /\ r.status = "VOIDED"

\* What readers of the ledger of a document rely on, whatever the requests
\* that write it have read: its versions, and who takes back what, are in order.
LedgerInOrder == Gapless /\ MirrorOnce /\ ReversalFollows /\ MirrorImpliesVoided

\* The ledger is append-only: a VOIDED run stays VOIDED, and what a request
\* does to a run of the document is at most to void it.
VoidedForever ==
  [][\A r \in runs : \E s \in runs' :
       /\ s.doc = r.doc /\ s.ver = r.ver /\ s.from = r.from
       /\ r.status = "VOIDED" => s.status = "VOIDED"]_vars

Book == INSTANCE Ledger WITH Author <- Req

\* However their statements interleave, the requests change the ledger as if
\* each one did so in a single step, or not at all: a whole posting, a whole
\* reversal, or both, under the next versions of one document.
ImplementsLedger == Book!Spec

\* Requests that wait for each other's keys never wait in a circle: each one
\* that arrives is answered.
EveryRequestEnds ==
  \A q \in Req : pc[q] = "active" ~> pc[q] \in Answered

\* The insert of q waits for p to end, who has inserted the same key.
WaitsFor(q, p) ==
  /\ p # q /\ pc[q] = "insert"
  /\ \E r \in newRuns[p] : SameKey(r, NextVersion(q), doc[q], RepostedFrom(q))

\* Who is waited for waits for nobody, not even in the second insert of a repost.
NoChain ==
  \A p, q \in Req : WaitsFor(q, p) => \A o \in Req : ~WaitsFor(p, o)

----------------------------------------------------------------------------
(* The inductive invariant behind the safety properties *)

Committed(d, v) == \E r \in runs : r.doc = d /\ r.ver = v

\* The view of a request has no hole either, and its uncommitted versions are
\* versions no committed run has.
ViewsGapless ==
  \A q \in Req : \A r \in newRuns[q] :
    /\ r.doc = doc[q] /\ r.status = "POSTED" /\ ~Committed(doc[q], r.ver)
    /\ \A v \in 1 .. r.ver :
         Committed(doc[q], v) \/ \E s \in newRuns[q] : s.ver = v
    /\ \A s \in newRuns[q] : r.ver = s.ver => r = s

\* A request that has written nothing may hold a stale version, never one
\* beyond the committed runs; one that has inserted a run cannot be overtaken.
TopIsRead ==
  \A q \in Req : pc[q] = "insert" =>
    IF newRuns[q] = {}
      THEN top[q] = NoRun \/ Committed(doc[q], top[q])
      ELSE /\ \E r \in newRuns[q] : r.ver = top[q]
           /\ \A r \in newRuns[q] : r.ver <= top[q]

NothingWritten(q) == newRuns[q] = {} /\ newEntries[q] = {} /\ voiding[q] = NoRun

CleanOutside ==
  \A q \in Req :
    /\ pc[q] \in {"idle", "active", "find"} \cup Answered => NothingWritten(q)
    /\ pc[q] \in {"idle", "active", "find"} => goal[q] = "posting"
    /\ goal[q] = "reversal" => voiding[q] = NoRun

\* The run a request is about to reverse is a committed one.
TargetIsCommitted ==
  \A q \in Req :
    /\ goal[q] = "reversal" \/ pc[q] = "find" => Committed(doc[q], act[q])
    /\ pc[q] = "mirror" =>
         /\ goal[q] = "reversal"
         /\ \E r \in newRuns[q] : r.ver = NextVersion(q)
    /\ voiding[q] # NoRun =>
         /\ Committed(doc[q], voiding[q])
         /\ \E r \in newRuns[q] : r.ver = reversal[q]

\* Reversal lines not yet committed belong to the run being voided, and repeat
\* no committed line.
NewMirrors ==
  \A q \in Req : \A e \in newEntries[q] :
    /\ e.doc = doc[q]
    /\ Len(e.key) > 1 =>
         /\ voiding[q] # NoRun /\ e.key[1] = voiding[q]
         /\ \A f \in entries : e.doc = f.doc => e.key # f.key
         /\ \A f \in newEntries[q] : e.key = f.key => e = f

IInv ==
  /\ TypeOK
  /\ Gapless /\ PendingRunMutex /\ ViewsGapless /\ TopIsRead
  /\ CleanOutside /\ TargetIsCommitted /\ NewMirrors
  /\ MirrorOnce /\ ReversalFollows /\ MirrorImpliesVoided

----------------------------------------------------------------------------
(* The invariant behind the refinement: what the open transaction of q has  *)
(* written when it stands at a statement, in the terms of the ledger.       *)

PostedLine(q) == Book!Line(doc[q], act[q], <<act[q]>>, q)

\* A single run, and nothing else
OnlyRun(q, n, f) ==
  /\ newRuns[q] = {Book!Version(doc[q], n, f)}
  /\ newEntries[q] = {} /\ voiding[q] = NoRun

\* Lines that take back lines of the run being voided
MirrorsOf(q) ==
  {Book!Line(doc[q], reversal[q], ReversalKey(voiding[q], x.key), q) :
     x \in {y \in entries : y.doc = doc[q] /\ y.run = voiding[q]}}

Reversed(q) ==
  /\ voiding[q] # NoRun
  /\ newRuns[q] = {Book!Version(doc[q], reversal[q], NoRun)}
  /\ newEntries[q] \subseteq MirrorsOf(q)

\* The reversal run, and the run that replaces the one it reverses
BothRuns(q) ==
  /\ voiding[q] # NoRun /\ act[q] = reversal[q] + 1
  /\ newRuns[q] = {Book!Version(doc[q], reversal[q], NoRun),
                   Book!Version(doc[q], act[q], voiding[q])}

Written(q) ==
  /\ goal[q] = "reversal" \/ pc[q] = "find" => op[q] # "post"
  /\ pc[q] \in {"max", "insert"} =>
       /\ act[q] = NoRun \/ Committed(doc[q], act[q])
       /\ \/ NothingWritten(q)
          \/ /\ Reversed(q) /\ op[q] = "repost" /\ goal[q] = "posting"
             /\ act[q] = voiding[q]
  /\ pc[q] = "mirror" => OnlyRun(q, NextVersion(q), NoRun)
  /\ pc[q] = "has" =>
       \/ NothingWritten(q) /\ Committed(doc[q], act[q])
       \/ OnlyRun(q, act[q], NoRun)
  /\ pc[q] = "write" =>
       \/ NothingWritten(q) /\ Committed(doc[q], act[q])
       \/ \E r \in newRuns[q] : OnlyRun(q, act[q], r.from)
       \/ BothRuns(q) /\ newEntries[q] \subseteq MirrorsOf(q)
  /\ pc[q] = "commit" =>
       \/ NothingWritten(q)
       \/ Reversed(q)
       \/ /\ newEntries[q] = {PostedLine(q)} /\ voiding[q] = NoRun
          /\ \/ newRuns[q] = {} /\ Committed(doc[q], act[q])
             \/ \E r \in newRuns[q] : newRuns[q] = {Book!Version(doc[q], act[q], r.from)}
       \/ /\ BothRuns(q)
          /\ \E M \in SUBSET MirrorsOf(q) : newEntries[q] = M \cup {PostedLine(q)}

WrittenSoFar == \A q \in Req : Written(q)

\* The run that an uncommitted one replaces is committed, and no committed
\* run replaces it.
FromIsFree ==
  \A q \in Req : \A r \in newRuns[q] : r.from # NoRun =>
    /\ Committed(doc[q], r.from)
    /\ ~ \E s \in runs : s.doc = doc[q] /\ s.from = r.from

\* A line is posted under a committed run, and carries its number.
LinesHaveRuns ==
  \A e \in entries :
    Committed(e.doc, e.run) /\ (Len(e.key) = 1 => e.key[1] = e.run)

RInv == IInv /\ WrittenSoFar /\ FromIsFree /\ LinesHaveRuns

=============================================================================
