------------------------------- MODULE Documents -------------------------------
(***************************************************************************)
(* The accrual of one financial document (FinancialDocumentsService) and   *)
(* the recognition of its cost month by month by recurring journals        *)
(* (RecurringJournalsService).                                             *)
(*                                                                         *)
(* accrueDocument, called by its controller, runs without a transaction:   *)
(* each of its writes is visible at once, and the process may end between  *)
(* two of them.  The batch and a payment call it inside of a transaction,  *)
(* where all of it happens or nothing.  Calls may overlap; what is not     *)
(* promised then is stated with the help of the history variable lap.      *)
(*                                                                         *)
(* Amounts count in units: a run books the document once or takes it back. *)
(* The bounds of a journal only leave months out of a batch, which takes   *)
(* any months of the journals that are active when it lists them.          *)
(***************************************************************************)
EXTENDS Integers, Sequences, FiniteSets, FiniteSetsExt, Functions

CONSTANTS
  Client,       \* calls at work at the same time
  Month,        \* periods
  Type,         \* types of journals
  AccrualType,  \* the one an accrual of the document makes
  MaxRuns,      \* bound: posting runs of the accrual
  MaxJournals,  \* bound: recurring journals
  MaxEdits      \* bound: changes by hand

ASSUME TypeAssumption == AccrualType \in Type /\ "none" \notin Type
ASSUME BoundsAssumption == MaxRuns \in Nat /\ MaxJournals \in Nat /\ MaxEdits \in Nat

Journal == 1 .. MaxJournals
Kind == {"expense", "spread", "receipt"}

\* A journal has no source, or is one of the document, of a type.
Source == {"none"} \cup Type

VARIABLES
  kind,      \* an expense at once; spread over months; invoice of a receipt
             \* (a receipt and its entry are written together; without
             \* an entry the invoice is an expense)
  life,      \* whether the months of a document that is spread are known
  accrued,   \* FinancialDocument.isAccrued
  runs,      \* AccountingPostingRun rows of the accrual, by version
  delta,     \* whether the line of the difference to the receipt exists
  journals,  \* RecurringJournal rows
  reserved,  \* RecurringJournalRun rows, a journal and a month each
  made,      \* entries a journal has made for a month
  pc,        \* what a call does next
  flag,      \* isAccrued as a call has read it
  seen,      \* the run or the journal a call goes on with, or 0
  todo,      \* journals and months a batch has to go through
  at,        \* the journal and month a batch is at
  lap,       \* history: "accrual" or "batch" calls have overlapped
  edits      \* changes by hand so far

doc == <<kind, life, accrued, runs, delta>>
recurring == <<journals, reserved, made>>
call == <<flag, seen, todo, at>>
vars == <<doc, recurring, pc, call, lap, edits>>

Init ==
  /\ kind \in Kind /\ life \in (IF kind = "spread" THEN BOOLEAN ELSE {TRUE})
  /\ accrued = FALSE
  /\ runs = <<>> /\ delta = FALSE
  /\ journals = <<>> /\ reserved = {} /\ made = [p \in Journal \X Month |-> 0]
  /\ pc = [c \in Client |-> "idle"]
  /\ flag = [c \in Client |-> FALSE] /\ seen = [c \in Client |-> 0]
  /\ todo = [c \in Client |-> {}] /\ at = [c \in Client |-> <<>>]
  /\ lap = {} /\ edits = 0

Goto(c, l) == pc' = [pc EXCEPT ![c] = l]

End(c) ==
  /\ Goto(c, "idle")
  /\ flag' = [flag EXCEPT ![c] = FALSE] /\ seen' = [seen EXCEPT ![c] = 0]
  /\ todo' = [todo EXCEPT ![c] = {}] /\ at' = [at EXCEPT ![c] = <<>>]

Accruing == {"find", "make", "look", "insert", "flag", "journal", "upsert", "void", "voiding"}
Batching == {"batch", "month"}

\* c begins a call of a kind that others may be at.
Begin(c, l, S, what) ==
  /\ pc[c] = "idle"
  /\ Goto(c, l)
  /\ lap' = IF \E e \in Client : pc[e] \in S THEN lap \cup {what} ELSE lap

----------------------------------------------------------------------------
(* update, where the months of an asset may be given or taken away; create,  *)
(* patch and archive of a journal                                            *)

Edit == edits < MaxEdits /\ edits' = edits + 1

Update ==
  /\ Edit /\ kind = "spread"
  /\ life' = ~life
  /\ UNCHANGED <<kind, accrued, runs, delta, recurring, pc, call, lap>>

CreateJournal(t) ==
  /\ Edit /\ Len(journals) < MaxJournals
  /\ journals' = Append(journals, [status |-> "ACTIVE", source |-> t])
  /\ UNCHANGED <<doc, reserved, made, pc, call, lap>>

PatchJournal(j, s) ==
  /\ Edit /\ j \in DOMAIN journals
  /\ journals' = [journals EXCEPT ![j].status = s]
  /\ UNCHANGED <<doc, reserved, made, pc, call, lap>>

----------------------------------------------------------------------------
(* accrueDocument *)

Active == Max({0} \cup {k \in DOMAIN runs : runs[k].status = "POSTED"})

NewRun(n) == [status |-> "POSTED", lines |-> n, sum |-> n, own |-> FALSE]

\* The line of the accrual names its run, the difference to the receipt does not.
WithLine(r, own) ==
  [r EXCEPT !.lines = @ + 1, !.sum = @ + 1, !.own = @ \/ own]

\* The invoice of a receipt that is accrued is left alone.
ReadAccrue(c) ==
  /\ ~(kind = "receipt" /\ accrued)
  /\ Begin(c, "find", Accruing, "accrual")
  /\ flag' = [flag EXCEPT ![c] = accrued]
  /\ UNCHANGED <<doc, recurring, seen, todo, at, edits>>

FindRun(c) ==
  /\ pc[c] = "find"
  /\ seen' = [seen EXCEPT ![c] = Active]
  /\ Goto(c, IF Active = 0 THEN "make" ELSE "look")
  /\ UNCHANGED <<doc, recurring, flag, todo, at, lap, edits>>

MakeRun(c) ==
  /\ pc[c] = "make" /\ Len(runs) < MaxRuns
  /\ runs' = Append(runs, NewRun(0))
  /\ seen' = [seen EXCEPT ![c] = Len(runs')]
  /\ Goto(c, "look")
  /\ UNCHANGED <<kind, life, accrued, delta, recurring, flag, todo, at, lap, edits>>

\* hasEntries
Booked(r) == r.lines > 0

\* A run that has lines only has its flag set.
KeepAccrued(c) ==
  /\ pc[c] = "look" /\ kind # "receipt" /\ Booked(runs[seen[c]])
  /\ accrued' = (accrued \/ ~flag[c])
  /\ End(c)
  /\ UNCHANGED <<kind, life, runs, delta, recurring, lap, edits>>

LookUp(c) ==
  /\ pc[c] = "look" /\ kind # "receipt" /\ ~Booked(runs[seen[c]])
  /\ Goto(c, "insert")
  /\ UNCHANGED <<doc, recurring, call, lap, edits>>

\* The line is looked up by its key, which nothing makes unique.
Insert(c) ==
  /\ pc[c] = "insert"
  /\ runs' = IF runs[seen[c]].own THEN runs
             ELSE [runs EXCEPT ![seen[c]] = WithLine(@, TRUE)]
  /\ Goto(c, "flag")
  /\ UNCHANGED <<kind, life, accrued, delta, recurring, call, lap, edits>>

\* The invoice of a receipt: the difference, if there is one.
InsertDelta(c) ==
  /\ kind = "receipt" /\ pc[c] = "look"
  /\ \E n \in {0, 1} :
       IF delta \/ n = 0 THEN UNCHANGED <<runs, delta>>
       ELSE delta' = TRUE /\ runs' = [runs EXCEPT ![seen[c]] = WithLine(@, FALSE)]
  /\ Goto(c, "flag")
  /\ UNCHANGED <<kind, life, accrued, recurring, call, lap, edits>>

\* An asset without its months is refused after it has been flagged.
SetFlag(c) ==
  /\ pc[c] = "flag"
  /\ accrued' = TRUE
  /\ IF kind = "spread" /\ life
       THEN Goto(c, "journal") /\ UNCHANGED call
       ELSE End(c)
  /\ UNCHANGED <<kind, life, runs, delta, recurring, lap, edits>>

\* A journal of the document that may be of another type is not taken up.
Open == {j \in DOMAIN journals :
           journals[j].source = AccrualType /\ journals[j].status # "ARCHIVED"}

FindJournal(c) ==
  /\ pc[c] = "journal"
  /\ seen' = [seen EXCEPT ![c] = Max({0} \cup Open)]
  /\ Goto(c, "upsert")
  /\ UNCHANGED <<doc, recurring, flag, todo, at, lap, edits>>

\* The journals once journal j, or a new one, is active.
Upserted(j) ==
  IF j # 0 THEN [journals EXCEPT ![j].status = "ACTIVE"]
  ELSE Append(journals, [status |-> "ACTIVE", source |-> AccrualType])

UpsertJournal(c) ==
  /\ pc[c] = "upsert" /\ (seen[c] = 0 => Len(journals) < MaxJournals)
  /\ journals' = Upserted(seen[c])
  /\ End(c)
  /\ UNCHANGED <<doc, reserved, made, lap, edits>>

\* batchAccrue, and a payment of a document that is not accrued: the same in one
\* transaction, which an asset without its months rolls back.
AccrueAtOnce(c) ==
  LET k == Active
      r == IF k = 0 THEN NewRun(0) ELSE runs[k]
      Put(x) == IF k = 0 THEN Append(runs, x) ELSE [runs EXCEPT ![k] = x]
  IN  /\ pc[c] = "idle" /\ ~accrued /\ (k = 0 => Len(runs) < MaxRuns)
      /\ accrued' = TRUE
      /\ \/ kind # "receipt" /\ Booked(r) /\ UNCHANGED <<runs, delta, journals>>
         \/ /\ kind # "receipt" /\ ~Booked(r) /\ (kind = "spread" => life)
            /\ runs' = Put(IF r.own THEN r ELSE WithLine(r, TRUE)) /\ UNCHANGED delta
            /\ IF kind = "spread"
                 THEN /\ Open = {} => Len(journals) < MaxJournals
                      /\ journals' = Upserted(Max({0} \cup Open))
                 ELSE UNCHANGED journals
         \/ /\ kind = "receipt"
            /\ \E n \in {0, 1} :
                 IF delta \/ n = 0 THEN runs' = Put(r) /\ UNCHANGED delta
                 ELSE delta' = TRUE /\ runs' = Put(WithLine(r, FALSE))
            /\ UNCHANGED journals
      /\ lap' = IF \E e \in Client : pc[e] \in Accruing THEN lap \cup {"accrual"} ELSE lap
      /\ UNCHANGED <<kind, life, reserved, made, pc, call, edits>>

----------------------------------------------------------------------------
(* voidAccrual; the journals go on *)

ReadVoid(c) ==
  /\ Begin(c, "void", Accruing, "accrual")
  /\ UNCHANGED <<doc, recurring, call, edits>>

FindActive(c) ==
  /\ pc[c] = "void"
  /\ seen' = [seen EXCEPT ![c] = Active]
  /\ Goto(c, "voiding")
  /\ UNCHANGED <<doc, recurring, flag, todo, at, lap, edits>>

Mirror(r) == [status |-> "POSTED", lines |-> r.lines, sum |-> -r.sum, own |-> FALSE]

\* A run that has been voided meanwhile, or none, only has the flag taken away.
CommitVoid(c) ==
  LET k == seen[c]
  IN  /\ pc[c] = "voiding"
      /\ IF k = 0 \/ runs[k].status = "VOIDED"
           THEN UNCHANGED runs
           ELSE /\ Len(runs) < MaxRuns
                /\ runs' = Append([runs EXCEPT ![k].status = "VOIDED"], Mirror(runs[k]))
      /\ accrued' = FALSE
      /\ End(c)
      /\ UNCHANGED <<kind, life, delta, recurring, lap, edits>>

----------------------------------------------------------------------------
(* runBatch: a transaction for each journal and month *)

\* The journals are listed once.
ReadBatch(c) ==
  \E T \in SUBSET {p \in Journal \X Month :
                     p[1] \in DOMAIN journals /\ journals[p[1]].status = "ACTIVE"} :
    /\ T # {}
    /\ Begin(c, "batch", Batching, "batch")
    /\ todo' = [todo EXCEPT ![c] = T]
    /\ UNCHANGED <<doc, recurring, flag, seen, at, edits>>

\* Fault: the key names the journal.
RecognisedByJournal(j, m) == made[<<j, m>>] > 0

\* The key of an entry names the journal, or the document and the type.
Alike(j) ==
  {i \in DOMAIN journals :
     i = j \/ (journals[i].source = journals[j].source /\ journals[j].source # "none")}

\* The entry of a journal for a month is there, whichever journal has made it.
Recognised(j, m) == \E i \in Alike(j) : made[<<i, m>>] > 0

\* Fault: the key is not unique.
WaitsNever(c, j, m) == FALSE

\* Another transaction that has not ended holds the unique key.
Waits(c, j, m) == \E e \in Client \ {c} : at[e] = <<j, m>>

\* The row is reserved, then the entry is looked up.
Reserve(c) ==
  \E p \in todo[c] \ reserved :
    /\ pc[c] = "batch" /\ ~Waits(c, p[1], p[2])
    /\ todo' = [todo EXCEPT ![c] = @ \ {p}]
    /\ at' = [at EXCEPT ![c] = p]
    /\ seen' = [seen EXCEPT ![c] = IF Recognised(p[1], p[2]) THEN 1 ELSE 0]
    /\ Goto(c, "month")
    /\ UNCHANGED <<doc, recurring, flag, lap, edits>>

\* SKIPPED: the period has its row.
Skip(c) ==
  \E p \in todo[c] \cap reserved :
    /\ pc[c] = "batch"
    /\ todo' = [todo EXCEPT ![c] = @ \ {p}]
    /\ UNCHANGED <<doc, recurring, pc, flag, seen, at, lap, edits>>

CommitMonth(c) ==
  /\ pc[c] = "month"
  /\ reserved' = reserved \cup {at[c]}
  /\ made' = IF seen[c] = 1 THEN made ELSE [made EXCEPT ![at[c]] = @ + 1]
  /\ at' = [at EXCEPT ![c] = <<>>] /\ seen' = [seen EXCEPT ![c] = 0]
  /\ Goto(c, "batch")
  /\ UNCHANGED <<doc, journals, flag, todo, lap, edits>>

EndBatch(c) ==
  /\ pc[c] = "batch" /\ todo[c] = {}
  /\ End(c)
  /\ UNCHANGED <<doc, recurring, lap, edits>>

\* The call is refused, fails, or loses its process where it is; a transaction
\* that has not ended leaves nothing.
Abort(c) ==
  /\ pc[c] # "idle"
  /\ End(c)
  /\ UNCHANGED <<doc, recurring, lap, edits>>

\* Every step but the beginning of a void, which payments forbid.
Steps ==
  \/ Update
  \/ \E t \in Source : CreateJournal(t)
  \/ \E j \in Journal, s \in {"ACTIVE", "PAUSED", "ARCHIVED"} : PatchJournal(j, s)
  \/ \E c \in Client :
       \/ ReadAccrue(c) \/ FindRun(c) \/ MakeRun(c) \/ KeepAccrued(c) \/ LookUp(c)
       \/ Insert(c) \/ InsertDelta(c) \/ SetFlag(c) \/ FindJournal(c) \/ UpsertJournal(c)
       \/ AccrueAtOnce(c)
       \/ FindActive(c) \/ CommitVoid(c)
       \/ ReadBatch(c) \/ Reserve(c) \/ Skip(c) \/ CommitMonth(c) \/ EndBatch(c)
       \/ Abort(c)

Next == Steps \/ \E c \in Client : ReadVoid(c)

Spec == Init /\ [][Next]_vars

----------------------------------------------------------------------------
Run == [status : {"POSTED", "VOIDED"}, lines : Nat, sum : Int, own : BOOLEAN]

TypeOK ==
  /\ kind \in Kind /\ life \in BOOLEAN /\ accrued \in BOOLEAN /\ delta \in BOOLEAN
  /\ runs \in Seq(Run) /\ Len(runs) <= MaxRuns
  /\ journals \in Seq([status : {"ACTIVE", "PAUSED", "ARCHIVED"}, source : Source])
  /\ Len(journals) <= MaxJournals
  /\ reserved \subseteq Journal \X Month
  /\ made \in [Journal \X Month -> Nat]
  /\ pc \in [Client -> {"idle"} \cup Accruing \cup Batching]
  /\ flag \in [Client -> BOOLEAN] /\ seen \in [Client -> Nat]
  /\ todo \in [Client -> SUBSET (Journal \X Month)]
  /\ at \in [Client -> {<<>>} \cup (Journal \X Month)]
  /\ lap \subseteq {"accrual", "batch"} /\ edits \in 0 .. MaxEdits

\* What the posting runs of the accrual add up to
Sum == SumFunctionOnSet([k \in DOMAIN runs |-> runs[k].sum], DOMAIN runs)

\* Unless calls overlap, the ledger counts a document once or not at all, even if
\* its accrual ends between two of its writes and is asked for again.
AccruedOnce ==
  "accrual" \notin lap => Sum \in {0, 1}

\* Unless two batches overlap, a month of the document is recognised once by all of
\* its journals of one type, however many of them are active.
DocumentMonthOnce ==
  "batch" \notin lap =>
    \A m \in Month, t \in Type :
      SumFunctionOnSet([j \in Journal |-> made[<<j, m>>]],
                       {j \in DOMAIN journals : journals[j].source = t}) <= 1

\* A call that is made again, after a crash or to be sure, books nothing twice.
RetriesAreSafe == TypeOK /\ AccruedOnce /\ DocumentMonthOnce

\* Whatever batches overlap, a journal makes one entry for a month, and a period
\* that is marked as run has an entry.
MonthOnce ==
  \A j \in DOMAIN journals, m \in Month :
    /\ made[<<j, m>>] <= 1
    /\ <<j, m>> \in reserved => Recognised(j, m)

----------------------------------------------------------------------------
(* Why they hold: the inductive invariant *)

\* What a call holds, it has found among the runs and journals, which only grow.
CallsKnow ==
  \A c \in Client :
    /\ pc[c] \in {"look", "insert", "flag"} => seen[c] \in DOMAIN runs
    /\ pc[c] = "voiding" => seen[c] \in {0} \cup DOMAIN runs
    /\ pc[c] = "upsert" => seen[c] \in {0} \cup DOMAIN journals
    /\ at[c] # <<>> <=> pc[c] = "month"
    /\ pc[c] = "month" => at[c][1] \in DOMAIN journals /\ seen[c] \in {0, 1}
    /\ \A p \in todo[c] : p[1] \in DOMAIN journals

\* A month has its entry once its row is committed, and its key is held until then.
MonthsAreKept ==
  /\ \A j \in Journal, m \in Month :
       /\ made[<<j, m>>] <= 1
       /\ made[<<j, m>>] > 0 => <<j, m>> \in reserved
       /\ <<j, m>> \in reserved => j \in DOMAIN journals /\ Recognised(j, m)
  /\ \A c \in Client : pc[c] = "month" =>
       /\ at[c] \notin reserved
       /\ seen[c] = 1 => Recognised(at[c][1], at[c][2])
       /\ \A d \in Client \ {c} : at[d] # at[c]

\* While one batch is at work at a time, what it has not recognised nobody recognises.
OneBatch ==
  "batch" \notin lap =>
    /\ \A c, d \in Client : pc[c] \in Batching /\ pc[d] \in Batching => c = d
    /\ \A j \in DOMAIN journals, m \in Month :
         \A i \in Alike(j) : made[<<i, m>>] > 0 /\ made[<<j, m>>] > 0 => i = j
    /\ \A c \in Client : pc[c] = "month" /\ seen[c] = 0 =>
         ~Recognised(at[c][1], at[c][2])

Last == runs[Len(runs)]

\* The runs of calls that do not overlap: the last one stands, alone, and says what
\* they all add up to.
RunsTakeTurns ==
  /\ \A k \in DOMAIN runs : runs[k].status = "POSTED" <=> k = Len(runs)
  /\ runs = <<>> => Sum = 0
  /\ runs # <<>> =>
       /\ Last.sum \in {-1, 0, 1} /\ (Booked(Last) <=> Last.sum # 0)
       /\ Sum = IF Last.sum = 1 THEN 1 ELSE 0
       /\ Last.own => Booked(Last)
       /\ Len(runs) = 1 => Last.sum # -1
       /\ kind = "receipt" /\ ~delta => Last.sum = 0
  /\ kind # "receipt" /\ accrued => runs # <<>> /\ Booked(Last)

\* What a call that is alone has found of them is so when it writes.
CallStands ==
  \A c \in Client :
    /\ pc[c] = "make" => runs = <<>>
    /\ pc[c] \in {"look", "insert", "flag"} => seen[c] = Len(runs)
    /\ pc[c] = "insert" => kind # "receipt" /\ ~Booked(Last)
    /\ pc[c] = "flag" /\ kind # "receipt" => Booked(Last)

OneAccrual ==
  "accrual" \notin lap =>
    /\ \A c, d \in Client : pc[c] \in Accruing /\ pc[d] \in Accruing => c = d
    /\ RunsTakeTurns /\ CallStands

DocumentInv == TypeOK /\ CallsKnow /\ MonthsAreKept /\ OneBatch /\ OneAccrual

=============================================================================
