------------------------------- MODULE Transfers -------------------------------
(***************************************************************************)
(* Money that moves between the accounts of the firm, and how it is        *)
(* booked: payouts of a marketplace wallet to the bank, made by pairing    *)
(* two statement lines (CashTransfersService), an internal transfer of two *)
(* legs (InternalTransfersService), and an event of the acquirer           *)
(* (AcquiringPostingService).  All of them rest on money transactions or   *)
(* statement lines, and book one amount in posting runs.                   *)
(*                                                                         *)
(* A call checks outside of a transaction, or in the first statements of   *)
(* one; what it has read may be out of date when it writes (READ           *)
(* COMMITTED).  Its writes appear together, with its commit.               *)
(*                                                                         *)
(* The key of a line of a payout or an event names the document, so a line *)
(* that any run of it holds is reused.  The key of a line of an internal   *)
(* transfer names the run as well.  Accounts, currencies, tolerances and   *)
(* dates only refuse a call, and are left out.                             *)
(***************************************************************************)
EXTENDS Integers, Sequences, FiniteSets, FiniteSetsExt, Functions

CONSTANTS
  Client,        \* calls at work at the same time
  Wallet,        \* statement lines of the wallet, all OUT
  Bank,          \* statement lines of the bank, all IN
  OutCash,       \* money transactions OUT
  InCash,        \* money transactions IN
  MaxTransfers,  \* bound: rows of cash_transfers
  MaxRuns        \* bound: posting runs of all documents

ASSUME LinesAssumption == Wallet \cap Bank = {} /\ OutCash \cap InCash = {}
ASSUME BoundsAssumption == MaxTransfers \in Nat /\ MaxRuns \in Nat

Line == Wallet \cup Bank
Cash == OutCash \cup InCash
Payout == 1 .. MaxTransfers
Group == MaxTransfers + 1
Event == MaxTransfers + 2
Doc == Payout \cup {Group, Event}

VARIABLES
  match,      \* the money transaction a statement line is matched with
  posted,     \* statement lines that are POSTED to it
  legs,       \* the legs of the internal transfer, or none
  cash,       \* MoneyTransaction.status
  transfers,  \* CashTransfer rows
  link,       \* the statement line of the event, or none
  event,      \* AcquiringEvent.status
  runs,       \* the posting runs of a document, by version
  step,         \* what a call does next
  doc,        \* the document it works on
  seen,       \* the run it goes on with, or whether one has been voided
  want,       \* the row it is to create, or the status it has read
  overlapped     \* history: documents of which two posts or two voids overlapped

rows == <<posted, cash, transfers, link, event, runs>>
transferVars == <<match, legs, rows, step, doc, seen, want, overlapped>>

NoRow == [wallet |-> "none", bank |-> "none", ref |-> FALSE, status |-> "PAIRED"]

TransferInit ==
  /\ match \in [Line -> Cash] /\ posted = {}
  /\ \A l \in Line : match[l] \in IF l \in Wallet THEN OutCash ELSE InCash
  /\ legs \in {{}} \cup {{o, i} : o \in OutCash, i \in InCash}
  /\ cash = [m \in Cash |-> "POSTED"]
  /\ transfers = <<>>
  /\ link = {} /\ event = "IMPORTED"
  /\ runs = [d \in Doc |-> <<>>]
  /\ step = [c \in Client |-> "idle"] /\ doc = [c \in Client |-> Event]
  /\ seen = [c \in Client |-> 0] /\ want = [c \in Client |-> NoRow]
  /\ overlapped = {}

Turn(c, l) == step' = [step EXCEPT ![c] = l]

End(c) ==
  /\ Turn(c, "idle")
  /\ doc' = [doc EXCEPT ![c] = Event]
  /\ seen' = [seen EXCEPT ![c] = 0] /\ want' = [want EXCEPT ![c] = NoRow]

\* Another call on d is at one of the steps of S.
Busy(d, S) == \E e \in Client : step[e] \in S /\ doc[e] = d

Exists(d) ==
  CASE d = Group -> legs # {}
    [] d = Event -> TRUE
    [] OTHER     -> d \in DOMAIN transfers

LegsOf(d) ==
  CASE d = Group -> legs
    [] d = Event -> {}
    [] OTHER     -> {match[transfers[d].wallet], match[transfers[d].bank]}

LinesOf(d) == IF d \in Payout THEN {transfers[d].wallet, transfers[d].bank} ELSE {}

----------------------------------------------------------------------------
(* postLine, linkStatementLine, pairMarketplacePayout *)

\* Whatever the status of the money transaction is
PostLine(l) ==
  /\ l \notin posted
  /\ posted' = posted \cup {l}
  /\ UNCHANGED <<match, legs, cash, transfers, link, event, runs, step, doc, seen,
                 want, overlapped>>

LinkLine(l) ==
  /\ link' = {l}
  /\ UNCHANGED <<match, legs, posted, cash, transfers, event, runs, step, doc, seen,
                 want, overlapped>>

WithRef(r) == \E t \in DOMAIN transfers : r /\ transfers[t].ref

\* A pair or an external reference that is there is answered as it is.
ReadPair(c) ==
  \E w \in Wallet \cap posted, b \in Bank \cap posted, r \in BOOLEAN :
    /\ step[c] = "idle"
    /\ \A t \in DOMAIN transfers : <<transfers[t].wallet, transfers[t].bank>> # <<w, b>>
    /\ ~WithRef(r)
    /\ want' = [want EXCEPT ![c] = [wallet |-> w, bank |-> b, ref |-> r, status |-> "PAIRED"]]
    /\ Turn(c, "pair")
    /\ UNCHANGED <<match, legs, rows, doc, seen, overlapped>>

\* The reference is unique in the database, the pair is not.
WritePair(c) ==
  /\ step[c] = "pair" /\ (WithRef(want[c].ref) \/ Len(transfers) < MaxTransfers)
  /\ transfers' = IF WithRef(want[c].ref) THEN transfers ELSE Append(transfers, want[c])
  /\ End(c)
  /\ UNCHANGED <<match, legs, posted, cash, link, event, runs, overlapped>>

----------------------------------------------------------------------------
(* postTransfer, postInternalTransfer, postEvent *)

Made == SumFunctionOnSet([d \in Doc |-> Len(runs[d])], Doc)

Active(d) == Max({0} \cup {k \in DOMAIN runs[d] : runs[d][k].status = "POSTED"})

\* Fault: a line is looked up under the run that is to hold it.
HeldByRun(d, k) == k # 0 /\ runs[d][k].own

\* The line of the document is there already.
Held(d, k) ==
  IF d = Group THEN k # 0 /\ runs[d][k].own
  ELSE \E j \in DOMAIN runs[d] : runs[d][j].own

\* A payout that is canceled is refused; nobody asks whether the legs of an
\* internal transfer are void.
ReadPost(c) ==
  \E d \in Doc :
    /\ step[c] = "idle" /\ Exists(d)
    /\ d \in Payout => transfers[d].status \in {"PAIRED", "POSTED"}
    /\ doc' = [doc EXCEPT ![c] = d]
    /\ want' = IF d \in Payout THEN [want EXCEPT ![c].status = transfers[d].status] ELSE want
    /\ overlapped' = IF Busy(d, {"post", "posting"}) THEN overlapped \cup {d} ELSE overlapped
    /\ Turn(c, "post")
    /\ UNCHANGED <<match, legs, rows, seen>>

FindRun(c) ==
  /\ step[c] = "post"
  /\ seen' = [seen EXCEPT ![c] = Active(doc[c])]
  /\ Turn(c, "posting")
  /\ UNCHANGED <<match, legs, rows, doc, want, overlapped>>

NewRun(n, b) == [status |-> "POSTED", lines |-> n, sum |-> n, own |-> b, mirror |-> 0]

\* Without a run a new version is made, unless somebody takes its number, which
\* aborts the transaction.  A run of a payout or an event that has lines is left
\* as it is, and so is a status that has been read as POSTED.
CommitPost(c) ==
  LET d == doc[c]
      k == seen[c]
      n == IF Held(d, k) THEN 0 ELSE 1
      found == k # 0 /\ d # Group /\ runs[d][k].lines > 0
  IN  /\ step[c] = "posting" /\ (k = 0 => Made < MaxRuns)
      /\ runs' =
           IF k = 0 THEN [runs EXCEPT ![d] = Append(@, NewRun(n, n = 1))]
           ELSE IF n = 0 \/ found THEN runs
           ELSE [runs EXCEPT ![d][k].lines = @ + 1, ![d][k].sum = @ + 1, ![d][k].own = TRUE]
      /\ transfers' =
           IF d \in Payout /\ ~(found /\ want[c].status = "POSTED")
             THEN [transfers EXCEPT ![d].status = "POSTED"] ELSE transfers
      /\ event' = IF d = Event THEN "POSTED" ELSE event
      /\ End(c)
      /\ UNCHANGED <<match, legs, posted, cash, link, overlapped>>

----------------------------------------------------------------------------
(* voidTransfer, voidInternalTransfer, voidEvent *)

\* Other lines are reconciled to the legs.
Reconciled(d) == \E l \in posted \ LinesOf(d) : match[l] \in LegsOf(d)

Voidable(d) ==
  CASE d = Group -> (\E m \in legs : cash[m] = "POSTED") /\ ~Reconciled(d)
    [] d = Event -> link \cap posted = {}
    [] OTHER     -> transfers[d].status # "CANCELED" /\ ~Reconciled(d)

\* A run of a payout or an event has been voided before.
VoidedBefore(d) == d # Group /\ \E k \in DOMAIN runs[d] : runs[d][k].status = "VOIDED"

ReadVoid(c) ==
  \E d \in Doc :
    /\ step[c] = "idle" /\ Exists(d) /\ Voidable(d)
    /\ doc' = [doc EXCEPT ![c] = d]
    /\ seen' = [seen EXCEPT ![c] = IF VoidedBefore(d) THEN 1 ELSE 0]
    /\ overlapped' = IF Busy(d, {"void"}) THEN overlapped \cup {d} ELSE overlapped
    /\ Turn(c, "void")
    /\ UNCHANGED <<match, legs, rows, want>>

Mirror(r) ==
  [status |-> "POSTED", lines |-> r.lines, sum |-> -r.sum, own |-> FALSE, mirror |-> 0]

\* voidRun takes back run k of d.
Reverse(d, k) ==
  LET r == runs[d]
  IN  [runs EXCEPT ![d] = Append([r EXCEPT ![k].status = "VOIDED", ![k].mirror = Len(r) + 1],
                                 Mirror(r[k]))]

\* What is posted is taken back, be it a reversal made meanwhile, unless it was
\* found posted and is void by now; the legs are voided.  Only a payout and an
\* event ask for a run.
CommitVoid(c) ==
  LET d == doc[c]
      k == Active(d)
  IN  /\ step[c] = "void"
      /\ \/ /\ seen[c] = 0 /\ k # 0 /\ Made < MaxRuns
            /\ runs' = Reverse(d, k)
         \/ /\ \/ seen[c] = 1
               \/ d = Group /\ k = 0
               \/ \E j \in DOMAIN runs[d] : runs[d][j].status = "VOIDED"
            /\ UNCHANGED runs
      /\ cash' = [m \in Cash |-> IF m \in LegsOf(d) THEN "VOIDED" ELSE cash[m]]
      /\ transfers' = IF d \in Payout THEN [transfers EXCEPT ![d].status = "CANCELED"]
                      ELSE transfers
      /\ End(c)
      /\ UNCHANGED <<match, legs, posted, link, event, overlapped>>

\* The call is refused, fails, or loses its process; nothing of it is stored.
Abort(c) ==
  /\ step[c] # "idle"
  /\ End(c)
  /\ UNCHANGED <<match, legs, rows, overlapped>>

TransferNext ==
  \/ \E l \in Line : PostLine(l) \/ LinkLine(l)
  \/ \E c \in Client :
       \/ ReadPair(c) \/ WritePair(c)
       \/ ReadPost(c) \/ FindRun(c) \/ CommitPost(c)
       \/ ReadVoid(c) \/ CommitVoid(c)
       \/ Abort(c)

TransferSpec == TransferInit /\ [][TransferNext]_transferVars

----------------------------------------------------------------------------
Run == [status : {"POSTED", "VOIDED"}, lines : Nat, sum : Int, own : BOOLEAN,
        mirror : 0 .. MaxRuns]

Status == {"PAIRED", "POSTED", "CANCELED"}

Row == [wallet : Wallet, bank : Bank, ref : BOOLEAN, status : Status]

Wanted == Row \cup [wallet : {"none"}, bank : {"none"}, ref : {FALSE}, status : Status]

TransferTypeOK ==
  /\ match \in [Line -> Cash] /\ posted \subseteq Line
  /\ legs \subseteq Cash /\ cash \in [Cash -> {"POSTED", "VOIDED"}]
  /\ transfers \in Seq(Row) /\ Len(transfers) <= MaxTransfers
  /\ link \subseteq Line /\ event \in {"IMPORTED", "POSTED"}
  /\ runs \in [Doc -> Seq(Run)]
  /\ step \in [Client -> {"idle", "pair", "post", "posting", "void"}]
  /\ doc \in [Client -> Doc] /\ seen \in [Client -> 0 .. MaxRuns]
  /\ want \in [Client -> Wanted]
  /\ overlapped \subseteq Doc

Sum(d) == SumFunctionOnSet([k \in DOMAIN runs[d] |-> runs[d][k].sum], DOMAIN runs[d])

\* The ledger never counts a payout, a transfer or an event twice, whatever posts
\* and voids of it overlap; an internal transfer, unless two posts or two voids do.
BookedOnce ==
  \A d \in Doc : Sum(d) \in {0, 1} \/ (d = Group /\ d \in overlapped)

\* Posted, and not voided since: the status says so of a payout, the runs of an event.
CountsAsPosted(d) ==
  IF d = Event THEN event = "POSTED" /\ ~VoidedBefore(d)
  ELSE d \in DOMAIN transfers /\ transfers[d].status = "POSTED"

\* What a payout or an event says of itself is what the ledger counts: nothing once
\* it is canceled or voided, whatever posts and voids of it overlap, and in whatever
\* order they read and commit, unless two posts of it have overlapped or two voids.
BooksFollow ==
  \A d \in Doc \ {Group} :
    d \notin overlapped => Sum(d) = IF CountsAsPosted(d) THEN 1 ELSE 0

\* The two money transactions of a canceled payout are void.
CanceledCash ==
  \A t \in DOMAIN transfers :
    transfers[t].status = "CANCELED" => \A m \in LegsOf(t) : cash[m] = "VOIDED"

\* The cash of a transfer, its status and its postings stay together.
CashAgrees == TransferTypeOK /\ CanceledCash /\ BookedOnce /\ BooksFollow

----------------------------------------------------------------------------
(* Why they hold: the inductive invariant *)

\* A call knows a document that is there, a run that it has, and a row it may make.
Knows(c) ==
  /\ step[c] = "pair" => want[c] \in Row /\ want[c].status = "PAIRED"
  /\ step[c] = "idle" => want[c] = NoRow
  /\ step[c] \in {"post", "posting", "void"} => Exists(doc[c])
  /\ step[c] = "posting" => seen[c] \in {0} \cup DOMAIN runs[doc[c]]

CallsKnow == \A c \in Client : Knows(c)

Last(d) == runs[d][Len(runs[d])]

\* The last run stands, and takes back no more than the ones before it have booked.
LastStands ==
  /\ Made <= MaxRuns
  /\ \A d \in Doc : runs[d] # <<>> => Last(d).status = "POSTED"
  /\ \A d \in Doc \ {Group} :
       /\ Sum(d) \in {0, 1}
       /\ runs[d] = <<>> => Sum(d) = 0
       /\ runs[d] # <<>> =>
            runs[d][1].own /\ runs[d][1].sum = 1 /\ Sum(d) - Last(d).sum \in {0, 1}

At(c, d, S) == step[c] \in S /\ doc[c] = d

\* Posts of a document take turns, and so do its voids.
TakeTurns ==
  \A d \in Doc \ overlapped : \A c, e \in Client :
    /\ At(c, d, {"post", "posting"}) /\ At(e, d, {"post", "posting"}) => c = e
    /\ At(c, d, {"void"}) /\ At(e, d, {"void"}) => c = e

\* The runs r of a payout or an event, and what it says of itself: nothing yet, one
\* run that books it, or that run and its reversal.
Stage(d, r) ==
  \/ /\ r = <<>> /\ Sum(d) = 0 /\ ~CountsAsPosted(d)
     /\ d \in DOMAIN transfers => transfers[d].status = "PAIRED"
  \/ /\ Len(r) = 1 /\ r[1].lines = 1 /\ r[1].own /\ r[1].sum = 1 /\ Sum(d) = 1
     /\ r[1].status = "POSTED" /\ CountsAsPosted(d)
  \/ /\ Len(r) = 2 /\ r[1].lines = 1 /\ r[1].own /\ r[1].status = "VOIDED"
     /\ r[2].lines = 1 /\ r[2].status = "POSTED" /\ Sum(d) = 0
     /\ d \in Payout => d \in DOMAIN transfers /\ transfers[d].status = "CANCELED"

\* A post beside the first run has found it, and the payout POSTED; a void beside its
\* reversal has found that, and no other has.
CallsFollow(d, r) ==
  /\ \A c \in Client :
       At(c, d, {"post", "posting"}) /\ r # <<>> =>
         /\ step[c] = "posting" => seen[c] # 0
         /\ d \in Payout => want[c].status = "POSTED"
  /\ \A c \in Client : At(c, d, {"void"}) => (seen[c] = 0 <=> Len(r) < 2)

DocStands ==
  \A d \in Doc \ ({Group} \cup overlapped) :
    Stage(d, runs[d]) /\ CallsFollow(d, runs[d])

\* An internal transfer is booked, and taken back at most once, as its legs are void
\* then; a post after that puts its line into the reversal.
GroupStands ==
  Group \notin overlapped =>
    LET r == runs[Group]
    IN  /\ \A c \in Client :
             step[c] = "posting" /\ doc[c] = Group /\ seen[c] = 0 => r = <<>>
        /\ \/ r = <<>> /\ Sum(Group) = 0
           \/ Len(r) = 1 /\ r[1].own /\ r[1].sum = 1 /\ Sum(Group) = 1
           \/ /\ Len(r) = 2 /\ r[1].own /\ r[1].status = "VOIDED"
              /\ Sum(Group) = IF r[2].own THEN 1 ELSE 0
              /\ \A m \in legs : cash[m] = "VOIDED"
              /\ ~Busy(Group, {"void"})

TransferIInv ==
  /\ TransferTypeOK /\ CallsKnow /\ CanceledCash
  /\ LastStands /\ TakeTurns /\ DocStands /\ GroupStands
=============================================================================
