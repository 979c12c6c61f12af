------------------------------- MODULE Supplies -------------------------------
(***************************************************************************)
(* One purchase, from the draft to the goods in stock: the items ordered,  *)
(* the receipts that bring them in, the posting of each receipt and its    *)
(* void, and the changes of status by hand.  The service is                *)
(* ScmSuppliesService.                                                     *)
(*                                                                         *)
(* A receipt reads the purchase and its items before its transaction opens *)
(* and writes what it computes from that; the rows of the items it updates *)
(* stay locked until it commits.  changeStatus reads the items inside of   *)
(* its transaction, but decides by a status it has read before.            *)
(*                                                                         *)
(* An item is there while something of it is ordered.  The stock an item   *)
(* has brought in has two sources: the lines of its receipts, each under a *)
(* key of its own, and changeStatus, under the key of the item.            *)
(* Posting runs are counted as in Payments: run n + 1 reverses run n.      *)
(*                                                                         *)
(* No item is linked to a component of a production order here: the one    *)
(* call that would link it, generateProcurementForComponents, writes       *)
(* fields the schema does not have and is refused.                         *)
(***************************************************************************)
EXTENDS Integers, Sequences, FiniteSets, FiniteSetsExt, Functions

CONSTANTS
  Client,       \* calls at work at the same time
  Item,         \* supply items
  MaxQty,       \* bound: what is ordered of an item
  MaxReceipts   \* bound: receipts

ASSUME MaxQtyAssumption == MaxQty \in Nat \ {0}
ASSUME MaxReceiptsAssumption == MaxReceipts \in Nat

VARIABLES
  status,     \* ScmSupply.status
  ordered,    \* ScmSupplyItem.quantityOrdered; 0 for an item there is not
  received,   \* ScmSupplyItem.quantityReceived
  receipts,   \* ScmSupplyReceipt rows: their lines, voidedAt, posting runs
  booked,     \* what changeStatus has brought into stock
  step,       \* what a call does next
  seen,       \* the received quantities it has read
  want,       \* the quantities of the lines of its receipt, in their order
  next,       \* the status it is about to write
  at,         \* the receipt it is to void
  found,      \* the posting run of that receipt it has found active
  history     \* history: what has happened so far

items == <<status, ordered, received>>
saved == <<items, receipts, booked>>
mine == <<seen, want, next, at, found>>
supplyVars == <<saved, step, mine, history>>

Status == {"DRAFT", "ORDERED", "PARTIAL_RECEIVED", "RECEIVED", "CANCELED", "CLOSED"}

Arrived == {"PARTIAL_RECEIVED", "RECEIVED"}

Nothing == [i \in Item |-> 0]

NoLines == [i \in Item |-> <<>>]

Total(s) == IF Len(s) = 0 THEN 0 ELSE IF Len(s) = 1 THEN s[1] ELSE s[1] + s[2]

SupplyInit ==
  /\ status = "DRAFT"
  /\ ordered \in [Item -> 0 .. MaxQty] /\ received = Nothing
  /\ receipts = <<>> /\ booked = Nothing
  /\ step = [c \in Client |-> "idle"]
  /\ seen = [c \in Client |-> Nothing] /\ want = [c \in Client |-> NoLines]
  /\ next = [c \in Client |-> "DRAFT"]
  /\ at = [c \in Client |-> 0] /\ found = [c \in Client |-> 0]
  /\ history = {}

Turn(c, l) == step' = [step EXCEPT ![c] = l]

\* Once quantities may have been lost, only overlapping voids still matter.
Note(S) ==
  history' = IF "lost" \in history \cup S
               THEN (history \cup S) \cap {"lost", "voids"} ELSE history \cup S

Start(c, l) ==
  /\ step[c] = "idle" /\ Turn(c, l)
  /\ UNCHANGED saved

AtWork(l) == {d \in Client : step[d] \in l}

Receiving == {"lines", "refresh", "commit"}
Changing == {"write", "book", "booking"}

End(c) ==
  /\ Turn(c, "idle")
  /\ next' = [next EXCEPT ![c] = "DRAFT"]
  /\ seen' = [seen EXCEPT ![c] = Nothing]
  /\ want' = [want EXCEPT ![c] = NoLines]
  /\ at' = [at EXCEPT ![c] = 0] /\ found' = [found EXCEPT ![c] = 0]

Present == {i \in Item : ordered[i] > 0}

\* Another call has updated the item and is open.
ItemLocked(c, i) ==
  \E d \in Client \ {c} : step[d] \in {"refresh", "commit"} /\ want[d][i] # <<>>

----------------------------------------------------------------------------
(* confirmReceive and partialReceive *)

\* The lines may overwrite a quantity, or have theirs overwritten.
Loses(w) ==
  \/ AtWork(Changing) # {}
  \/ \E i \in Item :
       \/ Len(w[i]) > 1
       \/ w[i] # <<>> /\ \E d \in AtWork(Receiving) : want[d][i] # <<>>

Receive(c, w) ==
  /\ \E i \in Item : w[i] # <<>>
  /\ Start(c, "lines")
  /\ seen' = [seen EXCEPT ![c] = received]
  /\ want' = [want EXCEPT ![c] = w]
  /\ Note((IF Loses(w) THEN {"lost"} ELSE {})
          \cup IF AtWork(Receiving) # {} THEN {"beside"} ELSE {})
  /\ UNCHANGED <<next, at, found>>

\* Whatever is missing of each item; any status but RECEIVED will do.
ReadConfirm(c) ==
  /\ status # "RECEIVED"
  /\ Receive(c, [i \in Item |->
       IF received[i] < ordered[i] THEN <<ordered[i] - received[i]>> ELSE <<>>])

\* A line is checked on its own, against what was received before the call.
Fits(i, n) == i \in Present /\ received[i] + n <= ordered[i]

\* Lines of a delivery for each item: none, one, or two.
Deliveries == [Item -> {<<>>, <<1>>, <<2>>, <<1, 1>>}]

ReadPartial(c) ==
  /\ status \notin {"RECEIVED", "CANCELED", "CLOSED"}
  /\ \E w \in Deliveries :
       /\ \A i \in Item : \A k \in DOMAIN w[i] : Fits(i, w[i][k])
       /\ Receive(c, w)

\* quantityReceived after the last line of the item: the quantity read plus
\* that line.
Counted(c, i) == seen[c][i] + want[c][i][Len(want[c][i])]

\* The receipt is created, its items are updated as soon as their rows are
\* free, and the stock is taken in.
WriteLines(c) ==
  /\ step[c] = "lines"
  /\ \A i \in Item : want[c][i] # <<>> => ~ItemLocked(c, i)
  /\ IF \E i \in Item : want[c][i] # <<>> /\ i \notin Present
       THEN End(c) ELSE Turn(c, "refresh") /\ UNCHANGED mine
  /\ UNCHANGED <<saved, history>>

\* Fault: the status is derived from what others have committed.
RefreshedBefore(c, i) == received[i]

\* quantityReceived as the open transaction sees it
Refreshed(c, i) == IF want[c][i] = <<>> THEN received[i] ELSE Counted(c, i)

\* The items are read again for the status.
Refresh(c) ==
  /\ step[c] = "refresh"
  /\ next' = [next EXCEPT ![c] =
       IF \A i \in Present : Refreshed(c, i) >= ordered[i]
         THEN "RECEIVED" ELSE "PARTIAL_RECEIVED"]
  /\ Turn(c, "commit")
  /\ UNCHANGED <<saved, seen, want, at, found, history>>

CommitReceipt(c) ==
  /\ step[c] = "commit" /\ Len(receipts) < MaxReceipts
  /\ received' = [i \in Item |-> IF want[c][i] = <<>> THEN received[i] ELSE Counted(c, i)]
  /\ status' = next[c]
  /\ receipts' = Append(receipts,
       [lines |-> [i \in Item |-> Total(want[c][i])], voided |-> FALSE, runs |-> 1])
  /\ End(c)
  /\ UNCHANGED <<ordered, booked, history>>

----------------------------------------------------------------------------
(* changeStatus and transitionStatus *)

\* Fault: a purchase that has come in may be ordered again.
MayFollowAgain(s) ==
  CASE s = "DRAFT" -> {"ORDERED"}
    [] s = "ORDERED" -> Arrived \cup {"CLOSED"}
    [] s = "PARTIAL_RECEIVED" -> {"RECEIVED", "ORDERED"}
    [] s = "RECEIVED" -> {"CLOSED"}
    [] OTHER -> {}

\* ensureStatusTransitionAllowed
MayFollow(s) ==
  CASE s = "DRAFT" -> {"ORDERED"}
    [] s = "ORDERED" -> Arrived \cup {"CLOSED"}
    [] s = "PARTIAL_RECEIVED" -> {"RECEIVED"}
    [] s = "RECEIVED" -> {"CLOSED"}
    [] OTHER -> {}

Booking(s) == s \in Arrived /\ status \notin Arrived

Changed == IF AtWork(Receiving \cup Changing) # {} THEN {"lost"} ELSE {}

Marked(s) == IF s \in Arrived THEN {"marked"} ELSE {}

ReadChange(c) ==
  \E s \in MayFollow(status) \cup {status} :
    /\ Start(c, IF Booking(s) THEN "book" ELSE "write")
    /\ next' = [next EXCEPT ![c] = s]
    /\ Note(Changed \cup IF Booking(s) THEN {} ELSE Marked(s))
    /\ UNCHANGED <<seen, want, at, found>>

\* A purchase is CLOSED this way only when all of it is there; goods that are
\* marked RECEIVED are not taken into stock.
ReadTransition(c) ==
  \E s \in MayFollow(status) \cup {status} :
    /\ s = "CLOSED" => \A i \in Present : received[i] >= ordered[i]
    /\ Start(c, "write")
    /\ next' = [next EXCEPT ![c] = s]
    /\ Note(Changed \cup Marked(s))
    /\ UNCHANGED <<seen, want, at, found>>

WriteStatus(c) ==
  /\ step[c] = "write"
  /\ status' = next[c]
  /\ End(c)
  /\ UNCHANGED <<ordered, received, receipts, booked, history>>

\* In its transaction changeStatus reads the items.
ReadItems(c) ==
  /\ step[c] = "book"
  /\ seen' = [seen EXCEPT ![c] = [i \in Item |-> IF i \in Present THEN received[i] ELSE 0]]
  /\ Turn(c, "booking")
  /\ UNCHANGED <<saved, want, next, at, found, history>>

\* An item comes into stock once; later on the key of the item is known.
Booked(c, i) == IF booked[i] > 0 THEN booked[i] ELSE seen[c][i]

StatusFound(c) ==
  IF \A i \in Present : seen[c][i] >= ordered[i] THEN "RECEIVED"
  ELSE IF \E i \in Present : seen[c][i] > 0 THEN "PARTIAL_RECEIVED"
  ELSE next[c]

\* The status is updated, and what has been received is taken into stock.
Book(c) ==
  /\ step[c] = "booking"
  /\ booked' = [i \in Item |-> Booked(c, i)]
  /\ status' = StatusFound(c)
  /\ End(c)
  /\ UNCHANGED <<ordered, received, receipts, history>>

----------------------------------------------------------------------------
(* createItem, updateItem, deleteItem: any time, any quantity *)

EditItem(c) ==
  \E i \in Item, n \in 1 .. MaxQty, m \in 0 .. MaxQty :
    /\ step[c] = "idle" /\ ~ItemLocked(c, i)
    /\ ordered' = [ordered EXCEPT ![i] = n]
    /\ received' = [received EXCEPT ![i] = m]
    /\ Note({"edited"} \cup
         IF m < received[i] \/ AtWork(Receiving \cup Changing) # {} THEN {"lost"} ELSE {})
    /\ UNCHANGED <<status, receipts, booked, step, mine>>

DeleteItem(c) ==
  \E i \in Present :
    /\ step[c] = "idle" /\ ~ItemLocked(c, i)
    /\ ordered' = [ordered EXCEPT ![i] = 0]
    /\ received' = [received EXCEPT ![i] = 0]
    /\ Note({"edited", "lost"})
    /\ UNCHANGED <<status, receipts, booked, step, mine>>

----------------------------------------------------------------------------
(* voidSupplyReceipt: the goods stay in stock and stay received *)

ReadVoid(c) ==
  \E r \in DOMAIN receipts :
    /\ Start(c, "find")
    /\ at' = [at EXCEPT ![c] = r]
    /\ Note(IF \E d \in Client : at[d] = r THEN {"voids"} ELSE {})
    /\ UNCHANGED <<seen, want, next, found>>

\* Fault: no look at the runs.
VoidedNever(c) == FALSE

VoidedBefore(c) == receipts[at[c]].runs > 1

FindVoided(c) ==
  /\ step[c] = "find"
  /\ Turn(c, IF VoidedBefore(c) THEN "stamp" ELSE "active")
  /\ UNCHANGED <<saved, mine, history>>

\* getActivePostedRun finds the last run, be it a reversal.
FindActive(c) ==
  /\ step[c] = "active"
  /\ found' = [found EXCEPT ![c] = receipts[at[c]].runs]
  /\ Turn(c, "stamp")
  /\ UNCHANGED <<saved, seen, want, next, at, history>>

\* voidRun leaves a run alone that was voided meanwhile.
Reversed(c) ==
  LET n == receipts[at[c]].runs IN IF n = found[c] THEN n + 1 ELSE n

CommitVoid(c) ==
  /\ step[c] = "stamp"
  /\ receipts' = [receipts EXCEPT ![at[c]].runs = Reversed(c), ![at[c]].voided = TRUE]
  /\ End(c)
  /\ UNCHANGED <<items, booked, history>>

----------------------------------------------------------------------------
\* The call fails, or its process ends; an open transaction is rolled back.
Abort(c) ==
  /\ step[c] # "idle"
  /\ End(c)
  /\ UNCHANGED <<saved, history>>

AllIdle == (\A c \in Client : step[c] = "idle") /\ UNCHANGED supplyVars

Call(c) ==
  \/ ReadConfirm(c) \/ ReadPartial(c) \/ WriteLines(c) \/ Refresh(c)
  \/ CommitReceipt(c)
  \/ ReadChange(c) \/ ReadTransition(c) \/ WriteStatus(c) \/ ReadItems(c) \/ Book(c)
  \/ EditItem(c) \/ DeleteItem(c)
  \/ ReadVoid(c) \/ FindVoided(c) \/ FindActive(c) \/ CommitVoid(c)
  \/ Abort(c)

SupplyNext == (\E c \in Client : Call(c)) \/ AllIdle

SupplySpec == SupplyInit /\ [][SupplyNext]_supplyVars

----------------------------------------------------------------------------
Receipt == [lines : [Item -> Nat], voided : BOOLEAN, runs : Nat \ {0}]

\* The lines of a receipt for an item: none, one, or two.
Wanted == {<<>>, <<1, 1>>} \cup {<<n>> : n \in 1 .. MaxQty}

SupplyTypeOK ==
  /\ status \in Status
  /\ ordered \in [Item -> 0 .. MaxQty] /\ received \in [Item -> 0 .. MaxQty]
  /\ receipts \in Seq(Receipt)
  /\ booked \in [Item -> 0 .. MaxQty]
  /\ step \in [Client -> {"idle", "lines", "refresh", "commit", "write", "book",
                        "booking", "find", "active", "stamp"}]
  /\ seen \in [Client -> [Item -> 0 .. MaxQty]] /\ want \in [Client -> [Item -> Wanted]]
  /\ next \in [Client -> Status]
  /\ at \in [Client -> 0 .. Len(receipts)] /\ found \in [Client -> Nat]

Never(S) == history \cap S = {}

Delivered(i) ==
  SumFunctionOnSet([r \in DOMAIN receipts |-> receipts[r].lines[i]], DOMAIN receipts)

\* As long as no quantity is edited, what an item counts as received is what
\* its receipts have brought into stock, and not more than was ordered: no
\* receipt is lost, and none is booked again by a change of status.  This needs
\* calls that do not lose each other's quantities: a delivery lists an item
\* once, and overlaps neither a delivery of the same item nor a change of status.
AllAccounted ==
  Never({"lost", "edited"}) =>
    \A i \in Item :
      /\ received[i] = Delivered(i) /\ received[i] <= ordered[i]
      /\ booked[i] = 0

\* Quantities may be raised by hand: stock never takes in more of an item than
\* counts as received, by receipts and by a change of status together.
NothingTwice ==
  Never({"lost"}) => \A i \in Item : Delivered(i) + booked[i] <= received[i]

\* The quantities of items, receipts and stock agree.
StockAgrees == SupplyTypeOK /\ AllAccounted /\ NothingTwice

\* A purchase nobody marked or edited is RECEIVED only when all its items are,
\* even if they come in by overlapping deliveries, and as soon as they are, if
\* deliveries come one by one.
ReceivedIsComplete ==
  Never({"lost", "edited", "marked"}) /\ receipts # <<>> /\ status \in Arrived =>
    LET complete == \A i \in Present : received[i] = ordered[i]
    IN  /\ status = "RECEIVED" => complete
        /\ complete /\ Never({"beside"}) => status = "RECEIVED"

\* The posting of a receipt stands until the receipt is voided and never
\* afterwards, however often it is voided, unless two voids of it overlap.
ReceiptStands ==
  Never({"voids"}) =>
    \A r \in DOMAIN receipts : receipts[r].voided <=> receipts[r].runs % 2 = 0

----------------------------------------------------------------------------
(* Why they hold: the inductive invariant *)

Voiding == {"find", "active", "stamp"}

\* A line fits by itself; a call that voids has a receipt, and at last a run of it.
LinesFit ==
  /\ \A c \in Client : step[c] \in Receiving =>
       \A i \in Item : \A k \in DOMAIN want[c][i] : seen[c][i] + want[c][i][k] <= MaxQty
  /\ \A c \in Client : /\ at[c] # 0 <=> step[c] \in Voiding
                       /\ found[c] # 0 => step[c] = "stamp"

\* Until quantities are lost, deliveries of one item and changes of status take
\* turns, so that what a call has read still holds when it writes.
TakesTurns ==
  /\ \A c, d \in Client :
       step[c] \in Changing /\ step[d] \in Receiving \cup Changing => c = d
  /\ \A c, d \in Client : \A i \in Item :
       /\ step[c] \in Receiving /\ step[d] \in Receiving
       /\ want[c][i] # <<>> /\ want[d][i] # <<>>
       => c = d
  /\ \A c \in Client : step[c] \in Receiving =>
       \A i \in Item : want[c][i] # <<>> =>
         /\ Len(want[c][i]) = 1 /\ seen[c][i] = received[i]
         /\ Counted(c, i) <= ordered[i]

\* Only a purchase that is ORDERED and has no receipt is taken in by its status.
StatusStands ==
  /\ receipts # <<>> => status \in Arrived \cup {"CLOSED"}
  /\ \A c \in Client :
       /\ step[c] = "commit" => next[c] \in Arrived
       /\ step[c] = "write" => next[c] \in MayFollow(status) \cup {status}
       /\ step[c] \in {"book", "booking"} => status = "ORDERED" /\ next[c] \in Arrived
       /\ step[c] = "booking" => \A i \in Item : seen[c][i] <= received[i]

\* The status a receipt is to write tells whether the purchase is complete then.
StatusTells ==
  /\ \A c \in Client : step[c] = "write" => next[c] \notin Arrived
  /\ \A c \in Client : step[c] = "commit" =>
       LET complete == \A i \in Present : Refreshed(c, i) >= ordered[i]
       IN  /\ next[c] = "RECEIVED" => complete
           /\ complete /\ Never({"beside"}) => next[c] = "RECEIVED"
  /\ Never({"beside"}) =>
       \A c, d \in Client : step[c] \in Receiving /\ step[d] \in Receiving => c = d

\* One void at a time finds the posting of its receipt, or its reversal.
OneReversal ==
  /\ \A r \in DOMAIN receipts :
       receipts[r].runs \in {1, 2} /\ (receipts[r].voided <=> receipts[r].runs = 2)
  /\ \A c, d \in Client : at[c] # 0 /\ at[c] = at[d] => c = d
  /\ \A c \in Client :
       /\ step[c] = "active" => receipts[at[c]].runs = 1
       /\ step[c] = "stamp" =>
            \/ found[c] = 0 /\ receipts[at[c]].runs = 2
            \/ found[c] = 1 /\ receipts[at[c]].runs = 1

SupplyIInv ==
  /\ SupplyTypeOK /\ LinesFit
  /\ Never({"lost"}) => TakesTurns /\ StatusStands /\ NothingTwice /\ AllAccounted
  /\ Never({"lost", "edited", "marked"}) => StatusTells /\ ReceivedIsComplete
  /\ Never({"voids"}) => OneReversal
=============================================================================
