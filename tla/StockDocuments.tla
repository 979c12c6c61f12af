--------------------------- MODULE StockDocuments ---------------------------
(***************************************************************************)
(* The transactions that post documents with lines of several items: a     *)
(* sales document, a return, a receipt or the receiving of a supply.  Each *)
(* of them runs recordIncome or recordOutcome for one line after the other *)
(* in the order the document lists them, and every row a line has updated  *)
(* stays locked until the transaction ends.  What the lines write is left  *)
(* to Inventory; here only the locks are modelled, and who waits for whom. *)
(*                                                                         *)
(* A line updates some rows of its item, each in its place: the batches it *)
(* takes from, oldest first, or the supply item it adds to, then the       *)
(* balance.  Which ones depends on what is in stock, so any of them may    *)
(* be.  The document's own rows and keys come first.                       *)
(***************************************************************************)
EXTENDS Integers, Sequences

CONSTANTS
  Poster,   \* transactions, each of which posts a document
  Sheet,    \* documents
  MaxSku,   \* items of one warehouse, numbered
  Lists,    \* the items of a document's lines, in their order
  MaxRow    \* bound: rows of an item besides its balance

Sku == 1 .. MaxSku

ASSUME MaxSkuAssumption == MaxSku \in Nat
ASSUME ListsAssumption == Lists \in [Sheet -> Seq(Sku)]
ASSUME MaxRowAssumption == MaxRow \in Nat

VARIABLES
  phase,     \* how far a transaction has come
  sheet,     \* the document it posts
  reached,   \* the lines it has come to
  ahead,     \* rows its line has not updated yet
  held,      \* rows it has updated
  posted     \* documents with their goods moved

sheetVars == <<phase, sheet, reached, ahead, held, posted>>

\* An item's rows in the order in which a line comes to them
Balance == MaxRow + 1

StockRow == Sku \X (1 .. Balance)

Phase == {"idle", "begun", "open", "failing", "done", "failed"}

SheetInit ==
  /\ phase = [p \in Poster |-> "idle"] /\ sheet \in [Poster -> Sheet]
  /\ reached = [p \in Poster |-> 0]
  /\ ahead = [p \in Poster |-> {}] /\ held = [p \in Poster |-> {}]
  /\ posted = {}

Enters(p, l) == phase' = [phase EXCEPT ![p] = l]

\* Locks are given up when the transaction ends, and not before.
Leave(p, l) ==
  /\ Enters(p, l)
  /\ ahead' = [ahead EXCEPT ![p] = {}] /\ held' = [held EXCEPT ![p] = {}]
  /\ UNCHANGED <<sheet, reached>>

Submit(p) ==
  /\ phase[p] = "idle" /\ Enters(p, "begun")
  /\ UNCHANGED <<sheet, reached, ahead, held, posted>>

\* Another transaction posts the same document.
Busy(p, r) ==
  r # p /\ phase[r] = "open" /\ sheet[r] = sheet[p]

\* The document's own row, or the key of its posting run, is waited for.  Of a
\* document that is posted already the run is found, or its key is taken, or, if
\* the run has been voided, there is a new one.
OwnRow(p) ==
  /\ phase[p] = "begun" /\ \A r \in Poster : ~Busy(p, r)
  /\ \E l \in IF sheet[p] \in posted THEN {"open", "failing", "done"} ELSE {"open"} :
       Enters(p, l)
  /\ UNCHANGED <<sheet, reached, ahead, held, posted>>

RowsOf(i, N) == {<<i, n>> : n \in N}

\* The rows that a line of a document not posted before is going to update; a
\* line that has its inventory transaction is only read.
LineRows(p, i, N) == IF sheet[p] \in posted THEN {} ELSE RowsOf(i, N \cup {Balance})

ReachLine(p) ==
  /\ phase[p] = "open" /\ ahead[p] = {}
  /\ reached[p] < Len(Lists[sheet[p]])
  /\ reached' = [reached EXCEPT ![p] = @ + 1]
  /\ \E N \in SUBSET (1 .. MaxRow) :
       ahead' = [ahead EXCEPT ![p] = LineRows(p, Lists[sheet[p]][reached'[p]], N)]
  /\ UNCHANGED <<phase, sheet, held, posted>>

\* Fault: the batches of an item come in any order, only its balance is last.
NextUpUnordered(p, r) ==
  r \in ahead[p] /\ (r[2] = Balance => ahead[p] = {r})

NextUp(p, r) == r \in ahead[p] /\ \A o \in ahead[p] : r[2] <= o[2]

\* An update waits for the row.
Update(p) ==
  /\ phase[p] = "open"
  /\ \E r \in StockRow :
       /\ NextUp(p, r) /\ \A q \in Poster \ {p} : r \notin held[q]
       /\ ahead' = [ahead EXCEPT ![p] = @ \ {r}]
       /\ held' = [held EXCEPT ![p] = @ \cup {r}]
  /\ UNCHANGED <<phase, sheet, reached, posted>>

CommitSheet(p) ==
  /\ phase[p] = "open" /\ ahead[p] = {} /\ reached[p] = Len(Lists[sheet[p]])
  /\ posted' = posted \cup {sheet[p]}
  /\ Leave(p, "done")

\* A line fails, the transaction times out, or PostgreSQL gives it up because it
\* is waiting in a circle.
FailSheet(p) ==
  /\ phase[p] \in {"begun", "open", "failing"}
  /\ Leave(p, "failed")
  /\ UNCHANGED posted

PosterStep(p) ==
  \/ Submit(p) \/ OwnRow(p) \/ ReachLine(p) \/ Update(p) \/ CommitSheet(p) \/ FailSheet(p)

AllPosted ==
  (\A p \in Poster : phase[p] \in {"done", "failed"}) /\ UNCHANGED sheetVars

SheetNext == (\E p \in Poster : PosterStep(p)) \/ AllPosted

SheetSpec == SheetInit /\ [][SheetNext]_sheetVars

----------------------------------------------------------------------------
SheetTypeOK ==
  /\ phase \in [Poster -> Phase] /\ sheet \in [Poster -> Sheet]
  /\ reached \in [Poster -> Nat]
  /\ ahead \in [Poster -> SUBSET StockRow] /\ held \in [Poster -> SUBSET StockRow]
  /\ posted \subseteq Sheet

\* p waits for r to end.
WaitsFor(p, r) ==
  /\ p # r
  /\ \/ phase[p] = "begun" /\ Busy(p, r)
     \/ phase[p] = "open" /\ \E o \in held[r] : NextUp(p, o)

\* The document lists no item before one of a smaller number, and none twice; so
\* does every document of a single line.
Ascending(s) ==
  \A i, j \in DOMAIN Lists[s] : i < j => Lists[s][i] < Lists[s][j]

\* Transactions wait in a circle only if one of them posts a document that lists
\* an item twice, or items in another order than the others: of those that keep
\* to a common order, some are always waiting for none of the rest.
NoCircle ==
  \A S \in SUBSET {p \in Poster : Ascending(sheet[p])} : S # {} =>
    \E p \in S : \A r \in S : ~WaitsFor(p, r)

----------------------------------------------------------------------------
(* The inductive invariant behind it *)

\* Who is not at work on its lines holds no row that one of them updates.
HoldsNothing == \A p \in Poster : phase[p] # "open" => held[p] = {} /\ ahead[p] = {}

\* Rows are those of the lines come to, rows ahead those of the last one.
RowsOfLines ==
  \A p \in Poster :
    /\ reached[p] <= Len(Lists[sheet[p]])
    /\ \A r \in held[p] : \E i \in 1 .. reached[p] : r[1] = Lists[sheet[p]][i]
    /\ \A r \in ahead[p] : reached[p] > 0 /\ r[1] = Lists[sheet[p]][reached[p]]

Before(r, o) == r[1] < o[1] \/ (r[1] = o[1] /\ r[2] < o[2])

\* Where no item comes twice, all rows held come before all rows ahead.
InLine ==
  \A p \in Poster : Ascending(sheet[p]) =>
    \A r \in held[p], o \in ahead[p] : Before(r, o)

SheetIInv == SheetTypeOK /\ HoldsNothing /\ RowsOfLines /\ InLine

=============================================================================
