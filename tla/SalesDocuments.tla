---------------------------- MODULE SalesDocuments ----------------------------
(***************************************************************************)
(* One sale of one line and what may happen to it: it is posted, voided    *)
(* and reposted, and goods come back by returns with restock.  The service *)
(* is SalesDocumentsService; how the statements of post, void and repost   *)
(* interleave on the ledger is PostingRuns, how a line takes its goods     *)
(* from the batches is Inventory.  Here post and repost act on the active  *)
(* run they have read, in one transaction each.                            *)
(*                                                                         *)
(* A return runs in one transaction at READ COMMITTED: it reads the sale,  *)
(* inserts its operation under the key of the request, reads what has been *)
(* returned of each movement of the sale and, for one line of the request  *)
(* after the other, what has been returned of the line.  What two returns  *)
(* read of each other is settled by nothing but unique keys.               *)
(*                                                                         *)
(* A run counts the sale once (sum 1) or takes it back (sum -1).  Goods    *)
(* may come back to any warehouse, so returns need not meet in a balance.  *)
(***************************************************************************)
EXTENDS Integers, Sequences, FiniteSets, FiniteSetsExt, Functions

CONSTANTS
  Client,      \* calls at work at the same time
  Key,         \* idempotency keys of returns
  Cuts,        \* movements the goods may leave by: quantities, oldest first
  Requests,    \* returns that may be asked for: quantities of the line
  MaxRuns,     \* bound: posting runs of the sale
  MaxReturns   \* bound: returns

Total(s) == SumFunctionOnSet(s, DOMAIN s)

\* What is sold is more than nothing: a line of 0 takes no goods.
ASSUME CutsAssumption ==
  /\ Cuts \subseteq Seq(Nat \ {0}) \ {<<>>} /\ Cuts # {}
  /\ \A s, t \in Cuts : Total(s) = Total(t)
ASSUME RequestsAssumption == Requests \subseteq Seq(Nat \ {0}) \ {<<>>}
ASSUME BoundsAssumption == MaxRuns \in Nat /\ MaxReturns \in Nat

\* SalesDocumentLine.quantity
Sold == Total(CHOOSE s \in Cuts : TRUE)

VARIABLES
  status,    \* SalesDocument.status; DRAFT stands for all but POSTED
  postings,  \* posting runs of the sale, by version
  moves,     \* quantities of the OUTCOME movements of the line
  outcomes,  \* times the goods have left
  returns,   \* SalesReturnOperation rows with their lines
  step,      \* what a call does next
  seen,      \* the active run a call has read, or 0
  key,       \* the key of its return, or none
  want,      \* quantities of the request not yet gone through
  prev,      \* what it has read as returned, by movement
  took,      \* uncommitted: its lines, a quantity for a movement
  history    \* history: what has happened so far

sale == <<status, postings, moves, outcomes>>
return == <<key, want, prev, took>>
saleVars == <<sale, returns, step, seen, return, history>>

NoLines == <<>>

SaleInit ==
  /\ status \in {"DRAFT", "POSTED"}
  /\ postings = <<>> /\ moves = <<>> /\ outcomes = 0 /\ returns = <<>>
  /\ step = [c \in Client |-> "idle"] /\ seen = [c \in Client |-> 0]
  /\ key = [c \in Client |-> {}] /\ want = [c \in Client |-> <<>>]
  /\ prev = [c \in Client |-> <<>>] /\ took = [c \in Client |-> NoLines]
  /\ history = IF status = "POSTED" THEN {"entered"} ELSE {}

Turn(c, l) == step' = [step EXCEPT ![c] = l]

End(c) ==
  /\ Turn(c, "idle")
  /\ seen' = [seen EXCEPT ![c] = 0]
  /\ key' = [key EXCEPT ![c] = {}] /\ want' = [want EXCEPT ![c] = <<>>]
  /\ prev' = [prev EXCEPT ![c] = <<>>] /\ took' = [took EXCEPT ![c] = NoLines]

AtWork(l) == \E d \in Client : step[d] \in l

OfSale == {"post", "void", "repost"}
OfReturn == {"insert", "line", "commit"}
Inserted == {"line", "commit"}

Note(S) == history' = history \cup S

----------------------------------------------------------------------------
(* postSalesDocument, voidSalesDocument, repostSalesDocument *)

Active == Max({0} \cup {k \in DOMAIN postings : ~postings[k].voided})

Net == SumFunctionOnSet([k \in DOMAIN postings |-> postings[k].sum], DOMAIN postings)

\* A call on the sale begins with the active run, be it a reversal.
ReadSale(c, l) ==
  /\ step[c] = "idle"
  /\ seen' = [seen EXCEPT ![c] = Active]
  /\ Turn(c, l)
  /\ Note((IF AtWork(OfSale \cup OfReturn) THEN {"beside"} ELSE {})
          \cup IF Active # 0 /\ postings[Active].sum = -1 THEN {"again"} ELSE {})
  /\ UNCHANGED <<sale, returns, return>>

\* A run that is there is the answer; else the sale is posted.
ReadPost(c) == Active = 0 /\ ReadSale(c, "post")

\* Without an active run there is nothing to void.
ReadVoid(c) == Active # 0 /\ ReadSale(c, "void")

ReadRepost(c) == ReadSale(c, "repost")

Posting(from) == [sum |-> 1, voided |-> FALSE, from |-> from]

\* The runs once run k is voided: a run that was voided meanwhile is left alone.
TakenBack(k) ==
  IF postings[k].voided THEN postings
  ELSE Append([postings EXCEPT ![k].voided = TRUE],
              [sum |-> -postings[k].sum, voided |-> FALSE, from |-> 0])

\* The key of the outcome names the line: it is found by every later posting.
Leaves == moves = <<>>

\* postWithRun
PostWithRun(r) ==
  /\ Len(r) < MaxRuns
  /\ status' = "POSTED"
  /\ IF Leaves
       THEN /\ \E s \in Cuts : moves' = s
            /\ outcomes' = outcomes + 1
       ELSE UNCHANGED <<moves, outcomes>>

CommitPost(c) ==
  /\ step[c] = "post"
  /\ PostWithRun(postings)
  /\ postings' = Append(postings, Posting(0))
  /\ End(c)
  /\ UNCHANGED <<returns, history>>

\* The goods stay where they are.
CommitVoid(c) ==
  /\ step[c] = "void" /\ Len(TakenBack(seen[c])) <= MaxRuns
  /\ postings' = TakenBack(seen[c])
  /\ status' = "DRAFT"
  /\ End(c)
  /\ UNCHANGED <<moves, outcomes, returns, history>>

\* A run is reposted once.
Reposted(k) == k # 0 /\ \E j \in DOMAIN postings : postings[j].from = k

\* Fault: the active run is left as it is.
Kept(k) == postings

Replaced(k) == IF k = 0 THEN postings ELSE TakenBack(k)

CommitRepost(c) ==
  LET r == Replaced(seen[c])
  IN  /\ step[c] = "repost" /\ ~Reposted(seen[c])
      /\ PostWithRun(r)
      /\ postings' = Append(r, Posting(seen[c]))
      /\ End(c)
      /\ UNCHANGED <<returns, history>>

----------------------------------------------------------------------------
(* createReturnWithRestock *)

Movement == DOMAIN moves

\* What a return takes back of movement m
Back(r, m) == IF m \in DOMAIN r.lines THEN r.lines[m] ELSE 0

Returned(m) ==
  SumFunctionOnSet([r \in DOMAIN returns |-> Back(returns[r], m)], DOMAIN returns)

ReturnedInAll == SumFunctionOnSet([m \in Movement |-> Returned(m)], Movement)

\* A key that is known is answered with its operation; else the sale must be
\* POSTED.
ReadReturn(c) ==
  \E k \in Key, w \in Requests :
    /\ step[c] = "idle" /\ status = "POSTED"
    /\ ~ \E r \in DOMAIN returns : returns[r].key = k
    /\ key' = [key EXCEPT ![c] = {k}] /\ want' = [want EXCEPT ![c] = w]
    /\ Turn(c, "insert")
    /\ Note((IF AtWork(OfSale) THEN {"beside"} ELSE {})
            \cup IF AtWork(OfReturn) THEN {"together"} ELSE {})
    /\ UNCHANGED <<sale, returns, seen, prev, took>>

KeyKnown(c) == \E r \in DOMAIN returns : returns[r].key \in key[c]

\* The operation is inserted, as soon as nobody holds its key; the movements of
\* the sale and what has come back of each are read.
InsertReturn(c) ==
  /\ step[c] = "insert"
  /\ ~ \E d \in Client \ {c} : step[d] \in Inserted /\ key[d] = key[c]
  /\ IF KeyKnown(c)
       THEN End(c)
       ELSE /\ prev' = [prev EXCEPT ![c] = [m \in Movement |-> Returned(m)]]
            /\ Turn(c, "line")
            /\ UNCHANGED <<seen, key, want, took>>
  /\ UNCHANGED <<sale, returns, history>>

\* Of n, what movement m gives when a[j] is there of each movement j: the older
\* ones give first.
Slice(a, n, m) ==
  LET before == SumFunctionOnSet(a, 1 .. m - 1)
  IN  Max({0, Min({a[m], n - before})})

Available(c) == [m \in DOMAIN prev[c] |-> Max({0, moves[m] - prev[c][m]})]

\* The lines of this return for quantity n, without those of 0.
Slices(c, n) ==
  LET a == Available(c)
  IN  [m \in {j \in DOMAIN a : Slice(a, n, j) > 0} |-> Slice(a, n, m)]

\* Fault: a second line for a movement is added to the first.
MeetsNever(s, t) == FALSE

\* UNIQUE (returnOperationId, originalMovementId)
Meets(s, t) == DOMAIN s \cap DOMAIN t # {}

\* The next line of the request: what has been returned of it by others is read
\* now; the lines are written and the goods taken in.  A line the movements do
\* not cover, or that meets an earlier one in a movement, fails the request.
NextLine(c) ==
  LET n == Head(want[c])
      s == Slices(c, n)
  IN  /\ step[c] = "line" /\ want[c] # <<>>
      /\ n <= Sold - ReturnedInAll /\ Total(s) = n
      /\ ~Meets(s, took[c])
      /\ took' = [took EXCEPT ![c] = [m \in DOMAIN s \cup DOMAIN @ |->
                    IF m \in DOMAIN s
                      THEN s[m] + IF m \in DOMAIN @ THEN @[m] ELSE 0 ELSE @[m]]]
      /\ want' = [want EXCEPT ![c] = Tail(@)]
      /\ Turn(c, IF Len(want[c]) = 1 THEN "commit" ELSE "line")
      /\ UNCHANGED <<sale, returns, seen, key, prev, history>>

\* The refund and the cost of the lines are booked in a run of the operation.
\* What the books say of the sale then is kept for the properties.
CommitReturn(c) ==
  /\ step[c] = "commit" /\ Len(returns) < MaxReturns
  /\ returns' = Append(returns, [key |-> CHOOSE k \in key[c] : TRUE, lines |-> took[c], sale |-> Net])
  /\ End(c)
  /\ UNCHANGED <<sale, history>>

----------------------------------------------------------------------------
\* The call is refused or fails, or its process ends: the transaction is gone.
GiveUp(c) ==
  /\ step[c] # "idle"
  /\ End(c)
  /\ UNCHANGED <<sale, returns, history>>

SaleCall(c) ==
  \/ ReadPost(c) \/ CommitPost(c)
  \/ ReadVoid(c) \/ CommitVoid(c)
  \/ ReadRepost(c) \/ CommitRepost(c)
  \/ ReadReturn(c) \/ InsertReturn(c) \/ NextLine(c) \/ CommitReturn(c)
  \/ GiveUp(c)

SaleNext == \E c \in Client : SaleCall(c)

SaleSpec == SaleInit /\ [][SaleNext]_saleVars

----------------------------------------------------------------------------
SaleRun == [sum : {1, -1}, voided : BOOLEAN, from : Nat]

\* Quantities for some of the movements the goods may leave by
Lines == UNION {[S -> 0 .. Sold] : S \in UNION {SUBSET DOMAIN s : s \in Cuts}}

Operation == [key : Key, lines : Lines, sale : Int]

SaleTypeOK ==
  /\ status \in {"DRAFT", "POSTED"}
  /\ postings \in Seq(SaleRun)
  /\ moves \in Cuts \cup {<<>>}
  /\ outcomes \in Nat
  /\ returns \in Seq(Operation)
  /\ step \in [Client -> {"idle"} \cup OfSale \cup OfReturn]
  /\ seen \in [Client -> 0 .. Len(postings)] /\ key \in [Client -> SUBSET Key]
  /\ want \in [Client -> Seq(Nat \ {0})]
  /\ DOMAIN prev = Client /\ \A c \in Client : prev[c] \in [DOMAIN prev[c] -> Nat]
  /\ took \in [Client -> Lines]

Never(S) == history \cap S = {}

\* A return that is sent again is booked once, even while the first one is at work.
KeyOnce ==
  \A q, r \in DOMAIN returns : returns[q].key = returns[r].key => q = r

\* However its lines are cut, and even if it lists the line twice, a return takes
\* back no more of a movement than has left by it.
WithinMovement ==
  \A r \in DOMAIN returns : \A m \in DOMAIN returns[r].lines :
    m \in Movement /\ returns[r].lines[m] <= moves[m]

\* Nor do all returns together, if they come one after the other.
WithinSale ==
  Never({"together"}) => \A m \in Movement : Returned(m) <= moves[m]

\* Goods come back once, and at the cost they left at.
ReturnsAddUp == SaleTypeOK /\ KeyOnce /\ WithinMovement /\ WithinSale

\* The goods leave once, with the first posting, however often the sale is
\* voided and posted again.
GoodsLeaveOnce == outcomes = IF postings = <<>> THEN 0 ELSE 1

\* A sale that calls have changed one by one, and that was not touched again
\* after a void, is in the books once when it is POSTED and not at all when it
\* is not.
StatusFollowsBooks ==
  Never({"beside", "again", "entered"}) =>
    Net = IF status = "POSTED" THEN 1 ELSE 0

\* A return is booked against a sale that is in the books, unless something else
\* is done to the sale meanwhile.
ReturnHasSale ==
  Never({"beside", "again"}) => \A r \in DOMAIN returns : returns[r].sale = 1

\* The sale, the goods and the returns tell the same story.
SaleAddsUp == GoodsLeaveOnce /\ StatusFollowsBooks /\ ReturnHasSale

----------------------------------------------------------------------------
(* Why they hold: the inductive invariant *)

\* An operation that is inserted has a key of its own.
KeysHeld ==
  /\ \A c \in Client : /\ step[c] \in OfReturn => \E k \in Key : key[c] = {k}
                       /\ step[c] \in Inserted => ~KeyKnown(c)
  /\ \A c, d \in Client :
       step[c] \in Inserted /\ step[d] \in Inserted /\ key[c] = key[d] => c = d

\* The goods have left as soon as there is a run, and before anything comes back.
GoodsTell ==
  /\ moves = <<>> <=> postings = <<>>
  /\ \A c \in Client : /\ step[c] = "commit" => moves # <<>>
                       /\ step[c] = "void" => seen[c] # 0

\* What a return has written so far is within the movements it has read.
LinesWithin ==
  \A c \in Client :
    /\ DOMAIN prev[c] \in {{}, Movement}
    /\ step[c] \notin Inserted => DOMAIN took[c] = {}
    /\ \A m \in DOMAIN took[c] : m \in Movement /\ took[c][m] <= moves[m]

\* Returns that come one after the other know of all that has come back.
ReturnsTakeTurns ==
  /\ \A c, d \in Client : step[c] \in OfReturn /\ step[d] \in OfReturn => c = d
  /\ \A c \in Client : step[c] \in Inserted =>
       /\ \A m \in DOMAIN prev[c] : prev[c][m] = Returned(m)
       /\ \A m \in DOMAIN took[c] : Returned(m) + took[c][m] <= moves[m]

\* A call on the sale has it for itself; the last run stands and tells the rest.
BooksStand ==
  /\ \A c, d \in Client : step[c] \in OfSale /\ step[d] \in OfSale \cup OfReturn => c = d
  /\ IF postings = <<>>
       THEN status = "POSTED" => "entered" \in history
       ELSE LET last == postings[Len(postings)]
            IN  /\ ~last.voided
                /\ Net = IF last.sum = 1 THEN 1 ELSE 0
                /\ status = "POSTED" <=> last.sum = 1
  /\ \A c \in Client :
       /\ step[c] \in OfSale =>
            /\ seen[c] = Len(postings)
            /\ postings # <<>> => step[c] # "post" /\ postings[seen[c]].sum = 1
       /\ step[c] \in OfReturn => status = "POSTED"

SaleIInv ==
  /\ SaleTypeOK /\ KeysHeld /\ KeyOnce /\ GoodsTell /\ GoodsLeaveOnce
  /\ LinesWithin /\ WithinMovement
  /\ Never({"together"}) => ReturnsTakeTurns /\ WithinSale
  /\ Never({"beside", "again"}) => BooksStand /\ ReturnHasSale
=============================================================================
