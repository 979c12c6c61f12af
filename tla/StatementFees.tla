--------------------------- MODULE StatementFees ---------------------------
(***************************************************************************)
(* One marketplace fee and everything that accounts for it: the statement  *)
(* lines that report it, their fee postings (documents of type             *)
(* STATEMENT_LINE_FEE) and the sales document that may have posted it      *)
(* before them.  The operations are postLine, voidFeePosting and           *)
(* repostFeePosting of StatementsPostingService.                           *)
(*                                                                         *)
(* A request reads what it decides on in one action and writes in another. *)
(* Nothing locks a line: requests for it may overlap, and the history      *)
(* names the lines on which they have.  (How their writes meet on the      *)
(* versions of one document is the subject of PostingRuns.)  Every run of  *)
(* a fee posting carries exactly one entry, so the run stands for it.      *)
(* Lines are matched to money transactions of their own.                   *)
(***************************************************************************)
EXTENDS Integers, Sequences, FiniteSets

CONSTANTS
  Caller,   \* requests at work at the same time
  FeeLine,  \* statement lines that report the fee
  Sale,     \* the sales document
  MaxRuns   \* bound: runs of one line

ASSUME SaleAssumption == Sale \notin FeeLine
ASSUME MaxRunsAssumption == MaxRuns \in Nat \ {0}

VARIABLES
  status,   \* StatementLine.status
  mode,     \* StatementLine.postedMode
  voided,   \* feeVoidedAt is set
  ledger,   \* the posting runs of a document; the index is the version
  links,    \* FEE links from the money transaction of a line to an entry
  doing,    \* what a request is about to write
  on,       \* the line it is for
  seen,     \* the entry it has decided to link to, or to reverse
  was,      \* the status of the line it has read
  history,  \* history: what has been done to a line so far
  overlap   \* history: two requests, for whichever lines, have overlapped

line == <<status, mode, voided>>
request == <<doing, on, seen, was>>
feeVars == <<line, ledger, links, request, history, overlap>>

Doc == FeeLine \cup {Sale}

\* sign 1 debits the fee account, -1 credits it; rev is reversalRunId and of
\* the version whose entry the run reverses (0: none).
Posting == [sign |-> 1, voided |-> FALSE, rev |-> 0, of |-> 0]

\* The entry of version n of d
Entry == Doc \X (1 .. MaxRuns)

NoEntry == <<>>
NoLine == <<>>

----------------------------------------------------------------------------
FeeInit ==
  /\ status = [l \in FeeLine |-> "NEW"]
  /\ mode = [l \in FeeLine |-> "none"]
  /\ voided = [l \in FeeLine |-> FALSE]
  /\ \E s \in {<<>>, <<Posting>>} :
       ledger = [d \in Doc |-> IF d = Sale THEN s ELSE <<>>]
  /\ links = {}
  /\ doing = [c \in Caller |-> "idle"]
  /\ on = [c \in Caller |-> NoLine]
  /\ seen = [c \in Caller |-> NoEntry]
  /\ was = [c \in Caller |-> "none"]
  /\ history = [l \in FeeLine |-> {}]
  /\ overlap = FALSE

Goto(c, w) == doing' = [doing EXCEPT ![c] = w]

\* Requests that are about to post a line
Linking == {"link", "create"}

Others(c, l) == {d \in Caller \ {c} : doing[d] # "idle" /\ on[d] = l}

\* A request for l starts beside others, and crosses one if not all of them post.
Meets(c, l, w) ==
  (IF Others(c, l) # {} THEN {"beside"} ELSE {})
    \cup IF \E d \in Others(c, l) : w \notin Linking \/ doing[d] \notin Linking
           THEN {"crossed"} ELSE {}

Start(c, l, w, e, did) ==
  /\ doing[c] = "idle"
  /\ Goto(c, w)
  /\ on' = [on EXCEPT ![c] = l]
  /\ seen' = [seen EXCEPT ![c] = e]
  /\ was' = [was EXCEPT ![c] = status[l]]
  /\ history' = [history EXCEPT ![l] = @ \cup did \cup Meets(c, l, w)]
  /\ overlap' = (overlap \/ \E d \in Caller : doing[d] # "idle")
  /\ UNCHANGED <<line, ledger, links>>

Finish(c) ==
  /\ Goto(c, "idle")
  /\ on' = [on EXCEPT ![c] = NoLine]
  /\ seen' = [seen EXCEPT ![c] = NoEntry]
  /\ was' = [was EXCEPT ![c] = "none"]
  /\ UNCHANGED <<history, overlap>>

\* confirmMatch; SUGGESTED and ERROR are as NEW
Confirm(l) ==
  /\ status[l] = "NEW"
  /\ status' = [status EXCEPT ![l] = "MATCHED"]
  /\ UNCHANGED <<mode, voided, ledger, links, request, history, overlap>>

----------------------------------------------------------------------------
(* postLine *)

Entries == {e \in Entry : e[2] \in DOMAIN ledger[e[1]]}

\* Fault: only the entries of sales documents are searched.
CandidatesOfSales == {e \in Entries : e[1] = Sale}

\* Every entry that debits the fee account for this fee, reversed or not, of
\* the line itself or of another document.
Candidates == {e \in Entries : ledger[e[1]][e[2]].sign = 1}

\* ensureMarketplaceFeePosting decides: link to an entry, or create one.
Ensure(w, e) ==
  \/ e \in Candidates /\ w = "link"
  \/ Candidates = {} /\ e = NoEntry /\ w = "create"

\* A line that is POSTED already is looked after once more.
ReadFeePost(c) ==
  \E l \in FeeLine, w \in Linking, e \in Entry \cup {NoEntry} :
    /\ status[l] \in {"MATCHED", "POSTED"}
    /\ Ensure(w, e)
    /\ Start(c, l, w, e, IF status[l] = "POSTED" THEN {"again"} ELSE {})

\* The line is posted; of one that was POSTED only the mode is written, and the
\* mark of a void stays.
MarkPosted(c, m) ==
  LET l == on[c]
      again == was[c] = "POSTED"
  IN  /\ status' = [status EXCEPT ![l] = IF again THEN @ ELSE "POSTED"]
      /\ mode' = [mode EXCEPT ![l] = m]
      /\ voided' = [voided EXCEPT ![l] = again /\ @]

\* CashAccountingLinksService.link, an upsert
Linked(l, e) == links \cup {<<l, e>>}

WriteLink(c) ==
  /\ doing[c] = "link"
  /\ links' = Linked(on[c], seen[c])
  /\ MarkPosted(c, "FEE_LINK_ONLY")
  /\ Finish(c)
  /\ UNCHANGED ledger

\* Fault: it is not asked whether the posting was voided before.
VoidedRunsNever(l) == {}

VoidedRuns(l) == {n \in DOMAIN ledger[l] : ledger[l][n].voided}

\* getActivePostedRun: the highest version that is not VOIDED
IsActive(l, n) ==
  /\ n \in DOMAIN ledger[l] \ VoidedRuns(l)
  /\ \A k \in DOMAIN ledger[l] \ VoidedRuns(l) : k <= n

\* A new run with its entry, or the run that another request for the line has posted
\* meanwhile, if it is there when it is looked for.
WriteCreate(c) ==
  LET l == on[c]
  IN  /\ doing[c] = "create"
      /\ \/ \E n \in DOMAIN ledger[l] :
              /\ IsActive(l, n)
              /\ links' = Linked(l, <<l, n>>)
              /\ UNCHANGED ledger
         \/ /\ Len(ledger[l]) < MaxRuns
            /\ ledger' = [ledger EXCEPT ![l] = Append(@, Posting)]
            /\ links' = Linked(l, <<l, Len(ledger[l]) + 1>>)
      /\ MarkPosted(c, "FEE_ENTRY_CREATED")
      /\ Finish(c)

----------------------------------------------------------------------------
(* voidFeePosting *)

\* Fault: links of other lines are not looked at.
HasForeignNever(l, n) == FALSE

HasForeign(l, n) == \E m \in FeeLine \ {l} : <<m, <<l, n>>>> \in links

ReadFeeVoid(c) ==
  \E l \in FeeLine :
    /\ status[l] = "POSTED"
    /\ \/ mode[l] = "FEE_LINK_ONLY" /\ Start(c, l, "unlink", NoEntry, {"void"})
       \/ /\ mode[l] = "FEE_ENTRY_CREATED" /\ VoidedRuns(l) # {}
          /\ Start(c, l, "answer", NoEntry, {"void"})
       \/ /\ mode[l] = "FEE_ENTRY_CREATED" /\ VoidedRuns(l) = {}
          /\ \E n \in DOMAIN ledger[l] :
               /\ IsActive(l, n) /\ ~HasForeign(l, n)
               /\ Start(c, l, "void", <<l, n>>, {"void"})

\* voidRun: the run n of l is reversed by a new run and marked VOIDED.
RunVoided(runs, n) ==
  Append([runs EXCEPT ![n].voided = TRUE, ![n].rev = Len(runs) + 1],
         [sign |-> -runs[n].sign, voided |-> FALSE, rev |-> 0, of |-> n])

\* The line stays POSTED, and has booked the fee.
MarkBooked(l, v) ==
  /\ mode' = [mode EXCEPT ![l] = "FEE_ENTRY_CREATED"]
  /\ voided' = [voided EXCEPT ![l] = v]
  /\ UNCHANGED status

\* A run that has been VOIDED meanwhile is left alone.
WriteFeeVoid(c) ==
  LET l == on[c]
      n == seen[c][2]
  IN  /\ doing[c] = "void"
      /\ IF ledger[l][n].voided THEN UNCHANGED ledger
         ELSE /\ Len(ledger[l]) < MaxRuns
              /\ ledger' = [ledger EXCEPT ![l] = RunVoided(@, n)]
      /\ MarkBooked(l, TRUE)
      /\ Finish(c)
      /\ UNCHANGED links

\* "alreadyVoided": some run of the line has been voided before.
WriteAnswer(c) ==
  /\ doing[c] = "answer"
  /\ MarkBooked(on[c], TRUE)
  /\ Finish(c)
  /\ UNCHANGED <<ledger, links>>

\* Fault: only the link to the entry of another document is removed.
UnlinkedForeign(l) == {k \in links : k[1] # l \/ k[2][1] = l}

\* All FEE links of the money transaction of the line are removed.
Unlinked(l) == {k \in links : k[1] # l}

\* Link-only: the line goes back to MATCHED.
TakeBack(l) ==
  /\ links' = Unlinked(l)
  /\ status' = [status EXCEPT ![l] = "MATCHED"]
  /\ mode' = [mode EXCEPT ![l] = "none"]
  /\ voided' = [voided EXCEPT ![l] = TRUE]
  /\ UNCHANGED ledger

WriteUnlink(c) ==
  /\ doing[c] = "unlink"
  /\ TakeBack(on[c])
  /\ Finish(c)

----------------------------------------------------------------------------
(* repostFeePosting *)

ReadRepost(c) ==
  \E l \in FeeLine :
    /\ status[l] = "POSTED"
    /\ \/ mode[l] = "FEE_LINK_ONLY" /\ Start(c, l, "reposting", NoEntry, {"repost"})
       \/ mode[l] = "FEE_ENTRY_CREATED" /\ Start(c, l, "repost", NoEntry, {"repost"})

\* Link-only: it calls voidFeePosting, in a transaction of its own that is committed
\* before the rest of the repost, if the line is still to be unlinked.
RepostUnlink(c) ==
  /\ doing[c] = "reposting"
  /\ status[on[c]] = "POSTED" /\ mode[on[c]] = "FEE_LINK_ONLY"
  /\ TakeBack(on[c])
  /\ Goto(c, "unlinked")
  /\ UNCHANGED <<on, seen, was, history, overlap>>

\* Then the line is posted again, with what the ledger holds by now.
Relink(c) ==
  /\ doing[c] = "unlinked"
  /\ \E w \in Linking, e \in Entry \cup {NoEntry} :
       /\ Ensure(w, e) /\ Goto(c, w)
       /\ seen' = [seen EXCEPT ![c] = e]
  /\ was' = [was EXCEPT ![c] = "MATCHED"]
  /\ UNCHANGED <<line, ledger, links, on, history, overlap>>

\* The latest run is voided unless it is VOIDED already, and a new one posted;
\* the line's links to entries of its own are replaced by one to the new entry.
WriteRepost(c) ==
  LET l == on[c]
      latest == Len(ledger[l])
      base == IF ledger[l][latest].voided
                THEN ledger[l] ELSE RunVoided(ledger[l], latest)
  IN  /\ doing[c] = "repost" /\ latest + 2 <= MaxRuns
      /\ ledger' = [ledger EXCEPT ![l] = Append(base, Posting)]
      /\ links' = {k \in links : k[1] # l \/ k[2][1] # l}
                    \cup {<<l, <<l, Len(base) + 1>>>>}
      /\ MarkBooked(l, FALSE)
      /\ Finish(c)

\* The open transaction is rolled back.
Crash(c) ==
  /\ doing[c] # "idle"
  /\ Finish(c)
  /\ UNCHANGED <<line, ledger, links>>

FeeNext ==
  \/ \E l \in FeeLine : Confirm(l)
  \/ \E c \in Caller :
       \/ ReadFeePost(c) \/ WriteLink(c) \/ WriteCreate(c)
       \/ ReadFeeVoid(c) \/ WriteFeeVoid(c) \/ WriteAnswer(c) \/ WriteUnlink(c)
       \/ ReadRepost(c) \/ RepostUnlink(c) \/ Relink(c) \/ WriteRepost(c)
       \/ Crash(c)

FeeSpec == FeeInit /\ [][FeeNext]_feeVars

----------------------------------------------------------------------------
Run == [sign : {1, -1}, voided : BOOLEAN, rev : Nat, of : Nat]

FeeTypeOK ==
  /\ status \in [FeeLine -> {"NEW", "MATCHED", "POSTED"}]
  /\ mode \in [FeeLine -> {"none", "FEE_LINK_ONLY", "FEE_ENTRY_CREATED"}]
  /\ voided \in [FeeLine -> BOOLEAN]
  /\ ledger \in [Doc -> Seq(Run)]
  /\ \A d \in Doc : Len(ledger[d]) <= MaxRuns
  /\ links \subseteq FeeLine \X Entries
  /\ doing \in [Caller -> {"idle", "link", "create", "unlink", "void", "answer",
                           "reposting", "unlinked", "repost"}]
  /\ on \in [Caller -> FeeLine \cup {NoLine}]
  /\ seen \in [Caller -> Entry \cup {NoEntry}]
  /\ was \in [Caller -> {"none", "MATCHED", "POSTED"}]
  /\ history \in [FeeLine -> SUBSET {"void", "repost", "again", "beside", "crossed"}]
  /\ overlap \in BOOLEAN

\* What the runs of d add up to on the fee account
Standing(d) ==
  Cardinality({n \in DOMAIN ledger[d] : ledger[d][n].sign = 1})
    - Cardinality({n \in DOMAIN ledger[d] : ledger[d][n].sign = -1})

\* A line is POSTED exactly while its money transaction has a FEE link, through
\* every void and repost, even if a repost dies between its transactions, and even
\* if the line is posted twice at the same time, unless a void or a repost of it
\* has overlapped another request for it.
PostedIffLinked ==
  \A l \in FeeLine : "crossed" \notin history[l] =>
    ((status[l] = "POSTED") <=> \E e \in Entries : <<l, e>> \in links)

\* No request has overlapped another one, and nothing of S has been done.
Serial(S) == ~overlap /\ \A l \in FeeLine : history[l] \cap S = {}

\* Lines posted one after the other count the fee once between them, and not
\* again when the sales document has counted it: who comes later links.
FeeCountedOnce ==
  Serial({"void", "repost"}) =>
    \A c, d \in Doc : Standing(c) >= 1 /\ Standing(d) >= 1 => c = d

\* The line has been posted once, and has been only voided or only reposted since, by
\* requests that did not overlap one another.
Plain(l) ==
  /\ history[l] \cap {"again", "beside"} = {}
  /\ ~({"void", "repost"} \subseteq history[l])

\* What a line has booked counts exactly while it is in the mode of one that books
\* the fee itself and has no mark of a void: once, however often it is reposted,
\* and not at all after a void, however often it is voided.  (Not more: posting a
\* line again that has booked the fee makes it link-only, and a void then only
\* removes its link and leaves the fee in the ledger.  A void after a repost finds
\* the run the repost has voided and leaves the new one standing, and a repost
\* after a void voids the reversal and posts once more.)
CountsUntilVoided ==
  \A l \in FeeLine : Plain(l) =>
    Standing(l) = IF mode[l] = "FEE_ENTRY_CREATED" /\ ~voided[l] THEN 1 ELSE 0

\* An entry another line is linked to is not taken away under it by a void, as
\* long as no request overlaps another.  (A repost does not look.)
ForeignLinkHeld ==
  [][Serial({"repost"})' =>
       \A l, m \in FeeLine : \A n \in DOMAIN ledger[l] :
         m # l /\ <<m, <<l, n>>>> \in links /\ ~ledger[l][n].voided
           => ~ledger'[l][n].voided]_feeVars

\* The chain of a line on which no requests cross: a VOIDED run is reversed by exactly
\* the run it names, and by no other; a voided reversal puts the posting back once.
ReversalChain ==
  \A l \in FeeLine : "crossed" \notin history[l] =>
    \A m, n \in DOMAIN ledger[l] :
      (ledger[l][n].of = m) <=> (ledger[l][m].voided /\ ledger[l][m].rev = n)

\* What a line that is posted once has booked can be taken back, or put back, and the
\* chain tells how.
Reversible == FeeTypeOK /\ CountsUntilVoided /\ ReversalChain

----------------------------------------------------------------------------
(* The inductive invariant behind the safety properties *)

\* What has runs has an entry to link to, whatever became of it.
FirstRunDebits ==
  \A d \in Doc : ledger[d] # <<>> => ledger[d][1].sign = 1

BookedHasRun ==
  \A l \in FeeLine : mode[l] = "FEE_ENTRY_CREATED" => ledger[l] # <<>>

\* What a request is about to write is there.
RequestsAreTyped ==
  \A c \in Caller :
    /\ doing[c] # "idle" => on[c] \in FeeLine
    /\ doing[c] = "link" => seen[c] \in Entries
    /\ doing[c] \in Linking => was[c] \in {"MATCHED", "POSTED"}
    /\ doing[c] = "void" => seen[c] \in {on[c]} \X DOMAIN ledger[on[c]]
    /\ doing[c] \in {"void", "answer", "repost"} => ledger[on[c]] # <<>>

\* The history knows what requests are at work.
Recorded ==
  /\ \A l \in FeeLine : "crossed" \in history[l] => "beside" \in history[l]
  /\ \A c \in Caller :
      /\ doing[c] \in {"unlink", "void", "answer"} => "void" \in history[on[c]]
      /\ doing[c] \in {"reposting", "unlinked", "repost"} => "repost" \in history[on[c]]
      /\ doing[c] \in Linking /\ was[c] = "POSTED" => "again" \in history[on[c]]
      /\ \A d \in Caller \ {c} : doing[c] # "idle" /\ doing[d] # "idle" =>
           /\ overlap
           /\ on[c] = on[d] =>
                /\ "beside" \in history[on[c]]
                /\ {doing[c], doing[d]} \subseteq Linking \/ "crossed" \in history[on[c]]

\* What a request has read of its line still holds when it writes, unless another one
\* has crossed it.
OwnLineStands ==
  \A c \in Caller : doing[c] # "idle" /\ "crossed" \notin history[on[c]] =>
    LET l == on[c]
    IN  /\ doing[c] \in {"unlink", "void", "answer", "reposting", "repost"} =>
             status[l] = "POSTED"
        /\ doing[c] = "unlinked" => status[l] = "MATCHED"
        /\ doing[c] \in Linking /\ was[c] = "POSTED" => status[l] = "POSTED"
        /\ doing[c] \in {"void", "answer", "repost"} => mode[l] = "FEE_ENTRY_CREATED"
        /\ doing[c] \in {"unlink", "reposting"} => mode[l] = "FEE_LINK_ONLY"
        /\ doing[c] = "void" => VoidedRuns(l) = {}
        /\ doing[c] = "answer" => VoidedRuns(l) # {}

\* Nor has another posting of the line, if there is none.
PostedAlone ==
  \A c \in Caller : doing[c] \in Linking /\ "beside" \notin history[on[c]] =>
    LET l == on[c]
    IN  /\ was[c] = "MATCHED" => status[l] = "MATCHED"
        /\ doing[c] = "create" => ledger[l] = <<>>

\* Only a line that is POSTED is in a mode.
ModeOfPosted ==
  \A l \in FeeLine : "crossed" \notin history[l] =>
    (status[l] = "POSTED" <=> mode[l] # "none")

\* The chain names runs there are.
ChainWithin ==
  \A l \in FeeLine : "crossed" \notin history[l] => \A n \in DOMAIN ledger[l] :
    /\ ledger[l][n].of \in 0 .. Len(ledger[l])
    /\ ledger[l][n].voided => ledger[l][n].rev \in DOMAIN ledger[l]

\* A line that is posted once has runs only while it is in the mode of one that books
\* the fee itself, and without a repost it has been voided once at most.
OnlyVoids ==
  \A l \in FeeLine : history[l] \cap {"again", "beside", "repost"} = {} =>
    ledger[l] = IF mode[l] # "FEE_ENTRY_CREATED" THEN <<>>
                ELSE IF voided[l] THEN RunVoided(<<Posting>>, 1) ELSE <<Posting>>

\* Without a void its latest run is a posting that counts.
OnlyReposts ==
  \A l \in FeeLine : history[l] \cap {"again", "beside", "void"} = {} =>
    IF mode[l] # "FEE_ENTRY_CREATED" THEN ledger[l] = <<>>
    ELSE LET latest == ledger[l][Len(ledger[l])]
         IN  Standing(l) = 1 /\ latest.sign = 1 /\ ~latest.voided /\ ~voided[l]

\* Without void, repost or overlap one document has the entry of the fee.
OneEntry ==
  Serial({"void", "repost"}) =>
    /\ \A c, d \in Doc : ledger[c] # <<>> /\ ledger[d] # <<>> => c = d
    /\ \A c \in Caller : doing[c] = "create" => \A d \in Doc : ledger[d] = <<>>

\* The link a void has not found has not been made since.
NobodyElseLinks ==
  Serial({"repost"}) =>
    \A c \in Caller : doing[c] = "void" => ~HasForeign(on[c], seen[c][2])

FeeIInv ==
  /\ FeeTypeOK /\ FirstRunDebits /\ BookedHasRun /\ RequestsAreTyped /\ Recorded
  /\ PostedIffLinked /\ OwnLineStands /\ PostedAlone /\ ModeOfPosted
  /\ ReversalChain /\ ChainWithin /\ OnlyVoids /\ OnlyReposts
  /\ OneEntry /\ NobodyElseLinks

=============================================================================
