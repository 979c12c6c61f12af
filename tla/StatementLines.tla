---------------------------- MODULE StatementLines ----------------------------
(***************************************************************************)
(* The lines of bank statements, from the import to the cash they are      *)
(* posted to.  The services are StatementImportService,                    *)
(* StatementMatchingService, StatementsPostingService and                  *)
(* ReconciliationControlsService, and the voids that ask whether cash is   *)
(* reconciled.                                                             *)
(*                                                                         *)
(* A call reads a line, decides, and updates it by its id; most calls have *)
(* no transaction, and the others read without a lock.  What a call writes *)
(* does not depend on what the line has become: the update of a line that  *)
(* is no longer there fails, and a unique key that is taken fails.  Calls  *)
(* that should not overlap are named by the history variable lap.          *)
(*                                                                         *)
(* A line <<k>> comes from a file; <<k, p>> is part p of it.  Which cash   *)
(* fits a line by amount, date and direction is left open, and so is which *)
(* lines are the legs of a payout.  An execution stands for the money      *)
(* transaction it has made, which is there whenever it is.  Nothing in the *)
(* code sets the status ERROR.  What posting a line, and taking the        *)
(* posting back, does about a marketplace fee is the subject of            *)
(* StatementFees.                                                          *)
(***************************************************************************)
EXTENDS FiniteSets

CONSTANTS
  Client,   \* calls at work at the same time
  Key,      \* lines of statement files, by the hash of their content
  Id,       \* external ids of lines
  File,     \* statement files, by their import hash
  Content,  \* the lines of a file: content and external id
  Part,     \* the parts of a line that is split
  Money     \* money transactions a line may be matched with

NoId == "no id"

ASSUME ContentAssumption == Content \in [File -> SUBSET (Key \X (Id \cup {NoId}))]

VARIABLES
  statements,  \* files that are imported
  lines,       \* StatementLine rows; absent ones have the status NONE
  cash,        \* MoneyTransaction.status
  pc,          \* what a call does next
  at,          \* the line, file or money transaction it works on
  read,        \* what it has read of it and is about to write
  lap,         \* history: overlaps of calls that are not survived
  excused      \* history: lines whose status has been changed while they are split

rows == <<statements, lines, cash>>
vars == <<rows, pc, at, read, lap, excused>>

Whole == {<<k>> : k \in Key}
Parts(l) == {<<l[1], p>> : p \in Part}
Line == Whole \cup UNION {Parts(l) : l \in Whole}

NoMoney == "none"

ASSUME MoneyAssumption == NoMoney \notin Money

\* A file that is imported creates lines that have neither a match nor a suggestion.
Row(s) == [status |-> s, hint |-> FALSE, entity |-> NoMoney, money |-> NoMoney,
           split |-> FALSE, ext |-> NoId]

Absent == Row("NONE")

Init ==
  /\ statements = {}
  /\ lines = [l \in Line |-> Absent]
  /\ cash = [m \in Money |-> "POSTED"]
  /\ pc = [c \in Client |-> "idle"]
  /\ at = [c \in Client |-> <<>>] /\ read = [c \in Client |-> "none"]
  /\ lap = {} /\ excused = {}

There(l) == lines[l].status # "NONE"

\* The lines a call on l is about: a split and its undoing are about the parts too.
Family(l) == {l} \cup (IF l \in Whole THEN Parts(l) ELSE {<<l[1]>>})

\* Calls that give a line another status than IGNORED, and all that change a line
\* that is not posted
Restating == {"suggest", "confirm", "unignore"}
Changing == Restating \cup {"ignore", "split", "undo"}

\* Calls that are about to post a line, or to take its posting back
ToPost == {"post", "repost", "unlink", "reposting"}
Holding == ToPost \cup {"unpost"}

\* Another call is at a step of S and on one of the lines or rows of A.
Beside(c, S, A) == \E d \in Client \ {c} : pc[d] \in S /\ at[d] \in A

\* Call c has read what it needs of x; S are the calls it does not survive.
Begin(c, step, x, value, S, A) ==
  /\ pc[c] = "idle"
  /\ pc' = [pc EXCEPT ![c] = step]
  /\ at' = [at EXCEPT ![c] = x]
  /\ read' = [read EXCEPT ![c] = value]
  /\ lap' = IF Beside(c, S, A) THEN lap \cup {step} ELSE lap
  /\ UNCHANGED <<rows, excused>>

End(c) ==
  /\ pc' = [pc EXCEPT ![c] = "idle"]
  /\ at' = [at EXCEPT ![c] = <<>>]
  /\ read' = [read EXCEPT ![c] = "none"]
  /\ UNCHANGED lap

\* The line of call c is updated, if it is still there.
Update(c, row) ==
  /\ There(at[c])
  /\ lines' = [lines EXCEPT ![at[c]] = row]
  /\ End(c)
  /\ UNCHANGED <<statements, cash, excused>>

----------------------------------------------------------------------------
(* import *)

ReadImport(c) ==
  \E f \in File \ statements : Begin(c, "import", f, "none", {}, {})

\* Another line has the external id e has.
Held(e) == e[2] # NoId /\ \E l \in Whole : lines[l].ext = e[2]

Clash(e, g) == e # g /\ (e[1] = g[1] \/ (e[2] = g[2] /\ e[2] # NoId))

\* Lines whose content or external id the account has already are skipped, and of
\* several with the same all but the first.
Imported(f, S) ==
  LET free == {e \in Content[f] : ~There(<<e[1]>>) /\ ~Held(e)}
  IN  /\ S \subseteq free
      /\ \A e, g \in S : ~Clash(e, g)
      /\ \A e \in free \ S : \E g \in S : Clash(e, g)

WriteImport(c) ==
  LET f == at[c]
  IN  /\ pc[c] = "import" /\ f \notin statements
      /\ statements' = statements \cup {f}
      /\ \E S \in SUBSET Content[f] :
           /\ Imported(f, S)
           /\ lines' = [l \in Line |->
                          IF \E e \in S : l = <<e[1]>>
                            THEN [Row("NEW") EXCEPT !.ext = (CHOOSE e \in S : l = <<e[1]>>)[2]]
                            ELSE lines[l]]
      /\ End(c)
      /\ UNCHANGED <<cash, excused>>

----------------------------------------------------------------------------
(* suggestForLine, suggestBatch, retrySuggest, batchRetrySuggest *)

\* Candidates may be found or not.
ReadSuggest(c) ==
  \E l \in Line, s \in {"NEW", "SUGGESTED"} :
    /\ lines[l].status = "NEW"
    /\ Begin(c, "suggest", l, s, Holding, {l})

WriteSuggest(c) ==
  /\ pc[c] = "suggest"
  /\ Update(c, [lines[at[c]] EXCEPT !.hint = TRUE, !.status = read[c]])

----------------------------------------------------------------------------
(* confirmMatch *)

\* Fault: only the status is asked.
NotSplitStatus(r) == r.status # "SPLIT"

\* A line that is no container of parts
NotSplit(r) == r.status # "SPLIT" /\ ~r.split

ReadConfirm(c) ==
  \E l \in Line, m \in Money :
    /\ lines[l].status \in {"NEW", "SUGGESTED"} /\ NotSplit(lines[l])
    /\ Begin(c, "confirm", l, m, Holding, {l})

WriteConfirm(c) ==
  /\ pc[c] = "confirm"
  /\ Update(c, [lines[at[c]] EXCEPT !.entity = read[c], !.status = "MATCHED"])

----------------------------------------------------------------------------
(* postLine, postBatch, retryPost, batchRetryPost *)

\* Nobody asks whether the cash is void.
ReadPost(c) ==
  \E l \in Line :
    LET r == lines[l]
    IN  /\ r.status = "MATCHED" /\ NotSplit(r) /\ r.entity # NoMoney
        /\ Begin(c, "post", l, r.entity, Changing \cup {"void", "payout"},
                 Family(l) \cup {r.entity})

PostedTo(r, m) == [r EXCEPT !.money = m, !.status = "POSTED"]

WritePost(c) ==
  /\ pc[c] = "post"
  /\ Update(c, PostedTo(lines[at[c]], read[c]))

----------------------------------------------------------------------------
(* voidFeePosting, repostFeePosting of a line whose fee is not its own *)

\* Also of a line without a fee
ReadUnpost(c) ==
  \E l \in Line :
    /\ lines[l].status = "POSTED" /\ lines[l].money # NoMoney
    /\ Begin(c, "unpost", l, lines[l].money, {}, {})

Unposted(r) == [r EXCEPT !.status = "MATCHED", !.money = NoMoney]

WriteUnpost(c) ==
  /\ pc[c] = "unpost"
  /\ Update(c, Unposted(lines[at[c]]))

\* A repost takes the posting back by voidFeePosting, in a transaction of its own,
\* and posts the line to the cash it has read before.
ReadPostAnew(c) ==
  \E l \in Line :
    /\ lines[l].status = "POSTED" /\ lines[l].money # NoMoney
    /\ Begin(c, "repost", l, lines[l].money, {}, {})

Proceed(c, step) ==
  /\ pc' = [pc EXCEPT ![c] = step]
  /\ UNCHANGED <<at, read, lap, excused>>

ReadTakeBack(c) ==
  /\ pc[c] = "repost"
  /\ lines[at[c]].status = "POSTED" /\ lines[at[c]].money # NoMoney
  /\ Proceed(c, "unlink")
  /\ UNCHANGED rows

WriteTakeBack(c) ==
  /\ pc[c] = "unlink" /\ There(at[c])
  /\ lines' = [lines EXCEPT ![at[c]] = Unposted(lines[at[c]])]
  /\ Proceed(c, "reposting")
  /\ UNCHANGED <<statements, cash>>

WritePostAnew(c) ==
  /\ pc[c] = "reposting"
  /\ Update(c, PostedTo(lines[at[c]], read[c]))

----------------------------------------------------------------------------
(* ignoreLine, unignoreLine, batchIgnore *)

Posted(r) == r.status = "POSTED" \/ r.money # NoMoney

ReadIgnore(c) ==
  \E l \in Line :
    /\ There(l) /\ ~Posted(lines[l])
    /\ Begin(c, "ignore", l, "none", Holding, {l})

Ignored(r) == [r EXCEPT !.status = "IGNORED"]

WriteIgnore(c) ==
  /\ pc[c] = "ignore" /\ There(at[c])
  /\ lines' = [lines EXCEPT ![at[c]] = Ignored(lines[at[c]])]
  /\ excused' = excused \cup {l \in {at[c]} : lines[l].split}
  /\ End(c)
  /\ UNCHANGED <<statements, cash>>

\* One statement, which leaves out the lines that are posted.
BatchIgnore ==
  \E S \in SUBSET Line :
    /\ S # {} /\ \A l \in S : There(l)
    /\ lines' = [l \in Line |-> IF l \in S /\ ~Posted(lines[l])
                                  THEN Ignored(lines[l]) ELSE lines[l]]
    /\ excused' = excused \cup {l \in S : lines[l].split}
    /\ UNCHANGED <<statements, cash, pc, at, read, lap>>

\* A suggestion that was stored counts, even if it has no candidates.
Hinted(r) == IF r.hint THEN "SUGGESTED" ELSE "NEW"

ReadUnignore(c) ==
  \E l \in Line :
    /\ lines[l].status = "IGNORED"
    /\ Begin(c, "unignore", l, Hinted(lines[l]), Holding, {l})

WriteUnignore(c) ==
  /\ pc[c] = "unignore"
  /\ Update(c, [lines[at[c]] EXCEPT !.status = read[c]])

----------------------------------------------------------------------------
(* splitLine, undoSplit *)

HasParts(l) == \E x \in Parts(l) : There(x)

\* A split that is to suggest matches at once is refused: the matcher looks for
\* the parts outside of the transaction that creates them.
ReadSplit(c) ==
  \E l \in Whole :
    /\ lines[l].status \in {"NEW", "SUGGESTED", "MATCHED"}
    /\ ~Posted(lines[l]) /\ NotSplit(lines[l]) /\ ~HasParts(l)
    /\ Begin(c, "split", l, "none", Holding, {l})

Emptied(r, s, b) ==
  [r EXCEPT !.status = s, !.split = b, !.entity = NoMoney, !.money = NoMoney]

\* The place of a part in the statement is unique.
WriteSplit(c) ==
  LET l == at[c]
  IN  /\ pc[c] = "split" /\ ~HasParts(l)
      /\ lines' = [x \in Line |->
                     IF x = l THEN Emptied(lines[l], "SPLIT", TRUE)
                     ELSE IF x \in Parts(l) THEN Row("NEW") ELSE lines[x]]
      /\ excused' = excused \cup {x \in {l} : Beside(c, Restating, {l})}
      /\ End(c)
      /\ UNCHANGED <<statements, cash>>

\* Fault: parts that are posted go with the others.
NothingPosted(l) == FALSE

PartPosted(l) == \E x \in Parts(l) : There(x) /\ Posted(lines[x])

ReadUndo(c) ==
  \E l \in Whole :
    /\ ~NotSplit(lines[l]) /\ ~PartPosted(l)
    /\ Begin(c, "undo", l, IF HasParts(l) THEN "parts" ELSE "bare", Holding, Family(l))

WriteUndo(c) ==
  LET l == at[c]
      r == lines[l]
  IN  /\ pc[c] = "undo"
      /\ lines' = IF read[c] = "bare"
           THEN [lines EXCEPT ![l].split = FALSE, ![l].status = Hinted(r)]
           ELSE [x \in Line |-> IF x = l THEN Emptied(r, Hinted(r), FALSE)
                                ELSE IF x \in Parts(l) THEN Absent ELSE lines[x]]
      /\ excused' = excused \ {l}
      /\ End(c)
      /\ UNCHANGED <<statements, cash>>

----------------------------------------------------------------------------
(* voidExecution, voidInternalTransfer, voidTransfer: the cash *)

\* Fault: lines that are matched are meant.
MatchedTo(m) == \E l \in Line : lines[l].status = "MATCHED" /\ lines[l].money = m

Reconciled(m) == \E l \in Line : lines[l].status = "POSTED" /\ lines[l].money = m

\* The lines some call is to post to m
Awaiting(m) == {l \in Line : \E d \in Client : at[d] = l /\ read[d] = m}

\* It is asked before the transaction that voids.
ReadVoid(c) ==
  \E m \in Money :
    /\ ~Reconciled(m)
    /\ Begin(c, "void", m, "none", ToPost, Awaiting(m))

Void(c) ==
  /\ cash' = [cash EXCEPT ![at[c]] = "VOIDED"]
  /\ End(c)
  /\ UNCHANGED <<statements, lines, excused>>

WriteVoid(c) == pc[c] = "void" /\ Void(c)

\* A payout may be voided over its own lines, if no other line is posted to their
\* cash.  Of its two legs one stands for both.
ReadPayout(c) ==
  \E l \in Line, m \in Money :
    /\ {x \in Line : lines[x].status = "POSTED" /\ lines[x].money = m} = {l}
    /\ Begin(c, "payout", m, l, ToPost, Awaiting(m))

WritePayout(c) == pc[c] = "payout" /\ Void(c)

----------------------------------------------------------------------------
\* The call is refused, fails, or loses its process; of its transaction nothing is
\* stored.
Abort(c) ==
  /\ pc[c] # "idle"
  /\ End(c)
  /\ UNCHANGED <<rows, excused>>

Next ==
  \/ BatchIgnore
  \/ \E c \in Client :
       \/ ReadImport(c) \/ WriteImport(c)
       \/ ReadSuggest(c) \/ WriteSuggest(c)
       \/ ReadConfirm(c) \/ WriteConfirm(c)
       \/ ReadPost(c) \/ WritePost(c) \/ ReadUnpost(c) \/ WriteUnpost(c)
       \/ ReadPostAnew(c) \/ ReadTakeBack(c) \/ WriteTakeBack(c) \/ WritePostAnew(c)
       \/ ReadIgnore(c) \/ WriteIgnore(c) \/ ReadUnignore(c) \/ WriteUnignore(c)
       \/ ReadSplit(c) \/ WriteSplit(c) \/ ReadUndo(c) \/ WriteUndo(c)
       \/ ReadVoid(c) \/ WriteVoid(c) \/ ReadPayout(c) \/ WritePayout(c)
       \/ Abort(c)

Spec == Init /\ [][Next]_vars

----------------------------------------------------------------------------
Status == {"NONE", "NEW", "SUGGESTED", "MATCHED", "POSTED", "IGNORED", "SPLIT"}

TypeOK ==
  /\ statements \subseteq File
  /\ lines \in [Line -> [status : Status, hint : BOOLEAN,
                         entity : Money \cup {NoMoney}, money : Money \cup {NoMoney},
                         split : BOOLEAN, ext : Id \cup {NoId}]]
  /\ cash \in [Money -> {"POSTED", "VOIDED"}]
  /\ pc \in [Client -> {"idle", "import", "void", "payout"} \cup Changing \cup Holding]
  /\ at \in [Client -> {<<>>} \cup Line \cup File \cup Money]
  /\ read \in [Client -> Money \cup Line \cup {"none", "NEW", "SUGGESTED", "parts", "bare"}]
  /\ lap \subseteq Changing \cup Holding \cup {"void", "payout"}
  /\ excused \subseteq Line

\* Whatever calls overlap, a line is marked as split exactly while it has all its
\* parts.
PartsAreWhole ==
  \A l \in Whole : \A x \in Parts(l) : lines[l].split <=> There(x)

\* The cash of a line is not explained twice, by the line and by its parts, unless a
\* posting overlaps another call on the line: not after ignoring it, either.
PartsOrWhole ==
  lap = {} => \A l \in Whole : lines[l].split => ~Posted(lines[l])

\* Every line of a file that has been imported is there, if only by another file, or
\* another line is there that has its external id.
ImportedWhole ==
  \A f \in statements : \A e \in Content[f] : There(<<e[1]>>) \/ Held(e)

\* These issues of getDiagnosticsForLine do not come up: matched_missing_entity,
\* matched_has_postedAt, posted_missing_postedAt and posted_missing_moneyTx do not
\* unless a posting overlaps another call on the line, and child_parent_not_split
\* does not unless the line that is split has been ignored, or changed by a call
\* that had begun before it was split.  The issues of suggestions do:
\* unignoreLine leaves them behind.
NoDiagnostics ==
  lap = {} =>
    \A l \in Line :
      LET r == lines[l]
      IN  /\ r.status = "MATCHED" => r.entity # NoMoney
          /\ r.status = "POSTED" <=> r.money # NoMoney
          /\ l \notin Whole /\ r.status = "POSTED" =>
               lines[<<l[1]>>].status = "SPLIT" \/ <<l[1]>> \in excused

\* Lines, their parts, files and cash agree.
LinesAddUp == TypeOK /\ PartsAreWhole /\ PartsOrWhole /\ ImportedWhole /\ NoDiagnostics

\* A line that is posted stays as it is, whatever is done to it, to the line it
\* is part of, or in a batch, until voidFeePosting takes the posting back, of the
\* line itself, and that alone, unless its posting has overlapped another call.
OnlyUnposted ==
  [][\A l \in Line : lap' = {} /\ lines[l].status = "POSTED" =>
       \/ lines'[l] = lines[l]
       \/ /\ lines'[l] = Unposted(lines[l])
          /\ \E c \in Client :
               pc[c] \in {"unpost", "unlink"} /\ at[c] = l /\ pc'[c] # pc[c]]_vars

\* The cash of a line that is posted is voided only with the payout the line is a leg
\* of, even if the line is posted and the cash is voided in calls that have begun
\* before, unless these overlap.
ReconciledStands ==
  [][\A m \in Money, l \in Line :
       /\ lap' = {} /\ cash'[m] # cash[m]
       /\ lines[l].status = "POSTED" /\ lines[l].money = m
       => \E c \in Client :
            pc[c] = "payout" /\ at[c] = m /\ read[c] = l /\ pc'[c] # pc[c]]_vars

----------------------------------------------------------------------------
(* Why they hold: the inductive invariant *)

\* What a call has read is of the kind it will write.  Only a line that can have
\* no parts is undone as one without.
CallsAreTyped ==
  \A c \in Client :
    /\ pc[c] \in Changing \cup Holding => at[c] \in Line
    /\ pc[c] \in {"split", "undo"} => at[c] \in Whole
    /\ pc[c] = "import" => at[c] \in File
    /\ pc[c] \in {"void", "payout"} => at[c] \in Money
    /\ pc[c] \in {"confirm"} \cup Holding => read[c] \in Money
    /\ pc[c] \in {"suggest", "unignore"} => read[c] \in {"NEW", "SUGGESTED"}
    /\ pc[c] = "undo" /\ read[c] = "bare" => Part = {}

\* A line that is not there holds nothing, and only a line of a file is split.
RowsMeanWhatTheySay ==
  \A l \in Line :
    /\ ~There(l) => lines[l] = Absent
    /\ lines[l].status = "SPLIT" => lines[l].split
    /\ l \notin Whole => ~lines[l].split

\* A line is posted to the cash it was matched with, and is then no container.
PostedAsMatched ==
  \A l \in Line :
    LET r == lines[l]
    IN  /\ r.status = "MATCHED" => r.entity # NoMoney
        /\ r.status = "POSTED" <=> r.money # NoMoney
        /\ Posted(r) => r.money = r.entity /\ ~r.split

\* A line keeps the status of a split one, and no call is about to change it, unless
\* it is excused.
SplitStands ==
  \A l \in Line : lines[l].split /\ l \notin excused =>
    /\ lines[l].status = "SPLIT"
    /\ \A c \in Client : pc[c] \in Restating => at[c] # l

\* What a call has read before it writes is still so.
Undisturbed ==
  \A c \in Client :
    /\ pc[c] \in Changing => ~Posted(lines[at[c]])
    /\ pc[c] = "undo" => ~PartPosted(at[c])
    /\ pc[c] \in Holding => read[c] = lines[at[c]].entity /\ ~lines[at[c]].split
    /\ pc[c] = "void" => ~Reconciled(at[c])
    /\ pc[c] = "payout" =>
         \A l \in Line : lines[l].status = "POSTED" /\ lines[l].money = at[c] => l = read[c]

\* No call is at work on what another one is about to post, or to post to.
Apart ==
  \A c, d \in Client : c # d =>
    /\ pc[d] \in Holding /\ pc[c] \in Changing => at[c] # at[d]
    /\ pc[d] \in Holding /\ pc[c] = "undo" => at[d] \notin Family(at[c])
    /\ pc[d] \in ToPost /\ pc[c] = "void" => at[c] # read[d]
    /\ pc[d] \in ToPost /\ pc[c] = "payout" => at[c] # read[d] \/ at[d] = read[c]

IInv ==
  /\ TypeOK /\ CallsAreTyped
  /\ PartsAreWhole /\ ImportedWhole /\ RowsMeanWhatTheySay
  /\ lap = {} => PostedAsMatched /\ Undisturbed /\ Apart /\ SplitStands

=============================================================================
