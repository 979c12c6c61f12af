---------------------------- MODULE StatementsProofs ----------------------------
(***************************************************************************)
(* Proofs about the lines of statements.                                   *)
(*                                                                         *)
(* First StatementFees, for any number of requests, of lines that report   *)
(* the fee and of runs they leave behind.  Requests overlap as they like,  *)
(* on one line too; the history of a line names how they have met          *)
(* (Recorded).  What a request has read of its line still holds when it    *)
(* writes unless another one has crossed it (OwnLineStands, PostedAlone),  *)
(* and histories without voids, reposts or overlaps can have left only so  *)
(* much in the ledger (OnlyVoids, OnlyReposts, OneEntry).                  *)
(*                                                                         *)
(* Then StatementLines, for any number of calls, files, lines, parts and   *)
(* money transactions.  An overlap a posting does not survive is named by  *)
(* lap when the later of the two calls reads.  As long as none is, a call  *)
(* that is at work has its line to itself as far as postings go (Apart),   *)
(* so what it has read still holds when it writes (Undisturbed); a write   *)
(* of another kind does not touch what postings are about (QuietStep), and *)
(* one that posts, or takes a posting back, touches one line (HeldWritten).*)
(***************************************************************************)
EXTENDS StatementFees, StatementLines, FiniteSetTheorems, TLAPS

----------------------------------------------------------------------------
(* Runs *)

LEMMA PostingIsRun == Posting \in Run /\ Posting.sign = 1 /\ ~Posting.voided
                      /\ Posting.of = 0
BY DEF Posting, Run

LEMMA SignOfReversal ==
  ASSUME NEW s \in {1, -1}
  PROVE  -s \in {1, -1} /\ (s = 1 => -s = -1) /\ (-s = 1 <=> s = -1)
OBVIOUS

LEMMA VoidedRunIs ==
  ASSUME NEW x \in Run, NEW N \in Nat
  PROVE  LET y == [[x EXCEPT !.voided = TRUE] EXCEPT !.rev = N]
         IN  /\ y \in Run /\ y.sign = x.sign /\ y.of = x.of
             /\ y.voided = TRUE /\ y.rev = N
<1> DEFINE y == [[x EXCEPT !.voided = TRUE] EXCEPT !.rev = N]
           z == [x EXCEPT !.voided = TRUE]
<1>1. z \in Run /\ z.sign = x.sign /\ z.of = x.of /\ z.voided = TRUE
  BY DEF Run
<1>2. y = [z EXCEPT !.rev = N]
  OBVIOUS
<1> HIDE DEF z, y
<1>3. y \in Run
  BY <1>1, <1>2 DEF Run
<1>4. y.sign = z.sign /\ y.of = z.of /\ y.rev = N /\ y.voided = z.voided
  BY <1>1, <1>2 DEF Run
<1> QED BY <1>1, <1>3, <1>4 DEF y

LEMMA RunVoidedIs ==
  ASSUME NEW runs \in Seq(Run), NEW n \in DOMAIN runs
  PROVE  LET r == RunVoided(runs, n)
             N == Len(runs) + 1
         IN  /\ r \in Seq(Run) /\ Len(r) = N /\ N \in Nat
             /\ DOMAIN runs = 1 .. Len(runs) /\ DOMAIN r = 1 .. N
             /\ \A k \in DOMAIN runs \ {n} : r[k] = runs[k]
             /\ r[n].sign = runs[n].sign /\ r[n].of = runs[n].of
             /\ r[n].voided /\ r[n].rev = N
             /\ r[N].sign = -runs[n].sign /\ r[N].of = n /\ ~r[N].voided
<1> DEFINE N == Len(runs) + 1
           base == [runs EXCEPT ![n].voided = TRUE, ![n].rev = N]
           rev == [sign |-> -runs[n].sign, voided |-> FALSE, rev |-> 0, of |-> n]
<1>1. /\ DOMAIN runs = 1 .. Len(runs) /\ Len(runs) \in Nat /\ n \in Nat
      /\ runs[n] \in Run
  OBVIOUS
<1>2. runs[n].sign \in {1, -1}
  BY <1>1 DEF Run
<1>3. -runs[n].sign \in {1, -1}
  BY <1>2, SignOfReversal
<1>4. rev \in Run
  BY <1>1, <1>3 DEF Run
<1> DEFINE y == [[runs[n] EXCEPT !.voided = TRUE] EXCEPT !.rev = N]
<1>5. base = [runs EXCEPT ![n] = y]
  OBVIOUS
<1>6. /\ y \in Run /\ y.sign = runs[n].sign /\ y.of = runs[n].of
      /\ y.voided = TRUE /\ y.rev = N
  <2> DEFINE x == runs[n]
  <2>1. x \in Run /\ N \in Nat
    BY <1>1
  <2> HIDE DEF x, N
  <2>2. LET w == [[x EXCEPT !.voided = TRUE] EXCEPT !.rev = N]
        IN  w \in Run /\ w.sign = x.sign /\ w.of = x.of /\ w.voided = TRUE /\ w.rev = N
    BY <2>1, VoidedRunIs
  <2> QED BY <2>2 DEF x
<1> HIDE DEF base, y
<1>7. /\ base \in Seq(Run) /\ Len(base) = Len(runs)
      /\ \A k \in DOMAIN runs \ {n} : base[k] = runs[k]
      /\ base[n] = y
  BY <1>1, <1>5, <1>6
<1>8. base[n].voided /\ base[n].rev = N /\ base[n].sign = runs[n].sign
      /\ base[n].of = runs[n].of
  BY <1>6, <1>7
<1>9. RunVoided(runs, n) = Append(base, rev)
  BY DEF RunVoided, base
<1> HIDE DEF rev
<1>10. /\ Append(base, rev) \in Seq(Run) /\ Len(Append(base, rev)) = N
       /\ \A k \in 1 .. Len(runs) : Append(base, rev)[k] = base[k]
       /\ Append(base, rev)[N] = rev
  BY <1>1, <1>4, <1>7
<1>11. rev.sign = -runs[n].sign /\ rev.of = n /\ ~rev.voided
  BY DEF rev
<1> DEFINE r == RunVoided(runs, n)
<1>12. r = Append(base, rev)
  BY <1>9
<1> HIDE DEF r, N
<1>13. DOMAIN r = 1 .. N /\ N = Len(runs) + 1
  BY <1>1, <1>10, <1>12 DEF N
<1>14. r[n] = base[n] /\ r[N] = rev /\ \A k \in DOMAIN runs \ {n} : r[k] = runs[k]
  BY <1>1, <1>7, <1>10, <1>12
<1>15. r \in Seq(Run) /\ Len(r) = N /\ N \in Nat
  BY <1>1, <1>10, <1>12, <1>13
<1> QED BY <1>1, <1>8, <1>11, <1>13, <1>14, <1>15 DEF r, N

LEMMA PostingAppended ==
  ASSUME NEW runs \in Seq(Run)
  PROVE  LET r == Append(runs, Posting)
             N == Len(runs) + 1
         IN  /\ r \in Seq(Run) /\ Len(r) = N /\ N \in Nat
             /\ DOMAIN runs = 1 .. Len(runs) /\ DOMAIN r = 1 .. N
             /\ \A k \in DOMAIN runs : r[k] = runs[k]
             /\ r[N] = Posting
BY PostingIsRun

----------------------------------------------------------------------------
(* Steps *)

FeeReads(c) == ReadFeePost(c) \/ ReadFeeVoid(c) \/ ReadRepost(c)

FeeWrites(c) ==
  \/ WriteLink(c) \/ WriteCreate(c) \/ WriteFeeVoid(c) \/ WriteAnswer(c) \/ WriteUnlink(c)
  \/ RepostUnlink(c) \/ Relink(c) \/ WriteRepost(c) \/ Crash(c)

\* A request that starts, and why
LEMMA ReadsStart ==
  ASSUME NEW c \in Caller, FeeReads(c)
  PROVE  \E l \in FeeLine : \E w, e, did :
           /\ Start(c, l, w, e, did)
           /\ status[l] \in {"MATCHED", "POSTED"}
           /\ \/ /\ w \in Linking /\ Ensure(w, e) /\ e \in Entry \cup {NoEntry}
                 /\ did = IF status[l] = "POSTED" THEN {"again"} ELSE {}
              \/ /\ status[l] = "POSTED" /\ did = {"void"}
                 /\ \/ w = "unlink" /\ mode[l] = "FEE_LINK_ONLY" /\ e = NoEntry
                    \/ /\ w = "answer" /\ mode[l] = "FEE_ENTRY_CREATED" /\ e = NoEntry
                       /\ VoidedRuns(l) # {}
                    \/ /\ w = "void" /\ mode[l] = "FEE_ENTRY_CREATED"
                       /\ VoidedRuns(l) = {}
                       /\ \E n \in DOMAIN ledger[l] : e = <<l, n>> /\ ~HasForeign(l, n)
              \/ /\ status[l] = "POSTED" /\ did = {"repost"} /\ e = NoEntry
                 /\ \/ w = "reposting" /\ mode[l] = "FEE_LINK_ONLY"
                    \/ w = "repost" /\ mode[l] = "FEE_ENTRY_CREATED"
<1>1. CASE ReadFeePost(c)
  <2>1. PICK l \in FeeLine, w \in Linking, e \in Entry \cup {NoEntry} :
          /\ status[l] \in {"MATCHED", "POSTED"}
          /\ Ensure(w, e)
          /\ Start(c, l, w, e, IF status[l] = "POSTED" THEN {"again"} ELSE {})
    BY <1>1 DEF ReadFeePost
  <2> QED
    BY <2>1
<1>2. CASE ReadFeeVoid(c)
  <2>1. PICK l \in FeeLine :
          /\ status[l] = "POSTED"
          /\ \/ mode[l] = "FEE_LINK_ONLY" /\ Start(c, l, "unlink", NoEntry, {"void"})
             \/ /\ mode[l] = "FEE_ENTRY_CREATED" /\ VoidedRuns(l) # {}
                /\ Start(c, l, "answer", NoEntry, {"void"})
             \/ /\ mode[l] = "FEE_ENTRY_CREATED" /\ VoidedRuns(l) = {}
                /\ \E n \in DOMAIN ledger[l] :
                     /\ IsActive(l, n) /\ ~HasForeign(l, n)
                     /\ Start(c, l, "void", <<l, n>>, {"void"})
    BY <1>2 DEF ReadFeeVoid
  <2> QED
    BY <2>1
<1>3. CASE ReadRepost(c)
  BY <1>3 DEF ReadRepost
<1> QED
  BY <1>1, <1>2, <1>3 DEF FeeReads

LEMMA Started ==
  ASSUME FeeTypeOK, NEW c \in Caller, NEW l \in FeeLine, NEW w, NEW e, NEW did,
         Start(c, l, w, e, did)
  PROVE  /\ doing[c] = "idle" /\ doing'[c] = w /\ on'[c] = l /\ seen'[c] = e
         /\ was'[c] = status[l]
         /\ \A d \in Caller \ {c} : /\ doing'[d] = doing[d] /\ on'[d] = on[d]
                                    /\ seen'[d] = seen[d] /\ was'[d] = was[d]
         /\ history'[l] = history[l] \cup did \cup Meets(c, l, w)
         /\ \A m \in FeeLine \ {l} : history'[m] = history[m]
         /\ \A m \in FeeLine : history[m] \subseteq history'[m]
         /\ overlap' = (overlap \/ \E d \in Caller : doing[d] # "idle")
         /\ UNCHANGED <<line, ledger, links>>
  BY DEF FeeTypeOK, Start, Goto

LEMMA Finished ==
  ASSUME FeeTypeOK, NEW c \in Caller, Finish(c)
  PROVE  /\ doing'[c] = "idle"
         /\ \A d \in Caller \ {c} : /\ doing'[d] = doing[d] /\ on'[d] = on[d]
                                    /\ seen'[d] = seen[d] /\ was'[d] = was[d]
         /\ UNCHANGED <<history, overlap>>
  BY DEF FeeTypeOK, Finish, Goto

\* A request at work writes its own line only.
LEMMA Frame ==
  ASSUME FeeTypeOK, RequestsAreTyped, NEW c \in Caller, FeeWrites(c)
  PROVE  /\ on[c] \in FeeLine /\ on[c] \in Doc /\ doing[c] # "idle"
         /\ \A d \in Caller \ {c} : /\ doing'[d] = doing[d] /\ on'[d] = on[d]
                                    /\ seen'[d] = seen[d] /\ was'[d] = was[d]
         /\ UNCHANGED <<history, overlap>>
         /\ \A m \in FeeLine \ {on[c]} :
              /\ status'[m] = status[m] /\ mode'[m] = mode[m] /\ voided'[m] = voided[m]
              /\ \A e : <<m, e>> \in links' <=> <<m, e>> \in links
         /\ \A d \in Doc \ {on[c]} : ledger'[d] = ledger[d]
         /\ \/ doing'[c] = "idle"
            \/ RepostUnlink(c) /\ doing'[c] = "unlinked" /\ on'[c] = on[c]
            \/ Relink(c) /\ doing'[c] \in Linking /\ on'[c] = on[c]
<1> DEFINE l == on[c]
<1>a. doing[c] # "idle"
  BY DEF FeeWrites, WriteLink, WriteCreate, WriteFeeVoid, WriteAnswer, WriteUnlink,
     RepostUnlink, Relink, WriteRepost, Crash
<1>b. l \in FeeLine /\ l \in Doc
  BY <1>a DEF RequestsAreTyped, Doc
<1>1. \/ Finish(c)
      \/ RepostUnlink(c) /\ Goto(c, "unlinked") /\ UNCHANGED <<on, seen, was, history, overlap>>
      \/ /\ Relink(c) /\ \E w \in Linking : \E e : Goto(c, w) /\ seen' = [seen EXCEPT ![c] = e]
         /\ was' = [was EXCEPT ![c] = "MATCHED"] /\ UNCHANGED <<on, history, overlap>>
  BY DEF FeeWrites, WriteLink, WriteCreate, WriteFeeVoid, WriteAnswer, WriteUnlink,
     RepostUnlink, Relink, WriteRepost, Crash
<1>2. /\ \A d \in Caller \ {c} : /\ doing'[d] = doing[d] /\ on'[d] = on[d]
                                 /\ seen'[d] = seen[d] /\ was'[d] = was[d]
      /\ UNCHANGED <<history, overlap>>
      /\ \/ doing'[c] = "idle"
         \/ RepostUnlink(c) /\ doing'[c] = "unlinked" /\ on'[c] = on[c]
         \/ Relink(c) /\ doing'[c] \in Linking /\ on'[c] = on[c]
  BY <1>1, Finished DEF FeeTypeOK, Goto
<1>3. CASE WriteLink(c)
  <2>1. /\ status' = [status EXCEPT ![l] = status'[l]]
        /\ mode' = [mode EXCEPT ![l] = mode'[l]]
        /\ voided' = [voided EXCEPT ![l] = voided'[l]]
    BY <1>b, <1>3 DEF WriteLink, MarkPosted, FeeTypeOK
  <2>2. UNCHANGED ledger /\ links' = links \cup {<<l, seen[c]>>}
    BY <1>3 DEF WriteLink, Linked
  <2> QED
    BY <1>a, <1>b, <1>2, <2>1, <2>2 DEF FeeTypeOK
<1>4. CASE WriteCreate(c)
  <2>1. /\ status' = [status EXCEPT ![l] = status'[l]]
        /\ mode' = [mode EXCEPT ![l] = mode'[l]]
        /\ voided' = [voided EXCEPT ![l] = voided'[l]]
    BY <1>b, <1>4 DEF WriteCreate, MarkPosted, FeeTypeOK
  <2>2. /\ UNCHANGED ledger \/ ledger' = [ledger EXCEPT ![l] = Append(@, Posting)]
        /\ \E n : links' = links \cup {<<l, <<l, n>>>>}
    BY <1>4 DEF WriteCreate, Linked
  <2> QED
    BY <1>b, <1>2, <1>a, <2>1, <2>2 DEF FeeTypeOK
<1>5. CASE WriteFeeVoid(c)
  <2>1. /\ UNCHANGED ledger \/ ledger' = [ledger EXCEPT ![l] = RunVoided(@, seen[c][2])]
        /\ MarkBooked(l, TRUE) /\ UNCHANGED links
    BY <1>5 DEF WriteFeeVoid
  <2> QED
    BY <1>b, <1>2, <1>a, <2>1 DEF FeeTypeOK, MarkBooked
<1>6. CASE WriteAnswer(c)
  BY <1>a, <1>b, <1>2, <1>6 DEF WriteAnswer, MarkBooked, FeeTypeOK
<1>7. CASE WriteUnlink(c) \/ RepostUnlink(c)
  <2>1. TakeBack(l)
    BY <1>7 DEF WriteUnlink, RepostUnlink
  <2> QED
    BY <1>a, <1>b, <1>2, <2>1 DEF TakeBack, Unlinked, FeeTypeOK
<1>8. CASE Relink(c) \/ Crash(c)
  <2>1. UNCHANGED <<line, ledger, links>>
    BY <1>8 DEF Relink, Crash
  <2> QED
    BY <1>a, <1>b, <1>2, <2>1 DEF line
<1>9. CASE WriteRepost(c)
  <2>1. /\ MarkBooked(l, FALSE)
        /\ \E r : ledger' = [ledger EXCEPT ![l] = r]
        /\ \E x : links' = {k \in links : k[1] # l \/ k[2][1] # l} \cup {<<l, x>>}
    BY <1>9 DEF WriteRepost
  <2> QED
    BY <1>a, <1>b, <1>2, <2>1 DEF FeeTypeOK, MarkBooked
<1> QED
  BY <1>a, <1>b, <1>2, <1>3, <1>4, <1>5, <1>6, <1>7, <1>8, <1>9 DEF FeeWrites

\* What a repost finds and leaves in the ledger
LEMMA Reposts ==
  ASSUME FeeIInv, NEW c \in Caller, WriteRepost(c)
  PROVE  LET l == on[c]
             latest == Len(ledger[l])
         IN  \E base \in Seq(Run) :
               /\ latest \in DOMAIN ledger[l] /\ ledger[l] \in Seq(Run)
               /\ latest + 2 <= MaxRuns /\ latest \in Nat
               /\ \/ ledger[l][latest].voided /\ base = ledger[l]
                  \/ /\ ~ledger[l][latest].voided
                     /\ base = RunVoided(ledger[l], latest)
               /\ ledger'[l] = Append(base, Posting)
               /\ links' = {k \in links : k[1] # l \/ k[2][1] # l}
                             \cup {<<l, <<l, Len(base) + 1>>>>}
<1> DEFINE l == on[c]
           latest == Len(ledger[l])
           base == IF ledger[l][latest].voided
                     THEN ledger[l] ELSE RunVoided(ledger[l], latest)
<1>1. FeeTypeOK /\ RequestsAreTyped /\ doing[c] = "repost" /\ latest + 2 <= MaxRuns
  BY DEF FeeIInv, WriteRepost
<1>2. l \in Doc /\ ledger[l] # <<>>
  BY <1>1 DEF RequestsAreTyped, Doc
<1>3. ledger[l] \in Seq(Run)
  BY <1>1, <1>2 DEF FeeTypeOK
<1>4. latest \in Nat /\ latest \in DOMAIN ledger[l]
  BY <1>2, <1>3
<1>5. base \in Seq(Run)
  BY <1>3, <1>4, RunVoidedIs
<1>6. /\ ledger' = [ledger EXCEPT ![l] = Append(base, Posting)]
      /\ links' = {k \in links : k[1] # l \/ k[2][1] # l}
                    \cup {<<l, <<l, Len(base) + 1>>>>}
  BY DEF WriteRepost
<1>7. ledger'[l] = Append(base, Posting)
  BY <1>1, <1>2, <1>6 DEF FeeTypeOK
<1>8. \/ ledger[l][latest].voided /\ base = ledger[l]
      \/ /\ ~ledger[l][latest].voided
         /\ base = RunVoided(ledger[l], latest)
  OBVIOUS
<1> HIDE DEF base
<1> QED BY <1>1, <1>3, <1>4, <1>5, <1>6, <1>7, <1>8

LEMMA Voids ==
  ASSUME FeeIInv, NEW c \in Caller, WriteFeeVoid(c)
  PROVE  LET l == on[c]
             n == seen[c][2]
         IN  /\ ledger[l] \in Seq(Run) /\ n \in DOMAIN ledger[l]
             /\ \/ ledger[l][n].voided /\ ledger' = ledger
                \/ /\ ~ledger[l][n].voided /\ Len(ledger[l]) < MaxRuns
                   /\ ledger'[l] = RunVoided(ledger[l], n)
<1> DEFINE l == on[c]
           n == seen[c][2]
<1>1. FeeTypeOK /\ doing[c] = "void" /\ RequestsAreTyped
  BY DEF FeeIInv, WriteFeeVoid
<1>2. l \in Doc /\ seen[c] \in {l} \X DOMAIN ledger[l]
  BY <1>1 DEF RequestsAreTyped, Doc
<1>3. ledger[l] \in Seq(Run) /\ n \in DOMAIN ledger[l]
  BY <1>1, <1>2 DEF FeeTypeOK
<1>4. IF ledger[l][n].voided THEN ledger' = ledger
      ELSE Len(ledger[l]) < MaxRuns /\ ledger' = [ledger EXCEPT ![l] = RunVoided(@, n)]
  BY DEF WriteFeeVoid
<1>5. ledger' = [ledger EXCEPT ![l] = RunVoided(@, n)] => ledger'[l] = RunVoided(ledger[l], n)
  BY <1>1, <1>2 DEF FeeTypeOK
<1> QED
  BY <1>3, <1>4, <1>5

LEMMA Creates ==
  ASSUME FeeIInv, NEW c \in Caller, WriteCreate(c)
  PROVE  LET l == on[c]
         IN  /\ ledger[l] \in Seq(Run)
             /\ \/ /\ ledger' = ledger
                   /\ \E n \in DOMAIN ledger[l] : links' = links \cup {<<l, <<l, n>>>>}
                \/ /\ Len(ledger[l]) < MaxRuns /\ ledger'[l] = Append(ledger[l], Posting)
                   /\ links' = links \cup {<<l, <<l, Len(ledger[l]) + 1>>>>}
<1>1. FeeTypeOK /\ doing[c] = "create" /\ RequestsAreTyped
  BY DEF FeeIInv, WriteCreate
<1>2. on[c] \in Doc
  BY <1>1 DEF RequestsAreTyped, Doc
<1>3. ledger[on[c]] \in Seq(Run)
  BY <1>1, <1>2 DEF FeeTypeOK
<1>4. ledger' = [ledger EXCEPT ![on[c]] = Append(@, Posting)]
        => ledger'[on[c]] = Append(ledger[on[c]], Posting)
  BY <1>1, <1>2 DEF FeeTypeOK
<1> QED
  BY <1>3, <1>4 DEF WriteCreate, Linked

LEMMA LedgerWrites ==
  ASSUME NEW c \in Caller, FeeWrites(c), ~WriteCreate(c), ~WriteFeeVoid(c), ~WriteRepost(c)
  PROVE  ledger' = ledger
BY DEF FeeWrites, WriteLink, WriteAnswer, WriteUnlink, RepostUnlink, TakeBack, Relink, Crash

\* A document with runs is a candidate to link to.
LEMMA RunsAreCandidates ==
  ASSUME FeeIInv, Candidates = {}
  PROVE  \A d \in Doc : ledger[d] = <<>>
<1> SUFFICES ASSUME NEW d \in Doc, ledger[d] # <<>> PROVE FALSE
  OBVIOUS
<1>1. ledger[d] \in Seq(Run) /\ FirstRunDebits
  BY DEF FeeIInv, FeeTypeOK
<1>2. 1 \in DOMAIN ledger[d] /\ ledger[d][1].sign = 1
  BY <1>1 DEF FirstRunDebits
<1>3. <<d, 1>> \in Entry
  BY MaxRunsAssumption DEF Entry
<1> QED BY <1>2, <1>3 DEF Candidates, Entries

\* What is said of runs, links and requests alone is not touched by a step that
\* leaves them alone.
LEMMA ApartFromStatus ==
  ASSUME FeeIInv, UNCHANGED <<mode, voided, ledger, links, request, history, overlap>>
  PROVE  /\ FirstRunDebits' /\ BookedHasRun' /\ RequestsAreTyped' /\ Recorded'
         /\ ReversalChain' /\ ChainWithin' /\ OnlyVoids' /\ OnlyReposts' /\ OneEntry'
         /\ NobodyElseLinks'
<1> USE DEF FeeIInv, request
<1>1. FirstRunDebits' /\ BookedHasRun'
  BY DEF FirstRunDebits, BookedHasRun
<1>2. RequestsAreTyped' /\ Recorded'
  BY DEF RequestsAreTyped, Recorded, Entries
<1>3. ReversalChain' /\ ChainWithin'
  BY DEF ReversalChain, ChainWithin
<1>4. OnlyVoids'
  BY DEF OnlyVoids
<1>5. OnlyReposts'
  BY DEF OnlyReposts, Standing
<1>6. OneEntry' /\ NobodyElseLinks'
  BY DEF OneEntry, NobodyElseLinks, Serial, HasForeign
<1> QED
  BY <1>1, <1>2, <1>3, <1>4, <1>5, <1>6

LEMMA ConfirmStep ==
  ASSUME FeeIInv, NEW l \in FeeLine, Confirm(l)
  PROVE  FeeIInv'
<1>1. /\ status[l] = "NEW" /\ status' = [status EXCEPT ![l] = "MATCHED"]
      /\ UNCHANGED <<mode, voided, ledger, links, request, history, overlap>>
  BY DEF Confirm
<1>2. FeeTypeOK
  BY DEF FeeIInv
<1>3. status'[l] = "MATCHED" /\ \A m \in FeeLine \ {l} : status'[m] = status[m]
  BY <1>1, <1>2 DEF FeeTypeOK
<1>4. FeeTypeOK'
  BY <1>1, <1>2 DEF FeeTypeOK, Entries, request
<1>5. PostedIffLinked' /\ ModeOfPosted'
  BY <1>1, <1>3 DEF FeeIInv, PostedIffLinked, ModeOfPosted, Entries
<1>6. OwnLineStands'
  BY <1>1, <1>3 DEF FeeIInv, OwnLineStands, VoidedRuns, request, RequestsAreTyped
<1>7. PostedAlone'
  BY <1>1, <1>3 DEF FeeIInv, PostedAlone, request, RequestsAreTyped
<1> QED
  BY <1>1, <1>4, <1>5, <1>6, <1>7, ApartFromStatus DEF FeeIInv

\* A request that starts has decided on what there is, and joins what is at work.
LEMMA StartStep ==
  ASSUME FeeIInv, NEW c \in Caller, FeeReads(c)
  PROVE  FeeIInv'
<1>1. PICK l \in FeeLine : \E w, e, did :
        /\ Start(c, l, w, e, did)
        /\ status[l] \in {"MATCHED", "POSTED"}
        /\ \/ /\ w \in Linking /\ Ensure(w, e) /\ e \in Entry \cup {NoEntry}
              /\ did = IF status[l] = "POSTED" THEN {"again"} ELSE {}
           \/ /\ status[l] = "POSTED" /\ did = {"void"}
              /\ \/ w = "unlink" /\ mode[l] = "FEE_LINK_ONLY" /\ e = NoEntry
                 \/ /\ w = "answer" /\ mode[l] = "FEE_ENTRY_CREATED" /\ e = NoEntry
                    /\ VoidedRuns(l) # {}
                 \/ /\ w = "void" /\ mode[l] = "FEE_ENTRY_CREATED"
                    /\ VoidedRuns(l) = {}
                    /\ \E n \in DOMAIN ledger[l] : e = <<l, n>> /\ ~HasForeign(l, n)
           \/ /\ status[l] = "POSTED" /\ did = {"repost"} /\ e = NoEntry
              /\ \/ w = "reposting" /\ mode[l] = "FEE_LINK_ONLY"
                 \/ w = "repost" /\ mode[l] = "FEE_ENTRY_CREATED"
  BY ReadsStart
<1>2. PICK w, e, did :
        /\ Start(c, l, w, e, did)
        /\ status[l] \in {"MATCHED", "POSTED"}
        /\ \/ /\ w \in Linking /\ Ensure(w, e) /\ e \in Entry \cup {NoEntry}
              /\ did = IF status[l] = "POSTED" THEN {"again"} ELSE {}
           \/ /\ status[l] = "POSTED" /\ did = {"void"}
              /\ \/ w = "unlink" /\ mode[l] = "FEE_LINK_ONLY" /\ e = NoEntry
                 \/ /\ w = "answer" /\ mode[l] = "FEE_ENTRY_CREATED" /\ e = NoEntry
                    /\ VoidedRuns(l) # {}
                 \/ /\ w = "void" /\ mode[l] = "FEE_ENTRY_CREATED"
                    /\ VoidedRuns(l) = {}
                    /\ \E n \in DOMAIN ledger[l] : e = <<l, n>> /\ ~HasForeign(l, n)
           \/ /\ status[l] = "POSTED" /\ did = {"repost"} /\ e = NoEntry
              /\ \/ w = "reposting" /\ mode[l] = "FEE_LINK_ONLY"
                 \/ w = "repost" /\ mode[l] = "FEE_ENTRY_CREATED"
  BY <1>1
<1>3. /\ FeeTypeOK /\ BookedHasRun /\ RequestsAreTyped /\ Recorded /\ OwnLineStands
      /\ PostedAlone /\ l \in Doc
  BY DEF FeeIInv, Doc
<1>4. /\ doing[c] = "idle" /\ doing'[c] = w /\ on'[c] = l /\ seen'[c] = e
      /\ was'[c] = status[l]
      /\ \A d \in Caller \ {c} : /\ doing'[d] = doing[d] /\ on'[d] = on[d]
                                 /\ seen'[d] = seen[d] /\ was'[d] = was[d]
      /\ history'[l] = history[l] \cup did \cup Meets(c, l, w)
      /\ \A m \in FeeLine \ {l} : history'[m] = history[m]
      /\ \A m \in FeeLine : history[m] \subseteq history'[m]
      /\ overlap' = (overlap \/ \E d \in Caller : doing[d] # "idle")
      /\ UNCHANGED <<line, ledger, links>>
  BY <1>2, <1>3, Started
<1>0. (overlap => overlap') /\ \A d \in Caller : doing[d] # "idle" => overlap'
  BY <1>4
<1>5. UNCHANGED <<status, mode, voided, ledger, links, Entries>>
  BY <1>4 DEF line, Entries
<1>6. /\ w \in Linking => /\ w = "link" => e \in Entries
                          /\ w = "create" => \A d \in Doc : ledger[d] = <<>>
      /\ w \notin Linking => status[l] = "POSTED"
  BY <1>2, RunsAreCandidates DEF Ensure, Linking, Candidates
<1>7. FeeTypeOK'
  <2>1. w \in {"link", "create", "unlink", "void", "answer", "reposting", "repost"}
    BY <1>2 DEF Linking
  <2>2. e \in Entry \cup {NoEntry}
    <3>1. \A n \in DOMAIN ledger[l] : <<l, n>> \in Entry
      <4>1. ledger[l] \in Seq(Run) /\ Len(ledger[l]) <= MaxRuns
        BY <1>3 DEF FeeTypeOK
      <4> QED
        BY <1>3, <4>1, MaxRunsAssumption DEF Entry
    <3> QED
      BY <1>2, <3>1
  <2>3. did \cup Meets(c, l, w) \subseteq {"void", "repost", "again", "beside", "crossed"}
    BY <1>2 DEF Meets
  <2>4. /\ doing' = [doing EXCEPT ![c] = w] /\ on' = [on EXCEPT ![c] = l]
        /\ seen' = [seen EXCEPT ![c] = e] /\ was' = [was EXCEPT ![c] = status[l]]
        /\ history' = [history EXCEPT ![l] = @ \cup did \cup Meets(c, l, w)]
    BY <1>2 DEF Start, Goto
  <2> QED
    BY <1>2, <1>3, <1>4, <1>5, <2>1, <2>2, <2>3, <2>4 DEF FeeTypeOK
<1>8. FirstRunDebits' /\ BookedHasRun'
  BY <1>5 DEF FeeIInv, FirstRunDebits, BookedHasRun
<1>9. RequestsAreTyped'
  <2>1. \A d \in Caller \ {c} : d \in Caller
    OBVIOUS
  <2> QED
    BY <1>2, <1>3, <1>4, <1>5, <1>6 DEF RequestsAreTyped, BookedHasRun, Linking
<1>10. Recorded'
  <2>1. \A d \in Caller \ {c} : doing[d] # "idle" /\ on[d] = l =>
          /\ "beside" \in history'[l]
          /\ {doing[d], w} \subseteq Linking \/ "crossed" \in history'[l]
    BY <1>4 DEF Meets, Others
  <2>2. \A m \in FeeLine : "crossed" \in history'[m] => "beside" \in history'[m]
    BY <1>2, <1>3, <1>4 DEF Recorded, Meets
  <2>3. /\ w \in {"unlink", "void", "answer"} => "void" \in history'[l]
        /\ w \in {"reposting", "unlinked", "repost"} => "repost" \in history'[l]
        /\ w \in Linking /\ status[l] = "POSTED" => "again" \in history'[l]
    BY <1>2, <1>4 DEF Linking
  <2>4. ASSUME NEW d \in Caller \ {c}, NEW x \in Caller \ {d, c},
               doing[d] # "idle", doing[x] # "idle"
        PROVE  /\ overlap'
               /\ on[d] = on[x] =>
                    /\ "beside" \in history'[on[d]]
                    /\ {doing[d], doing[x]} \subseteq Linking \/ "crossed" \in history'[on[d]]
    <3>1. on[d] \in FeeLine
      BY <1>3, <2>4 DEF RequestsAreTyped
    <3>2. history[on[d]] \subseteq history'[on[d]]
      BY <1>4, <3>1
    <3>3. /\ overlap
          /\ on[d] = on[x] =>
               /\ "beside" \in history[on[d]]
               /\ {doing[d], doing[x]} \subseteq Linking \/ "crossed" \in history[on[d]]
      BY <1>3, <2>4 DEF Recorded
    <3> QED
      BY <1>0, <3>2, <3>3
  <2>5. ASSUME NEW x \in Caller \ {c}, doing[x] # "idle"
        PROVE  /\ overlap'
               /\ l = on[x] =>
                    /\ "beside" \in history'[l]
                    /\ {w, doing[x]} \subseteq Linking \/ "crossed" \in history'[l]
                    /\ {doing[x], w} \subseteq Linking \/ "crossed" \in history'[l]
    BY <1>0, <2>1, <2>5
  <2>6. ASSUME NEW d \in Caller \ {c}, doing[d] # "idle"
        PROVE  /\ doing[d] \in {"unlink", "void", "answer"} => "void" \in history'[on[d]]
               /\ doing[d] \in {"reposting", "unlinked", "repost"} =>
                    "repost" \in history'[on[d]]
               /\ doing[d] \in Linking /\ was[d] = "POSTED" => "again" \in history'[on[d]]
    BY <1>3, <1>4, <2>6 DEF Recorded, RequestsAreTyped
  <2>7. \A d \in Caller : doing'[d] \in {"unlink", "void", "answer"}
                            => "void" \in history'[on'[d]]
    BY <1>4, <2>3, <2>6
  <2>8. \A d \in Caller : doing'[d] \in {"reposting", "unlinked", "repost"}
                            => "repost" \in history'[on'[d]]
    BY <1>4, <2>3, <2>6
  <2>9. \A d \in Caller : doing'[d] \in Linking /\ was'[d] = "POSTED"
                            => "again" \in history'[on'[d]]
    BY <1>4, <2>3, <2>6 DEF Linking
  <2>10. ASSUME NEW d \in Caller, NEW x \in Caller \ {d}, doing'[d] # "idle", doing'[x] # "idle"
         PROVE  /\ overlap'
                /\ on'[d] = on'[x] =>
                     /\ "beside" \in history'[on'[d]]
                     /\ {doing'[d], doing'[x]} \subseteq Linking
                          \/ "crossed" \in history'[on'[d]]
    <3>1. CASE d = c
      BY <1>4, <2>5, <2>10, <3>1
    <3>2. CASE x = c
      BY <1>4, <2>5, <2>10, <3>2
    <3>3. CASE d # c /\ x # c
      BY <1>4, <2>4, <2>10, <3>3
    <3> QED
      BY <3>1, <3>2, <3>3
  <2> QED
    BY <2>2, <2>7, <2>8, <2>9, <2>10 DEF Recorded
<1>11. PostedIffLinked' /\ ModeOfPosted' /\ ReversalChain' /\ ChainWithin'
  BY <1>4, <1>5 DEF FeeIInv, PostedIffLinked, ModeOfPosted, ReversalChain, ChainWithin
<1>12. OwnLineStands'
  BY <1>2, <1>3, <1>4, <1>5, <1>6 DEF OwnLineStands, RequestsAreTyped, VoidedRuns, Linking
<1>13. PostedAlone'
  BY <1>2, <1>3, <1>4, <1>5, <1>6 DEF PostedAlone, RequestsAreTyped, Linking
<1>14. OnlyVoids'
  BY <1>4, <1>5 DEF FeeIInv, OnlyVoids
<1>15. OnlyReposts'
  <2>1. \A d : Standing(d)' = Standing(d)
    BY <1>5 DEF Standing
  <2> QED
    BY <1>4, <1>5, <2>1 DEF FeeIInv, OnlyReposts
<1>16. ASSUME NEW S, Serial(S)' PROVE Serial(S)
  BY <1>0, <1>4, <1>16 DEF Serial
<1>17. OneEntry'
  <2> SUFFICES ASSUME Serial({"void", "repost"})'
               PROVE  /\ \A x, d \in Doc : ledger'[x] # <<>> /\ ledger'[d] # <<>> => x = d
                      /\ \A x \in Caller : doing'[x] = "create" =>
                           \A d \in Doc : ledger'[d] = <<>>
    BY DEF OneEntry
  <2>1. Serial({"void", "repost"})
    BY <1>16
  <2> QED
    BY <1>4, <1>6, <2>1 DEF FeeIInv, OneEntry, Linking
<1>18. NobodyElseLinks'
  <2> SUFFICES ASSUME Serial({"repost"})', NEW x \in Caller, doing'[x] = "void"
               PROVE  ~HasForeign(on[x], seen[x][2])'
    BY DEF NobodyElseLinks
  <2>1. Serial({"repost"})
    BY <1>16
  <2>2. CASE x # c
    BY <1>4, <1>5, <2>1, <2>2 DEF FeeIInv, NobodyElseLinks, HasForeign
  <2>3. CASE x = c
    BY <1>2, <1>4, <1>5, <2>3 DEF HasForeign, Linking
  <2> QED
    BY <2>2, <2>3
<1> QED
  BY <1>7, <1>8, <1>9, <1>10, <1>11, <1>12, <1>13, <1>14, <1>15, <1>17, <1>18 DEF FeeIInv

----------------------------------------------------------------------------
(* What writes leave in the ledger, and types *)

\* The runs of a document only grow in number, and keep their signs.
LEMMA LedgerGrows ==
  ASSUME FeeIInv, NEW c \in Caller, FeeWrites(c)
  PROVE  /\ ledger' \in [Doc -> Seq(Run)]
         /\ \A d \in Doc :
              /\ Len(ledger'[d]) <= MaxRuns
              /\ DOMAIN ledger[d] \subseteq DOMAIN ledger'[d]
              /\ \A n \in DOMAIN ledger[d] : ledger'[d][n].sign = ledger[d][n].sign
<1> DEFINE l == on[c]
<1>1. FeeTypeOK /\ RequestsAreTyped
  BY DEF FeeIInv
<1>a. l \in Doc /\ \A d \in Doc \ {l} : ledger'[d] = ledger[d]
  BY <1>1, Frame
<1> HIDE DEF l
<1> DEFINE Good(r) ==
             /\ r \in Seq(Run) /\ Len(r) <= MaxRuns
             /\ DOMAIN ledger[l] \subseteq DOMAIN r
             /\ \A n \in DOMAIN ledger[l] : r[n].sign = ledger[l][n].sign
<1>2. Good(ledger'[l])
  <2>0. CASE ledger' = ledger
    BY <1>1, <1>a, <2>0 DEF FeeTypeOK
  <2>1. CASE WriteCreate(c) /\ ledger' # ledger
    <3> DEFINE r == ledger'[l]
               a == ledger[l]
    <3>1. a \in Seq(Run) /\ Len(a) < MaxRuns /\ r = Append(a, Posting)
      BY <2>1, Creates DEF l
    <3>2. /\ r \in Seq(Run) /\ Len(r) = Len(a) + 1 /\ Len(a) \in Nat
          /\ DOMAIN a = 1 .. Len(a) /\ DOMAIN r = 1 .. Len(a) + 1
          /\ \A k \in DOMAIN a : r[k] = a[k]
      BY <3>1, PostingAppended
    <3> HIDE DEF r
    <3>3. Len(r) <= MaxRuns /\ DOMAIN a \subseteq DOMAIN r
      BY <3>1, <3>2, MaxRunsAssumption
    <3> QED BY <3>2, <3>3 DEF r
  <2>2. CASE WriteFeeVoid(c) /\ ledger' # ledger
    <3>1. PICK n \in DOMAIN ledger[l] :
            /\ ledger[l] \in Seq(Run) /\ Len(ledger[l]) < MaxRuns
            /\ ledger'[l] = RunVoided(ledger[l], n)
      BY <2>2, Voids DEF l
    <3> DEFINE r == ledger'[l]
               a == ledger[l]
    <3>2. /\ r \in Seq(Run) /\ Len(r) = Len(a) + 1 /\ Len(a) \in Nat
          /\ DOMAIN a = 1 .. Len(a) /\ DOMAIN r = 1 .. Len(a) + 1
          /\ \A k \in DOMAIN a \ {n} : r[k] = a[k]
          /\ r[n].sign = a[n].sign
      BY <3>1, RunVoidedIs
    <3>3. Len(a) < MaxRuns
      BY <3>1
    <3> HIDE DEF r
    <3>4. \A k \in DOMAIN a : r[k].sign = a[k].sign
      BY <3>2
    <3>5. Len(r) <= MaxRuns /\ DOMAIN a \subseteq DOMAIN r
      BY <3>2, <3>3, MaxRunsAssumption
    <3> QED BY <3>2, <3>4, <3>5 DEF r
  <2>3. CASE WriteRepost(c)
    <3> DEFINE a == ledger[l]
               L == Len(a)
               r == ledger'[l]
    <3>1. PICK base \in Seq(Run) :
            /\ L \in DOMAIN a /\ a \in Seq(Run) /\ L + 2 <= MaxRuns /\ L \in Nat
            /\ \/ base = a
               \/ base = RunVoided(a, L)
            /\ r = Append(base, Posting)
      BY <2>3, Reposts DEF l
    <3>2. /\ DOMAIN a \subseteq DOMAIN base /\ Len(base) <= L + 1
          /\ \A k \in DOMAIN a : base[k].sign = a[k].sign
      <4>1. CASE base = a
        BY <3>1, <4>1
      <4>2. CASE base = RunVoided(a, L)
        <5>1. /\ Len(base) = L + 1
              /\ DOMAIN a = 1 .. L /\ DOMAIN base = 1 .. L + 1
              /\ \A k \in DOMAIN a \ {L} : base[k] = a[k]
              /\ base[L].sign = a[L].sign
          <6>1. L = Len(a)
            OBVIOUS
          <6> HIDE DEF a, L
          <6>2. a \in Seq(Run) /\ L \in DOMAIN a
            BY <3>1
          <6>3. LET p == RunVoided(a, L)
                    N == Len(a) + 1
                IN  /\ p \in Seq(Run) /\ Len(p) = N /\ N \in Nat
                    /\ DOMAIN a = 1 .. Len(a) /\ DOMAIN p = 1 .. N
                    /\ \A k \in DOMAIN a \ {L} : p[k] = a[k]
                    /\ p[L].sign = a[L].sign
            BY ONLY <6>2, RunVoidedIs
          <6> QED BY <4>2, <6>1, <6>3
        <5> HIDE DEF a, L
        <5> QED BY <3>1, <5>1
      <4> QED BY <3>1, <4>1, <4>2
    <3>3. /\ r \in Seq(Run) /\ Len(r) = Len(base) + 1 /\ Len(base) \in Nat
          /\ DOMAIN base \subseteq DOMAIN r
          /\ \A k \in DOMAIN base : r[k] = base[k]
      <4>1. LET p == Append(base, Posting)
                N == Len(base) + 1
            IN  /\ p \in Seq(Run) /\ Len(p) = N /\ N \in Nat
                /\ DOMAIN base = 1 .. Len(base) /\ DOMAIN p = 1 .. N
                /\ \A k \in DOMAIN base : p[k] = base[k]
        BY PostingAppended
      <4> HIDE DEF a, L, r
      <4> QED BY <3>1, <4>1
    <3>4. MaxRuns \in Nat
      BY MaxRunsAssumption
    <3> HIDE DEF a, L, r
    <3>5. Len(r) <= MaxRuns
      BY <3>1, <3>2, <3>3, <3>4
    <3>6. DOMAIN a \subseteq DOMAIN r /\ \A k \in DOMAIN a : r[k].sign = a[k].sign
      BY <3>2, <3>3
    <3> QED BY <3>3, <3>5, <3>6 DEF a, r
  <2> QED BY <2>0, <2>1, <2>2, <2>3, LedgerWrites
<1>4. DOMAIN ledger' = Doc /\ ledger' = [d \in Doc |-> ledger'[d]]
  <2>1. \/ ledger' = ledger
        \/ \E r : ledger' = [ledger EXCEPT ![l] = r]
    BY LedgerWrites DEF WriteCreate, WriteFeeVoid, WriteRepost, l
  <2> QED BY <1>1, <2>1 DEF FeeTypeOK
<1>5. \A d \in Doc : ledger'[d] \in Seq(Run)
  BY <1>1, <1>2, <1>a DEF FeeTypeOK
<1> HIDE DEF Good
<1>6. ledger' \in [Doc -> Seq(Run)]
  BY <1>4, <1>5
<1> USE DEF Good
<1>7. ASSUME NEW d \in Doc
      PROVE  /\ Len(ledger'[d]) <= MaxRuns
             /\ DOMAIN ledger[d] \subseteq DOMAIN ledger'[d]
             /\ \A n \in DOMAIN ledger[d] : ledger'[d][n].sign = ledger[d][n].sign
  <2>1. CASE d = l
    BY <1>2, <2>1
  <2>2. CASE d # l
    BY <1>1, <1>a, <2>2 DEF FeeTypeOK
  <2> QED BY <2>1, <2>2
<1> QED BY <1>6, <1>7

LEMMA EntriesGrow ==
  ASSUME FeeIInv, NEW c \in Caller, FeeWrites(c)
  PROVE  /\ Entries \subseteq Entries'
         /\ \A n \in DOMAIN ledger'[on[c]] : <<on[c], n>> \in Entries'
         /\ \A d \in Doc : ledger[d] # <<>> => ledger'[d] # <<>>
<1>1. Entries \subseteq Entries'
  BY LedgerGrows DEF Entries, Entry
<1>2. ASSUME NEW n \in DOMAIN ledger'[on[c]]
      PROVE  <<on[c], n>> \in Entries'
  <2>1. on[c] \in Doc
    BY Frame DEF FeeIInv
  <2>2. ledger'[on[c]] \in Seq(Run) /\ Len(ledger'[on[c]]) <= MaxRuns
    BY <2>1, LedgerGrows
  <2>3. n \in 1 .. MaxRuns
    BY <2>2, MaxRunsAssumption
  <2> QED BY <2>1, <2>3 DEF Entries, Entry
<1>3. ASSUME NEW d \in Doc, ledger[d] # <<>> PROVE ledger'[d] # <<>>
  <2>1. 1 \in DOMAIN ledger[d]
    BY <1>3 DEF FeeIInv, FeeTypeOK
  <2> QED BY <2>1, LedgerGrows
<1> QED BY <1>1, <1>2, <1>3

\* What a write makes of its line
LEMMA LineWrite ==
  ASSUME FeeTypeOK, RequestsAreTyped, NEW c \in Caller, FeeWrites(c)
  PROVE  LET l == on[c]
         IN  /\ status' \in [FeeLine -> {"NEW", "MATCHED", "POSTED"}]
             /\ mode' \in [FeeLine -> {"none", "FEE_LINK_ONLY", "FEE_ENTRY_CREATED"}]
             /\ voided' \in [FeeLine -> BOOLEAN]
             /\ \/ /\ WriteLink(c) \/ WriteCreate(c)
                   /\ status'[l] = IF was[c] = "POSTED" THEN status[l] ELSE "POSTED"
                   /\ mode'[l] = IF WriteLink(c) THEN "FEE_LINK_ONLY" ELSE "FEE_ENTRY_CREATED"
                   /\ voided'[l] = (was[c] = "POSTED" /\ voided[l])
                \/ /\ WriteFeeVoid(c) \/ WriteAnswer(c) \/ WriteRepost(c)
                   /\ status'[l] = status[l] /\ mode'[l] = "FEE_ENTRY_CREATED"
                   /\ voided'[l] = ~WriteRepost(c)
                \/ /\ WriteUnlink(c) \/ RepostUnlink(c)
                   /\ status'[l] = "MATCHED" /\ mode'[l] = "none" /\ voided'[l]
                   /\ links' = Unlinked(l)
                \/ /\ Relink(c) \/ Crash(c)
                   /\ UNCHANGED <<line, ledger, links>>
<1> DEFINE l == on[c]
<1>1. l \in FeeLine /\ voided[l] \in BOOLEAN
  BY Frame DEF FeeTypeOK
<1>2. CASE WriteLink(c) \/ WriteCreate(c)
  <2>1. PICK m \in {"FEE_LINK_ONLY", "FEE_ENTRY_CREATED"} :
          MarkPosted(c, m) /\ m = IF WriteLink(c) THEN "FEE_LINK_ONLY" ELSE "FEE_ENTRY_CREATED"
    <3>1. WriteLink(c) => doing[c] = "link" /\ MarkPosted(c, "FEE_LINK_ONLY")
      BY DEF WriteLink
    <3>2. WriteCreate(c) => doing[c] = "create" /\ MarkPosted(c, "FEE_ENTRY_CREATED")
      BY DEF WriteCreate
    <3> QED BY <1>2, <3>1, <3>2
  <2> QED
    BY <1>1, <1>2, <2>1 DEF MarkPosted, FeeTypeOK
<1>3. CASE WriteFeeVoid(c) \/ WriteAnswer(c) \/ WriteRepost(c)
  <2>1. PICK v \in BOOLEAN : MarkBooked(l, v) /\ v = ~WriteRepost(c)
    <3>1. /\ WriteFeeVoid(c) => doing[c] = "void" /\ MarkBooked(l, TRUE)
          /\ WriteAnswer(c) => doing[c] = "answer" /\ MarkBooked(l, TRUE)
      BY DEF WriteFeeVoid, WriteAnswer
    <3>2. WriteRepost(c) => doing[c] = "repost" /\ MarkBooked(l, FALSE)
      BY DEF WriteRepost
    <3> QED BY <1>3, <3>1, <3>2
  <2> QED
    BY <1>1, <1>3, <2>1 DEF MarkBooked, FeeTypeOK
<1>4. CASE WriteUnlink(c) \/ RepostUnlink(c)
  <2>1. TakeBack(l)
    BY <1>4 DEF WriteUnlink, RepostUnlink
  <2> QED
    BY <1>1, <1>4, <2>1 DEF TakeBack, FeeTypeOK
<1>5. CASE Relink(c) \/ Crash(c)
  BY <1>5 DEF Relink, Crash, FeeTypeOK, line
<1> QED
  BY <1>2, <1>3, <1>4, <1>5 DEF FeeWrites

LEMMA FeeTypeStep ==
  ASSUME FeeIInv, NEW c \in Caller, FeeWrites(c)
  PROVE  FeeTypeOK'
<1> DEFINE l == on[c]
<1>1. FeeTypeOK /\ RequestsAreTyped /\ l \in FeeLine
  BY Frame DEF FeeIInv
<1>2. ledger' \in [Doc -> Seq(Run)] /\ \A d \in Doc : Len(ledger'[d]) <= MaxRuns
  BY LedgerGrows
<1>3. /\ status' \in [FeeLine -> {"NEW", "MATCHED", "POSTED"}]
      /\ mode' \in [FeeLine -> {"none", "FEE_LINK_ONLY", "FEE_ENTRY_CREATED"}]
      /\ voided' \in [FeeLine -> BOOLEAN]
  BY <1>1, LineWrite
<1>4. history' = history /\ overlap' = overlap
  BY <1>1, Frame
<1>5. /\ doing' \in [Caller -> {"idle", "link", "create", "unlink", "void", "answer",
                                "reposting", "unlinked", "repost"}]
      /\ on' \in [Caller -> FeeLine \cup {NoLine}]
      /\ seen' \in [Caller -> Entry \cup {NoEntry}]
      /\ was' \in [Caller -> {"none", "MATCHED", "POSTED"}]
  <2>1. CASE Finish(c)
    BY <1>1, <2>1 DEF Finish, Goto, FeeTypeOK
  <2>2. CASE RepostUnlink(c)
    BY <1>1, <2>2 DEF RepostUnlink, Goto, FeeTypeOK
  <2>3. CASE Relink(c)
    <3>1. PICK w \in Linking, e \in Entry \cup {NoEntry} :
            doing' = [doing EXCEPT ![c] = w] /\ seen' = [seen EXCEPT ![c] = e]
      BY <2>3 DEF Relink, Goto
    <3> QED
      BY <1>1, <2>3, <3>1 DEF Relink, FeeTypeOK, Linking
  <2> QED
    BY <2>1, <2>2, <2>3 DEF FeeWrites, WriteLink, WriteCreate, WriteFeeVoid, WriteAnswer,
       WriteUnlink, WriteRepost, Crash
<1>7. links' \subseteq FeeLine \X Entries'
  <2>1. links \subseteq FeeLine \X Entries'
    BY <1>1, EntriesGrow DEF FeeTypeOK
  <2>2. CASE links' \subseteq links
    BY <2>1, <2>2
  <2>3. CASE WriteLink(c)
    <3>1. links' = links \cup {<<l, seen[c]>>} /\ seen[c] \in Entries
      BY <1>1, <2>3 DEF WriteLink, Linked, RequestsAreTyped
    <3> QED BY <1>1, <2>1, <3>1, EntriesGrow
  <2>4. CASE WriteCreate(c)
    <3>1. \/ \E n \in DOMAIN ledger'[l] : links' = links \cup {<<l, <<l, n>>>>}
          \/ /\ ledger[l] \in Seq(Run) /\ ledger'[l] = Append(ledger[l], Posting)
             /\ links' = links \cup {<<l, <<l, Len(ledger[l]) + 1>>>>}
      BY <2>4, Creates
    <3>2. \E n \in DOMAIN ledger'[l] : links' = links \cup {<<l, <<l, n>>>>}
      <4>1. ledger[l] \in Seq(Run) /\ ledger'[l] = Append(ledger[l], Posting)
              => Len(ledger[l]) + 1 \in DOMAIN ledger'[l]
        BY PostingIsRun
      <4> HIDE DEF l
      <4> QED BY <3>1, <4>1
    <3> QED BY <1>1, <2>1, <3>2, EntriesGrow
  <2>5. CASE WriteRepost(c)
    <3>1. PICK base \in Seq(Run) :
            /\ ledger'[l] = Append(base, Posting)
            /\ links' = {k \in links : k[1] # l \/ k[2][1] # l}
                          \cup {<<l, <<l, Len(base) + 1>>>>}
      BY <2>5, Reposts
    <3>2. Len(base) + 1 \in DOMAIN ledger'[l]
      BY <3>1, PostingIsRun
    <3> QED BY <1>1, <2>1, <3>1, <3>2, EntriesGrow
  <2> QED BY <2>2, <2>3, <2>4, <2>5
          DEF FeeWrites, WriteFeeVoid, WriteAnswer, WriteUnlink, RepostUnlink, TakeBack,
              Unlinked, Relink, Crash
<1> QED BY <1>1, <1>2, <1>3, <1>4, <1>5, <1>7 DEF FeeTypeOK

LEMMA FirstStep ==
  ASSUME FeeIInv, NEW c \in Caller, FeeWrites(c)
  PROVE  FirstRunDebits'
<1>1. FeeTypeOK /\ FirstRunDebits /\ RequestsAreTyped
  BY DEF FeeIInv
<1> SUFFICES ASSUME NEW d \in Doc, ledger'[d] # <<>>
             PROVE  ledger'[d][1].sign = 1
  BY DEF FirstRunDebits
<1>2. CASE ledger[d] # <<>>
  <2>1. ledger[d] \in Seq(Run) /\ 1 \in DOMAIN ledger[d]
    BY <1>1, <1>2 DEF FeeTypeOK
  <2> QED BY <1>1, <1>2, <2>1, LedgerGrows DEF FirstRunDebits
<1>3. CASE ledger[d] = <<>>
  <2>1. d = on[c]
    BY <1>1, <1>3, Frame
  <2>2. ~WriteFeeVoid(c) /\ ~WriteRepost(c)
    <3>1. WriteFeeVoid(c) => DOMAIN ledger[d] # {}
      BY <2>1, Voids
    <3>2. WriteRepost(c) => DOMAIN ledger[d] # {}
      BY <2>1, Reposts
    <3> QED BY <1>3, <3>1, <3>2
  <2>3. WriteCreate(c)
    BY <1>3, <2>2, LedgerWrites
  <2>4. ledger'[d] = Append(<<>>, Posting)
    BY <1>3, <2>1, <2>3, Creates
  <2> QED BY <2>4, PostingIsRun
<1> QED BY <1>2, <1>3

LEMMA BookedStep ==
  ASSUME FeeIInv, NEW c \in Caller, FeeWrites(c)
  PROVE  BookedHasRun'
<1> DEFINE l == on[c]
<1>1. FeeTypeOK /\ BookedHasRun /\ RequestsAreTyped /\ l \in FeeLine /\ l \in Doc
  BY Frame DEF FeeIInv
<1>2. \A m \in FeeLine \ {l} : mode'[m] = mode[m] /\ ledger'[m] = ledger[m]
  BY <1>1, Frame DEF Doc
<1>3. ledger[l] # <<>> => ledger'[l] # <<>>
  BY <1>1, EntriesGrow
<1>4. CASE WriteCreate(c)
  <2>1. ledger'[l] # <<>>
    <3>1. \/ ledger' = ledger /\ \E n : n \in DOMAIN ledger[l]
          \/ ledger[l] \in Seq(Run) /\ ledger'[l] = Append(ledger[l], Posting)
      BY <1>4, Creates
    <3> QED BY <3>1
  <2> QED BY <1>1, <1>2, <2>1 DEF BookedHasRun
<1>5. CASE WriteFeeVoid(c) \/ WriteAnswer(c) \/ WriteRepost(c)
  <2>1. ledger[l] # <<>>
    BY <1>1, <1>5 DEF RequestsAreTyped, WriteFeeVoid, WriteAnswer, WriteRepost
  <2> QED BY <1>1, <1>2, <1>3, <2>1 DEF BookedHasRun
<1>6. CASE ~WriteCreate(c) /\ ~WriteFeeVoid(c) /\ ~WriteAnswer(c) /\ ~WriteRepost(c)
  <2>1. mode'[l] = "FEE_ENTRY_CREATED" => mode[l] = "FEE_ENTRY_CREATED"
    BY <1>1, <1>6, LineWrite DEF line
  <2> QED BY <1>1, <1>2, <1>3, <2>1 DEF BookedHasRun
<1> QED BY <1>4, <1>5, <1>6

----------------------------------------------------------------------------
(* What requests rely on *)

\* The rest of a link-only repost decides anew.
LEMMA Relinks ==
  ASSUME FeeIInv, NEW c \in Caller, Relink(c)
  PROVE  /\ doing[c] = "unlinked" /\ on'[c] = on[c] /\ was'[c] = "MATCHED"
         /\ UNCHANGED <<status, mode, voided, ledger, links, Entries>>
         /\ \/ doing'[c] = "link" /\ seen'[c] \in Entries'
            \/ doing'[c] = "create" /\ \A d \in Doc : ledger[d] = <<>>
<1>1. FeeTypeOK
  BY DEF FeeIInv
<1>2. PICK w \in Linking, e \in Entry \cup {NoEntry} :
        Ensure(w, e) /\ Goto(c, w) /\ seen' = [seen EXCEPT ![c] = e]
  BY DEF Relink
<1>3. /\ doing[c] = "unlinked" /\ was' = [was EXCEPT ![c] = "MATCHED"]
      /\ UNCHANGED <<line, ledger, links, on>>
  BY DEF Relink
<1>4. doing'[c] = w /\ seen'[c] = e /\ was'[c] = "MATCHED"
  BY <1>1, <1>2, <1>3 DEF Goto, FeeTypeOK
<1>5. Entries' = Entries
  BY <1>3 DEF Entries
<1>6. \/ w = "link" /\ e \in Entries
      \/ w = "create" /\ \A d \in Doc : ledger[d] = <<>>
  BY <1>2, RunsAreCandidates DEF Ensure, Candidates
<1> QED
  BY <1>3, <1>4, <1>5, <1>6 DEF line

LEMMA TypedStep ==
  ASSUME FeeIInv, NEW c \in Caller, FeeWrites(c)
  PROVE  RequestsAreTyped'
<1>1. FeeTypeOK /\ RequestsAreTyped
  BY DEF FeeIInv
<1> DEFINE Fit(d) ==
      /\ doing[d] # "idle" => on[d] \in FeeLine
      /\ doing[d] = "link" => seen[d] \in Entries
      /\ doing[d] \in Linking => was[d] \in {"MATCHED", "POSTED"}
      /\ doing[d] = "void" => seen[d] \in {on[d]} \X DOMAIN ledger[on[d]]
      /\ doing[d] \in {"void", "answer", "repost"} => ledger[on[d]] # <<>>
<1>2. ASSUME NEW d \in Caller \ {c} PROVE Fit(d)'
  <2>1. Fit(d)
    BY <1>1 DEF RequestsAreTyped
  <2>2. /\ doing'[d] = doing[d] /\ on'[d] = on[d] /\ seen'[d] = seen[d] /\ was'[d] = was[d]
    BY <1>1, Frame
  <2>3. Entries \subseteq Entries'
    BY EntriesGrow
  <2>4. on[d] \in FeeLine => /\ DOMAIN ledger[on[d]] \subseteq DOMAIN ledger'[on[d]]
                             /\ ledger[on[d]] # <<>> => ledger'[on[d]] # <<>>
    BY LedgerGrows, EntriesGrow DEF Doc
  <2>5. doing[d] = "void" => seen[d] \in {on[d]} \X DOMAIN ledger'[on[d]]
    BY <2>1, <2>4
  <2> QED
    BY <2>1, <2>2, <2>3, <2>4, <2>5
<1>3. Fit(c)'
  <2>1. on[c] \in FeeLine
    BY <1>1, Frame
  <2>2. CASE doing'[c] = "idle"
    BY <2>2 DEF Linking
  <2>3. CASE doing'[c] = "unlinked" /\ on'[c] = on[c]
    BY <2>1, <2>3 DEF Linking
  <2>4. CASE Relink(c)
    BY <2>1, <2>4, Relinks
  <2> QED
    BY <1>1, <2>2, <2>3, <2>4, Frame
<1> QED
  BY <1>2, <1>3 DEF RequestsAreTyped

LEMMA RecordedStep ==
  ASSUME FeeIInv, NEW c \in Caller, FeeWrites(c)
  PROVE  Recorded'
<1>1. FeeTypeOK /\ RequestsAreTyped /\ Recorded
  BY DEF FeeIInv
<1>2. /\ history' = history /\ overlap' = overlap /\ doing[c] # "idle"
      /\ \A d \in Caller \ {c} : doing'[d] = doing[d] /\ on'[d] = on[d] /\ was'[d] = was[d]
  BY <1>1, Frame
<1>3. \/ doing'[c] = "idle"
      \/ /\ doing[c] = "reposting" /\ doing'[c] = "unlinked" /\ on'[c] = on[c]
         /\ "repost" \in history[on[c]]
      \/ /\ doing[c] = "unlinked" /\ doing'[c] \in Linking /\ on'[c] = on[c]
         /\ was'[c] = "MATCHED"
  BY <1>1, Frame, Relinks DEF RepostUnlink, Recorded
<1>4. ASSUME NEW d \in Caller \ {c}, doing'[c] # "idle", doing[d] # "idle"
      PROVE  overlap /\ (on[c] = on[d] => /\ "beside" \in history[on[c]]
                                          /\ "crossed" \in history[on[c]])
  BY <1>1, <1>2, <1>3, <1>4 DEF Recorded, Linking
<1>5. \A d \in Caller :
        /\ doing'[d] \in {"unlink", "void", "answer"} => "void" \in history[on'[d]]
        /\ doing'[d] \in {"reposting", "unlinked", "repost"} => "repost" \in history[on'[d]]
        /\ doing'[d] \in Linking /\ was'[d] = "POSTED" => "again" \in history[on'[d]]
  BY <1>1, <1>2, <1>3 DEF Recorded, Linking
<1>6. ASSUME NEW d \in Caller, NEW x \in Caller \ {d}, doing'[d] # "idle", doing'[x] # "idle"
      PROVE  /\ overlap
             /\ on'[d] = on'[x] =>
                  /\ "beside" \in history[on'[d]]
                  /\ {doing'[d], doing'[x]} \subseteq Linking \/ "crossed" \in history[on'[d]]
  <2>1. CASE d = c
    BY <1>2, <1>3, <1>4, <1>6, <2>1
  <2>2. CASE x = c
    BY <1>2, <1>3, <1>4, <1>6, <2>2
  <2>3. CASE d # c /\ x # c
    BY <1>1, <1>2, <1>6, <2>3 DEF Recorded
  <2> QED
    BY <2>1, <2>2, <2>3
<1> QED
  BY <1>1, <1>2, <1>5, <1>6 DEF Recorded

\* What a write does is what its request has decided on.
LEMMA Decided ==
  ASSUME FeeIInv, NEW c \in Caller, FeeWrites(c), "crossed" \notin history[on[c]]
  PROVE  /\ WriteLink(c) \/ WriteCreate(c) =>
              doing[c] \in Linking /\ (was[c] = "POSTED" => status[on[c]] = "POSTED")
         /\ WriteFeeVoid(c) \/ WriteAnswer(c) \/ WriteRepost(c) =>
              doing[c] \notin Linking /\ status[on[c]] = "POSTED"
         /\ WriteUnlink(c) \/ RepostUnlink(c) \/ Relink(c) => doing[c] \notin Linking
BY DEF FeeIInv, OwnLineStands, Linking, WriteLink, WriteCreate, WriteFeeVoid, WriteAnswer,
   WriteRepost, WriteUnlink, RepostUnlink, Relink

\* A line that requests do not cross is posted while it is linked, and in a mode.
LEMMA LinkStep ==
  ASSUME FeeIInv, NEW c \in Caller, FeeWrites(c)
  PROVE  PostedIffLinked' /\ ModeOfPosted'
<1> DEFINE l == on[c]
<1>1. /\ FeeTypeOK /\ RequestsAreTyped /\ FeeTypeOK' /\ l \in FeeLine
      /\ history' = history
  BY FeeTypeStep, Frame DEF FeeIInv
<1>2. \A m \in FeeLine : "crossed" \notin history[m] =>
        /\ (status[m] = "POSTED") <=> \E e : <<m, e>> \in links
        /\ (status[m] = "POSTED") <=> (mode[m] # "none")
  <2>1. \A m \in FeeLine : \A e : <<m, e>> \in links => e \in Entries
    BY <1>1 DEF FeeTypeOK
  <2> QED
    BY <2>1 DEF FeeIInv, PostedIffLinked, ModeOfPosted
<1>3. ASSUME "crossed" \notin history[l]
      PROVE  /\ (status'[l] = "POSTED") <=> \E e : <<l, e>> \in links'
             /\ (status'[l] = "POSTED") <=> (mode'[l] # "none")
  <2>1. CASE WriteLink(c) \/ WriteCreate(c)
    <3>1. status'[l] = "POSTED" /\ mode'[l] # "none"
      <4>1. status'[l] = IF was[c] = "POSTED" THEN status[l] ELSE "POSTED"
        BY <1>1, <2>1 DEF WriteLink, WriteCreate, MarkPosted, FeeTypeOK
      <4>2. mode'[l] # "none"
        BY <1>1, <2>1 DEF WriteLink, WriteCreate, MarkPosted, FeeTypeOK
      <4> QED
        BY <1>3, <2>1, <4>1, <4>2, Decided
    <3>2. \E e : <<l, e>> \in links'
      BY <2>1 DEF WriteLink, WriteCreate, Linked
    <3> QED
      BY <3>1, <3>2
  <2>2. CASE WriteFeeVoid(c) \/ WriteAnswer(c) \/ WriteRepost(c)
    <3>1. status'[l] = status[l] /\ mode'[l] = "FEE_ENTRY_CREATED"
      <4>1. \E v : MarkBooked(l, v)
        BY <1>1, <2>2 DEF WriteFeeVoid, WriteAnswer, WriteRepost
      <4> QED
        BY <1>1, <4>1 DEF MarkBooked, FeeTypeOK
    <3>2. status[l] = "POSTED"
      BY <1>3, <2>2, Decided
    <3>3. \E e : <<l, e>> \in links'
      <4>1. WriteRepost(c) => \E e : <<l, e>> \in links'
        BY DEF WriteRepost
      <4>2. ~WriteRepost(c) => links' = links
        BY <2>2 DEF WriteFeeVoid, WriteAnswer
      <4> QED
        BY <1>2, <1>1, <1>3, <3>2, <4>1, <4>2
    <3> QED
      BY <3>1, <3>2, <3>3
  <2>3. CASE WriteUnlink(c) \/ RepostUnlink(c)
    <3>1. TakeBack(l)
      BY <2>3 DEF WriteUnlink, RepostUnlink
    <3>2. status'[l] = "MATCHED" /\ mode'[l] = "none" /\ links' = {k \in links : k[1] # l}
      BY <1>1, <3>1 DEF TakeBack, Unlinked, FeeTypeOK
    <3> QED
      BY <3>2
  <2>4. CASE Relink(c) \/ Crash(c)
    <3>1. UNCHANGED <<line, links>>
      BY <2>4 DEF Relink, Crash
    <3> QED
      BY <1>1, <1>2, <1>3, <3>1 DEF line
  <2> QED
    BY <2>1, <2>2, <2>3, <2>4 DEF FeeWrites
<1>4. \A m \in FeeLine : "crossed" \notin history[m] =>
        /\ (status'[m] = "POSTED") <=> \E e : <<m, e>> \in links'
        /\ (status'[m] = "POSTED") <=> (mode'[m] # "none")
  <2>1. \A m \in FeeLine \ {l} : /\ status'[m] = status[m] /\ mode'[m] = mode[m]
                                 /\ \A e : <<m, e>> \in links' <=> <<m, e>> \in links
    BY <1>1, Frame
  <2> QED BY <1>2, <1>3, <2>1
<1>5. \A m \in FeeLine : \A e : <<m, e>> \in links' => e \in Entries'
  BY <1>1 DEF FeeTypeOK
<1> QED BY <1>1, <1>4, <1>5 DEF PostedIffLinked, ModeOfPosted

\* A request at work beside the one that writes is for another line, or both post the
\* same line.
LEMMA OwnStep ==
  ASSUME FeeIInv, NEW c \in Caller, FeeWrites(c)
  PROVE  OwnLineStands'
<1> DEFINE l == on[c]
<1>1. /\ FeeTypeOK /\ RequestsAreTyped /\ OwnLineStands /\ Recorded
      /\ l \in FeeLine /\ doing[c] # "idle" /\ history' = history
  BY Frame DEF FeeIInv
<1>2. ASSUME NEW d \in Caller \ {c}, doing[d] # "idle", "crossed" \notin history[on[d]],
             on[d] # l
      PROVE  /\ status'[on[d]] = status[on[d]] /\ mode'[on[d]] = mode[on[d]]
             /\ ledger'[on[d]] = ledger[on[d]]
  BY <1>1, <1>2, Frame DEF RequestsAreTyped, Doc
<1>3. ASSUME NEW d \in Caller \ {c}, doing[d] # "idle", "crossed" \notin history[on[d]],
             on[d] = l
      PROVE  doing[d] \in Linking /\ (was[d] = "POSTED" => status'[l] = "POSTED")
  <2>1. doing[c] \in Linking /\ doing[d] \in Linking
    BY <1>1, <1>3 DEF Recorded
  <2>2. WriteLink(c) \/ WriteCreate(c) \/ Crash(c)
    BY <1>3, <2>1, Decided DEF FeeWrites
  <2>3. was[d] = "POSTED" => status[l] = "POSTED"
    BY <1>1, <1>3, <2>1 DEF OwnLineStands
  <2>4. status'[l] \in {status[l], "POSTED"}
    BY <1>1, <2>2 DEF WriteLink, WriteCreate, Crash, MarkPosted, FeeTypeOK, line
  <2> QED
    BY <2>1, <2>3, <2>4
<1> DEFINE Stands(d) ==
      /\ doing[d] \in {"unlink", "void", "answer", "reposting", "repost"} =>
           status[on[d]] = "POSTED"
      /\ doing[d] = "unlinked" => status[on[d]] = "MATCHED"
      /\ doing[d] \in Linking /\ was[d] = "POSTED" => status[on[d]] = "POSTED"
      /\ doing[d] \in {"void", "answer", "repost"} => mode[on[d]] = "FEE_ENTRY_CREATED"
      /\ doing[d] \in {"unlink", "reposting"} => mode[on[d]] = "FEE_LINK_ONLY"
      /\ doing[d] = "void" => VoidedRuns(on[d]) = {}
      /\ doing[d] = "answer" => VoidedRuns(on[d]) # {}
<1>4. ASSUME NEW d \in Caller \ {c}, doing[d] # "idle", "crossed" \notin history[on[d]]
      PROVE  Stands(d)'
  <2>1. doing'[d] = doing[d] /\ on'[d] = on[d] /\ was'[d] = was[d]
    BY <1>1, Frame
  <2>2. Stands(d)
    BY <1>1, <1>4 DEF OwnLineStands
  <2>3. CASE on[d] # l
    <3>1. VoidedRuns(on[d])' = VoidedRuns(on[d])
      BY <1>2, <1>4, <2>1, <2>3 DEF VoidedRuns
    <3> QED
      BY <1>2, <1>4, <2>1, <2>2, <2>3, <3>1
  <2>4. CASE on[d] = l
    BY <1>3, <1>4, <2>1, <2>4 DEF Linking
  <2> QED
    BY <2>3, <2>4
<1>5. doing'[c] # "idle" => Stands(c)'
  <2>1. CASE RepostUnlink(c) /\ doing'[c] = "unlinked" /\ on'[c] = l
    <3>1. status'[l] = "MATCHED"
      BY <1>1, <2>1 DEF RepostUnlink, TakeBack, FeeTypeOK
    <3> QED
      BY <2>1, <3>1 DEF Linking
  <2>2. CASE Relink(c)
    BY <2>2, Relinks
  <2> QED
    BY <1>1, <2>1, <2>2, Frame
<1>6. \A d \in Caller \ {c} : doing'[d] = doing[d] /\ on'[d] = on[d]
  BY <1>1, Frame
<1> QED
  BY <1>1, <1>4, <1>5, <1>6 DEF OwnLineStands

LEMMA AloneStep ==
  ASSUME FeeIInv, NEW c \in Caller, FeeWrites(c)
  PROVE  PostedAlone'
<1>1. /\ FeeTypeOK /\ RequestsAreTyped /\ PostedAlone /\ OwnLineStands /\ Recorded
      /\ on[c] \in FeeLine /\ doing[c] # "idle" /\ history' = history
  BY Frame DEF FeeIInv
<1> SUFFICES ASSUME NEW d \in Caller, doing'[d] \in Linking, "beside" \notin history[on'[d]]
             PROVE  /\ was'[d] = "MATCHED" => status'[on'[d]] = "MATCHED"
                    /\ doing'[d] = "create" => ledger'[on'[d]] = <<>>
  BY <1>1 DEF PostedAlone
<1>2. CASE d # c
  <2>1. doing'[d] = doing[d] /\ on'[d] = on[d] /\ was'[d] = was[d] /\ doing[d] # "idle"
    BY <1>1, <1>2, Frame DEF Linking
  <2>2. on[d] \in FeeLine \ {on[c]}
    BY <1>1, <1>2, <2>1 DEF Recorded, RequestsAreTyped
  <2>3. status'[on[d]] = status[on[d]] /\ ledger'[on[d]] = ledger[on[d]]
    BY <1>1, <2>2, Frame DEF Doc
  <2> QED
    BY <1>1, <2>1, <2>3 DEF PostedAlone
<1>3. CASE d = c
  <2>1. Relink(c)
    BY <1>1, <1>3, Frame DEF Linking
  <2>2. /\ doing[c] = "unlinked" /\ on'[c] = on[c] /\ status' = status /\ ledger' = ledger
        /\ doing'[c] = "create" => \A x \in Doc : ledger[x] = <<>>
    BY <2>1, Relinks
  <2>3. "crossed" \notin history[on[c]]
    BY <1>1, <1>3, <2>2 DEF Recorded
  <2>4. status[on[c]] = "MATCHED"
    BY <1>1, <2>2, <2>3 DEF OwnLineStands
  <2> QED
    BY <1>1, <1>3, <2>2, <2>4 DEF Doc
<1> QED
  BY <1>2, <1>3

----------------------------------------------------------------------------
(* The chain of reversals *)

Chained(r) ==
  /\ \A m, n \in DOMAIN r : (r[n].of = m) <=> (r[m].voided /\ r[m].rev = n)
  /\ \A n \in DOMAIN r : /\ r[n].of \in 0 .. Len(r)
                         /\ r[n].voided => r[n].rev \in DOMAIN r

LEMMA ChainedByVoid ==
  ASSUME NEW a \in Seq(Run), Chained(a), NEW k \in DOMAIN a, ~a[k].voided
  PROVE  Chained(RunVoided(a, k))
<1> DEFINE r == RunVoided(a, k)
           N == Len(a) + 1
<1>1. /\ Len(r) = N /\ N \in Nat /\ Len(a) \in Nat
      /\ DOMAIN a = 1 .. Len(a) /\ DOMAIN r = 1 .. N
      /\ \A n \in DOMAIN a \ {k} : r[n] = a[n]
      /\ r[k].of = a[k].of /\ r[k].voided /\ r[k].rev = N
      /\ r[N].of = k /\ ~r[N].voided
  BY RunVoidedIs
<1> HIDE DEF r
<1>2. DOMAIN r = DOMAIN a \cup {N} /\ N \notin DOMAIN a
  BY <1>1
<1>3. \A n \in DOMAIN a : /\ r[n].of = a[n].of /\ a[n].of \in 0 .. Len(a)
                          /\ a[n].voided => a[n].rev \in DOMAIN a
  BY <1>1 DEF Chained
<1> HIDE DEF N
<1>4. ASSUME NEW m \in DOMAIN r, NEW n \in DOMAIN r
      PROVE  (r[n].of = m) <=> (r[m].voided /\ r[m].rev = n)
  <2>1. CASE m \in DOMAIN a \ {k} /\ n \in DOMAIN a
    BY <1>1, <1>3, <2>1 DEF Chained
  <2>2. CASE m \in DOMAIN a \ {k} /\ n = N
    BY <1>1, <1>2, <1>3, <2>2
  <2>3. CASE m = k /\ n \in DOMAIN a
    <3>1. a[n].of # k
      BY <2>3 DEF Chained
    <3> QED BY <1>1, <1>2, <1>3, <2>3, <3>1
  <2>4. CASE m = k /\ n = N
    BY <1>1, <2>4
  <2>5. CASE m = N
    <3>1. n \in DOMAIN a => r[n].of # N
      BY <1>1, <1>2, <1>3 DEF N
    <3>2. k # N
      BY <1>2
    <3> QED BY <1>1, <1>2, <2>5, <3>1, <3>2
  <2> QED BY <1>2, <2>1, <2>2, <2>3, <2>4, <2>5
<1>5. ASSUME NEW n \in DOMAIN r
      PROVE  r[n].of \in 0 .. Len(r) /\ (r[n].voided => r[n].rev \in DOMAIN r)
  <2>1. CASE n \in DOMAIN a
    <3>1. r[n].of \in 0 .. Len(r)
      BY <1>1, <1>3, <2>1 DEF N
    <3>2. r[n].voided => r[n].rev \in DOMAIN r
      <4>1. CASE n = k
        BY <1>1, <1>2, <4>1
      <4>2. CASE n # k
        <5>1. r[n] = a[n]
          BY <1>1, <2>1, <4>2
        <5> QED BY <1>2, <1>3, <2>1, <5>1
      <4> QED BY <4>1, <4>2
    <3> QED BY <3>1, <3>2
  <2>2. CASE n = N
    <3>1. k \in 0 .. Len(r)
      BY <1>1 DEF N
    <3> QED BY <1>1, <2>2, <3>1
  <2> QED BY <1>2, <2>1, <2>2
<1> QED BY <1>4, <1>5 DEF Chained, r

LEMMA ChainedByPosting ==
  ASSUME NEW a \in Seq(Run), Chained(a)
  PROVE  Chained(Append(a, Posting))
<1> DEFINE r == Append(a, Posting)
           N == Len(a) + 1
<1>1. /\ Len(r) = N /\ N \in Nat /\ Len(a) \in Nat
      /\ DOMAIN a = 1 .. Len(a) /\ DOMAIN r = 1 .. N
      /\ \A n \in DOMAIN a : r[n] = a[n]
      /\ r[N] = Posting /\ Posting.of = 0 /\ ~Posting.voided
  BY PostingAppended, PostingIsRun
<1> HIDE DEF r
<1>2. DOMAIN r = DOMAIN a \cup {N} /\ N \notin DOMAIN a
  BY <1>1
<1>3. \A n \in DOMAIN a : /\ a[n].of \in 0 .. Len(a) /\ n # 0
                          /\ a[n].voided => a[n].rev \in DOMAIN a
  BY <1>1 DEF Chained
<1>4. ASSUME NEW m \in DOMAIN r, NEW n \in DOMAIN r
      PROVE  (r[n].of = m) <=> (r[m].voided /\ r[m].rev = n)
  <2>1. CASE m \in DOMAIN a /\ n \in DOMAIN a
    BY <1>1, <2>1 DEF Chained
  <2>2. CASE m \in DOMAIN a /\ n = N
    BY <1>1, <1>2, <1>3, <2>2
  <2>3. CASE m = N
    BY <1>1, <1>2, <1>3, <2>3
  <2> QED BY <1>2, <2>1, <2>2, <2>3
<1>5. ASSUME NEW n \in DOMAIN r
      PROVE  r[n].of \in 0 .. Len(r) /\ (r[n].voided => r[n].rev \in DOMAIN r)
  BY <1>1, <1>2, <1>3
<1> QED BY <1>4, <1>5 DEF Chained, r

LEMMA ChainStep ==
  ASSUME FeeIInv, NEW c \in Caller, FeeWrites(c)
  PROVE  ReversalChain' /\ ChainWithin'
<1> DEFINE l == on[c]
<1>1. /\ FeeTypeOK /\ RequestsAreTyped /\ l \in FeeLine /\ history' = history
      /\ \A m \in FeeLine : "crossed" \notin history[m] => Chained(ledger[m])
  BY Frame DEF FeeIInv, ReversalChain, ChainWithin, Chained
<1>2. ASSUME "crossed" \notin history[l]
      PROVE  Chained(ledger'[l])
  <2>1. CASE ledger' = ledger
    BY <1>1, <1>2, <2>1
  <2>2. CASE WriteCreate(c) /\ ledger' # ledger
    <3>1. ledger[l] \in Seq(Run) /\ ledger'[l] = Append(ledger[l], Posting)
      BY <2>2, Creates
    <3> QED BY <1>1, <1>2, <3>1, ChainedByPosting
  <2>3. CASE WriteFeeVoid(c) /\ ledger' # ledger
    <3>1. PICK n \in DOMAIN ledger[l] :
            /\ ledger[l] \in Seq(Run) /\ ~ledger[l][n].voided
            /\ ledger'[l] = RunVoided(ledger[l], n)
      BY <2>3, Voids
    <3> QED BY <1>1, <1>2, <3>1, ChainedByVoid
  <2>4. CASE WriteRepost(c)
    <3> DEFINE a == ledger[l]
               L == Len(a)
    <3>1. PICK base \in Seq(Run) :
            /\ L \in DOMAIN a /\ a \in Seq(Run)
            /\ \/ base = a
               \/ ~a[L].voided /\ base = RunVoided(a, L)
            /\ ledger'[l] = Append(base, Posting)
      BY <2>4, Reposts
    <3>2. Chained(a)
      BY <1>1, <1>2
    <3>3. Chained(base)
      BY <3>1, <3>2, ChainedByVoid
    <3> QED BY <3>1, <3>3, ChainedByPosting
  <2> QED BY <2>1, <2>2, <2>3, <2>4, LedgerWrites
<1>3. \A m \in FeeLine \ {l} : ledger'[m] = ledger[m]
  BY <1>1, Frame DEF Doc
<1>4. \A m \in FeeLine : "crossed" \notin history'[m] => Chained(ledger'[m])
  BY <1>1, <1>2, <1>3
<1> QED BY <1>4 DEF ReversalChain, ChainWithin, Chained

----------------------------------------------------------------------------
(* What the runs add up to *)

Signed(r, s) == {n \in DOMAIN r : r[n].sign = s}

LEMMA StandingIs ==
  \A d : Standing(d) = Cardinality(Signed(ledger[d], 1)) - Cardinality(Signed(ledger[d], -1))
BY DEF Standing, Signed

LEMMA SignedFinite ==
  ASSUME NEW r \in Seq(Run), NEW s
  PROVE  IsFiniteSet(Signed(r, s)) /\ Cardinality(Signed(r, s)) \in Nat
<1>1. IsFiniteSet(1 .. Len(r))
  BY FS_Interval
<1>2. Signed(r, s) \subseteq 1 .. Len(r)
  BY DEF Signed
<1>3. IsFiniteSet(Signed(r, s))
  BY <1>1, <1>2, FS_Subset
<1> QED BY <1>3, FS_CardinalityType

\* A run more counts with its sign.
LEMMA NextRunCounts ==
  ASSUME NEW a \in Seq(Run), NEW r \in Seq(Run), Len(r) = Len(a) + 1,
         \A n \in DOMAIN a : r[n].sign = a[n].sign
  PROVE  Cardinality(Signed(r, 1)) - Cardinality(Signed(r, -1))
           = Cardinality(Signed(a, 1)) - Cardinality(Signed(a, -1)) + r[Len(r)].sign
<1> DEFINE N == Len(a) + 1
<1>1. /\ DOMAIN r = DOMAIN a \cup {N} /\ N \notin DOMAIN a
      /\ Len(r) = N /\ r[N] \in Run
  OBVIOUS
<1>2. r[N].sign \in {1, -1}
  BY <1>1 DEF Run
<1>3. /\ Cardinality(Signed(a, 1)) \in Nat /\ Cardinality(Signed(a, -1)) \in Nat
      /\ IsFiniteSet(Signed(a, 1)) /\ IsFiniteSet(Signed(a, -1))
  BY SignedFinite
<1> HIDE DEF N
<1>4. CASE r[N].sign = 1
  <2>1. Signed(r, 1) = Signed(a, 1) \cup {N} /\ N \notin Signed(a, 1)
    BY <1>1, <1>4 DEF Signed
  <2>2. Signed(r, -1) = Signed(a, -1)
    BY <1>1, <1>4 DEF Signed
  <2>3. Cardinality(Signed(r, 1)) = Cardinality(Signed(a, 1)) + 1
    BY <1>3, <2>1, FS_AddElement
  <2> QED BY <1>1, <1>3, <1>4, <2>2, <2>3
<1>5. CASE r[N].sign = -1
  <2>1. Signed(r, -1) = Signed(a, -1) \cup {N} /\ N \notin Signed(a, -1)
    BY <1>1, <1>5 DEF Signed
  <2>2. Signed(r, 1) = Signed(a, 1)
    BY <1>1, <1>5 DEF Signed
  <2>3. Cardinality(Signed(r, -1)) = Cardinality(Signed(a, -1)) + 1
    BY <1>3, <2>1, FS_AddElement
  <2> QED BY <1>1, <1>3, <1>5, <2>2, <2>3
<1> QED BY <1>2, <1>4, <1>5

LEMMA NothingCounts ==
  ASSUME NEW e, DOMAIN e = {}
  PROVE  Cardinality(Signed(e, 1)) - Cardinality(Signed(e, -1)) = 0
<1>1. Signed(e, 1) = {} /\ Signed(e, -1) = {}
  BY DEF Signed
<1>2. Cardinality({}) = 0
  BY FS_EmptySet
<1>3. Cardinality(Signed(e, 1)) = 0 /\ Cardinality(Signed(e, -1)) = 0
  BY <1>1, <1>2
<1> QED BY <1>3

LEMMA PostingCounts ==
  /\ <<Posting>> \in Seq(Run) /\ Len(<<Posting>>) = 1 /\ DOMAIN <<Posting>> = {1}
  /\ <<Posting>>[1] = Posting
  /\ Cardinality(Signed(<<Posting>>, 1)) - Cardinality(Signed(<<Posting>>, -1)) = 1
<1>1. Posting \in Run /\ Posting.sign = 1
  BY PostingIsRun
<1> DEFINE r == <<Posting>>
           e == <<>>
<1>2. r \in Seq(Run) /\ Len(r) = 1 /\ r[1] = Posting /\ DOMAIN r = {1}
  BY <1>1
<1>3. e \in Seq(Run) /\ Len(e) = 0 /\ DOMAIN e = {}
  OBVIOUS
<1> HIDE DEF r, e
<1>4. Len(r) = Len(e) + 1 /\ \A n \in DOMAIN e : r[n].sign = e[n].sign
  BY <1>2, <1>3
<1>5. Cardinality(Signed(r, 1)) - Cardinality(Signed(r, -1))
        = Cardinality(Signed(e, 1)) - Cardinality(Signed(e, -1)) + r[Len(r)].sign
  BY <1>2, <1>3, <1>4, NextRunCounts
<1>6. Cardinality(Signed(e, 1)) - Cardinality(Signed(e, -1)) = 0
  BY <1>3, NothingCounts
<1>7. r[Len(r)].sign = 1
  BY <1>1, <1>2
<1>8. Cardinality(Signed(r, 1)) - Cardinality(Signed(r, -1)) = 1
  BY <1>5, <1>6, <1>7
<1> QED BY <1>2, <1>8 DEF r

LEMMA VoidedCounts ==
  ASSUME NEW a \in Seq(Run), NEW n \in DOMAIN a, a[n].sign = 1
  PROVE  LET r == RunVoided(a, n)
         IN  Cardinality(Signed(r, 1)) - Cardinality(Signed(r, -1))
               = Cardinality(Signed(a, 1)) - Cardinality(Signed(a, -1)) - 1
<1> DEFINE r == RunVoided(a, n)
           N == Len(a) + 1
<1>1. /\ r \in Seq(Run) /\ Len(r) = N
      /\ \A k \in DOMAIN a \ {n} : r[k] = a[k]
      /\ r[n].sign = a[n].sign /\ r[N].sign = -a[n].sign
  BY RunVoidedIs
<1>2. r[Len(r)].sign = -1
  <2>1. -a[n].sign = -1
    BY SignOfReversal
  <2> QED BY <1>1, <2>1
<1> HIDE DEF r
<1>3. \A k \in DOMAIN a : r[k].sign = a[k].sign
  BY <1>1
<1>4. Cardinality(Signed(r, 1)) - Cardinality(Signed(r, -1))
        = Cardinality(Signed(a, 1)) - Cardinality(Signed(a, -1)) + r[Len(r)].sign
  BY <1>1, <1>3, NextRunCounts
<1>5. Cardinality(Signed(a, 1)) \in Nat /\ Cardinality(Signed(a, -1)) \in Nat
  BY SignedFinite
<1>6. Cardinality(Signed(r, 1)) - Cardinality(Signed(r, -1))
        = Cardinality(Signed(a, 1)) - Cardinality(Signed(a, -1)) - 1
  BY <1>2, <1>4, <1>5
<1> QED BY <1>6 DEF r

LEMMA PostingVoided ==
  /\ RunVoided(<<Posting>>, 1)[1].voided /\ 1 \in DOMAIN RunVoided(<<Posting>>, 1)
  /\ Len(RunVoided(<<Posting>>, 1)) = 2
<1>1. <<Posting>> \in Seq(Run) /\ Len(<<Posting>>) = 1 /\ 1 \in DOMAIN <<Posting>>
  BY PostingCounts
<1> DEFINE a == <<Posting>>
           r == RunVoided(a, 1)
<1>2. Len(r) = Len(a) + 1 /\ r[1].voided /\ DOMAIN r = 1 .. Len(a) + 1
  <2>1. a \in Seq(Run) /\ 1 \in DOMAIN a
    BY <1>1
  <2> HIDE DEF a
  <2> QED BY <2>1, RunVoidedIs
<1> HIDE DEF r
<1>3. Len(a) = 1
  BY <1>1
<1> HIDE DEF a
<1>4. Len(r) = 2 /\ 1 \in DOMAIN r /\ r[1].voided
  BY <1>2, <1>3
<1> QED BY <1>4 DEF r, a

----------------------------------------------------------------------------
(* What histories without a repost, or without a void, leave behind *)

\* The first posting of a line finds it as confirmMatch has left it.
LEMMA FirstPosted ==
  ASSUME FeeIInv, NEW c \in Caller, WriteLink(c) \/ WriteCreate(c),
         history[on[c]] \cap {"again", "beside"} = {}
  PROVE  /\ on[c] \in FeeLine /\ was[c] = "MATCHED" /\ mode[on[c]] = "none"
         /\ WriteCreate(c) => ledger[on[c]] = <<>>
<1>1. /\ FeeTypeOK /\ RequestsAreTyped /\ Recorded /\ PostedAlone /\ ModeOfPosted
      /\ doing[c] \in Linking /\ (WriteCreate(c) => doing[c] = "create")
  BY DEF FeeIInv, WriteLink, WriteCreate, Linking
<1>2. on[c] \in FeeLine /\ was[c] = "MATCHED" /\ "beside" \notin history[on[c]]
  BY <1>1 DEF RequestsAreTyped, Recorded, Linking
<1>3. status[on[c]] = "MATCHED" /\ (WriteCreate(c) => ledger[on[c]] = <<>>)
  BY <1>1, <1>2 DEF PostedAlone
<1>4. "crossed" \notin history[on[c]]
  BY <1>1, <1>2 DEF Recorded
<1> QED
  BY <1>1, <1>2, <1>3, <1>4 DEF ModeOfPosted

LEMMA OnlyVoidsStep ==
  ASSUME FeeIInv, NEW c \in Caller, FeeWrites(c)
  PROVE  OnlyVoids'
<1> DEFINE l == on[c]
           once == <<Posting>>
           twice == RunVoided(once, 1)
           Left(m, v) == IF m # "FEE_ENTRY_CREATED" THEN <<>> ELSE IF v THEN twice ELSE once
<1>1. /\ FeeTypeOK /\ RequestsAreTyped /\ Recorded /\ OwnLineStands
      /\ l \in FeeLine /\ l \in Doc /\ history' = history /\ doing[c] # "idle"
  BY Frame DEF FeeIInv
<1>2. \A m \in FeeLine : history[m] \cap {"again", "beside", "repost"} = {} =>
        ledger[m] = Left(mode[m], voided[m])
  BY DEF FeeIInv, OnlyVoids
<1>3. /\ \A n \in DOMAIN once : ~once[n].voided
      /\ DOMAIN once = {1} /\ 1 \in DOMAIN twice /\ twice[1].voided
      /\ Append(<<>>, Posting) = once
  BY PostingIsRun, PostingCounts, PostingVoided
<1> HIDE DEF twice, once
<1>4. ASSUME history[l] \cap {"again", "beside", "repost"} = {}
      PROVE  ledger'[l] = Left(mode'[l], voided'[l])
  <2>1. "crossed" \notin history[l] /\ doing[c] \notin {"reposting", "unlinked", "repost"}
    BY <1>1, <1>4 DEF Recorded
  <2>2. ~WriteRepost(c) /\ ~RepostUnlink(c) /\ ~Relink(c)
    BY <2>1 DEF WriteRepost, RepostUnlink, Relink
  <2>3. ledger[l] = Left(mode[l], voided[l])
    BY <1>1, <1>2, <1>4
  <2>4. CASE WriteLink(c)
    <3>1. mode[l] = "none" /\ ledger' = ledger
      BY <1>4, <2>4, FirstPosted DEF WriteLink
    <3>2. mode'[l] = "FEE_LINK_ONLY"
      BY <1>1, <2>4 DEF WriteLink, MarkPosted, FeeTypeOK
    <3> QED
      BY <2>3, <3>1, <3>2
  <2>5. CASE WriteCreate(c)
    <3>1. was[c] = "MATCHED" /\ ledger[l] = <<>>
      BY <1>4, <2>5, FirstPosted
    <3>2. mode'[l] = "FEE_ENTRY_CREATED" /\ ~voided'[l]
      BY <1>1, <2>5, <3>1 DEF WriteCreate, MarkPosted, FeeTypeOK
    <3>3. ledger'[l] = once
      BY <1>3, <2>5, <3>1, Creates
    <3> QED
      BY <3>2, <3>3
  <2>6. CASE WriteFeeVoid(c)
    <3>1. PICK n \in DOMAIN ledger[l] :
            \/ ledger[l][n].voided
            \/ ~ledger[l][n].voided /\ ledger'[l] = RunVoided(ledger[l], n)
      BY <2>6, Voids
    <3>2. VoidedRuns(l) = {} /\ mode[l] = "FEE_ENTRY_CREATED"
      BY <1>1, <2>1, <2>6 DEF WriteFeeVoid, OwnLineStands
    <3>3. mode'[l] = "FEE_ENTRY_CREATED" /\ voided'[l]
      BY <1>1, <2>6 DEF WriteFeeVoid, MarkBooked, FeeTypeOK
    <3>4. ledger[l] # twice
      BY <1>3, <3>2 DEF VoidedRuns
    <3>5. ledger[l] = once
      BY <2>3, <3>2, <3>4
    <3>6. n = 1 /\ ~ledger[l][n].voided
      BY <1>3, <3>1, <3>5
    <3>7. ledger'[l] = twice
      BY <3>1, <3>5, <3>6 DEF twice
    <3> QED BY <3>3, <3>7
  <2>7. CASE WriteAnswer(c)
    <3>1. /\ VoidedRuns(l) # {} /\ mode[l] = "FEE_ENTRY_CREATED" /\ ledger' = ledger
      BY <1>1, <2>1, <2>7 DEF WriteAnswer, OwnLineStands
    <3>2. mode'[l] = "FEE_ENTRY_CREATED" /\ voided'[l]
      BY <1>1, <2>7 DEF WriteAnswer, MarkBooked, FeeTypeOK
    <3>3. ledger[l] # once
      BY <1>3, <3>1 DEF VoidedRuns
    <3> QED BY <2>3, <3>1, <3>2, <3>3
  <2>8. CASE WriteUnlink(c)
    <3>1. mode[l] = "FEE_LINK_ONLY"
      BY <1>1, <2>1, <2>8 DEF WriteUnlink, OwnLineStands
    <3>2. mode'[l] = "none" /\ ledger' = ledger
      BY <1>1, <2>8 DEF WriteUnlink, TakeBack, FeeTypeOK
    <3> QED BY <2>3, <3>1, <3>2
  <2>9. CASE Crash(c)
    BY <2>3, <2>9 DEF Crash, line
  <2> QED BY <2>2, <2>4, <2>5, <2>6, <2>7, <2>8, <2>9 DEF FeeWrites
<1>5. \A m \in FeeLine \ {l} :
        mode'[m] = mode[m] /\ voided'[m] = voided[m] /\ ledger'[m] = ledger[m]
  BY <1>1, Frame DEF Doc
<1> HIDE DEF Left
<1>6. \A m \in FeeLine : history'[m] \cap {"again", "beside", "repost"} = {} =>
        ledger'[m] = Left(mode'[m], voided'[m])
  BY <1>1, <1>2, <1>4, <1>5
<1> QED BY <1>6 DEF OnlyVoids, Left, twice, once

LEMMA OnlyRepostsStep ==
  ASSUME FeeIInv, NEW c \in Caller, FeeWrites(c)
  PROVE  OnlyReposts'
<1> DEFINE l == on[c]
           Total(r) == Cardinality(Signed(r, 1)) - Cardinality(Signed(r, -1))
           Counts(r) == Total(r) = 1 /\ r[Len(r)].sign = 1 /\ ~r[Len(r)].voided
           Fine(r, m, v) == IF m # "FEE_ENTRY_CREATED" THEN r = <<>> ELSE Counts(r) /\ ~v
<1>1. /\ FeeTypeOK /\ RequestsAreTyped /\ Recorded /\ OwnLineStands
      /\ l \in FeeLine /\ l \in Doc /\ history' = history /\ doing[c] # "idle"
  BY Frame DEF FeeIInv
<1>2. \A m \in FeeLine : history[m] \cap {"again", "beside", "void"} = {} =>
        Fine(ledger[m], mode[m], voided[m])
  BY StandingIs DEF FeeIInv, OnlyReposts
<1>3. ASSUME history[l] \cap {"again", "beside", "void"} = {}
      PROVE  Fine(ledger'[l], mode'[l], voided'[l])
  <2>1. "crossed" \notin history[l] /\ doing[c] \notin {"unlink", "void", "answer"}
    BY <1>1, <1>3 DEF Recorded
  <2>2. ~WriteUnlink(c) /\ ~WriteFeeVoid(c) /\ ~WriteAnswer(c)
    BY <2>1 DEF WriteUnlink, WriteFeeVoid, WriteAnswer
  <2>3. Fine(ledger[l], mode[l], voided[l])
    BY <1>1, <1>2, <1>3
  <2> HIDE DEF Counts
  <2>4. CASE WriteLink(c)
    <3>1. mode[l] = "none" /\ ledger' = ledger
      BY <1>3, <2>4, FirstPosted DEF WriteLink
    <3>2. mode'[l] = "FEE_LINK_ONLY"
      BY <1>1, <2>4 DEF WriteLink, MarkPosted, FeeTypeOK
    <3> QED
      BY <2>3, <3>1, <3>2
  <2>5. CASE WriteCreate(c)
    <3>1. was[c] = "MATCHED" /\ ledger[l] = <<>>
      BY <1>3, <2>5, FirstPosted
    <3>2. mode'[l] = "FEE_ENTRY_CREATED" /\ ~voided'[l]
      BY <1>1, <2>5, <3>1 DEF WriteCreate, MarkPosted, FeeTypeOK
    <3>3. ledger'[l] = <<Posting>>
      BY <2>5, <3>1, Creates
    <3>4. Counts(<<Posting>>)
      <4>1. /\ Posting.sign = 1 /\ ~Posting.voided /\ <<Posting>>[1] = Posting
            /\ Len(<<Posting>>) = 1 /\ Total(<<Posting>>) = 1
        BY PostingIsRun, PostingCounts
      <4> HIDE DEF Total
      <4> QED BY <4>1 DEF Counts
    <3> QED
      BY <3>2, <3>3, <3>4
  <2>6. CASE WriteRepost(c)
    <3> DEFINE a == ledger[l]
               L == Len(a)
               b == RunVoided(a, L)
               r == Append(b, Posting)
    <3>1. L \in DOMAIN a /\ a \in Seq(Run)
      BY <2>6, Reposts
    <3>0. mode[l] = "FEE_ENTRY_CREATED"
      BY <1>1, <2>1, <2>6 DEF WriteRepost, OwnLineStands
    <3>2. Total(a) = 1 /\ a[L].sign = 1 /\ ~a[L].voided
      <4> HIDE DEF Total
      <4> QED BY <3>0, <2>3 DEF Counts
    <3>3. b \in Seq(Run)
      BY <3>1, RunVoidedIs
    <3>4. ledger'[l] = r
      <4>1. PICK base \in Seq(Run) :
              /\ \/ a[L].voided /\ base = a
                 \/ ~a[L].voided /\ base = b
              /\ ledger'[l] = Append(base, Posting)
        BY <2>6, Reposts
      <4> HIDE DEF a, L, b, Total
      <4> QED BY <4>1, <3>2
    <3>5. Total(b) = 0
      <4>1. Total(b) = Total(a) - 1
        <5> HIDE DEF a
        <5> QED BY <3>1, <3>2, VoidedCounts
      <4> HIDE DEF Total
      <4> QED BY <4>1, <3>2
    <3> HIDE DEF b
    <3>6. /\ r \in Seq(Run) /\ Len(r) = Len(b) + 1 /\ r # <<>>
          /\ \A n \in DOMAIN b : r[n] = b[n]
          /\ r[Len(r)] = Posting
      BY <3>3, PostingAppended
    <3>7. Posting.sign = 1 /\ ~Posting.voided
      BY PostingIsRun
    <3> HIDE DEF r
    <3>8. Total(r) = Total(b) + r[Len(r)].sign
      <4>1. Len(r) = Len(b) + 1 /\ \A n \in DOMAIN b : r[n].sign = b[n].sign
        BY <3>6
      <4> QED BY <3>3, <3>6, <4>1, NextRunCounts
    <3> HIDE DEF Total
    <3>9. Total(r) = 1
      BY <3>5, <3>6, <3>7, <3>8
    <3>10. Counts(r)
      BY <3>6, <3>7, <3>9 DEF Counts
    <3>11. mode'[l] = "FEE_ENTRY_CREATED" /\ ~voided'[l]
      BY <1>1, <2>6 DEF WriteRepost, MarkBooked, FeeTypeOK
    <3> QED BY <3>4, <3>10, <3>11
  <2>7. CASE RepostUnlink(c)
    <3>1. mode[l] = "FEE_LINK_ONLY" /\ TakeBack(l)
      BY <2>7 DEF RepostUnlink
    <3>2. mode'[l] = "none" /\ ledger' = ledger
      BY <1>1, <3>1 DEF TakeBack, FeeTypeOK
    <3> QED BY <2>3, <3>1, <3>2
  <2>8. CASE Relink(c) \/ Crash(c)
    BY <2>3, <2>8 DEF Relink, Crash, line
  <2> QED BY <2>2, <2>4, <2>5, <2>6, <2>7, <2>8 DEF FeeWrites
<1> HIDE DEF Counts
<1>4. \A m \in FeeLine \ {l} :
        mode'[m] = mode[m] /\ voided'[m] = voided[m] /\ ledger'[m] = ledger[m]
  BY <1>1, Frame DEF Doc
<1> HIDE DEF Fine
<1>5. \A m \in FeeLine : history'[m] \cap {"again", "beside", "void"} = {} =>
        Fine(ledger'[m], mode'[m], voided'[m])
  BY <1>1, <1>2, <1>3, <1>4
<1>6. \A d : Standing(d)' = Total(ledger'[d])
  BY DEF Standing, Signed
<1> QED BY <1>5, <1>6 DEF OnlyReposts, Fine, Counts

\* What has been done to no line is not about to be written.
LEMMA SerialWrites ==
  ASSUME FeeIInv, NEW c \in Caller, FeeWrites(c), NEW S, Serial(S)
  PROVE  /\ on[c] \in FeeLine
         /\ "void" \in S => ~WriteFeeVoid(c) /\ ~WriteAnswer(c) /\ ~WriteUnlink(c)
         /\ "repost" \in S => ~RepostUnlink(c) /\ ~Relink(c) /\ ~WriteRepost(c)
         /\ \A d \in Caller \ {c} : doing[d] = "idle" /\ doing'[d] = "idle"
<1>1. FeeTypeOK /\ RequestsAreTyped /\ Recorded
  BY DEF FeeIInv
<1>2. /\ on[c] \in FeeLine /\ doing[c] # "idle"
      /\ \A d \in Caller \ {c} : doing'[d] = doing[d]
  BY <1>1, Frame
<1>3. ~overlap /\ history[on[c]] \cap S = {}
  BY <1>2 DEF Serial
<1>4. \A d \in Caller \ {c} : doing[d] = "idle"
  BY <1>1, <1>2, <1>3 DEF Recorded
<1>5. /\ "void" \in S => doing[c] \notin {"unlink", "void", "answer"}
      /\ "repost" \in S => doing[c] \notin {"reposting", "unlinked", "repost"}
  BY <1>1, <1>3 DEF Recorded
<1> QED
  BY <1>2, <1>4, <1>5 DEF WriteFeeVoid, WriteAnswer, WriteUnlink, RepostUnlink, Relink, WriteRepost

LEMMA OneEntryStep ==
  ASSUME FeeIInv, NEW c \in Caller, FeeWrites(c)
  PROVE  OneEntry'
<1> DEFINE S == {"void", "repost"}
<1>1. FeeTypeOK /\ RequestsAreTyped /\ history' = history /\ overlap' = overlap
  BY Frame DEF FeeIInv
<1> SUFFICES ASSUME Serial(S)
             PROVE  /\ \A x, d \in Doc : ledger'[x] # <<>> /\ ledger'[d] # <<>> => x = d
                    /\ \A x \in Caller : doing'[x] = "create" =>
                         \A d \in Doc : ledger'[d] = <<>>
  BY <1>1 DEF OneEntry, Serial
<1>2. /\ \A x, d \in Doc : ledger[x] # <<>> /\ ledger[d] # <<>> => x = d
      /\ \A x \in Caller : doing[x] = "create" => \A d \in Doc : ledger[d] = <<>>
  BY DEF FeeIInv, OneEntry
<1>3. /\ on[c] \in FeeLine /\ ~WriteFeeVoid(c) /\ ~WriteRepost(c)
      /\ ~RepostUnlink(c) /\ ~Relink(c)
      /\ \A d \in Caller \ {c} : doing'[d] = "idle"
  BY SerialWrites
<1>4. doing'[c] = "idle"
  BY <1>1, <1>3, Frame
<1>5. CASE WriteCreate(c)
  <2>1. \A d \in Doc : ledger[d] = <<>>
    BY <1>2, <1>5 DEF WriteCreate
  <2>2. \A d \in Doc \ {on[c]} : ledger'[d] = <<>>
    BY <1>1, <2>1, Frame
  <2> QED BY <1>3, <1>4, <2>2
<1>6. CASE ~WriteCreate(c)
  <2>1. ledger' = ledger
    BY <1>3, <1>6, LedgerWrites
  <2> QED BY <1>2, <1>3, <1>4, <2>1
<1> QED BY <1>5, <1>6

LEMMA NobodyLinksStep ==
  ASSUME FeeIInv, NEW c \in Caller, FeeWrites(c)
  PROVE  NobodyElseLinks'
<1>1. FeeTypeOK /\ RequestsAreTyped /\ history' = history /\ overlap' = overlap
  BY Frame DEF FeeIInv
<1>2. ASSUME Serial({"repost"}), NEW x \in Caller, doing'[x] = "void" PROVE FALSE
  <2>1. \A d \in Caller \ {c} : doing'[d] = "idle"
    BY <1>2, SerialWrites
  <2>2. doing'[c] # "void"
    BY <1>1, Frame DEF Linking
  <2> QED
    BY <1>2, <2>1, <2>2
<1> QED
  BY <1>1, <1>2 DEF NobodyElseLinks, Serial

----------------------------------------------------------------------------
(* The inductive invariant *)

LEMMA Initial == FeeInit => FeeIInv
<1> SUFFICES ASSUME FeeInit PROVE FeeIInv
  OBVIOUS
<1> DEFINE once == <<Posting>>
<1>1. /\ once \in Seq(Run) /\ Len(once) = 1 /\ DOMAIN once = {1} /\ once[1] = Posting
      /\ Posting.sign = 1
  BY PostingCounts, PostingIsRun
<1>2. <<>> \in Seq(Run) /\ Len(<<>>) = 0
  OBVIOUS
<1>3. \A d \in Doc : ledger[d] \in {<<>>, once} /\ (d # Sale => ledger[d] = <<>>)
  BY DEF FeeInit
<1>4. \A m \in FeeLine : m \in Doc /\ ledger[m] = <<>>
  BY <1>3, SaleAssumption DEF Doc
<1> HIDE DEF once
<1>5. /\ status = [m \in FeeLine |-> "NEW"] /\ mode = [m \in FeeLine |-> "none"]
      /\ voided = [m \in FeeLine |-> FALSE] /\ links = {}
      /\ doing = [c \in Caller |-> "idle"] /\ on = [c \in Caller |-> NoLine]
      /\ seen = [c \in Caller |-> NoEntry] /\ was = [c \in Caller |-> "none"]
      /\ history = [m \in FeeLine |-> {}] /\ overlap = FALSE
      /\ DOMAIN ledger = Doc /\ ledger = [d \in Doc |-> ledger[d]]
  BY DEF FeeInit
<1>6. FeeTypeOK
  <2>1. ledger \in [Doc -> Seq(Run)]
    BY <1>1, <1>2, <1>3, <1>5
  <2>2. ASSUME NEW d \in Doc PROVE Len(ledger[d]) <= MaxRuns
    <3>1. Len(ledger[d]) = 0 \/ Len(ledger[d]) = 1
      <4>1. ledger[d] = <<>> \/ ledger[d] = once
        BY <1>3
      <4> QED BY <1>1, <1>2, <4>1
    <3> DEFINE k == Len(ledger[d])
    <3> HIDE DEF k
    <3>2. k = 0 \/ k = 1
      BY <3>1 DEF k
    <3>3. k <= MaxRuns
      BY <3>2, MaxRunsAssumption
    <3> QED BY <3>3 DEF k
  <2> QED BY <1>5, <2>1, <2>2 DEF FeeTypeOK
<1>7. PostedIffLinked /\ ModeOfPosted /\ BookedHasRun
  BY <1>5 DEF PostedIffLinked, ModeOfPosted, BookedHasRun
<1>8. RequestsAreTyped /\ Recorded /\ OwnLineStands /\ PostedAlone /\ NobodyElseLinks
  BY <1>5 DEF RequestsAreTyped, Recorded, OwnLineStands, PostedAlone, NobodyElseLinks, Linking
<1>9. FirstRunDebits
  BY <1>1, <1>3 DEF FirstRunDebits
<1>10. ReversalChain /\ ChainWithin
  BY <1>4 DEF ReversalChain, ChainWithin
<1>11. OnlyVoids /\ OnlyReposts
  BY <1>4, <1>5 DEF OnlyVoids, OnlyReposts
<1>12. OneEntry
  <2>1. \A c, d \in Doc : ledger[c] # <<>> /\ ledger[d] # <<>> => c = d
    BY <1>3
  <2> QED BY <1>5, <2>1 DEF OneEntry
<1> QED BY <1>6, <1>7, <1>8, <1>9, <1>10, <1>11, <1>12 DEF FeeIInv

LEMMA InvariantStep == FeeIInv /\ [FeeNext]_feeVars => FeeIInv'
<1> SUFFICES ASSUME FeeIInv, [FeeNext]_feeVars PROVE FeeIInv'
  OBVIOUS
<1>1. CASE \E l \in FeeLine : Confirm(l)
  BY <1>1, ConfirmStep
<1>2. CASE \E c \in Caller : FeeReads(c)
  BY <1>2, StartStep
<1>3. CASE \E c \in Caller : FeeWrites(c)
  <2>1. PICK c \in Caller : FeeWrites(c)
    BY <1>3
  <2> QED
    BY <2>1, FeeTypeStep, FirstStep, BookedStep, TypedStep, RecordedStep, LinkStep, OwnStep,
       AloneStep, ChainStep, OnlyVoidsStep, OnlyRepostsStep, OneEntryStep, NobodyLinksStep
       DEF FeeIInv
<1>4. CASE UNCHANGED feeVars
  <2> USE <1>4 DEF feeVars, line, request
  <2>1. FeeTypeOK' /\ PostedIffLinked'
    BY DEF FeeIInv, FeeTypeOK, Entries, PostedIffLinked
  <2>2. OwnLineStands' /\ PostedAlone' /\ ModeOfPosted'
    BY DEF FeeIInv, OwnLineStands, PostedAlone, ModeOfPosted, VoidedRuns
  <2> QED BY <2>1, <2>2, ApartFromStatus DEF FeeIInv
<1> QED BY <1>1, <1>2, <1>3, <1>4 DEF FeeNext, FeeReads, FeeWrites

\* The invariant that carries the properties below holds for any number of
\* statement lines and of requests for them, that overlap in any way: what it says
\* of a line allows for the requests that have overlapped on it.
THEOREM FeeInvariance == FeeSpec => []FeeIInv
BY Initial, InvariantStep, PTL DEF FeeSpec

----------------------------------------------------------------------------
(* The properties *)

\* postLine, voidFeePosting and repostFeePosting leave a line POSTED exactly while its
\* money transaction has a FEE link, also between the transactions of a repost, after
\* a crash there, and when posts of one line overlap; a line on which a void or a
\* repost has overlapped another request is left out.
THEOREM AlwaysPostedIffLinked == FeeSpec => []PostedIffLinked
<1>1. FeeIInv => PostedIffLinked
  BY DEF FeeIInv
<1> QED BY <1>1, FeeInvariance, PTL

\* A document that counts the fee has runs.
LEMMA StandingHasRuns ==
  ASSUME FeeIInv, NEW d \in Doc, Standing(d) >= 1
  PROVE  ledger[d] # <<>>
<1> SUFFICES ASSUME ledger[d] = <<>> PROVE FALSE
  OBVIOUS
<1>1. DOMAIN ledger[d] = {}
  OBVIOUS
<1>2. Standing(d) = 0
  BY <1>1, NothingCounts, StandingIs
<1> QED BY <1>2

\* Lines posted one after the other count the fee once between them and the
\* sales document: ensureMarketplaceFeePosting links to the entry there is.
THEOREM FeeIsCountedOnce == FeeSpec => []FeeCountedOnce
<1>1. FeeIInv => FeeCountedOnce
  <2> SUFFICES ASSUME FeeIInv, Serial({"void", "repost"}), NEW c \in Doc, NEW d \in Doc,
                      Standing(c) >= 1, Standing(d) >= 1
               PROVE  c = d
    BY DEF FeeCountedOnce
  <2>1. ledger[c] # <<>> /\ ledger[d] # <<>>
    BY StandingHasRuns
  <2> QED BY <2>1 DEF FeeIInv, OneEntry
<1> QED BY <1>1, FeeInvariance, PTL

\* A line that is posted once counts the fee while it is in the mode of one that books
\* it and has no mark of a void, and nothing otherwise, however often voidFeePosting
\* is called for it, or however often repostFeePosting is; and the chain of reversals
\* of every line whose requests do not cross is sound.
THEOREM AlwaysReversible == FeeSpec => []Reversible
<1>1. FeeIInv => Reversible
  <2> SUFFICES ASSUME FeeIInv PROVE Reversible
    OBVIOUS
  <2>1. CountsUntilVoided
    <3> SUFFICES ASSUME NEW l \in FeeLine, Plain(l)
                 PROVE  Standing(l) = IF mode[l] = "FEE_ENTRY_CREATED" /\ ~voided[l]
                                        THEN 1 ELSE 0
      BY DEF CountsUntilVoided
    <3> DEFINE Total(r) == Cardinality(Signed(r, 1)) - Cardinality(Signed(r, -1))
    <3>0. Standing(l) = Total(ledger[l])
      BY StandingIs
    <3>1. ledger[l] = <<>> => Standing(l) = 0
      <4>1. ledger[l] = <<>> => DOMAIN ledger[l] = {}
        OBVIOUS
      <4> QED BY <3>0, <4>1, NothingCounts
    <3>2. CASE history[l] \cap {"again", "beside", "repost"} = {}
      <4> DEFINE once == <<Posting>>
                 twice == RunVoided(once, 1)
      <4>1. ledger[l] = IF mode[l] # "FEE_ENTRY_CREATED" THEN <<>>
                        ELSE IF voided[l] THEN twice ELSE once
        BY <3>2 DEF FeeIInv, OnlyVoids
      <4>2. Total(once) = 1 /\ once \in Seq(Run) /\ 1 \in DOMAIN once /\ once[1].sign = 1
        BY PostingCounts, PostingIsRun
      <4> HIDE DEF once
      <4>3. Total(twice) = Total(once) - 1
        BY <4>2, VoidedCounts
      <4> HIDE DEF Total, twice
      <4> QED BY <3>0, <3>1, <4>1, <4>2, <4>3
    <3>3. CASE history[l] \cap {"again", "beside", "void"} = {}
      BY <3>1, <3>3 DEF FeeIInv, OnlyReposts
    <3> QED BY <3>2, <3>3 DEF Plain
  <2> QED BY <2>1 DEF FeeIInv, Reversible
<1> QED BY <1>1, FeeInvariance, PTL

\* voidFeePosting does not take away an entry another line is linked to, as long
\* as requests do not overlap and nothing is reposted: the link it has looked
\* for has not been made since.
THEOREM ForeignLinksHold == FeeSpec => ForeignLinkHeld
<1> DEFINE A == Serial({"repost"})' =>
       \A l, m \in FeeLine : \A n \in DOMAIN ledger[l] :
         m # l /\ <<m, <<l, n>>>> \in links /\ ~ledger[l][n].voided
           => ~ledger'[l][n].voided
<1>1. FeeIInv /\ [FeeNext]_feeVars => [A]_feeVars
  <2> SUFFICES ASSUME FeeIInv, FeeNext, Serial({"repost"})',
                      NEW l \in FeeLine, NEW m \in FeeLine, NEW n \in DOMAIN ledger[l],
                      m # l, <<m, <<l, n>>>> \in links, ~ledger[l][n].voided,
                      ledger'[l][n].voided
               PROVE  FALSE
    OBVIOUS
  <2>1. FeeTypeOK /\ RequestsAreTyped /\ l \in Doc
    BY DEF FeeIInv, Doc
  <2>2. PICK c \in Caller : FeeWrites(c)
    <3>1. ~\E k \in FeeLine : Confirm(k)
      BY DEF Confirm
    <3>2. ~\E c \in Caller : FeeReads(c)
      BY DEF FeeReads, ReadFeePost, ReadFeeVoid, ReadRepost, Start
    <3> QED
      BY <3>1, <3>2 DEF FeeNext, FeeReads, FeeWrites
  <2>3. Serial({"repost"})
    BY <2>1, <2>2, Frame DEF Serial
  <2>4. on[c] = l
    BY <2>1, <2>2, Frame
  <2>5. CASE WriteFeeVoid(c)
    <3> DEFINE k == seen[c][2]
    <3>1. /\ ledger[l] \in Seq(Run) /\ k \in DOMAIN ledger[l]
          /\ ledger'[l] = RunVoided(ledger[l], k)
      BY <2>4, <2>5, Voids
    <3>2. n = k
      BY <3>1, RunVoidedIs
    <3>3. ~HasForeign(l, k)
      BY <2>3, <2>4, <2>5 DEF FeeIInv, NobodyElseLinks, WriteFeeVoid
    <3> QED BY <3>2, <3>3 DEF HasForeign
  <2>6. CASE WriteCreate(c)
    <3>1. ledger[l] \in Seq(Run) /\ ledger'[l] = Append(ledger[l], Posting)
      BY <2>4, <2>6, Creates
    <3> QED BY <3>1, PostingAppended
  <2>7. ~WriteRepost(c)
    BY <2>2, <2>3, SerialWrites
  <2> QED BY <2>2, <2>5, <2>6, <2>7, LedgerWrites
<1>2. FeeSpec => [][A]_feeVars
  BY <1>1, FeeInvariance, PTL DEF FeeSpec
<1> QED BY <1>2 DEF ForeignLinkHeld

----------------------------------------------------------------------------
(* Lines and their parts *)

\* A line of a file is no part, every part is one of one line, and being of one
\* family is mutual.
LEMMA Families ==
  ASSUME NEW l \in Line, NEW w \in Whole
  PROVE  /\ Parts(w) \subseteq Line /\ w \in Line /\ w \notin Parts(w)
         /\ l \in Parts(w) => l \notin Whole
         /\ \A v \in Whole : l \in Parts(w) /\ l \in Parts(v) => v = w
         /\ l \in Family(w) <=> l = w \/ l \in Parts(w)
         /\ l \in Family(w) => w \in Family(l)
         /\ l \in Family(l)
<1>1. PICK k \in Key : w = <<k>>
  BY DEF Whole
<1>2. Parts(w) = {<<k, p>> : p \in Part}
  BY <1>1 DEF Parts
<1>3. \A v \in Whole, p \in Part : <<k, p>> # v
  BY DEF Whole
<1>4. Parts(w) \subseteq Line /\ w \in Line /\ w \notin Parts(w)
  BY <1>2, <1>3 DEF Line
<1>5. l \in Parts(w) => l \notin Whole
  BY <1>2, <1>3
<1>6. \A v \in Whole : l \in Parts(w) /\ l \in Parts(v) => v = w
  <2> SUFFICES ASSUME NEW v \in Whole, l \in Parts(w), l \in Parts(v)
               PROVE  v = w
    OBVIOUS
  <2>1. PICK j \in Key : v = <<j>>
    BY DEF Whole
  <2>2. PICK p \in Part : l = <<k, p>>
    BY <1>2
  <2>3. PICK q \in Part : l = <<j, q>>
    BY <2>1 DEF Parts
  <2>4. k = j
    BY <2>2, <2>3
  <2> QED
    BY <1>1, <2>1, <2>4
<1>7. l \in Family(w) <=> l = w \/ l \in Parts(w)
  BY DEF Family
<1>8. l \in Family(w) => w \in Family(l)
  <2>1. CASE l = w
    BY <2>1 DEF Family
  <2>2. CASE l \in Parts(w)
    <3>1. PICK p \in Part : l = <<k, p>>
      BY <1>2, <2>2
    <3>2. <<l[1]>> = w
      BY <1>1, <3>1
    <3> QED
      BY <1>5, <2>2, <3>2 DEF Family
  <2> QED
    BY <1>7, <2>1, <2>2
<1>9. l \in Family(l)
  BY DEF Family
<1> QED
  BY <1>4, <1>5, <1>6, <1>7, <1>8, <1>9

\* A line that comes from no file is a part of one that does.
LEMMA PartOf ==
  ASSUME NEW l \in Line, l \notin Whole
  PROVE  <<l[1]>> \in Whole /\ l \in Parts(<<l[1]>>)
<1>1. PICK w \in Whole : l \in Parts(w)
  BY DEF Line
<1>2. PICK k \in Key : w = <<k>>
  BY DEF Whole
<1>3. PICK p \in Part : l = <<k, p>>
  BY <1>1, <1>2 DEF Parts
<1>4. <<l[1]>> = w
  BY <1>2, <1>3
<1> QED
  BY <1>1, <1>4

----------------------------------------------------------------------------
(* Reading and writing *)

Reading(c) ==
  \/ ReadImport(c) \/ ReadSuggest(c) \/ ReadConfirm(c) \/ ReadPost(c)
  \/ ReadIgnore(c) \/ ReadUnignore(c) \/ ReadSplit(c) \/ ReadUndo(c)
  \/ ReadUnpost(c) \/ ReadPostAnew(c) \/ ReadVoid(c) \/ ReadPayout(c)

\* Writes of one line
Restates(c) ==
  WriteSuggest(c) \/ WriteConfirm(c) \/ WriteIgnore(c) \/ WriteUnignore(c)
Posts(c) == WritePost(c) \/ WritePostAnew(c)

Writing(c) ==
  \/ WriteImport(c) \/ Restates(c) \/ Posts(c) \/ WriteUnpost(c)
  \/ WriteSplit(c) \/ WriteUndo(c) \/ WriteVoid(c) \/ WritePayout(c) \/ Abort(c)

\* The steps of a repost between its first and its last
TakesBack(c) == ReadTakeBack(c) \/ WriteTakeBack(c)

LEMMA Kinds ==
  Next => BatchIgnore \/ \E c \in Client : Reading(c) \/ Writing(c) \/ TakesBack(c)
<1> SUFFICES ASSUME Next, ~BatchIgnore
             PROVE  \E c \in Client : Reading(c) \/ Writing(c) \/ TakesBack(c)
  OBVIOUS
<1>1. PICK c \in Client :
        \/ ReadImport(c) \/ WriteImport(c)
        \/ ReadSuggest(c) \/ WriteSuggest(c)
        \/ ReadConfirm(c) \/ WriteConfirm(c)
        \/ ReadPost(c) \/ WritePost(c) \/ ReadUnpost(c) \/ WriteUnpost(c)
        \/ ReadPostAnew(c) \/ ReadTakeBack(c) \/ WriteTakeBack(c) \/ WritePostAnew(c)
        \/ ReadIgnore(c) \/ WriteIgnore(c) \/ ReadUnignore(c) \/ WriteUnignore(c)
        \/ ReadSplit(c) \/ WriteSplit(c) \/ ReadUndo(c) \/ WriteUndo(c)
        \/ ReadVoid(c) \/ WriteVoid(c) \/ ReadPayout(c) \/ WritePayout(c)
        \/ Abort(c)
  BY DEF Next
<1>2. Reading(c) \/ Writing(c) \/ TakesBack(c)
  BY <1>1 DEF Reading, Writing, Restates, Posts, TakesBack
<1> QED
  BY <1>2

LEMMA ReadsKeepRows ==
  ASSUME NEW c \in Client, Reading(c)
  PROVE  UNCHANGED <<rows, excused>>
  BY DEF Reading, ReadImport, ReadSuggest, ReadConfirm, ReadPost, ReadIgnore, ReadUnignore,
     ReadSplit, ReadUndo, ReadUnpost, ReadPostAnew, ReadVoid, ReadPayout, Begin

LEMMA WritesEnd ==
  ASSUME NEW c \in Client, Writing(c)
  PROVE  End(c)
<1>1. Restates(c) => End(c)
  BY DEF Restates, WriteSuggest, WriteConfirm, WriteIgnore, WriteUnignore, Update
<1>2. Posts(c) \/ WriteUnpost(c) => End(c)
  BY DEF Posts, WritePost, WritePostAnew, WriteUnpost, Update
<1>3. WriteImport(c) \/ WriteSplit(c) \/ WriteUndo(c) => End(c)
  BY DEF WriteImport, WriteSplit, WriteUndo
<1>4. WriteVoid(c) \/ WritePayout(c) \/ Abort(c) => End(c)
  BY DEF WriteVoid, WritePayout, Void, Abort
<1> QED
  BY <1>1, <1>2, <1>3, <1>4 DEF Writing

----------------------------------------------------------------------------
(* Typing *)

StatementLine ==
  [status : Status, hint : BOOLEAN, entity : Money \cup {NoMoney},
   money : Money \cup {NoMoney}, split : BOOLEAN, ext : Id \cup {NoId}]

Step == {"import", "void", "payout"} \cup Changing \cup Holding
Value == Money \cup Line \cup {"none", "NEW", "SUGGESTED", "parts", "bare"}

LEMMA LineTypes ==
  ASSUME TypeOK
  PROVE  /\ \A l \in Line : lines[l] \in StatementLine
         /\ lines \in [Line -> StatementLine]
  BY DEF TypeOK, StatementLine

LEMMA CallTypes ==
  ASSUME TypeOK
  PROVE  /\ pc \in [Client -> {"idle"} \cup Step]
         /\ at \in [Client -> {<<>>} \cup Line \cup File \cup Money]
         /\ read \in [Client -> Value]
<1>1. {"idle", "import", "void", "payout"} \cup Changing \cup Holding = {"idle"} \cup Step
  BY DEF Step
<1> QED
  BY <1>1 DEF TypeOK, Value

LEMMA InitTypes ==
  ASSUME Init
  PROVE  TypeOK
<1>1. lines \in [Line -> StatementLine]
  BY DEF Init, Absent, Row, StatementLine, Status
<1> QED
  BY <1>1 DEF Init, TypeOK, StatementLine

\* A call that reads changes nothing but what is known of it.
LEMMA ReadTypes ==
  ASSUME TypeOK, NEW c \in Client, Reading(c)
  PROVE  TypeOK'
<1> DEFINE Things == Line \cup File \cup Money
<1> SUFFICES ASSUME NEW s \in Step, NEW x \in Things, NEW v \in Value,
                    pc' = [pc EXCEPT ![c] = s], at' = [at EXCEPT ![c] = x],
                    read' = [read EXCEPT ![c] = v],
                    lap' = lap \/ lap' = lap \cup {s},
                    s # "import" \/ lap' = lap,
                    UNCHANGED <<rows, excused>>
             PROVE  TypeOK'
  <2>a. \A s \in Changing \cup Holding : s \in Step /\ s # "import"
    BY DEF Step, Changing, Restating, Holding, ToPost
  <2>b. Whole \subseteq Line
    BY DEF Line
  <2>1. CASE ReadImport(c)
    BY <2>1 DEF ReadImport, Begin, Beside, Step, Value
  <2>2. CASE ReadSuggest(c)
    <3>1. "suggest" \in Changing
      BY DEF Changing, Restating
    <3> QED
      BY <2>a, <2>2, <3>1 DEF ReadSuggest, Begin, Value
  <2>3. CASE ReadConfirm(c)
    <3>1. "confirm" \in Changing
      BY DEF Changing, Restating
    <3> QED
      BY <2>a, <2>3, <3>1 DEF ReadConfirm, Begin, Value
  <2>4. CASE ReadPost(c)
    <3>1. PICK l \in Line :
            /\ lines[l].entity # NoMoney
            /\ Begin(c, "post", l, lines[l].entity,
                     Changing \cup {"void", "payout"}, Family(l) \cup {lines[l].entity})
      BY <2>4 DEF ReadPost
    <3>2. lines[l].entity \in Value
      BY <3>1, LineTypes DEF StatementLine, Value
    <3>3. "post" \in Holding
      BY DEF Holding, ToPost
    <3> QED
      BY <2>a, <3>1, <3>2, <3>3 DEF Begin
  <2>5. CASE ReadIgnore(c)
    <3>1. "ignore" \in Changing
      BY DEF Changing
    <3> QED
      BY <2>a, <2>5, <3>1 DEF ReadIgnore, Begin, Value
  <2>6. CASE ReadUnignore(c)
    <3>1. "unignore" \in Changing
      BY DEF Changing, Restating
    <3> QED
      BY <2>a, <2>6, <3>1 DEF ReadUnignore, Begin, Hinted, Value
  <2>7. CASE ReadSplit(c)
    <3>1. "split" \in Changing
      BY DEF Changing
    <3> QED
      BY <2>a, <2>b, <2>7, <3>1 DEF ReadSplit, Begin, Value
  <2>8. CASE ReadUndo(c)
    <3>1. "undo" \in Changing
      BY DEF Changing
    <3> QED
      BY <2>a, <2>b, <2>8, <3>1 DEF ReadUndo, Begin, Value
  <2>9. CASE ReadUnpost(c) \/ ReadPostAnew(c)
    <3>1. PICK l \in Line, s \in {"unpost", "repost"} :
            lines[l].money # NoMoney /\ Begin(c, s, l, lines[l].money, {}, {})
      BY <2>9 DEF ReadUnpost, ReadPostAnew
    <3>2. lines[l].money \in Value
      BY <3>1, LineTypes DEF StatementLine, Value
    <3>3. s \in Holding
      BY DEF Holding, ToPost
    <3> QED
      BY <2>a, <3>1, <3>2, <3>3 DEF Begin
  <2>10. CASE ReadVoid(c)
    BY <2>10 DEF ReadVoid, Begin, Step, Value
  <2>11. CASE ReadPayout(c)
    BY <2>11 DEF ReadPayout, Begin, Step, Value
  <2> QED
    BY <2>1, <2>2, <2>3, <2>4, <2>5, <2>6, <2>7, <2>8, <2>9, <2>10, <2>11 DEF Reading
<1>1. pc' \in [Client -> {"idle"} \cup Step]
  BY CallTypes
<1>2. at' \in [Client -> {<<>>} \cup Things]
  BY CallTypes
<1>3. read' \in [Client -> Value]
  BY CallTypes
<1>4. lap' \subseteq Changing \cup Holding \cup {"void", "payout"}
  BY DEF TypeOK, Step
<1>5. pc' \in [Client -> {"idle", "import", "void", "payout"} \cup Changing \cup Holding]
  BY <1>1 DEF Step
<1> QED
  BY <1>2, <1>3, <1>4, <1>5 DEF TypeOK, Value, rows

\* A call that ends leaves the types of what the calls know alone.
LEMMA EndTypes ==
  ASSUME TypeOK, NEW c \in Client, End(c),
         statements' \subseteq File, lines' \in [Line -> StatementLine],
         cash' \in [Money -> {"POSTED", "VOIDED"}], excused' \subseteq Line
  PROVE  TypeOK'
<1>1. pc' \in [Client -> {"idle", "import", "void", "payout"} \cup Changing \cup Holding]
  BY DEF TypeOK, End
<1>2. at' \in [Client -> {<<>>} \cup Line \cup File \cup Money]
  BY DEF TypeOK, End
<1>3. read' \in [Client -> Value]
  BY CallTypes DEF End, Value
<1>4. lap' \subseteq Changing \cup Holding \cup {"void", "payout"}
  BY DEF TypeOK, End
<1> QED
  BY <1>1, <1>2, <1>3, <1>4 DEF TypeOK, StatementLine, Value

\* What the update of one line writes is a line.
LEMMA UpdateTypes ==
  ASSUME TypeOK, NEW c \in Client, at[c] \in Line, NEW row \in StatementLine, Update(c, row)
  PROVE  TypeOK'
<1>1. lines' \in [Line -> StatementLine]
  BY LineTypes DEF Update
<1>2. /\ End(c) /\ statements' \subseteq File /\ cash' \in [Money -> {"POSTED", "VOIDED"}]
      /\ excused' \subseteq Line
  BY DEF Update, TypeOK
<1> QED
  BY <1>1, <1>2, EndTypes

LEMMA HintedStatus ==
  ASSUME NEW r
  PROVE  Hinted(r) \in {"NEW", "SUGGESTED"}
  BY DEF Hinted

\* What is written of a line when it is split and when that is undone
LEMMA EmptiedRows ==
  ASSUME NEW r \in StatementLine, NEW s \in Status, NEW b \in BOOLEAN
  PROVE  /\ Emptied(r, s, b) \in StatementLine
         /\ [r EXCEPT !.split = b, !.status = s] \in StatementLine
<1>1. NoMoney \in Money \cup {NoMoney}
  OBVIOUS
<1>2. Emptied(r, s, b) \in StatementLine
  BY <1>1 DEF Emptied, StatementLine
<1>3. [r EXCEPT !.split = b, !.status = s] \in StatementLine
  BY DEF StatementLine
<1> QED
  BY <1>2, <1>3

\* What is written of a line when it is posted, and when that is taken back
LEMMA PostedRows ==
  ASSUME NEW r \in StatementLine, NEW m \in Money
  PROVE  /\ PostedTo(r, m) \in StatementLine /\ Unposted(r) \in StatementLine
         /\ Ignored(r) \in StatementLine
  BY DEF PostedTo, Unposted, Ignored, StatementLine, Status

LEMMA WriteTypes ==
  ASSUME TypeOK, CallsAreTyped, NEW c \in Client, Writing(c)
  PROVE  TypeOK'
<1>a. \A l \in Line : lines[l] \in StatementLine
  BY LineTypes
<1>b. statements \subseteq File /\ cash \in [Money -> {"POSTED", "VOIDED"}]
      /\ lines \in [Line -> StatementLine] /\ excused \subseteq Line
  BY LineTypes DEF TypeOK
<1>c. \A s \in {"NEW", "SUGGESTED", "MATCHED", "POSTED", "IGNORED", "SPLIT"} : s \in Status
  BY DEF Status
<1>d. /\ pc[c] \in Changing \cup Holding => at[c] \in Line
      /\ pc[c] \in {"confirm"} \cup Holding => read[c] \in Money
      /\ pc[c] \in {"suggest", "unignore"} => read[c] \in {"NEW", "SUGGESTED"}
  BY DEF CallsAreTyped
<1>1. CASE WriteImport(c)
  <2>1. at[c] \in File /\ End(c) /\ statements' = statements \cup {at[c]}
        /\ UNCHANGED <<cash, excused>>
    BY <1>1 DEF WriteImport, CallsAreTyped
  <2> DEFINE f == at[c]
  <2>2. PICK S \in SUBSET Content[f] :
          lines' = [l \in Line |->
                     IF \E e \in S : l = <<e[1]>>
                       THEN [Row("NEW") EXCEPT !.ext = (CHOOSE e \in S : l = <<e[1]>>)[2]]
                       ELSE lines[l]]
    BY <1>1 DEF WriteImport
  <2>3. \A e \in S : e[2] \in Id \cup {NoId}
    BY <2>1, ContentAssumption
  <2>4. \A i \in Id \cup {NoId} : [Row("NEW") EXCEPT !.ext = i] \in StatementLine
    BY <1>c DEF Row, StatementLine
  <2>5. \A l \in Line : (\E e \in S : l = <<e[1]>>) =>
          [Row("NEW") EXCEPT !.ext = (CHOOSE e \in S : l = <<e[1]>>)[2]] \in StatementLine
    BY <2>3, <2>4
  <2>6. lines' \in [Line -> StatementLine]
    BY <1>a, <2>2, <2>5
  <2> QED
    BY <1>b, <2>1, <2>6, EndTypes
<1>2. CASE WriteSuggest(c)
  <2>1. at[c] \in Line /\ read[c] \in Status
    BY <1>2, <1>c, <1>d DEF WriteSuggest, Changing, Restating
  <2>2. [lines[at[c]] EXCEPT !.hint = TRUE, !.status = read[c]] \in StatementLine
    BY <1>a, <2>1 DEF StatementLine
  <2> QED
    BY <1>2, <2>1, <2>2, UpdateTypes DEF WriteSuggest
<1>3. CASE WriteConfirm(c)
  <2>1. at[c] \in Line /\ read[c] \in Money
    BY <1>3, <1>d DEF WriteConfirm, Changing, Restating
  <2>2. [lines[at[c]] EXCEPT !.entity = read[c], !.status = "MATCHED"] \in StatementLine
    BY <1>a, <1>c, <2>1 DEF StatementLine
  <2> QED
    BY <1>3, <2>1, <2>2, UpdateTypes DEF WriteConfirm
<1>4. CASE Posts(c) \/ WriteUnpost(c)
  <2>1. at[c] \in Line /\ read[c] \in Money
    BY <1>4, <1>d DEF Posts, WritePost, WritePostAnew, WriteUnpost, Holding, ToPost
  <2>2. /\ PostedTo(lines[at[c]], read[c]) \in StatementLine
        /\ Unposted(lines[at[c]]) \in StatementLine
    BY <1>a, <2>1, PostedRows
  <2> QED
    BY <1>4, <2>1, <2>2, UpdateTypes DEF Posts, WritePost, WritePostAnew, WriteUnpost
<1>5. CASE WriteIgnore(c)
  <2>1. at[c] \in Line
    BY <1>5, <1>d DEF WriteIgnore, Changing
  <2>2. [lines[at[c]] EXCEPT !.status = "IGNORED"] \in StatementLine
    BY <1>a, <1>c, <2>1 DEF StatementLine
  <2>3. lines' \in [Line -> StatementLine] /\ excused' \subseteq Line
    BY <1>5, <1>b, <2>1, <2>2 DEF WriteIgnore, Ignored
  <2> QED
    BY <1>5, <1>b, <2>3, EndTypes DEF WriteIgnore
<1>6. CASE WriteUnignore(c)
  <2>1. at[c] \in Line /\ read[c] \in Status
    BY <1>6, <1>c, <1>d DEF WriteUnignore, Changing, Restating
  <2>2. [lines[at[c]] EXCEPT !.status = read[c]] \in StatementLine
    BY <1>a, <2>1 DEF StatementLine
  <2> QED
    BY <1>6, <2>1, <2>2, UpdateTypes DEF WriteUnignore
<1>7. CASE WriteSplit(c)
  <2>1. End(c) /\ UNCHANGED <<statements, cash>>
    BY <1>7 DEF WriteSplit
  <2>2. at[c] \in Line
    BY <1>7, <1>d DEF WriteSplit, Changing
  <2>3. Emptied(lines[at[c]], "SPLIT", TRUE) \in StatementLine /\ Row("NEW") \in StatementLine
    <3>1. "SPLIT" \in Status /\ TRUE \in BOOLEAN /\ lines[at[c]] \in StatementLine
      BY <1>a, <2>2 DEF Status
    <3>2. Emptied(lines[at[c]], "SPLIT", TRUE) \in StatementLine
      BY <3>1, EmptiedRows
    <3> QED
      BY <1>c, <3>2 DEF Row, StatementLine
  <2>4. lines' \in [Line -> StatementLine]
    BY <1>7, <1>a, <2>3 DEF WriteSplit
  <2>5. excused' \subseteq Line
    BY <1>7, <1>b, <2>2 DEF WriteSplit
  <2> QED
    BY <1>b, <2>1, <2>4, <2>5, EndTypes
<1>8. CASE WriteUndo(c)
  <2>1. End(c) /\ UNCHANGED <<statements, cash>> /\ excused' \subseteq Line
    BY <1>8, <1>b DEF WriteUndo
  <2> DEFINE l == at[c]
             s == Hinted(lines[l])
  <2>2. l \in Line /\ s \in Status
    BY <1>8, <1>c, <1>d, HintedStatus DEF WriteUndo, Changing
  <2>3. Emptied(lines[l], s, FALSE) \in StatementLine
    BY <1>a, <2>2, EmptiedRows
  <2>4. Absent \in StatementLine
    BY DEF Absent, Row, StatementLine, Status
  <2>5. [lines[l] EXCEPT !.split = FALSE, !.status = s] \in StatementLine
    BY <1>a, <2>2, EmptiedRows
  <2>6. CASE read[c] = "bare"
    <3>1. lines' = [lines EXCEPT ![l].split = FALSE, ![l].status = s]
      BY <1>8, <2>6 DEF WriteUndo
    <3>2. lines' = [lines EXCEPT ![l] = [lines[l] EXCEPT !.split = FALSE, !.status = s]]
      BY <1>b, <2>2, <3>1
    <3> HIDE DEF l, s
    <3>3. lines' \in [Line -> StatementLine]
      BY <1>b, <2>5, <3>2
    <3> QED
      BY <1>b, <2>1, <3>3, EndTypes
  <2>7. CASE read[c] # "bare"
    <3>1. lines' = [x \in Line |-> IF x = l THEN Emptied(lines[l], s, FALSE)
                                   ELSE IF x \in Parts(l) THEN Absent ELSE lines[x]]
      BY <1>8, <2>7 DEF WriteUndo
    <3> HIDE DEF l, s
    <3>2. lines' \in [Line -> StatementLine]
      BY <1>a, <2>3, <2>4, <3>1
    <3> QED
      BY <1>b, <2>1, <3>2, EndTypes
  <2> QED
    BY <2>6, <2>7
<1>9. CASE WriteVoid(c) \/ WritePayout(c)
  <2>1. /\ End(c) /\ cash' = [cash EXCEPT ![at[c]] = "VOIDED"]
        /\ UNCHANGED <<statements, lines, excused>>
    BY <1>9 DEF WriteVoid, WritePayout, Void
  <2>2. cash' \in [Money -> {"POSTED", "VOIDED"}]
    BY <1>b, <2>1
  <2> QED
    BY <1>b, <2>1, <2>2, EndTypes
<1>10. CASE Abort(c)
  BY <1>10, <1>b, EndTypes DEF Abort, rows
<1> QED
  BY <1>1, <1>2, <1>3, <1>4, <1>5, <1>6, <1>7, <1>8, <1>9, <1>10 DEF Writing, Restates

\* What a repost does before it posts
LEMMA TakeBackSteps ==
  ASSUME TypeOK, CallsAreTyped, NEW c \in Client, TakesBack(c)
  PROVE  /\ at[c] \in Line /\ read[c] \in Money /\ pc[c] \in ToPost /\ pc'[c] \in ToPost
         /\ UNCHANGED <<statements, cash, at, read, lap, excused>>
         /\ \A d \in Client \ {c} : pc'[d] = pc[d]
         /\ pc' \in [Client -> {"idle"} \cup Step]
         /\ \/ UNCHANGED lines
            \/ /\ WriteTakeBack(c) /\ pc'[c] # pc[c] /\ pc[c] = "unlink" /\ There(at[c])
               /\ lines' = [lines EXCEPT ![at[c]] = Unposted(lines[at[c]])]
<1>1. pc[c] \in {"repost", "unlink"}
  BY DEF TakesBack, ReadTakeBack, WriteTakeBack
<1>2. at[c] \in Line /\ read[c] \in Money /\ pc[c] \in ToPost
  BY <1>1 DEF CallsAreTyped, Holding, ToPost
<1>3. PICK s \in {"unlink", "reposting"} : Proceed(c, s) /\ s # pc[c]
  BY DEF TakesBack, ReadTakeBack, WriteTakeBack
<1>4. s \in ToPost /\ s \in Step
  BY DEF ToPost, Holding, Step
<1>5. /\ pc'[c] = s /\ UNCHANGED <<at, read, lap, excused>>
      /\ \A d \in Client \ {c} : pc'[d] = pc[d]
      /\ pc' \in [Client -> {"idle"} \cup Step]
  BY <1>3, <1>4, CallTypes DEF Proceed
<1>6. CASE ReadTakeBack(c)
  BY <1>2, <1>4, <1>5, <1>6 DEF ReadTakeBack, rows
<1>7. CASE WriteTakeBack(c)
  BY <1>2, <1>3, <1>4, <1>5, <1>7 DEF WriteTakeBack
<1> QED
  BY <1>6, <1>7 DEF TakesBack

LEMMA TakeBackTypes ==
  ASSUME TypeOK, CallsAreTyped, NEW c \in Client, TakesBack(c)
  PROVE  TypeOK'
<1>1. lines' \in [Line -> StatementLine]
  <2>1. at[c] \in Line /\ lines[at[c]] \in StatementLine /\ lines \in [Line -> StatementLine]
        /\ read[c] \in Money
    BY TakeBackSteps, LineTypes
  <2>2. Unposted(lines[at[c]]) \in StatementLine
    BY <2>1, PostedRows
  <2> QED
    BY <2>1, <2>2, TakeBackSteps
<1>2. pc' \in [Client -> {"idle", "import", "void", "payout"} \cup Changing \cup Holding]
  BY TakeBackSteps DEF Step
<1>3. UNCHANGED <<statements, cash, at, read, lap, excused>>
  BY TakeBackSteps
<1> QED
  BY <1>1, <1>2, <1>3 DEF TypeOK, StatementLine

LEMMA BatchTypes ==
  ASSUME TypeOK, BatchIgnore
  PROVE  TypeOK'
<1>1. PICK S \in SUBSET Line :
        /\ lines' = [l \in Line |-> IF l \in S /\ ~Posted(lines[l])
                                      THEN Ignored(lines[l]) ELSE lines[l]]
        /\ excused' = excused \cup {l \in S : lines[l].split}
  BY DEF BatchIgnore
<1>2. \A l \in Line : Ignored(lines[l]) \in StatementLine
  BY LineTypes DEF StatementLine, Status, Ignored
<1>3. lines' \in [Line -> StatementLine] /\ excused' \subseteq Line
  BY <1>1, <1>2, LineTypes DEF TypeOK
<1> QED
  BY <1>3 DEF BatchIgnore, TypeOK, StatementLine

LEMMA TypeStep ==
  ASSUME TypeOK, CallsAreTyped, [Next]_vars
  PROVE  TypeOK'
<1>1. CASE UNCHANGED vars
  BY <1>1 DEF TypeOK, vars, rows
<1>2. CASE Next
  BY <1>2, Kinds, ReadTypes, WriteTypes, TakeBackTypes, BatchTypes
<1> QED
  BY <1>1, <1>2

----------------------------------------------------------------------------
(* What calls have read *)

LEMMA CallsStep ==
  ASSUME TypeOK, CallsAreTyped, PartsAreWhole, RowsMeanWhatTheySay, [Next]_vars
  PROVE  CallsAreTyped'
<1> DEFINE Suits(s, x, v) ==
             /\ s \in Changing \cup Holding => x \in Line
             /\ s \in {"split", "undo"} => x \in Whole
             /\ s = "import" => x \in File
             /\ s \in {"void", "payout"} => x \in Money
             /\ s \in {"confirm"} \cup Holding => v \in Money
             /\ s \in {"suggest", "unignore"} => v \in {"NEW", "SUGGESTED"}
             /\ s = "undo" /\ v = "bare" => Part = {}
           Reads(c) ==
             \E s, x, v :
               /\ Suits(s, x, v)
               /\ pc' = [pc EXCEPT ![c] = s] /\ at' = [at EXCEPT ![c] = x]
               /\ read' = [read EXCEPT ![c] = v]
           All == \A d \in Client : Suits(pc'[d], at'[d], read'[d])
<1>a. \A c \in Client : Suits(pc[c], at[c], read[c])
  BY DEF CallsAreTyped
<1>b. /\ pc \in [Client -> {"idle"} \cup Step]
      /\ at \in [Client -> {<<>>} \cup Line \cup File \cup Money]
      /\ read \in [Client -> Value]
  BY CallTypes
<1>c. All => CallsAreTyped'
  BY DEF CallsAreTyped
<1>d. Whole \subseteq Line
  BY DEF Line
<1>1. ASSUME NEW c \in Client, Reads(c)
      PROVE  All
  <2>1. PICK s, x, v : /\ Suits(s, x, v)
                       /\ pc' = [pc EXCEPT ![c] = s] /\ at' = [at EXCEPT ![c] = x]
                       /\ read' = [read EXCEPT ![c] = v]
    BY <1>1
  <2> HIDE DEF Suits
  <2>2. pc'[c] = s /\ at'[c] = x /\ read'[c] = v
    BY <1>b, <2>1
  <2>3. \A d \in Client \ {c} : pc'[d] = pc[d] /\ at'[d] = at[d] /\ read'[d] = read[d]
    BY <1>b, <2>1
  <2> QED
    BY <1>a, <2>1, <2>2, <2>3
<1>2. ASSUME NEW c \in Client, End(c)
      PROVE  All
  <2>1. Suits("idle", <<>>, "none")
    BY DEF Changing, Restating, Holding, ToPost
  <2>2. Reads(c)
    BY <1>2, <2>1 DEF End
  <2> QED
    BY <1>1, <2>2
<1>3. ASSUME UNCHANGED <<pc, at, read>>
      PROVE  All
  BY <1>a, <1>3
<1>4. ASSUME NEW c \in Client, TakesBack(c)
      PROVE  All
  <2>1. /\ at[c] \in Line /\ read[c] \in Money /\ pc'[c] \in ToPost
        /\ at' = at /\ read' = read /\ \A d \in Client \ {c} : pc'[d] = pc[d]
    BY <1>4, TakeBackSteps
  <2>2. Suits(pc'[c], at[c], read[c])
    BY <2>1 DEF Holding, ToPost
  <2> HIDE DEF Suits
  <2> QED
    BY <1>a, <2>1, <2>2
<1>5. ASSUME NEW c \in Client, ReadImport(c)
      PROVE  Reads(c)
  <2>1. PICK f \in File : Begin(c, "import", f, "none", {}, {})
    BY <1>5 DEF ReadImport
  <2>2. Suits("import", f, "none")
    BY DEF Changing, Restating, Holding, ToPost
  <2> QED
    BY <2>1, <2>2 DEF Begin
<1>6. ASSUME NEW c \in Client, ReadSuggest(c)
      PROVE  Reads(c)
  <2>1. PICK l \in Line, s \in {"NEW", "SUGGESTED"} : Begin(c, "suggest", l, s, Holding, {l})
    BY <1>6 DEF ReadSuggest
  <2>2. Suits("suggest", l, s)
    BY DEF Holding, ToPost
  <2> QED
    BY <2>1, <2>2 DEF Begin
<1>7. ASSUME NEW c \in Client, ReadConfirm(c)
      PROVE  Reads(c)
  <2>1. PICK l \in Line, m \in Money : Begin(c, "confirm", l, m, Holding, {l})
    BY <1>7 DEF ReadConfirm
  <2>2. Suits("confirm", l, m)
    OBVIOUS
  <2> QED
    BY <2>1, <2>2 DEF Begin
<1>8. ASSUME NEW c \in Client, ReadPost(c)
      PROVE  Reads(c)
  <2>1. PICK l \in Line :
          /\ lines[l].entity # NoMoney
          /\ Begin(c, "post", l, lines[l].entity,
                   Changing \cup {"void", "payout"}, Family(l) \cup {lines[l].entity})
    BY <1>8 DEF ReadPost
  <2>2. lines[l].entity \in Money
    BY <2>1, LineTypes DEF StatementLine
  <2>3. Suits("post", l, lines[l].entity)
    BY <2>2
  <2> QED
    BY <2>1, <2>3 DEF Begin
<1>9. ASSUME NEW c \in Client, ReadUnpost(c) \/ ReadPostAnew(c)
      PROVE  Reads(c)
  <2>1. PICK l \in Line, s \in {"unpost", "repost"} :
          lines[l].money # NoMoney /\ Begin(c, s, l, lines[l].money, {}, {})
    BY <1>9 DEF ReadUnpost, ReadPostAnew
  <2>2. lines[l].money \in Money
    BY <2>1, LineTypes DEF StatementLine
  <2>3. Suits(s, l, lines[l].money)
    BY <2>2
  <2> QED
    BY <2>1, <2>3 DEF Begin
<1>10. ASSUME NEW c \in Client, ReadIgnore(c)
       PROVE  Reads(c)
  <2>1. PICK l \in Line : Begin(c, "ignore", l, "none", Holding, {l})
    BY <1>10 DEF ReadIgnore
  <2>2. Suits("ignore", l, "none")
    BY DEF Holding, ToPost
  <2> QED
    BY <2>1, <2>2 DEF Begin
<1>11. ASSUME NEW c \in Client, ReadUnignore(c)
       PROVE  Reads(c)
  <2>1. PICK l \in Line : Begin(c, "unignore", l, Hinted(lines[l]), Holding, {l})
    BY <1>11 DEF ReadUnignore
  <2>2. Suits("unignore", l, Hinted(lines[l]))
    BY HintedStatus DEF Holding, ToPost
  <2> QED
    BY <2>1, <2>2 DEF Begin
<1>12. ASSUME NEW c \in Client, ReadSplit(c)
       PROVE  Reads(c)
  <2>1. PICK l \in Whole : Begin(c, "split", l, "none", Holding, {l})
    BY <1>12 DEF ReadSplit
  <2>2. Suits("split", l, "none")
    BY <1>d DEF Holding, ToPost
  <2> QED
    BY <2>1, <2>2 DEF Begin
<1>13. ASSUME NEW c \in Client, ReadUndo(c)
       PROVE  Reads(c)
  <2> DEFINE v(l) == IF HasParts(l) THEN "parts" ELSE "bare"
  <2>1. PICK l \in Whole : /\ ~NotSplit(lines[l])
                           /\ Begin(c, "undo", l, v(l), Holding, Family(l))
    BY <1>13 DEF ReadUndo
  <2>2. lines[l].split
    BY <1>d, <2>1 DEF NotSplit, RowsMeanWhatTheySay
  <2>3. ~HasParts(l) => Part = {}
    <3> SUFFICES ASSUME NEW p \in Part
                 PROVE  HasParts(l)
      OBVIOUS
    <3>1. <<l[1], p>> \in Parts(l)
      BY DEF Parts
    <3> QED
      BY <2>2, <3>1 DEF PartsAreWhole, HasParts
  <2>4. Suits("undo", l, v(l))
    BY <1>d, <2>3 DEF Holding, ToPost
  <2> QED
    BY <2>1, <2>4 DEF Begin
<1>14. ASSUME NEW c \in Client, ReadVoid(c) \/ ReadPayout(c)
       PROVE  Reads(c)
  <2>1. PICK m \in Money, v \in {"none"} \cup Line, s \in {"void", "payout"} :
          Begin(c, s, m, v, ToPost, Awaiting(m))
    BY <1>14 DEF ReadVoid, ReadPayout
  <2>2. Suits(s, m, v)
    BY DEF Changing, Restating, Holding, ToPost
  <2> QED
    BY <2>1, <2>2 DEF Begin
<1> HIDE DEF Suits, Reads, All
<1> SUFFICES All
  BY <1>c
<1>15. CASE UNCHANGED vars \/ BatchIgnore
  BY <1>3, <1>15 DEF vars, BatchIgnore
<1>16. CASE Next /\ ~BatchIgnore
  <2>1. PICK c \in Client : Reading(c) \/ Writing(c) \/ TakesBack(c)
    BY <1>16, Kinds
  <2>2. CASE Reading(c)
    BY <1>1, <1>5, <1>6, <1>7, <1>8, <1>9, <1>10, <1>11, <1>12, <1>13, <1>14, <2>2
       DEF Reading
  <2>3. CASE Writing(c)
    BY <1>2, <2>3, WritesEnd
  <2>4. CASE TakesBack(c)
    BY <1>4, <2>4
  <2> QED
    BY <2>1, <2>2, <2>3, <2>4
<1> QED
  BY <1>15, <1>16

----------------------------------------------------------------------------
(* Lines, their parts and their files *)

\* A step after which the same lines are there, with the same ids, and the same
\* ones split, keeps parts and files whole.
LEMMA SameShape ==
  ASSUME TypeOK, PartsAreWhole, ImportedWhole, UNCHANGED statements,
         \A l \in Line : /\ lines'[l].status # "NONE" <=> There(l)
                         /\ lines'[l].split = lines[l].split
                         /\ lines'[l].ext = lines[l].ext
  PROVE  PartsAreWhole' /\ ImportedWhole'
<1>0. Whole \subseteq Line
  BY DEF Line
<1>1. PartsAreWhole'
  <2> SUFFICES ASSUME NEW w \in Whole, NEW x \in Parts(w)
               PROVE  lines'[w].split <=> lines'[x].status # "NONE"
    BY DEF PartsAreWhole, There
  <2>1. w \in Line /\ x \in Line
    BY Families DEF Line
  <2> QED
    BY <2>1 DEF PartsAreWhole
<1>2. ImportedWhole'
  <2> SUFFICES ASSUME NEW f \in statements, NEW e \in Content[f]
               PROVE  There(<<e[1]>>)' \/ Held(e)'
    BY DEF ImportedWhole
  <2>1. <<e[1]>> \in Line
    BY <1>0, ContentAssumption DEF TypeOK, Whole
  <2>2. CASE There(<<e[1]>>)
    BY <2>1, <2>2 DEF There
  <2>3. CASE Held(e)
    BY <1>0, <2>3 DEF Held
  <2> QED
    BY <2>2, <2>3 DEF ImportedWhole
<1> QED
  BY <1>1, <1>2

\* What a step leaves of a line means what it says if the line is as before, or is
\* written as one that is there, and as split only if it was, or is of a file.
LEMMA MeaningKept ==
  ASSUME RowsMeanWhatTheySay,
         \A l \in Line :
           \/ lines'[l] = lines[l]
           \/ /\ lines'[l].status \in {"NEW", "SUGGESTED", "MATCHED", "IGNORED", "POSTED"}
              /\ lines'[l].split => lines[l].split
           \/ l \in Whole /\ lines'[l].status = "SPLIT" /\ lines'[l].split
           \/ lines'[l] = Absent
  PROVE  RowsMeanWhatTheySay'
<1> SUFFICES ASSUME NEW l \in Line
             PROVE  /\ lines'[l].status = "NONE" => lines'[l] = Absent
                    /\ lines'[l].status = "SPLIT" => lines'[l].split
                    /\ l \notin Whole => ~lines'[l].split
  BY DEF RowsMeanWhatTheySay, There, Absent, Row
<1>1. CASE lines'[l] = lines[l]
  BY <1>1 DEF RowsMeanWhatTheySay, There
<1>2. CASE lines'[l] = Absent
  BY <1>2 DEF Absent, Row
<1>3. CASE /\ lines'[l].status \in {"NEW", "SUGGESTED", "MATCHED", "IGNORED", "POSTED"}
           /\ lines'[l].split => lines[l].split
  BY <1>3 DEF RowsMeanWhatTheySay
<1> QED
  BY <1>1, <1>2, <1>3

\* What each write leaves of the lines
LEMMA Updated ==
  ASSUME TypeOK, NEW c \in Client, at[c] \in Line, NEW row, Update(c, row)
  PROVE  lines'[at[c]] = row /\ (\A l \in Line \ {at[c]} : lines'[l] = lines[l])
         /\ There(at[c]) /\ UNCHANGED <<statements, cash, excused>>
  BY LineTypes DEF Update

LEMMA SplitWritten ==
  ASSUME TypeOK, CallsAreTyped, NEW c \in Client, WriteSplit(c)
  PROVE  /\ at[c] \in Whole /\ ~HasParts(at[c])
         /\ LET r == lines'[at[c]]
            IN  /\ r.status = "SPLIT" /\ r.split /\ r.money = NoMoney /\ r.entity = NoMoney
                /\ r.ext = lines[at[c]].ext
         /\ \A x \in Parts(at[c]) : lines'[x] = Row("NEW")
         /\ \A l \in Line \ Family(at[c]) : lines'[l] = lines[l]
<1> DEFINE w == at[c]
<1>1. w \in Whole /\ ~HasParts(w)
  BY DEF WriteSplit, CallsAreTyped
<1>2. lines' = [x \in Line |->
                  IF x = w THEN Emptied(lines[w], "SPLIT", TRUE)
                  ELSE IF x \in Parts(w) THEN Row("NEW") ELSE lines[x]]
  BY DEF WriteSplit
<1> HIDE DEF w
<1>3. w \in Line /\ Parts(w) \subseteq Line /\ w \notin Parts(w) /\ lines[w] \in StatementLine
  BY <1>1, Families, LineTypes DEF Line
<1>4. Family(w) = {w} \cup Parts(w)
  BY <1>1 DEF Family
<1>5. lines'[w] = Emptied(lines[w], "SPLIT", TRUE)
  BY <1>2, <1>3
<1>6. \A x \in Parts(w) : lines'[x] = Row("NEW")
  BY <1>2, <1>3
<1>7. \A l \in Line \ Family(w) : lines'[l] = lines[l]
  BY <1>2, <1>4
<1> QED
  BY <1>1, <1>3, <1>5, <1>6, <1>7 DEF w, Emptied, StatementLine

\* The undoing of a split that has parts, and of one that can have none
LEMMA UndoWritten ==
  ASSUME TypeOK, CallsAreTyped, NEW c \in Client, WriteUndo(c)
  PROVE  /\ at[c] \in Whole
         /\ LET r == lines'[at[c]]
            IN  /\ r.status \in {"NEW", "SUGGESTED"} /\ ~r.split
                /\ r.ext = lines[at[c]].ext
                /\ \/ Part = {} /\ r.money = lines[at[c]].money
                   \/ r.money = NoMoney
         /\ \A x \in Parts(at[c]) : lines'[x] = Absent
         /\ \A l \in Line \ Family(at[c]) : lines'[l] = lines[l]
<1> DEFINE w == at[c]
           s == Hinted(lines[w])
<1>1. w \in Whole
  BY DEF WriteUndo, CallsAreTyped
<1>2. s \in {"NEW", "SUGGESTED"}
  BY HintedStatus
<1>3. w \in Line /\ Parts(w) \subseteq Line /\ w \notin Parts(w) /\ lines[w] \in StatementLine
      /\ lines \in [Line -> StatementLine]
  BY <1>1, Families, LineTypes DEF Line
<1>4. Family(w) = {w} \cup Parts(w)
  BY <1>1 DEF Family
<1>5. CASE read[c] = "bare"
  <2>1. Part = {} /\ lines' = [lines EXCEPT ![w].split = FALSE, ![w].status = s]
    BY <1>5 DEF WriteUndo, CallsAreTyped
  <2> HIDE DEF w, s
  <2>2. lines' = [lines EXCEPT ![w] = [lines[w] EXCEPT !.split = FALSE, !.status = s]]
    BY <1>3, <2>1
  <2>3. lines'[w] = [lines[w] EXCEPT !.split = FALSE, !.status = s]
    BY <1>3, <2>2
  <2>4. lines'[w].status = s /\ lines'[w].split = FALSE /\ lines'[w].money = lines[w].money
        /\ lines'[w].ext = lines[w].ext
    BY <1>3, <2>3 DEF StatementLine
  <2>5. Parts(w) = {}
    BY <2>1 DEF Parts
  <2>6. \A l \in Line \ {w} : lines'[l] = lines[l]
    BY <1>3, <2>2
  <2> QED
    BY <1>1, <1>2, <1>4, <2>1, <2>4, <2>5, <2>6 DEF w
<1>6. CASE read[c] # "bare"
  <2>1. lines' = [x \in Line |-> IF x = w THEN Emptied(lines[w], s, FALSE)
                                 ELSE IF x \in Parts(w) THEN Absent ELSE lines[x]]
    BY <1>6 DEF WriteUndo
  <2> HIDE DEF w, s
  <2>2. lines'[w] = Emptied(lines[w], s, FALSE)
    BY <1>3, <2>1
  <2>3. lines'[w].status = s /\ lines'[w].split = FALSE /\ lines'[w].money = NoMoney
        /\ lines'[w].ext = lines[w].ext
    BY <1>3, <2>2 DEF StatementLine, Emptied
  <2>4. \A x \in Parts(w) : lines'[x] = Absent
    BY <1>3, <2>1
  <2>5. \A l \in Line \ Family(w) : lines'[l] = lines[l]
    BY <1>4, <2>1
  <2> QED
    BY <1>1, <1>2, <2>3, <2>4, <2>5 DEF w
<1> QED
  BY <1>5, <1>6

\* Suggesting, confirming, ignoring and its undoing write one line, and leave its
\* cash, its mark and its id as they are.
LEMMA LineWritten ==
  ASSUME TypeOK, CallsAreTyped, NEW c \in Client, Restates(c)
  PROVE  /\ at[c] \in Line /\ There(at[c]) /\ UNCHANGED <<statements, cash>>
         /\ pc[c] \in Restating \cup {"ignore"}
         /\ LET r == lines'[at[c]]
            IN  /\ \/ r.status \in {"NEW", "SUGGESTED", "IGNORED"}
                   \/ r.status = "MATCHED" /\ r.entity # NoMoney
                /\ r.money = lines[at[c]].money /\ r.split = lines[at[c]].split
                /\ r.ext = lines[at[c]].ext
         /\ \A l \in Line \ {at[c]} : lines'[l] = lines[l]
         /\ IF pc[c] = "ignore" THEN excused' = excused \cup {l \in {at[c]} : lines[l].split}
            ELSE UNCHANGED excused
<1>1. /\ pc[c] \in Restating \cup {"ignore"}
      /\ pc[c] = "ignore" <=> WriteIgnore(c)
  BY DEF Restates, WriteSuggest, WriteConfirm, WriteIgnore, WriteUnignore, Restating
<1>2. at[c] \in Line
  BY <1>1 DEF CallsAreTyped, Changing
<1>3. lines[at[c]] \in StatementLine
  BY <1>2, LineTypes
<1>4. CASE WriteSuggest(c)
  <2>1. read[c] \in {"NEW", "SUGGESTED"} /\ pc[c] # "ignore"
    BY <1>4 DEF WriteSuggest, CallsAreTyped
  <2> DEFINE row == [lines[at[c]] EXCEPT !.hint = TRUE, !.status = read[c]]
  <2>2. Update(c, row)
    BY <1>4 DEF WriteSuggest
  <2>3. /\ row.status \in {"NEW", "SUGGESTED"} /\ row.ext = lines[at[c]].ext
        /\ row.money = lines[at[c]].money /\ row.split = lines[at[c]].split
    BY <1>3, <2>1 DEF StatementLine
  <2> HIDE DEF row
  <2> QED
    BY <1>1, <1>2, <2>1, <2>2, <2>3, Updated
<1>5. CASE WriteConfirm(c)
  <2>1. read[c] \in Money /\ pc[c] # "ignore"
    BY <1>5 DEF WriteConfirm, CallsAreTyped
  <2> DEFINE row == [lines[at[c]] EXCEPT !.entity = read[c], !.status = "MATCHED"]
  <2>2. Update(c, row)
    BY <1>5 DEF WriteConfirm
  <2>3. /\ row.status = "MATCHED" /\ row.entity # NoMoney /\ row.ext = lines[at[c]].ext
        /\ row.money = lines[at[c]].money /\ row.split = lines[at[c]].split
    BY <1>3, <2>1, MoneyAssumption DEF StatementLine
  <2> HIDE DEF row
  <2> QED
    BY <1>1, <1>2, <2>1, <2>2, <2>3, Updated
<1>6. CASE WriteIgnore(c)
  <2> DEFINE row == Ignored(lines[at[c]])
  <2>1. /\ lines' = [lines EXCEPT ![at[c]] = row] /\ There(at[c])
        /\ UNCHANGED <<statements, cash>>
        /\ excused' = excused \cup {l \in {at[c]} : lines[l].split}
    BY <1>6 DEF WriteIgnore
  <2>2. /\ row.status = "IGNORED" /\ row.ext = lines[at[c]].ext
        /\ row.money = lines[at[c]].money /\ row.split = lines[at[c]].split
    BY <1>3 DEF StatementLine, Ignored
  <2> HIDE DEF row
  <2>3. lines'[at[c]] = row /\ \A l \in Line \ {at[c]} : lines'[l] = lines[l]
    BY <1>2, <2>1, LineTypes
  <2> QED
    BY <1>1, <1>2, <1>6, <2>1, <2>2, <2>3
<1>7. CASE WriteUnignore(c)
  <2>1. read[c] \in {"NEW", "SUGGESTED"} /\ pc[c] # "ignore"
    BY <1>7 DEF WriteUnignore, CallsAreTyped
  <2> DEFINE row == [lines[at[c]] EXCEPT !.status = read[c]]
  <2>2. Update(c, row)
    BY <1>7 DEF WriteUnignore
  <2>3. /\ row.status \in {"NEW", "SUGGESTED"} /\ row.ext = lines[at[c]].ext
        /\ row.money = lines[at[c]].money /\ row.split = lines[at[c]].split
    BY <1>3, <2>1 DEF StatementLine
  <2> HIDE DEF row
  <2> QED
    BY <1>1, <1>2, <2>1, <2>2, <2>3, Updated
<1> QED
  BY <1>4, <1>5, <1>6, <1>7 DEF Restates

\* Posting a line writes its status and its cash, and so does taking that back.
LEMMA HeldWritten ==
  ASSUME TypeOK, CallsAreTyped, NEW c \in Client,
         Posts(c) \/ WriteUnpost(c) \/ WriteTakeBack(c)
  PROVE  /\ pc[c] \in Holding /\ at[c] \in Line /\ There(at[c])
         /\ UNCHANGED <<statements, cash, excused>>
         /\ read[c] \in Money
         /\ LET r == lines'[at[c]]
            IN  /\ IF Posts(c) THEN r.status = "POSTED" /\ r.money = read[c] /\ pc[c] \in ToPost
                   ELSE r = Unposted(lines[at[c]]) /\ r.status = "MATCHED" /\ r.money = NoMoney
                /\ r.entity = lines[at[c]].entity /\ r.split = lines[at[c]].split
                /\ r.ext = lines[at[c]].ext
         /\ \A l \in Line \ {at[c]} : lines'[l] = lines[l]
<1>1. /\ pc[c] \in Holding /\ (Posts(c) => pc[c] \in ToPost)
      /\ Posts(c) <=> pc[c] \in {"post", "reposting"}
  BY DEF Posts, WritePost, WritePostAnew, WriteUnpost, WriteTakeBack, Holding, ToPost
<1>2. at[c] \in Line /\ read[c] \in Money
  BY <1>1 DEF CallsAreTyped
<1>3. lines[at[c]] \in StatementLine
  BY <1>2, LineTypes
<1>4. CASE Posts(c)
  <2> DEFINE row == PostedTo(lines[at[c]], read[c])
  <2>1. Update(c, row)
    BY <1>4 DEF Posts, WritePost, WritePostAnew
  <2>2. /\ row.status = "POSTED" /\ row.money = read[c] /\ row.ext = lines[at[c]].ext
        /\ row.entity = lines[at[c]].entity /\ row.split = lines[at[c]].split
    BY <1>3 DEF PostedTo, StatementLine
  <2> HIDE DEF row
  <2> QED
    BY <1>1, <1>2, <1>4, <2>1, <2>2, Updated
<1>5. CASE ~Posts(c)
  <2> DEFINE row == Unposted(lines[at[c]])
  <2>1. /\ There(at[c]) /\ lines' = [lines EXCEPT ![at[c]] = row]
        /\ UNCHANGED <<statements, cash, excused>>
    BY <1>5 DEF WriteUnpost, Update, WriteTakeBack, Proceed
  <2>2. /\ row.status = "MATCHED" /\ row.money = NoMoney /\ row.ext = lines[at[c]].ext
        /\ row.entity = lines[at[c]].entity /\ row.split = lines[at[c]].split
    BY <1>3 DEF Unposted, StatementLine
  <2>3. row = Unposted(lines[at[c]])
    OBVIOUS
  <2> HIDE DEF row
  <2>4. lines'[at[c]] = row /\ \A l \in Line \ {at[c]} : lines'[l] = lines[l]
    BY <1>2, <2>1, LineTypes
  <2> QED
    BY <1>1, <1>2, <1>5, <2>1, <2>2, <2>3, <2>4
<1> QED
  BY <1>4, <1>5

\* What is imported of a file: of its lines that are not there and whose id no line
\* has, a set from which nothing is left out but for one that is in it.
LEMMA ImportWritten ==
  ASSUME TypeOK, CallsAreTyped, NEW c \in Client, WriteImport(c)
  PROVE  /\ at[c] \in File /\ statements' = statements \cup {at[c]}
         /\ UNCHANGED <<cash, excused>>
         /\ \A l \in Line :
              \/ lines'[l] = lines[l]
              \/ /\ l \in Whole /\ ~There(l)
                 /\ lines'[l].status = "NEW" /\ lines'[l].money = NoMoney
                 /\ lines'[l].split = FALSE
         /\ \E S \in SUBSET Content[at[c]] :
              /\ Imported(at[c], S)
              /\ \A e \in S : /\ <<e[1]>> \in Whole /\ lines'[<<e[1]>>].status = "NEW"
                              /\ lines'[<<e[1]>>].ext = e[2]
<1> DEFINE f == at[c]
<1>1. f \in File /\ statements' = statements \cup {f} /\ UNCHANGED <<cash, excused>>
  BY DEF WriteImport, CallsAreTyped
<1>2. PICK S \in SUBSET Content[f] :
        /\ Imported(f, S)
        /\ lines' = [l \in Line |->
                      IF \E e \in S : l = <<e[1]>>
                        THEN [Row("NEW") EXCEPT !.ext = (CHOOSE e \in S : l = <<e[1]>>)[2]]
                        ELSE lines[l]]
  BY DEF WriteImport
<1> HIDE DEF f
<1>3. \A l \in Line : lines'[l] = lines[l] \/ \E e \in S : l = <<e[1]>>
  BY <1>2
<1>4. ASSUME NEW e \in S
      PROVE  /\ <<e[1]>> \in Whole /\ ~There(<<e[1]>>)
             /\ LET r == lines'[<<e[1]>>]
                IN  r.status = "NEW" /\ r.money = NoMoney /\ r.split = FALSE /\ r.ext = e[2]
  <2> DEFINE l == <<e[1]>>
             g == CHOOSE h \in S : l = <<h[1]>>
  <2>1. l \in Whole /\ l \in Line
    BY <1>1, <1>4, ContentAssumption DEF Whole, Line
  <2>2. ~There(l)
    BY <1>2, <1>4 DEF Imported
  <2>3. g \in S /\ l = <<g[1]>>
    BY <1>4
  <2>4. e = g
    <3>1. e[1] = g[1]
      BY <2>3
    <3>2. ~Clash(e, g)
      BY <1>2, <1>4, <2>3 DEF Imported
    <3> QED
      BY <3>1, <3>2 DEF Clash
  <2>5. lines'[l] = [Row("NEW") EXCEPT !.ext = g[2]]
    BY <1>2, <1>4, <2>1
  <2> HIDE DEF g
  <2>6. lines'[l] = [Row("NEW") EXCEPT !.ext = e[2]]
    BY <2>4, <2>5
  <2> QED
    BY <2>1, <2>2, <2>6 DEF Row
<1>5. \A l \in Line :
        \/ lines'[l] = lines[l]
        \/ /\ l \in Whole /\ ~There(l)
           /\ lines'[l].status = "NEW" /\ lines'[l].money = NoMoney
           /\ lines'[l].split = FALSE
  BY <1>3, <1>4
<1>6. \A e \in S : /\ <<e[1]>> \in Whole /\ lines'[<<e[1]>>].status = "NEW"
                   /\ lines'[<<e[1]>>].ext = e[2]
  BY <1>4
<1> QED
  BY <1>1, <1>2, <1>5, <1>6 DEF f

LEMMA BatchWritten ==
  ASSUME TypeOK, BatchIgnore
  PROVE  /\ UNCHANGED <<statements, cash, pc, at, read, lap>> /\ excused \subseteq excused'
         /\ \A l \in Line :
              \/ lines'[l] = lines[l]
              \/ /\ There(l) /\ ~Posted(lines[l]) /\ lines'[l].status = "IGNORED"
                 /\ lines'[l].money = lines[l].money /\ lines'[l].entity = lines[l].entity
                 /\ lines'[l].split = lines[l].split /\ lines'[l].ext = lines[l].ext
                 /\ lines[l].split => l \in excused'
<1>1. PICK S \in SUBSET Line :
        /\ \A l \in S : There(l)
        /\ lines' = [l \in Line |-> IF l \in S /\ ~Posted(lines[l])
                                      THEN Ignored(lines[l]) ELSE lines[l]]
        /\ excused' = excused \cup {l \in S : lines[l].split}
        /\ UNCHANGED <<statements, cash, pc, at, read, lap>>
  BY DEF BatchIgnore
<1> SUFFICES ASSUME NEW l \in Line, lines'[l] # lines[l]
             PROVE  /\ There(l) /\ ~Posted(lines[l]) /\ lines'[l].status = "IGNORED"
                    /\ lines'[l].money = lines[l].money /\ lines'[l].entity = lines[l].entity
                    /\ lines'[l].split = lines[l].split /\ lines'[l].ext = lines[l].ext
                    /\ lines[l].split => l \in excused'
  BY <1>1
<1>2. l \in S /\ ~Posted(lines[l]) /\ lines'[l] = [lines[l] EXCEPT !.status = "IGNORED"]
  BY <1>1 DEF Ignored
<1> QED
  BY <1>1, <1>2, LineTypes DEF StatementLine

\* A file that is imported is whole: of each of its lines the content is there, or
\* else its id is held.
LEMMA WholeImport ==
  ASSUME TypeOK, CallsAreTyped, RowsMeanWhatTheySay, ImportedWhole,
         NEW c \in Client, WriteImport(c)
  PROVE  ImportedWhole'
<1>0. Whole \subseteq Line
  BY DEF Line
<1>1. at[c] \in File /\ statements' = statements \cup {at[c]}
  BY ImportWritten
<1>2. PICK S \in SUBSET Content[at[c]] :
        /\ Imported(at[c], S)
        /\ \A e \in S : /\ <<e[1]>> \in Whole /\ lines'[<<e[1]>>].status = "NEW"
                        /\ lines'[<<e[1]>>].ext = e[2]
  BY ImportWritten
\* Lines that are there stay, and so do the ids they have.
<1>4. \A l \in Line : There(l) => lines'[l] = lines[l]
  BY ImportWritten
<1>5. \A l \in Line : lines[l].ext # NoId => lines'[l] = lines[l]
  BY <1>4 DEF RowsMeanWhatTheySay, Absent, Row
<1>6. \A e : Held(e) => Held(e)'
  <2> SUFFICES ASSUME NEW e, Held(e)
               PROVE  Held(e)'
    OBVIOUS
  <2>1. PICK l \in Whole : e[2] # NoId /\ lines[l].ext = e[2]
    BY DEF Held
  <2>2. lines'[l].ext = e[2]
    BY <1>0, <1>5, <2>1
  <2> QED
    BY <2>1, <2>2 DEF Held
<1>7. \A e \in S : There(<<e[1]>>)' /\ (e[2] # NoId => Held(e)')
  <2> SUFFICES ASSUME NEW e \in S
               PROVE  There(<<e[1]>>)' /\ (e[2] # NoId => Held(e)')
    OBVIOUS
  <2>1. <<e[1]>> \in Whole /\ lines'[<<e[1]>>].status = "NEW" /\ lines'[<<e[1]>>].ext = e[2]
    BY <1>2
  <2> QED
    BY <2>1 DEF There, Held
<1> SUFFICES ASSUME NEW f \in statements', NEW e \in Content[f]
             PROVE  There(<<e[1]>>)' \/ Held(e)'
  BY DEF ImportedWhole
<1>8. <<e[1]>> \in Line
  BY <1>0, <1>1, ContentAssumption DEF TypeOK, Whole
<1>9. There(<<e[1]>>) \/ Held(e) => There(<<e[1]>>)' \/ Held(e)'
  BY <1>4, <1>6, <1>8 DEF There
<1>10. CASE f \in statements
  BY <1>9, <1>10 DEF ImportedWhole
<1>11. CASE f = at[c] /\ ~There(<<e[1]>>) /\ ~Held(e) /\ e \notin S
  <2>1. PICK g \in S : Clash(e, g)
    BY <1>2, <1>11 DEF Imported
  <2>2. CASE e[1] = g[1]
    BY <1>7, <2>2
  <2>3. CASE e[2] = g[2] /\ e[2] # NoId
    BY <1>7, <2>3 DEF Held
  <2> QED
    BY <2>1, <2>2, <2>3 DEF Clash
<1>12. CASE e \in S
  BY <1>7, <1>12
<1> QED
  BY <1>1, <1>9, <1>10, <1>11, <1>12

LEMMA RowsStep ==
  ASSUME TypeOK, CallsAreTyped, PartsAreWhole, ImportedWhole, RowsMeanWhatTheySay,
         [Next]_vars
  PROVE  PartsAreWhole' /\ ImportedWhole' /\ RowsMeanWhatTheySay'
<1> DEFINE Goal == PartsAreWhole' /\ ImportedWhole' /\ RowsMeanWhatTheySay'
<1>0. Whole \subseteq Line
  BY DEF Line
<1>1. ASSUME UNCHANGED <<statements, lines>>
      PROVE  Goal
  BY <1>1, SameShape, MeaningKept DEF There
<1>2. CASE BatchIgnore
  BY <1>2, BatchWritten, SameShape, MeaningKept DEF There
<1>3. ASSUME NEW c \in Client, Restates(c)
      PROVE  Goal
  BY <1>3, LineWritten, SameShape, MeaningKept DEF There
<1>4. ASSUME NEW c \in Client, Posts(c) \/ WriteUnpost(c) \/ WriteTakeBack(c)
      PROVE  Goal
  BY <1>4, HeldWritten, SameShape, MeaningKept DEF There
<1>5. ASSUME NEW c \in Client, WriteImport(c)
      PROVE  Goal
  <2>1. \A l \in Line : \/ lines'[l] = lines[l]
                        \/ /\ ~There(l) /\ l \in Whole
                           /\ lines'[l].status = "NEW" /\ lines'[l].split = FALSE
    BY <1>5, ImportWritten
  <2>2. RowsMeanWhatTheySay'
    BY <2>1, MeaningKept
  <2>3. PartsAreWhole'
    <3> SUFFICES ASSUME NEW w \in Whole, NEW x \in Parts(w)
                 PROVE  lines'[w].split <=> lines'[x].status # "NONE"
      BY DEF PartsAreWhole, There
    <3>1. w \in Line /\ x \in Line /\ x \notin Whole
      BY Families DEF Line
    <3>2. lines'[x] = lines[x]
      BY <2>1, <3>1
    <3>3. ~There(w) => ~lines[w].split
      BY <3>1 DEF RowsMeanWhatTheySay, Absent, Row
    <3>4. lines'[w].split = lines[w].split
      <4>1. lines[w].split \in BOOLEAN
        BY <3>1, LineTypes DEF StatementLine
      <4> QED
        BY <2>1, <3>1, <3>3, <4>1
    <3> QED
      BY <3>2, <3>4 DEF PartsAreWhole, There
  <2> QED
    BY <1>5, <2>2, <2>3, WholeImport
<1>6. ASSUME NEW c \in Client, WriteSplit(c) \/ WriteUndo(c)
      PROVE  Goal
  <2> DEFINE w == at[c]
  <2>1. w \in Whole /\ w \in Line /\ lines'[w].status # "NONE" /\ UNCHANGED statements
        /\ lines'[w].ext = lines[w].ext
    BY <1>6, SplitWritten, UndoWritten DEF WriteSplit, WriteUndo, Line
  <2>2. \A x \in Parts(w) : lines'[w].split <=> lines'[x].status # "NONE"
    BY <1>6, SplitWritten, UndoWritten DEF Absent, Row
  <2>3. \A l \in Line : \/ lines'[l] = lines[l]
                        \/ l = w \/ l \in Parts(w)
    BY <1>6, <2>1, SplitWritten, UndoWritten, Families
  <2>4. RowsMeanWhatTheySay'
    BY <1>6, <2>3, SplitWritten, UndoWritten, MeaningKept DEF Row
  <2> HIDE DEF w
  <2>5. PartsAreWhole'
    <3> SUFFICES ASSUME NEW v \in Whole, NEW x \in Parts(v)
                 PROVE  lines'[v].split <=> lines'[x].status # "NONE"
      BY DEF PartsAreWhole, There
    <3>1. v \in Line /\ x \in Line /\ x \notin Whole
      BY Families DEF Line
    <3>2. CASE v = w
      BY <2>2, <3>2
    <3>3. CASE v # w
      <4>1. v \notin Parts(w) /\ x \notin Parts(w)
        BY <2>1, <3>1, <3>3, Families
      <4>2. lines'[v] = lines[v] /\ lines'[x] = lines[x]
        BY <2>1, <2>3, <3>1, <3>3, <4>1
      <4> QED
        BY <4>2 DEF PartsAreWhole, There
    <3> QED
      BY <3>2, <3>3
  <2>6. ImportedWhole'
    <3> SUFFICES ASSUME NEW f \in statements, NEW e \in Content[f]
                 PROVE  There(<<e[1]>>)' \/ Held(e)'
      BY <2>1 DEF ImportedWhole
    <3>1. <<e[1]>> \in Whole
      BY ContentAssumption DEF Whole, TypeOK
    <3>2. \A l \in Whole : There(l) => There(l)'
      BY <1>0, <2>1, <2>3, Families DEF There
    <3>3. \A l \in Whole : lines'[l].ext = lines[l].ext
      BY <1>0, <2>1, <2>3, Families
    <3> QED
      BY <3>1, <3>2, <3>3 DEF ImportedWhole, Held
  <2> QED
    BY <2>4, <2>5, <2>6
<1>7. CASE UNCHANGED vars
  BY <1>1, <1>7 DEF vars, rows
<1>8. ASSUME NEW c \in Client,
             Reading(c) \/ WriteVoid(c) \/ WritePayout(c) \/ Abort(c) \/ ReadTakeBack(c)
      PROVE  UNCHANGED <<statements, lines>>
  BY <1>8, ReadsKeepRows DEF WriteVoid, WritePayout, Void, Abort, ReadTakeBack, rows
<1> QED
  BY <1>1, <1>2, <1>3, <1>4, <1>5, <1>6, <1>7, <1>8, Kinds DEF Writing, TakesBack

----------------------------------------------------------------------------
(* Calls that do not overlap a posting *)

\* What holds as long as no posting has overlapped another call
Survived == PostedAsMatched /\ Undisturbed /\ Apart

\* What a call that is at step s, at x, with v has read still holds.
Holds(s, x, v) ==
  /\ s \in Changing => ~Posted(lines[x])
  /\ s = "undo" => ~PartPosted(x)
  /\ s \in Holding => v = lines[x].entity /\ ~lines[x].split
  /\ s = "void" => ~Reconciled(x)
  /\ s = "payout" =>
       \A l \in Line : lines[l].status = "POSTED" /\ lines[l].money = x => l = v

\* A call at step s, at x, with v keeps off one at step t, at y, with w.
KeepsOff(s, x, v, t, y, w) ==
  /\ t \in Holding /\ s \in Changing => x # y
  /\ t \in Holding /\ s = "undo" => y \notin Family(x)
  /\ t \in ToPost /\ s = "void" => x # w
  /\ t \in ToPost /\ s = "payout" => x # w \/ y = v

LEMMA SurvivedIs ==
  /\ Undisturbed <=> \A c \in Client : Holds(pc[c], at[c], read[c])
  /\ Apart <=> \A c, d \in Client : c # d =>
                 KeepsOff(pc[c], at[c], read[c], pc[d], at[d], read[d])
  BY DEF Undisturbed, Apart, Holds, KeepsOff

LEMMA SurvivedIsPrimed ==
  /\ Undisturbed' <=> \A c \in Client : Holds(pc[c], at[c], read[c])'
  /\ Apart' <=> \A c, d \in Client : c # d =>
                 KeepsOff(pc[c], at[c], read[c], pc[d], at[d], read[d])'
  BY DEF Undisturbed, Apart, Holds, KeepsOff

\* A call that is idle, or about to import, has nothing to keep off, and nothing
\* that may be disturbed.
LEMMA IdleHolds ==
  ASSUME NEW s \in {"idle", "import"}, NEW x, NEW v, NEW t, NEW y, NEW w
  PROVE  Holds(s, x, v) /\ KeepsOff(s, x, v, t, y, w) /\ KeepsOff(t, y, w, s, x, v)
  BY DEF Holds, KeepsOff, Changing, Restating, Holding, ToPost

\* Call c goes to step s, at x, with v.
Begins(c, s, x, v) ==
  /\ pc' = [pc EXCEPT ![c] = s]
  /\ at' = [at EXCEPT ![c] = x]
  /\ read' = [read EXCEPT ![c] = v]
  /\ UNCHANGED rows

\* What it has read holds, and it keeps off the others as they keep off it.
MayBegin(c, s, x, v) ==
  /\ Holds(s, x, v)
  /\ \A d \in Client \ {c} : /\ KeepsOff(s, x, v, pc[d], at[d], read[d])
                             /\ KeepsOff(pc[d], at[d], read[d], s, x, v)

LEMMA ReadStep ==
  ASSUME TypeOK, Survived, NEW c \in Client, NEW s, NEW x, NEW v,
         MayBegin(c, s, x, v), Begins(c, s, x, v)
  PROVE  Survived'
<1>a. pc'[c] = s /\ at'[c] = x /\ read'[c] = v
  BY DEF TypeOK, Begins
<1>b. \A d \in Client \ {c} : pc'[d] = pc[d] /\ at'[d] = at[d] /\ read'[d] = read[d]
  BY DEF TypeOK, Begins
<1>c. lines' = lines
  BY DEF rows, Begins
<1>1. PostedAsMatched'
  BY <1>c DEF Survived, PostedAsMatched
<1>2. Undisturbed'
  <2> SUFFICES ASSUME NEW d \in Client
               PROVE  Holds(pc[d], at[d], read[d])'
    BY SurvivedIsPrimed
  <2>1. Holds(pc[d], at[d], read[d])' <=> Holds(pc'[d], at'[d], read'[d])
    BY <1>c DEF Holds, PartPosted, Reconciled, There
  <2>2. CASE d = c
    BY <1>a, <2>1, <2>2 DEF MayBegin
  <2>3. CASE d # c
    BY <1>b, <2>1, <2>3, SurvivedIs DEF Survived
  <2> QED
    BY <2>2, <2>3
<1>3. Apart'
  <2> SUFFICES ASSUME NEW d \in Client, NEW e \in Client, d # e
               PROVE  KeepsOff(pc[d], at[d], read[d], pc[e], at[e], read[e])'
    BY SurvivedIsPrimed
  <2>1. KeepsOff(pc[d], at[d], read[d], pc[e], at[e], read[e])'
        <=> KeepsOff(pc'[d], at'[d], read'[d], pc'[e], at'[e], read'[e])
    BY DEF KeepsOff
  <2>2. CASE d = c
    BY <1>a, <1>b, <2>1, <2>2 DEF MayBegin
  <2>3. CASE e = c
    BY <1>a, <1>b, <2>1, <2>3 DEF MayBegin
  <2>4. CASE d # c /\ e # c
    BY <1>b, <2>1, <2>4, SurvivedIs DEF Survived
  <2> QED
    BY <2>2, <2>3, <2>4
<1> QED
  BY <1>1, <1>2, <1>3 DEF Survived

\* A call that ends is idle, the others stay as they are; and so does a repost, but
\* for its step.
Continues(d) ==
  \/ pc'[d] = "idle"
  \/ /\ at'[d] = at[d] /\ read'[d] = read[d]
     /\ pc'[d] = pc[d] \/ (pc[d] \in ToPost /\ pc'[d] \in ToPost)

LEMMA Ended ==
  ASSUME TypeOK, NEW c \in Client, End(c)
  PROVE  /\ pc'[c] = "idle"
         /\ \A d \in Client \ {c} : pc'[d] = pc[d] /\ at'[d] = at[d] /\ read'[d] = read[d]
         /\ \A d \in Client : Continues(d)
  BY DEF TypeOK, End, Continues

\* While calls continue, they keep off each other.
LEMMA ApartStep ==
  ASSUME Survived, \A d \in Client : Continues(d)
  PROVE  Apart'
<1> SUFFICES ASSUME NEW d \in Client, NEW e \in Client, d # e
             PROVE  KeepsOff(pc[d], at[d], read[d], pc[e], at[e], read[e])'
  BY SurvivedIsPrimed
<1>1. KeepsOff(pc[d], at[d], read[d], pc[e], at[e], read[e])'
      <=> KeepsOff(pc'[d], at'[d], read'[d], pc'[e], at'[e], read'[e])
  BY DEF KeepsOff
<1>2. CASE pc'[d] = "idle" \/ pc'[e] = "idle"
  BY <1>1, <1>2, IdleHolds
<1>3. CASE pc'[d] # "idle" /\ pc'[e] # "idle"
  <2>1. KeepsOff(pc[d], at[d], read[d], pc[e], at[e], read[e])
    BY SurvivedIs DEF Survived
  <2>2. /\ at'[d] = at[d] /\ read'[d] = read[d] /\ at'[e] = at[e] /\ read'[e] = read[e]
        /\ pc'[d] = pc[d] \/ (pc[d] \in ToPost /\ pc'[d] \in ToPost)
        /\ pc'[e] = pc[e] \/ (pc[e] \in ToPost /\ pc'[e] \in ToPost)
    BY <1>3 DEF Continues
  <2>3. \A t \in ToPost : /\ t \in Holding /\ t \notin Changing
                          /\ t # "undo" /\ t # "void" /\ t # "payout"
    BY DEF ToPost, Holding, Changing, Restating
  <2>4. KeepsOff(pc'[d], at[d], read[d], pc'[e], at[e], read[e])
    BY <2>1, <2>2, <2>3 DEF KeepsOff
  <2> QED
    BY <1>1, <2>2, <2>4
<1> QED
  BY <1>2, <1>3

\* A step that writes only lines that are not posted, and posts none of them
Quiet ==
  \A l \in Line :
    \/ lines'[l] = lines[l]
    \/ /\ ~Posted(lines[l]) /\ lines'[l].status # "POSTED" /\ lines'[l].money = NoMoney
       /\ lines'[l].status = "MATCHED" => lines'[l].entity # NoMoney

\* Calls that are about to post a line, or to take its posting back, find it as it was.
HeldKept ==
  \A d \in Client : pc[d] \in Holding /\ pc'[d] # "idle" =>
    lines'[at[d]].entity = lines[at[d]].entity /\ lines'[at[d]].split = lines[at[d]].split

\* If no posting counts on what it writes either, no call is disturbed.
LEMMA QuietStep ==
  ASSUME TypeOK, CallsAreTyped, Survived, \A d \in Client : Continues(d), Quiet, HeldKept
  PROVE  Survived'
<1>1. PostedAsMatched'
  <2> SUFFICES ASSUME NEW l \in Line
               PROVE  /\ lines'[l].status = "MATCHED" => lines'[l].entity # NoMoney
                      /\ lines'[l].status = "POSTED" <=> lines'[l].money # NoMoney
                      /\ Posted(lines'[l]) =>
                           lines'[l].money = lines'[l].entity /\ ~lines'[l].split
    BY DEF PostedAsMatched
  <2>1. CASE lines'[l] = lines[l]
    BY <2>1 DEF Survived, PostedAsMatched
  <2>2. CASE /\ lines'[l].status # "POSTED" /\ lines'[l].money = NoMoney
             /\ lines'[l].status = "MATCHED" => lines'[l].entity # NoMoney
    BY <2>2 DEF Posted
  <2> QED
    BY <2>1, <2>2 DEF Quiet
<1>2. Undisturbed'
  <2>a. \A l \in Line : Posted(lines'[l]) => lines'[l] = lines[l]
    BY DEF Posted, Quiet
  <2> SUFFICES ASSUME NEW d \in Client
               PROVE  Holds(pc[d], at[d], read[d])'
    BY SurvivedIsPrimed
  <2>1. CASE pc'[d] = "idle"
    BY <2>1 DEF Holds, Changing, Restating, Holding, ToPost
  <2>2. CASE pc'[d] # "idle"
    <3>a. /\ at'[d] = at[d] /\ read'[d] = read[d]
          /\ pc'[d] = pc[d] \/ (pc[d] \in ToPost /\ pc'[d] \in ToPost)
      BY <2>2 DEF Continues
    <3>b. Holds(pc[d], at[d], read[d])
      BY SurvivedIs DEF Survived
    <3>c. \A t \in ToPost : /\ t \in Holding /\ t \notin Changing
                            /\ t # "undo" /\ t # "void" /\ t # "payout"
      BY DEF ToPost, Holding, Changing, Restating
    <3>1. pc'[d] \in Changing => ~Posted(lines'[at[d]])
      BY <2>a, <3>a, <3>b, <3>c DEF Holds, CallsAreTyped
    <3>2. pc'[d] = "undo" => \A x \in Parts(at[d]) :
            ~(lines'[x].status # "NONE" /\ Posted(lines'[x]))
      <4> SUFFICES ASSUME pc'[d] = "undo", NEW x \in Parts(at[d]),
                          lines'[x].status # "NONE", Posted(lines'[x])
                   PROVE  FALSE
        OBVIOUS
      <4>1. pc[d] = "undo"
        BY <3>a, <3>c
      <4>2. x \in Line
        BY <4>1, Families DEF CallsAreTyped, Line
      <4>3. ~PartPosted(at[d])
        BY <3>b, <4>1 DEF Holds
      <4> QED
        BY <2>a, <4>2, <4>3 DEF PartPosted, There
    <3>3. pc'[d] \in Holding => read[d] = lines'[at[d]].entity /\ ~lines'[at[d]].split
      BY <2>2, <3>a, <3>b, <3>c DEF Holds, HeldKept
    <3>4. pc'[d] = "void" => \A l \in Line :
            ~(lines'[l].status = "POSTED" /\ lines'[l].money = at[d])
      BY <2>a, <3>a, <3>b, <3>c DEF Holds, Reconciled, Posted
    <3>5. pc'[d] = "payout" => \A l \in Line :
            lines'[l].status = "POSTED" /\ lines'[l].money = at[d] => l = read[d]
      BY <2>a, <3>a, <3>b, <3>c DEF Holds, Posted
    <3> QED
      BY <3>a, <3>1, <3>2, <3>3, <3>4, <3>5 DEF Holds, PartPosted, Reconciled, There
  <2> QED
    BY <2>1, <2>2
<1>3. Apart'
  BY ApartStep
<1> QED
  BY <1>1, <1>2, <1>3 DEF Survived

\* What is to be written of a line that is to be suggested for, confirmed, ignored
\* and so on is written of a line that no posting is about.
LEMMA ReadsSurvive ==
  ASSUME TypeOK, CallsAreTyped, RowsMeanWhatTheySay, Survived, NEW c \in Client,
         Reading(c), lap' = {}
  PROVE  Survived'
<1>a. \A l \in Line : /\ lines[l].status = "POSTED" <=> lines[l].money # NoMoney
                      /\ Posted(lines[l]) => lines[l].money = lines[l].entity /\ ~lines[l].split
  BY DEF Survived, PostedAsMatched
<1>b. \A d \in Client : Holds(pc[d], at[d], read[d])
  BY SurvivedIs DEF Survived
<1>c. \A s \in Changing : s \notin Holding /\ s # "void" /\ s # "payout"
  BY DEF Changing, Restating, Holding, ToPost
<1>d. \A s \in Holding : s \notin Changing /\ s # "undo" /\ s # "void" /\ s # "payout"
  BY DEF Changing, Restating, Holding, ToPost
<1>e. ToPost \subseteq Holding
  BY DEF Holding
<1>1. ASSUME NEW s \in Changing \ {"undo"}, NEW l \in Line, NEW v, ~Posted(lines[l]),
             Begin(c, s, l, v, Holding, {l})
      PROVE  Survived'
  <2>1. \A d \in Client \ {c} : pc[d] \in Holding => l # at[d]
    BY <1>1 DEF Begin, Beside
  <2>2. MayBegin(c, s, l, v)
    BY <1>1, <1>c, <1>e, <2>1 DEF MayBegin, Holds, KeepsOff
  <2>3. Begins(c, s, l, v)
    BY <1>1 DEF Begin, Begins
  <2> QED
    BY <2>2, <2>3, ReadStep
<1>2. CASE ReadImport(c)
  <2>1. PICK f \in File : Begin(c, "import", f, "none", {}, {})
    BY <1>2 DEF ReadImport
  <2>2. Begins(c, "import", f, "none")
    BY <2>1 DEF Begin, Begins
  <2>3. MayBegin(c, "import", f, "none")
    BY IdleHolds DEF MayBegin
  <2> QED
    BY <2>2, <2>3, ReadStep
<1>3. CASE ReadSuggest(c)
  <2>1. PICK l \in Line, s \in {"NEW", "SUGGESTED"} :
          lines[l].status = "NEW" /\ Begin(c, "suggest", l, s, Holding, {l})
    BY <1>3 DEF ReadSuggest
  <2>2. ~Posted(lines[l])
    BY <1>a, <2>1 DEF Posted
  <2> QED
    BY <1>1, <2>1, <2>2 DEF Changing, Restating
<1>4. CASE ReadConfirm(c)
  <2>1. PICK l \in Line, m \in Money :
          /\ lines[l].status \in {"NEW", "SUGGESTED"}
          /\ Begin(c, "confirm", l, m, Holding, {l})
    BY <1>4 DEF ReadConfirm
  <2>2. ~Posted(lines[l])
    BY <1>a, <2>1 DEF Posted
  <2> QED
    BY <1>1, <2>1, <2>2 DEF Changing, Restating
<1>5. CASE ReadIgnore(c)
  <2>1. PICK l \in Line : ~Posted(lines[l]) /\ Begin(c, "ignore", l, "none", Holding, {l})
    BY <1>5 DEF ReadIgnore
  <2> QED
    BY <1>1, <2>1 DEF Changing
<1>6. CASE ReadUnignore(c)
  <2>1. PICK l \in Line : /\ lines[l].status = "IGNORED"
                          /\ Begin(c, "unignore", l, Hinted(lines[l]), Holding, {l})
    BY <1>6 DEF ReadUnignore
  <2>2. ~Posted(lines[l])
    BY <1>a, <2>1 DEF Posted
  <2> QED
    BY <1>1, <2>1, <2>2 DEF Changing, Restating
<1>7. CASE ReadSplit(c)
  <2>1. PICK l \in Whole : ~Posted(lines[l]) /\ Begin(c, "split", l, "none", Holding, {l})
    BY <1>7 DEF ReadSplit
  <2> QED
    BY <1>1, <2>1 DEF Changing, Line
<1>8. CASE ReadUndo(c)
  <2>1. PICK l \in Whole :
          /\ ~NotSplit(lines[l]) /\ ~PartPosted(l)
          /\ Begin(c, "undo", l, IF HasParts(l) THEN "parts" ELSE "bare", Holding, Family(l))
    BY <1>8 DEF ReadUndo
  <2> DEFINE v == IF HasParts(l) THEN "parts" ELSE "bare"
  <2>2. l \in Line /\ l \in Family(l)
    BY Families DEF Line
  <2>3. lines[l].split
    BY <2>1, <2>2 DEF NotSplit, RowsMeanWhatTheySay
  <2>4. ~Posted(lines[l])
    BY <1>a, <2>2, <2>3
  <2>5. \A d \in Client \ {c} : pc[d] \in Holding => at[d] \notin Family(l)
    BY <2>1 DEF Begin, Beside
  <2>6. Begins(c, "undo", l, v)
    BY <2>1 DEF Begin, Begins
  <2> HIDE DEF v
  <2>7. "undo" \in Changing
    BY DEF Changing
  <2>8. \A d \in Client \ {c} : pc[d] \in Holding => l # at[d]
    BY <2>2, <2>5
  <2>9. MayBegin(c, "undo", l, v)
    BY <1>c, <1>e, <2>1, <2>4, <2>5, <2>7, <2>8 DEF MayBegin, Holds, KeepsOff
  <2> QED
    BY <2>6, <2>9, ReadStep
<1>9. CASE ReadVoid(c) \/ ReadPayout(c)
  <2>1. PICK m \in Money, v \in {"none"} \cup Line, s \in {"void", "payout"} :
          /\ s = "void" => ~Reconciled(m)
          /\ s = "payout" =>
               {x \in Line : lines[x].status = "POSTED" /\ lines[x].money = m} = {v}
          /\ Begin(c, s, m, v, ToPost, Awaiting(m))
    BY <1>9 DEF ReadVoid, ReadPayout
  <2>2. \A d \in Client \ {c} : pc[d] \in ToPost => m # read[d]
    <3> SUFFICES ASSUME NEW d \in Client \ {c}, pc[d] \in ToPost, m = read[d]
                 PROVE  FALSE
      OBVIOUS
    <3>1. at[d] \in Line
      BY <1>e DEF CallsAreTyped
    <3>2. at[d] \in Awaiting(m)
      BY <3>1 DEF Awaiting
    <3> QED
      BY <2>1, <3>2 DEF Begin, Beside
  <2>3. Begins(c, s, m, v)
    BY <2>1 DEF Begin, Begins
  <2>4. s \notin Changing /\ s \notin Holding /\ s \notin ToPost /\ s # "undo"
    BY DEF Changing, Restating, Holding, ToPost
  <2>5. Holds(s, m, v)
    BY <2>1, <2>4 DEF Holds
  <2>6. MayBegin(c, s, m, v)
    BY <2>2, <2>4, <2>5 DEF MayBegin, KeepsOff
  <2> QED
    BY <2>3, <2>6, ReadStep
<1>10. CASE ReadPost(c)
  <2>1. PICK l \in Line :
          /\ lines[l].status = "MATCHED" /\ NotSplit(lines[l])
          /\ Begin(c, "post", l, lines[l].entity,
                   Changing \cup {"void", "payout"}, Family(l) \cup {lines[l].entity})
    BY <1>10 DEF ReadPost
  <2> DEFINE v == lines[l].entity
  <2>2. ~lines[l].split
    BY <2>1 DEF NotSplit
  <2>3. \A d \in Client \ {c} :
          pc[d] \in Changing \cup {"void", "payout"} => at[d] \notin Family(l) /\ at[d] # v
    BY <2>1 DEF Begin, Beside
  <2>4. l \in Family(l)
    BY DEF Family
  <2>5. ASSUME NEW d \in Client \ {c}, pc[d] = "undo"
        PROVE  l \notin Family(at[d])
    <3>1. at[d] \in Whole
      BY <2>5 DEF CallsAreTyped
    <3>2. at[d] \notin Family(l)
      BY <2>3, <2>5 DEF Changing
    <3> QED
      BY <3>1, <3>2, Families
  <2>6. Begins(c, "post", l, v)
    BY <2>1 DEF Begin, Begins
  <2>7. "post" \in ToPost /\ "post" \in Holding
    BY DEF ToPost, Holding
  <2>8. Holds("post", l, v)
    BY <1>d, <2>2, <2>7 DEF Holds
  <2>9. \A d \in Client \ {c} : /\ pc[d] \in Changing => at[d] # l
                                /\ pc[d] = "undo" => l \notin Family(at[d])
                                /\ pc[d] = "void" => at[d] # v
                                /\ pc[d] = "payout" => at[d] # v
    BY <2>3, <2>4, <2>5
  <2>10. MayBegin(c, "post", l, v)
    BY <1>d, <2>7, <2>8, <2>9 DEF MayBegin, KeepsOff
  <2> QED
    BY <2>6, <2>10, ReadStep
<1>11. CASE ReadUnpost(c) \/ ReadPostAnew(c)
  <2>1. PICK l \in Line, s \in {"unpost", "repost"} :
          /\ lines[l].status = "POSTED" /\ lines[l].money # NoMoney
          /\ Begin(c, s, l, lines[l].money, {}, {})
    BY <1>11 DEF ReadUnpost, ReadPostAnew
  <2> DEFINE m == lines[l].money
  <2>2. Posted(lines[l]) /\ m = lines[l].entity /\ ~lines[l].split
    BY <1>a, <2>1 DEF Posted
  <2>3. s \in Holding
    BY DEF Holding, ToPost
  <2>4. Holds(s, l, m)
    BY <1>d, <2>2, <2>3 DEF Holds
  <2>5. \A d \in Client : pc[d] \in Changing => at[d] # l
    BY <1>b, <2>2 DEF Holds
  <2>6. ASSUME NEW d \in Client, pc[d] = "undo"
        PROVE  l \notin Family(at[d])
    <3>1. at[d] \in Whole /\ ~PartPosted(at[d]) /\ at[d] # l
      BY <1>b, <2>5, <2>6 DEF Holds, CallsAreTyped, Changing
    <3>2. l \notin Parts(at[d])
      BY <2>1, <2>2, <3>1 DEF PartPosted, There
    <3> QED
      BY <3>1, <3>2, Families
  <2>7. \A d \in Client : pc[d] = "void" => at[d] # m
    BY <1>b, <2>1 DEF Holds, Reconciled
  <2>8. \A d \in Client : pc[d] = "payout" => at[d] # m \/ l = read[d]
    BY <1>b, <2>1 DEF Holds
  <2>9. Begins(c, s, l, m)
    BY <2>1 DEF Begin, Begins
  <2> HIDE DEF m
  <2>10. MayBegin(c, s, l, m)
    BY <1>d, <2>3, <2>4, <2>5, <2>6, <2>7, <2>8 DEF MayBegin, KeepsOff
  <2> QED
    BY <2>9, <2>10, ReadStep
<1> QED
  BY <1>2, <1>3, <1>4, <1>5, <1>6, <1>7, <1>8, <1>9, <1>10, <1>11 DEF Reading

\* A line is posted, or its posting is taken back: no call is at work on it, or on the
\* cash it is posted to, that would mind.
LEMMA HeldSurvives ==
  ASSUME TypeOK, CallsAreTyped, Survived, NEW c \in Client,
         Posts(c) \/ WriteUnpost(c) \/ WriteTakeBack(c)
  PROVE  Survived'
<1> DEFINE l == at[c]
           m == read[c]
<1>a. /\ pc[c] \in Holding /\ l \in Line /\ m \in Money
      /\ \/ /\ lines'[l].status = "POSTED" /\ lines'[l].money = m /\ pc[c] \in ToPost
         \/ /\ lines'[l].status = "MATCHED" /\ lines'[l].money = NoMoney
      /\ lines'[l].entity = lines[l].entity /\ lines'[l].split = lines[l].split
      /\ \A x \in Line \ {l} : lines'[x] = lines[x]
  BY HeldWritten
<1>b. \A d \in Client : Continues(d)
  <2>1. CASE Posts(c) \/ WriteUnpost(c)
    BY <2>1, WritesEnd, Ended DEF Writing
  <2>2. CASE WriteTakeBack(c)
    BY <2>2, TakeBackSteps DEF TakesBack, Continues
  <2> QED
    BY <2>1, <2>2
<1>c. /\ m = lines[l].entity /\ ~lines[l].split
      /\ \A d \in Client : Holds(pc[d], at[d], read[d])
  BY <1>a, SurvivedIs DEF Survived, Holds
<1>d. \A d \in Client \ {c} : /\ pc[d] \in Changing => at[d] # l
                              /\ pc[d] = "undo" => l \notin Family(at[d])
                              /\ pc[c] \in ToPost /\ pc[d] = "void" => at[d] # m
                              /\ pc[c] \in ToPost /\ pc[d] = "payout" => at[d] # m \/ l = read[d]
  BY <1>a DEF Survived, Apart
<1> HIDE DEF l, m
<1>1. PostedAsMatched'
  <2> SUFFICES ASSUME NEW x \in Line
               PROVE  /\ lines'[x].status = "MATCHED" => lines'[x].entity # NoMoney
                      /\ lines'[x].status = "POSTED" <=> lines'[x].money # NoMoney
                      /\ Posted(lines'[x]) =>
                           lines'[x].money = lines'[x].entity /\ ~lines'[x].split
    BY DEF PostedAsMatched
  <2>1. CASE x = l
    BY <1>a, <1>c, <2>1, MoneyAssumption DEF Posted
  <2>2. CASE x # l
    BY <1>a, <2>2 DEF Survived, PostedAsMatched
  <2> QED
    BY <2>1, <2>2
<1>2. Undisturbed'
  <2> SUFFICES ASSUME NEW d \in Client
               PROVE  Holds(pc[d], at[d], read[d])'
    BY SurvivedIsPrimed
  <2>1. CASE pc'[d] = "idle"
    BY <2>1 DEF Holds, Changing, Restating, Holding, ToPost
  <2>2. CASE pc'[d] # "idle"
    <3>a. /\ at'[d] = at[d] /\ read'[d] = read[d]
          /\ pc'[d] = pc[d] \/ (pc[d] \in ToPost /\ pc'[d] \in ToPost)
      BY <1>b, <2>2 DEF Continues
    <3>b. Holds(pc[d], at[d], read[d])
      BY <1>c
    <3>c. \A t \in Holding : t \notin Changing /\ t # "undo" /\ t # "void" /\ t # "payout"
      BY DEF ToPost, Holding, Changing, Restating
    <3>d. ToPost \subseteq Holding
      BY DEF Holding
    <3>e. pc'[d] \notin Holding => d # c /\ pc'[d] = pc[d]
      BY <1>a, <3>a, <3>d
    <3>1. pc'[d] \in Changing => ~Posted(lines'[at[d]])
      <4> SUFFICES ASSUME pc'[d] \in Changing
                   PROVE  ~Posted(lines'[at[d]])
        OBVIOUS
      <4>1. pc[d] \in Changing /\ d # c
        BY <3>c, <3>e
      <4>2. at[d] \in Line /\ at[d] # l /\ ~Posted(lines[at[d]])
        BY <1>d, <3>b, <4>1 DEF Holds, CallsAreTyped
      <4> QED
        BY <1>a, <4>2
    <3>2. pc'[d] = "undo" => \A x \in Parts(at[d]) :
            ~(lines'[x].status # "NONE" /\ Posted(lines'[x]))
      <4> SUFFICES ASSUME pc'[d] = "undo", NEW x \in Parts(at[d])
                   PROVE  ~(lines'[x].status # "NONE" /\ Posted(lines'[x]))
        OBVIOUS
      <4>1. pc[d] = "undo" /\ d # c
        BY <3>c, <3>e
      <4>2. at[d] \in Whole /\ ~PartPosted(at[d])
        BY <3>b, <4>1 DEF Holds, CallsAreTyped
      <4>3. x \in Line /\ x # l
        BY <1>a, <1>d, <4>1, <4>2, Families
      <4> QED
        BY <1>a, <4>2, <4>3 DEF PartPosted, There
    <3>3. pc'[d] \in Holding => read[d] = lines'[at[d]].entity /\ ~lines'[at[d]].split
      <4> SUFFICES ASSUME pc'[d] \in Holding
                   PROVE  read[d] = lines'[at[d]].entity /\ ~lines'[at[d]].split
        OBVIOUS
      <4>1. pc[d] \in Holding
        BY <3>a, <3>d
      <4>2. at[d] \in Line /\ read[d] = lines[at[d]].entity /\ ~lines[at[d]].split
        BY <3>b, <4>1 DEF Holds, CallsAreTyped
      <4>3. CASE at[d] = l
        BY <1>a, <4>2, <4>3
      <4>4. CASE at[d] # l
        BY <1>a, <4>2, <4>4
      <4> QED
        BY <4>3, <4>4
    <3>4. pc'[d] = "void" => \A x \in Line :
            ~(lines'[x].status = "POSTED" /\ lines'[x].money = at[d])
      <4> SUFFICES ASSUME pc'[d] = "void", NEW x \in Line
                   PROVE  ~(lines'[x].status = "POSTED" /\ lines'[x].money = at[d])
        OBVIOUS
      <4>1. pc[d] = "void" /\ d # c
        BY <3>c, <3>e
      <4>2. ~Reconciled(at[d])
        BY <3>b, <4>1 DEF Holds
      <4>3. CASE x = l
        BY <1>a, <1>d, <4>1, <4>3
      <4>4. CASE x # l
        BY <1>a, <4>2, <4>4 DEF Reconciled
      <4> QED
        BY <4>3, <4>4
    <3>5. pc'[d] = "payout" => \A x \in Line :
            lines'[x].status = "POSTED" /\ lines'[x].money = at[d] => x = read[d]
      <4> SUFFICES ASSUME pc'[d] = "payout", NEW x \in Line,
                          lines'[x].status = "POSTED", lines'[x].money = at[d]
                   PROVE  x = read[d]
        OBVIOUS
      <4>1. pc[d] = "payout" /\ d # c
        BY <3>c, <3>e
      <4>2. CASE x = l
        BY <1>a, <1>d, <4>1, <4>2
      <4>3. CASE x # l
        BY <1>a, <3>b, <4>1, <4>3 DEF Holds
      <4> QED
        BY <4>2, <4>3
    <3> QED
      BY <3>a, <3>1, <3>2, <3>3, <3>4, <3>5 DEF Holds, PartPosted, Reconciled, There
  <2> QED
    BY <2>1, <2>2
<1>3. Apart'
  BY <1>b, ApartStep
<1> QED
  BY <1>1, <1>2, <1>3 DEF Survived

\* Whatever else is written, is written of lines that are not posted.
LEMMA WritesSurvive ==
  ASSUME TypeOK, CallsAreTyped, RowsMeanWhatTheySay, Survived, NEW c \in Client,
         Writing(c), ~Posts(c), ~WriteUnpost(c)
  PROVE  Survived' /\ Quiet
<1>a. /\ pc'[c] = "idle"
      /\ \A d \in Client \ {c} : pc'[d] = pc[d] /\ at'[d] = at[d] /\ read'[d] = read[d]
      /\ \A d \in Client : Continues(d)
  BY Ended, WritesEnd
<1>b. \A d \in Client : Holds(pc[d], at[d], read[d])
  BY SurvivedIs DEF Survived
<1>c. \A d \in Client : pc[d] \in Holding /\ pc'[d] # "idle" => d # c /\ at[d] \in Line
  BY <1>a DEF CallsAreTyped
<1>d. pc[c] \in Changing => ~Posted(lines[at[c]])
  BY <1>b DEF Holds
<1>e. pc[c] \in Changing => \A d \in Client \ {c} : pc[d] \in Holding => at[d] # at[c]
  BY DEF Survived, Apart
\* A line a posting is about is there, and has been matched with something.
<1>f. \A d \in Client : pc[d] \in Holding => There(at[d])
  <2> SUFFICES ASSUME NEW d \in Client, pc[d] \in Holding, ~There(at[d])
               PROVE  FALSE
    OBVIOUS
  <2>1. at[d] \in Line /\ read[d] \in Money /\ read[d] = lines[at[d]].entity
    BY <1>b DEF CallsAreTyped, Holds
  <2>2. lines[at[d]].entity = NoMoney
    BY <2>1 DEF RowsMeanWhatTheySay, Absent, Row
  <2> QED
    BY <2>1, <2>2, MoneyAssumption
<1>g. ASSUME \A d \in Client : pc[d] \in Holding /\ pc'[d] # "idle" => lines'[at[d]] = lines[at[d]]
      PROVE  HeldKept
  BY <1>g DEF HeldKept
<1>1. ASSUME UNCHANGED lines
      PROVE  Survived' /\ Quiet
  <2>1. Quiet
    BY <1>1 DEF Quiet
  <2>2. HeldKept
    BY <1>1 DEF HeldKept
  <2> QED
    BY <1>a, <2>1, <2>2, QuietStep
<1>2. CASE Restates(c)
  <2>1. /\ at[c] \in Line /\ pc[c] \in Changing
        /\ lines'[at[c]].status # "POSTED" /\ lines'[at[c]].money = lines[at[c]].money
        /\ lines'[at[c]].status = "MATCHED" => lines'[at[c]].entity # NoMoney
        /\ \A l \in Line \ {at[c]} : lines'[l] = lines[l]
    BY <1>2, LineWritten DEF Changing
  <2>2. ~Posted(lines[at[c]]) /\ lines[at[c]].money = NoMoney
    BY <1>d, <2>1 DEF Posted
  <2>3. Quiet
    BY <2>1, <2>2 DEF Quiet
  <2>4. HeldKept
    BY <1>c, <1>e, <1>g, <2>1
  <2> QED
    BY <1>a, <2>3, <2>4, QuietStep
<1>3. CASE WriteImport(c)
  <2>1. \A l \in Line : \/ lines'[l] = lines[l]
                        \/ ~There(l) /\ lines'[l].status = "NEW" /\ lines'[l].money = NoMoney
    BY <1>3, ImportWritten
  <2>2. \A l \in Line : ~There(l) => ~Posted(lines[l])
    BY DEF RowsMeanWhatTheySay, Absent, Row, Posted
  <2>3. Quiet
    BY <2>1, <2>2 DEF Quiet
  <2>4. HeldKept
    BY <1>c, <1>f, <1>g, <2>1
  <2> QED
    BY <1>a, <2>3, <2>4, QuietStep
<1>4. CASE WriteSplit(c)
  <2> DEFINE w == at[c]
  <2>1. w \in Whole /\ w \in Line /\ pc[c] \in Changing /\ ~HasParts(w)
    BY <1>4, SplitWritten DEF WriteSplit, Changing, Line
  <2>2. /\ lines'[w].status = "SPLIT" /\ lines'[w].money = NoMoney
        /\ \A x \in Parts(w) : lines'[x] = Row("NEW")
        /\ \A l \in Line \ Family(w) : lines'[l] = lines[l]
    BY <1>4, SplitWritten
  <2>3. \A x \in Parts(w) : x \in Line /\ ~There(x)
    BY <2>1, Families DEF HasParts
  <2>4. \A x \in Parts(w) : ~Posted(lines[x]) /\ lines'[x].status = "NEW"
                            /\ lines'[x].money = NoMoney
    BY <2>2, <2>3 DEF RowsMeanWhatTheySay, Absent, Row, Posted
  <2>5. ~Posted(lines[w])
    BY <1>d, <2>1
  <2>6. \A l \in Line : l = w \/ l \in Parts(w) \/ lines'[l] = lines[l]
    BY <2>1, <2>2, Families
  <2>7. Quiet
    BY <2>2, <2>4, <2>5, <2>6 DEF Quiet
  <2>8. HeldKept
    BY <1>c, <1>e, <1>f, <1>g, <2>1, <2>3, <2>6
  <2> HIDE DEF w
  <2> QED
    BY <1>a, <2>7, <2>8, QuietStep
<1>5. CASE WriteUndo(c)
  <2> DEFINE w == at[c]
  <2>1. w \in Whole /\ w \in Line /\ pc[c] = "undo"
    BY <1>5, UndoWritten DEF WriteUndo, Line
  <2>2. /\ lines'[w].status \in {"NEW", "SUGGESTED"}
        /\ lines'[w].money = lines[w].money \/ lines'[w].money = NoMoney
        /\ \A x \in Parts(w) : lines'[x] = Absent
        /\ \A l \in Line \ Family(w) : lines'[l] = lines[l]
    BY <1>5, UndoWritten
  <2>3. ~Posted(lines[w]) /\ lines[w].money = NoMoney /\ ~PartPosted(w)
    BY <1>b, <1>d, <2>1 DEF Changing, Posted, Holds
  <2>4. \A x \in Parts(w) : x \in Line
    BY <2>1, Families
  <2>5. \A x \in Parts(w) : ~Posted(lines[x])
    BY <2>3, <2>4 DEF PartPosted, RowsMeanWhatTheySay, Absent, Row, Posted
  <2>6. Absent.status = "NONE" /\ Absent.money = NoMoney
    BY DEF Absent, Row
  <2>7. \A l \in Line : l = w \/ l \in Parts(w) \/ lines'[l] = lines[l]
    BY <2>1, <2>2, Families
  <2>8. Quiet
    BY <2>2, <2>3, <2>5, <2>6, <2>7 DEF Quiet
  <2>9. \A d \in Client \ {c} : pc[d] \in Holding => at[d] \notin Family(w)
    BY <2>1 DEF Survived, Apart
  <2>10. HeldKept
    BY <1>c, <1>g, <2>2, <2>9
  <2> HIDE DEF w
  <2> QED
    BY <1>a, <2>8, <2>10, QuietStep
<1>6. CASE WriteVoid(c) \/ WritePayout(c) \/ Abort(c)
  BY <1>1, <1>6 DEF WriteVoid, WritePayout, Void, Abort, rows
<1> QED
  BY <1>2, <1>3, <1>4, <1>5, <1>6 DEF Writing

\* Ignoring in a batch leaves out what is posted, and does not mind who is at work.
LEMMA BatchSurvives ==
  ASSUME TypeOK, CallsAreTyped, Survived, BatchIgnore
  PROVE  Survived' /\ Quiet
<1>a. /\ UNCHANGED <<pc, at, read>>
      /\ \A l \in Line :
           \/ lines'[l] = lines[l]
           \/ /\ ~Posted(lines[l]) /\ lines'[l].status = "IGNORED"
              /\ lines'[l].money = lines[l].money /\ lines'[l].entity = lines[l].entity
              /\ lines'[l].split = lines[l].split
  BY BatchWritten
<1>1. Quiet
  BY <1>a DEF Posted, Quiet
<1>2. HeldKept
  BY <1>a DEF CallsAreTyped, HeldKept
<1>3. \A d \in Client : Continues(d)
  BY <1>a DEF Continues
<1> QED
  BY <1>1, <1>2, <1>3, QuietStep

LEMMA SurvivedStep ==
  ASSUME TypeOK, CallsAreTyped, RowsMeanWhatTheySay, lap = {} => Survived, [Next]_vars
  PROVE  lap' = {} => lap = {} /\ Survived'
<1> SUFFICES ASSUME lap' = {}
             PROVE  lap = {} /\ Survived'
  OBVIOUS
<1>1. ASSUME NEW c \in Client, Reading(c)
      PROVE  lap = {}
  BY <1>1 DEF Reading, ReadImport, ReadSuggest, ReadConfirm, ReadPost, ReadIgnore,
     ReadUnignore, ReadSplit, ReadUndo, ReadUnpost, ReadPostAnew, ReadVoid, ReadPayout, Begin
<1>2. ASSUME NEW c \in Client, Writing(c)
      PROVE  lap = {}
  BY <1>2, WritesEnd DEF End
<1>3. ASSUME UNCHANGED <<lines, lap>>, \A d \in Client : Continues(d)
      PROVE  lap = {} /\ Survived'
  <2>1. Quiet /\ HeldKept /\ lap = {}
    BY <1>3 DEF Quiet, HeldKept
  <2> QED
    BY <1>3, <2>1, QuietStep
<1>4. CASE UNCHANGED vars
  BY <1>3, <1>4 DEF vars, rows, Continues
<1>5. CASE BatchIgnore
  BY <1>5, BatchSurvives DEF BatchIgnore
<1>6. ASSUME NEW c \in Client, Reading(c) \/ Writing(c)
      PROVE  lap = {} /\ Survived'
  BY <1>1, <1>2, <1>6, ReadsSurvive, WritesSurvive, HeldSurvives
<1>7. ASSUME NEW c \in Client, TakesBack(c)
      PROVE  lap = {} /\ Survived'
  <2>1. lap = {}
    BY <1>7, TakeBackSteps
  <2>2. CASE WriteTakeBack(c)
    BY <2>1, <2>2, HeldSurvives
  <2>3. CASE ReadTakeBack(c)
    <3>1. UNCHANGED <<lines, lap>>
      BY <2>3, <1>7, TakeBackSteps DEF ReadTakeBack, rows
    <3>2. \A d \in Client : Continues(d)
      BY <1>7, TakeBackSteps DEF Continues
    <3> QED
      BY <1>3, <3>1, <3>2
  <2> QED
    BY <1>7, <2>2, <2>3 DEF TakesBack
<1> QED
  BY <1>4, <1>5, <1>6, <1>7, Kinds

----------------------------------------------------------------------------
(* The status of a line that is split *)

\* What is known of the calls may only end, or begin something else than a call that
\* restates a line that is split.
LEMMA SplitKept ==
  ASSUME SplitStands,
         \A l \in Line : lines'[l].split /\ l \notin excused' =>
           /\ lines'[l] = lines[l] /\ l \notin excused
           /\ \A d \in Client : pc'[d] \in Restating /\ at'[d] = l =>
                pc[d] \in Restating /\ at[d] = l
  PROVE  SplitStands'
<1> SUFFICES ASSUME NEW l \in Line, lines'[l].split, l \notin excused'
             PROVE  /\ lines'[l].status = "SPLIT"
                    /\ \A d \in Client : pc'[d] \in Restating => at'[d] # l
  BY DEF SplitStands
<1>1. lines[l].split /\ l \notin excused
  OBVIOUS
<1> QED
  BY <1>1 DEF SplitStands

LEMMA SplitStep ==
  ASSUME TypeOK, CallsAreTyped, RowsMeanWhatTheySay, SplitStands, Survived, [Next]_vars
  PROVE  SplitStands'
<1>a. \A s \in ToPost \cup {"idle", "import", "ignore", "split", "undo", "unpost", "void", "payout"} :
        s \notin Restating
  BY DEF ToPost, Restating
<1>b. \A d \in Client : Holds(pc[d], at[d], read[d])
  BY SurvivedIs DEF Survived
<1>1. ASSUME UNCHANGED <<lines, excused, pc, at>>
      PROVE  SplitStands'
  BY <1>1, SplitKept
<1>2. CASE BatchIgnore
  <2>1. \A l \in Line : lines'[l].split /\ l \notin excused' =>
          lines'[l] = lines[l] /\ l \notin excused
    BY <1>2, BatchWritten
  <2>2. UNCHANGED <<pc, at>>
    BY <1>2 DEF BatchIgnore
  <2> QED
    BY <2>1, <2>2, SplitKept
<1>3. ASSUME NEW c \in Client, Reading(c)
      PROVE  SplitStands'
  <2>1. PICK s, x : /\ pc' = [pc EXCEPT ![c] = s] /\ at' = [at EXCEPT ![c] = x]
                    /\ s \in Restating /\ x \in Line => x \in excused \/ ~lines[x].split
    <3>1. ASSUME NEW s, NEW x, NEW v, NEW S, NEW A, Begin(c, s, x, v, S, A)
          PROVE  pc' = [pc EXCEPT ![c] = s] /\ at' = [at EXCEPT ![c] = x]
      BY <3>1 DEF Begin
    <3>2. CASE ReadSuggest(c)
      <4>1. PICK l \in Line, v \in {"NEW", "SUGGESTED"} :
              lines[l].status = "NEW" /\ Begin(c, "suggest", l, v, Holding, {l})
        BY <3>2 DEF ReadSuggest
      <4>2. l \in excused \/ ~lines[l].split
        BY <4>1 DEF SplitStands
      <4> QED
        BY <3>1, <4>1, <4>2
    <3>3. CASE ReadConfirm(c)
      <4>1. PICK l \in Line, v \in Money :
              /\ lines[l].status \in {"NEW", "SUGGESTED"}
              /\ Begin(c, "confirm", l, v, Holding, {l})
        BY <3>3 DEF ReadConfirm
      <4>2. l \in excused \/ ~lines[l].split
        BY <4>1 DEF SplitStands
      <4> QED
        BY <3>1, <4>1, <4>2
    <3>4. CASE ReadUnignore(c)
      <4>1. PICK l \in Line : /\ lines[l].status = "IGNORED"
                              /\ Begin(c, "unignore", l, Hinted(lines[l]), Holding, {l})
        BY <3>4 DEF ReadUnignore
      <4>2. l \in excused \/ ~lines[l].split
        BY <4>1 DEF SplitStands
      <4> QED
        BY <3>1, <4>1, <4>2
    <3>5. CASE ~ReadSuggest(c) /\ ~ReadConfirm(c) /\ ~ReadUnignore(c)
      <4>1. PICK s, x, v, S, A :
              /\ Begin(c, s, x, v, S, A)
              /\ s \in {"import", "ignore", "split", "undo", "post", "unpost", "repost",
                        "void", "payout"}
        BY <1>3, <3>5 DEF Reading, ReadImport, ReadPost, ReadIgnore, ReadSplit, ReadUndo,
           ReadUnpost, ReadPostAnew, ReadVoid, ReadPayout
      <4>2. s \notin Restating
        BY <4>1 DEF Restating
      <4> QED
        BY <3>1, <4>1, <4>2
    <3> QED
      BY <3>2, <3>3, <3>4, <3>5
  <2>2. UNCHANGED <<lines, excused>>
    BY <1>3, ReadsKeepRows DEF rows
  <2>3. pc'[c] = s /\ at'[c] = x /\ \A d \in Client \ {c} : pc'[d] = pc[d] /\ at'[d] = at[d]
    BY <2>1, CallTypes
  <2> QED
    BY <2>1, <2>2, <2>3, SplitKept
<1>4. ASSUME NEW c \in Client, Writing(c)
      PROVE  SplitStands'
  <2>a. /\ pc'[c] = "idle" /\ "idle" \notin Restating
        /\ \A d \in Client \ {c} : pc'[d] = pc[d] /\ at'[d] = at[d]
    BY <1>4, <1>a, Ended, WritesEnd
  <2>b. ASSUME \A l \in Line : lines'[l].split /\ l \notin excused' =>
                 lines'[l] = lines[l] /\ l \notin excused
        PROVE  SplitStands'
    BY <2>a, <2>b, SplitKept
  <2>1. CASE Restates(c)
    <3>1. /\ at[c] \in Line /\ pc[c] \in Restating \cup {"ignore"}
          /\ lines'[at[c]].split = lines[at[c]].split
          /\ \A l \in Line \ {at[c]} : lines'[l] = lines[l]
          /\ IF pc[c] = "ignore" THEN excused' = excused \cup {l \in {at[c]} : lines[l].split}
             ELSE UNCHANGED excused
      BY <2>1, LineWritten
    <3>2. pc[c] \in Restating => ~lines[at[c]].split \/ at[c] \in excused
      BY <3>1 DEF SplitStands
    <3> QED
      BY <2>b, <3>1, <3>2
  <2>2. CASE Posts(c) \/ WriteUnpost(c)
    <3>1. /\ at[c] \in Line /\ pc[c] \in Holding /\ UNCHANGED excused
          /\ lines'[at[c]].split = lines[at[c]].split
          /\ \A l \in Line \ {at[c]} : lines'[l] = lines[l]
      BY <2>2, HeldWritten
    <3>2. ~lines[at[c]].split
      BY <1>b, <3>1 DEF Holds
    <3> QED
      BY <2>b, <3>1, <3>2
  <2>3. CASE WriteImport(c)
    BY <2>b, <2>3, ImportWritten
  <2>4. CASE WriteSplit(c)
    <3> DEFINE w == at[c]
    <3>1. /\ w \in Whole /\ w \in Line
          /\ lines'[w].status = "SPLIT"
          /\ \A x \in Parts(w) : lines'[x] = Row("NEW")
          /\ \A l \in Line \ Family(w) : lines'[l] = lines[l]
      BY <2>4, SplitWritten DEF Line
    <3>2. excused' = excused \cup {x \in {w} : Beside(c, Restating, {w})}
      BY <2>4 DEF WriteSplit
    <3> SUFFICES ASSUME NEW l \in Line, lines'[l].split, l \notin excused'
                 PROVE  /\ lines'[l].status = "SPLIT"
                        /\ \A d \in Client : pc'[d] \in Restating => at'[d] # l
      BY DEF SplitStands
    <3>3. CASE l = w
      BY <2>a, <3>1, <3>2, <3>3 DEF Beside
    <3>4. CASE l \in Parts(w)
      BY <3>1, <3>4 DEF Row
    <3>5. CASE l # w /\ l \notin Parts(w)
      <4>1. lines'[l] = lines[l]
        BY <3>1, <3>5, Families
      <4> QED
        BY <2>a, <3>2, <4>1 DEF SplitStands
    <3> QED
      BY <3>3, <3>4, <3>5
  <2>5. CASE WriteUndo(c)
    <3>1. /\ at[c] \in Whole /\ ~lines'[at[c]].split
          /\ \A x \in Parts(at[c]) : lines'[x] = Absent
          /\ \A l \in Line \ Family(at[c]) : lines'[l] = lines[l]
      BY <2>5, UndoWritten
    <3>2. excused' = excused \ {at[c]}
      BY <2>5 DEF WriteUndo
    <3>3. ~Absent.split
      BY DEF Absent, Row
    <3>4. \A l \in Line : lines'[l].split /\ l \notin excused' =>
            lines'[l] = lines[l] /\ l \notin excused
      BY <3>1, <3>2, <3>3, Families
    <3> QED
      BY <2>b, <3>4
  <2>6. CASE WriteVoid(c) \/ WritePayout(c) \/ Abort(c)
    BY <2>b, <2>6 DEF WriteVoid, WritePayout, Void, Abort, rows
  <2> QED
    BY <1>4, <2>1, <2>2, <2>3, <2>4, <2>5, <2>6 DEF Writing
<1>5. ASSUME NEW c \in Client, TakesBack(c)
      PROVE  SplitStands'
  <2>1. /\ at[c] \in Line /\ pc[c] \in ToPost /\ pc'[c] \in ToPost /\ UNCHANGED <<at, excused>>
        /\ \A d \in Client \ {c} : pc'[d] = pc[d]
    BY <1>5, TakeBackSteps
  <2>2. ~lines[at[c]].split
    BY <1>b, <2>1 DEF Holds, Holding
  <2>3. UNCHANGED lines \/ /\ lines'[at[c]].split = lines[at[c]].split
                           /\ \A l \in Line \ {at[c]} : lines'[l] = lines[l]
    BY <1>5, TakeBackSteps, HeldWritten
  <2> QED
    BY <1>a, <2>1, <2>2, <2>3, SplitKept
<1>6. CASE UNCHANGED vars
  BY <1>1, <1>6 DEF vars, rows
<1> QED
  BY <1>2, <1>3, <1>4, <1>5, <1>6, Kinds

----------------------------------------------------------------------------
(* The theorems *)

\* The inductive invariant holds however many calls there are, and whatever files,
\* lines, ids, parts and cash.
THEOREM Invariance == Spec => []IInv
<1>1. Init => IInv
  <2> SUFFICES ASSUME Init
               PROVE  IInv
    OBVIOUS
  <2>1. TypeOK
    BY InitTypes
  <2>2. CallsAreTyped
    BY DEF Init, CallsAreTyped, Changing, Restating, Holding, ToPost
  <2>3. \A l \in Line : lines[l] = Absent
    BY DEF Init
  <2>4. Absent.status = "NONE" /\ Absent.money = NoMoney /\ ~Absent.split
    BY DEF Absent, Row
  <2>5. PartsAreWhole
    <3> SUFFICES ASSUME NEW w \in Whole, NEW x \in Parts(w)
                 PROVE  lines[w].split <=> There(x)
      BY DEF PartsAreWhole
    <3>1. w \in Line /\ x \in Line
      BY Families DEF Line
    <3> QED
      BY <2>3, <2>4, <3>1 DEF There
  <2>6. ImportedWhole
    BY DEF Init, ImportedWhole
  <2>7. RowsMeanWhatTheySay /\ SplitStands
    BY <2>3, <2>4 DEF RowsMeanWhatTheySay, SplitStands
  <2>8. PostedAsMatched
    BY <2>3, <2>4 DEF PostedAsMatched, Posted
  <2>9. Undisturbed /\ Apart
    BY DEF Init, Undisturbed, Apart, Changing, Restating, Holding, ToPost
  <2> QED
    BY <2>1, <2>2, <2>5, <2>6, <2>7, <2>8, <2>9 DEF IInv
<1>2. IInv /\ [Next]_vars => IInv'
  <2> SUFFICES ASSUME IInv, [Next]_vars
               PROVE  IInv'
    OBVIOUS
  <2>1. TypeOK' /\ CallsAreTyped'
    BY TypeStep, CallsStep DEF IInv
  <2>2. PartsAreWhole' /\ ImportedWhole' /\ RowsMeanWhatTheySay'
    BY RowsStep DEF IInv
  <2>3. lap' = {} => lap = {} /\ Survived'
    BY SurvivedStep DEF IInv, Survived
  <2>4. lap' = {} => SplitStands'
    BY <2>3, SplitStep DEF IInv, Survived
  <2> QED
    BY <2>1, <2>2, <2>3, <2>4 DEF IInv, Survived
<1> QED
  BY <1>1, <1>2, PTL DEF Spec

\* A line, its parts, the files it comes from and the cash it is posted to agree: no
\* file is without a line that nobody holds, and only what the text of NoDiagnostics
\* names can make a diagnosis of a posted part come up.
THEOREM LinesAlwaysAddUp == Spec => []LinesAddUp
<1>1. IInv => LinesAddUp
  <2> SUFFICES ASSUME IInv
               PROVE  LinesAddUp
    OBVIOUS
  <2>1. PartsOrWhole
    BY DEF IInv, PostedAsMatched, PartsOrWhole, Line
  <2>2. NoDiagnostics
    <3> SUFFICES ASSUME lap = {}, NEW l \in Line
                 PROVE  /\ lines[l].status = "MATCHED" => lines[l].entity # NoMoney
                        /\ lines[l].status = "POSTED" <=> lines[l].money # NoMoney
                        /\ l \notin Whole /\ lines[l].status = "POSTED" =>
                             lines[<<l[1]>>].status = "SPLIT" \/ <<l[1]>> \in excused
      BY DEF NoDiagnostics
    <3>1. PostedAsMatched /\ SplitStands
      BY DEF IInv
    <3>2. ASSUME l \notin Whole, lines[l].status = "POSTED"
          PROVE  lines[<<l[1]>>].status = "SPLIT" \/ <<l[1]>> \in excused
      <4>1. <<l[1]>> \in Whole /\ l \in Parts(<<l[1]>>) /\ <<l[1]>> \in Line
        BY <3>2, PartOf DEF Line
      <4>2. lines[<<l[1]>>].split
        BY <3>2, <4>1 DEF IInv, PartsAreWhole, There
      <4> QED
        BY <3>1, <4>1, <4>2 DEF SplitStands
    <3> QED
      BY <3>1, <3>2 DEF PostedAsMatched
  <2> QED
    BY <2>1, <2>2 DEF IInv, LinesAddUp
<1> QED
  BY <1>1, Invariance, PTL

\* Posting a line that is posted says of it what it has said before.
LEMMA PostedAgain ==
  ASSUME TypeOK, CallsAreTyped, Survived, NEW c \in Client, Posts(c),
         lines[at[c]].status = "POSTED"
  PROVE  lines'[at[c]] = lines[at[c]]
<1> DEFINE row == PostedTo(lines[at[c]], read[c])
<1>1. at[c] \in Line /\ lines[at[c]] \in StatementLine /\ pc[c] \in Holding
  BY HeldWritten, LineTypes
<1>2. read[c] = lines[at[c]].entity
  BY <1>1 DEF Survived, Undisturbed
<1>3. lines[at[c]].money = lines[at[c]].entity
  BY <1>1 DEF Survived, PostedAsMatched, Posted
<1>4. row = lines[at[c]]
  BY <1>1, <1>2, <1>3 DEF StatementLine, PostedTo
<1>5. Update(c, row)
  BY DEF Posts, WritePost, WritePostAnew
<1> HIDE DEF row
<1> QED
  BY <1>1, <1>4, <1>5, Updated

\* A line that is posted stays as it is, through batches and the splits of the line
\* it is part of, until its posting is taken back, of it and of it alone, unless it
\* has overlapped another call.
THEOREM PostedStaysPosted == Spec => OnlyUnposted
<1> DEFINE TakenBack(l) ==
             /\ lines'[l] = Unposted(lines[l])
             /\ \E c \in Client :
                  pc[c] \in {"unpost", "unlink"} /\ at[c] = l /\ pc'[c] # pc[c]
           Stays == \A l \in Line : lap' = {} /\ lines[l].status = "POSTED" =>
             \/ lines'[l] = lines[l]
             \/ /\ lines'[l] = Unposted(lines[l])
                /\ \E c \in Client :
                     pc[c] \in {"unpost", "unlink"} /\ at[c] = l /\ pc'[c] # pc[c]
<1>1. IInv /\ [Next]_vars => Stays
  <2> SUFFICES ASSUME IInv, [Next]_vars, NEW l \in Line, lap' = {}, lines[l].status = "POSTED"
               PROVE  lines'[l] = lines[l] \/ TakenBack(l)
    OBVIOUS
  <2>1. Posted(lines[l])
    BY DEF Posted
  <2>2. TypeOK /\ CallsAreTyped /\ RowsMeanWhatTheySay /\ (lap = {} => Survived)
    BY DEF IInv, Survived
  <2>3. Survived
    BY <2>2, SurvivedStep
  <2>4. CASE UNCHANGED vars
    BY <2>4 DEF vars, rows
  <2>5. CASE BatchIgnore
    BY <2>1, <2>2, <2>3, <2>5, BatchSurvives DEF Quiet
  <2>6. ASSUME NEW c \in Client, Reading(c)
        PROVE  lines'[l] = lines[l]
    BY <2>6, ReadsKeepRows DEF rows
  <2>7. ASSUME NEW c \in Client, Writing(c)
        PROVE  lines'[l] = lines[l] \/ TakenBack(l)
    <3>1. CASE Posts(c) /\ l = at[c]
      BY <2>2, <2>3, <3>1, PostedAgain
    <3>2. CASE WriteUnpost(c) /\ l = at[c]
      <4>1. lines'[l] = Unposted(lines[l])
        BY <2>2, <3>2, HeldWritten, Updated DEF WriteUnpost
      <4>2. pc[c] = "unpost" /\ pc'[c] = "idle"
        BY <2>2, <2>7, <3>2, WritesEnd, Ended DEF WriteUnpost
      <4> QED
        BY <3>2, <4>1, <4>2
    <3>3. CASE (Posts(c) \/ WriteUnpost(c)) /\ l # at[c]
      BY <2>2, <3>3, HeldWritten
    <3>4. CASE ~Posts(c) /\ ~WriteUnpost(c)
      BY <2>1, <2>2, <2>3, <2>7, <3>4, WritesSurvive DEF Quiet
    <3> QED
      BY <3>1, <3>2, <3>3, <3>4
  <2>8. ASSUME NEW c \in Client, TakesBack(c)
        PROVE  lines'[l] = lines[l] \/ TakenBack(l)
    <3>1. \/ UNCHANGED lines
          \/ /\ pc'[c] # pc[c] /\ pc[c] = "unlink"
             /\ lines' = [lines EXCEPT ![at[c]] = Unposted(lines[at[c]])]
      BY <2>2, <2>8, TakeBackSteps
    <3>2. lines \in [Line -> StatementLine]
      BY <2>2, LineTypes
    <3> QED
      BY <3>1, <3>2
  <2> QED
    BY <2>4, <2>5, <2>6, <2>7, <2>8, Kinds
<1>2. [][Stays]_vars => OnlyUnposted
  BY PTL DEF OnlyUnposted
<1> HIDE DEF Stays
<1>3. Spec => [][Stays]_vars
  BY <1>1, Invariance, PTL DEF Spec
<1> QED
  BY <1>2, <1>3

\* Cash is voided under a line that is posted to it with the payout of that line only:
\* what a void has read still holds when it is written, even if calls that post have
\* begun before.
THEOREM ReconciledCashStands == Spec => ReconciledStands
<1> DEFINE Stands == \A m \in Money, l \in Line :
                       /\ lap' = {} /\ cash'[m] # cash[m]
                       /\ lines[l].status = "POSTED" /\ lines[l].money = m
                       => \E c \in Client :
                            pc[c] = "payout" /\ at[c] = m /\ read[c] = l /\ pc'[c] # pc[c]
<1>1. IInv /\ [Next]_vars => Stands
  <2> SUFFICES ASSUME IInv, [Next]_vars, NEW m \in Money, NEW l \in Line, lap' = {},
                      cash'[m] # cash[m], lines[l].status = "POSTED", lines[l].money = m
               PROVE  \E c \in Client :
                        pc[c] = "payout" /\ at[c] = m /\ read[c] = l /\ pc'[c] # pc[c]
    OBVIOUS
  <2>1. TypeOK /\ CallsAreTyped /\ RowsMeanWhatTheySay /\ (lap = {} => Survived)
    BY DEF IInv, Survived
  <2>2. Survived
    BY <2>1, SurvivedStep
  <2>3. PICK c \in Client : WriteVoid(c) \/ WritePayout(c)
    <3>1. ~UNCHANGED cash
      OBVIOUS
    <3>2. PICK c \in Client : Reading(c) \/ Writing(c) \/ TakesBack(c)
      BY <3>1, Kinds DEF vars, rows, BatchIgnore
    <3>3. Writing(c)
      BY <2>1, <3>1, <3>2, ReadsKeepRows, TakeBackSteps DEF rows
    <3> QED
      BY <3>1, <3>3 DEF Writing, Restates, WriteImport, WriteSuggest, WriteConfirm, Posts,
         WritePost, WritePostAnew, WriteUnpost, WriteIgnore, WriteUnignore, WriteSplit,
         WriteUndo, Abort, Update, rows
  <2>4. Void(c) /\ End(c) /\ pc[c] \in {"void", "payout"}
    BY <2>3 DEF WriteVoid, WritePayout, Void
  <2>5. m = at[c]
    BY <2>1, <2>4 DEF Void, TypeOK
  <2>6. pc[c] # "void"
    BY <2>2, <2>5 DEF Survived, Undisturbed, Reconciled
  <2>7. l = read[c]
    BY <2>2, <2>4, <2>5, <2>6 DEF Survived, Undisturbed
  <2>8. pc'[c] = "idle"
    BY <2>1, <2>4, Ended
  <2> QED
    BY <2>4, <2>5, <2>6, <2>7, <2>8
<1>2. [][Stands]_vars => ReconciledStands
  BY PTL DEF ReconciledStands
<1> HIDE DEF Stands
<1>3. Spec => [][Stands]_vars
  BY <1>1, Invariance, PTL DEF Spec
<1> QED
  BY <1>2, <1>3

=============================================================================
