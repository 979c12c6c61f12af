-------------------------------- MODULE Ledger --------------------------------
(***************************************************************************)
(* What the posting runs of a document type promise their readers: per     *)
(* document a ledger of versions 1, 2, 3, ... that is only ever appended   *)
(* to, one request at a time.  PostingRuns, where requests interleave      *)
(* statement by statement, is shown to implement it.                       *)
(*                                                                         *)
(* A request appends the lines of the document, the reversal of a version, *)
(* or both.  Nothing is said about which version a request reverses: a     *)
(* void that has waited may reverse a version that is VOIDED already, and  *)
(* then finds no lines to take back.  It may also miss lines that are      *)
(* posted to an empty version while it is at work, hence "Some" below.     *)
(***************************************************************************)
EXTENDS Integers, Sequences

CONSTANTS
  Doc,    \* documents
  Author  \* requests, as the authors of lines

VARIABLES
  runs,    \* the versions of the documents
  entries  \* their lines

Init == runs = {} /\ entries = {}

VersionsOf(d) == {r.ver : r \in {x \in runs : x.doc = d}}

\* n is the first version that document d does not have yet.
Fresh(d, n) ==
  /\ n \in {1} \cup {v + 1 : v \in VersionsOf(d)}
  /\ \A v \in VersionsOf(d) : v < n

Version(d, n, from) ==
  [doc |-> d, ver |-> n, status |-> "POSTED", rev |-> 0, from |-> from]

Line(d, n, k, a) == [doc |-> d, run |-> n, key |-> k, by |-> a]

\* Version v of d is taken back by version n.
VoidedBy(d, v, n) ==
  {IF r.doc = d /\ r.ver = v THEN [r EXCEPT !.status = "VOIDED", !.rev = n] ELSE r
     : r \in runs}

\* The reversals of lines of version v that have not been reversed yet
Reversals(d, v, n, a) ==
  {Line(d, n, <<v>> \o e.key, a) : e \in
     {x \in entries : x.doc = d /\ x.run = v /\
        ~ \E y \in entries : y.doc = d /\ y.key = <<v>> \o x.key}}

Some(S) == SUBSET S

\* A version is replaced once: no other one names it.
Replaceable(d, v) == v = 0 \/ ~ \E r \in runs : r.doc = d /\ r.from = v

\* The lines of d are posted under a new version; from is the version it
\* replaces, which somebody else has taken back, or 0.
Post(d, n, from, a) ==
  /\ Fresh(d, n) /\ from \in VersionsOf(d) \cup {0} /\ Replaceable(d, from)
  /\ runs' = runs \cup {Version(d, n, from)}
  /\ entries' = entries \cup {Line(d, n, <<n>>, a)}

\* They are posted under a version that was found without lines.
PostUnder(d, n, a) ==
  /\ n \in VersionsOf(d)
  /\ entries' = entries \cup {Line(d, n, <<n>>, a)}
  /\ UNCHANGED runs

Void(d, v, n, a) ==
  /\ Fresh(d, n) /\ v \in VersionsOf(d)
  /\ runs' = VoidedBy(d, v, n) \cup {Version(d, n, 0)}
  /\ \E M \in Some(Reversals(d, v, n, a)) : entries' = entries \cup M

Repost(d, v, n, a) ==
  /\ Fresh(d, n) /\ v \in VersionsOf(d) /\ Replaceable(d, v)
  /\ runs' = VoidedBy(d, v, n) \cup {Version(d, n, 0), Version(d, n + 1, v)}
  /\ \E M \in Some(Reversals(d, v, n, a)) :
       entries' = entries \cup M \cup {Line(d, n + 1, <<n + 1>>, a)}

Next ==
  \E d \in Doc, a \in Author :
    LET V == VersionsOf(d)
    IN  \/ \E n \in V : PostUnder(d, n, a)
        \/ \E n \in {1} \cup {v + 1 : v \in V}, v \in V \cup {0} :
             Post(d, n, v, a) \/ Void(d, v, n, a) \/ Repost(d, v, n, a)

Spec == Init /\ [][Next]_<<runs, entries>>
=============================================================================
