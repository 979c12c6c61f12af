--------------------------- MODULE MCStatementLines ---------------------------
(* Instances of StatementLines for TLC. *)
EXTENDS StatementLines, TLC

CONSTANTS k1, k2, i1, f1, f2

\* One file gives a line an id, the other one repeats the line without, and gives
\* its id to another line.
MCContent == (f1 :> {<<k1, i1>>}) @@ (f2 :> {<<k2, i1>>, <<k1, NoId>>})

Symmetry == Permutations(Client) \cup Permutations(Part) \cup Permutations(Money)

\* What happens after an overlap that is not survived is of no interest.  The line k2
\* is only there to hold an id, and k1 is worked on without it and when all
\* files are imported.  Suggestions are followed for the line only: a part with
\* one is like a part without.
Relevant ==
  /\ lap = {}
  /\ lines[<<k2>>].status \in {"NONE", "NEW"}
  /\ \A l \in Line \ Whole : ~lines[l].hint
  /\ There(<<k2>>) \/ statements # File =>
       /\ \A c \in Client : pc[c] \in {"idle", "import"}
       /\ lines[<<k1>>] \in {Absent} \cup {[Row("NEW") EXCEPT !.ext = i] : i \in {i1, NoId}}
=============================================================================
