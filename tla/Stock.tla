-------------------------------- MODULE Stock --------------------------------
(***************************************************************************)
(* What the stock of an item in a warehouse promises to who writes it:     *)
(* each line of a document is carried out once and as a whole, whenever    *)
(* and however often it is requested, and the balance follows.  Inventory, *)
(* where requests read, lock, write and wait statement by statement, is    *)
(* shown to implement it.                                                  *)
(*                                                                         *)
(* Nothing is said about where an issue takes the goods from, and nothing  *)
(* about there being enough: two issues at once can both be told that      *)
(* there is.                                                               *)
(***************************************************************************)
EXTENDS Integers

CONSTANTS
  Income,    \* lines that bring stock in
  Outcome,   \* lines that take stock out
  Qty,       \* quantity of a line
  Initially  \* what there is at first

VARIABLES
  moved,    \* what has been moved for a line
  balance   \* what there is

Init ==
  /\ moved = [l \in Income \cup Outcome |-> 0]
  /\ balance = Initially

\* The line has not been carried out, and is now.
CarryOut(l) ==
  /\ moved[l] = 0
  /\ moved' = [moved EXCEPT ![l] = Qty[l]]

Receive(l) == CarryOut(l) /\ balance' = balance + Qty[l]

Issue(l) == CarryOut(l) /\ balance' = balance - Qty[l]

Next == (\E l \in Income : Receive(l)) \/ (\E l \in Outcome : Issue(l))

Spec == Init /\ [][Next]_<<moved, balance>>
=============================================================================
