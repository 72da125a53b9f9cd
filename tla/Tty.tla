--------------------------------- MODULE Tty ---------------------------------
(***************************************************************************)
(* What console input promises: typed characters collect in a line that    *)
(* can still be edited; a finished line joins the queue that read() takes  *)
(* from, and is never edited again.                                        *)
(***************************************************************************)
EXTENDS Integers, Sequences

CONSTANTS Stored, Ends, Capacity

VARIABLES line, q

tty == <<line, q>>

Init == line = <<>> /\ q = <<>>

\* A line is finished by one of Ends, or because there is no room for more.
Type(c) ==
  /\ Len(q) + Len(line) < Capacity
  /\ LET l == Append(line, c)
     IN  IF c \in Ends \/ Len(q) + Len(l) = Capacity
         THEN q' = q \o l /\ line' = <<>>
         ELSE line' = l /\ UNCHANGED q

Erase == line # <<>> /\ line' = SubSeq(line, 1, Len(line) - 1) /\ UNCHANGED q
KillLine == line' = <<>> /\ UNCHANGED q
Get == q # <<>> /\ q' = Tail(q) /\ UNCHANGED line

Next == (\E c \in Stored : Type(c)) \/ Erase \/ KillLine \/ Get
Spec == Init /\ [][Next]_tty
=============================================================================
