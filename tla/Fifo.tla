-------------------------------- MODULE Fifo ---------------------------------
(***************************************************************************)
(* What a pipe promises: a bounded queue of bytes.  A byte is appended     *)
(* when there is room and removed from the front, one at a time.           *)
(***************************************************************************)
EXTENDS Integers, Sequences

CONSTANTS Bytes, Capacity

VARIABLE q

Init == q = <<>>
Put(b) == Len(q) < Capacity /\ q' = Append(q, b)
Get == q # <<>> /\ q' = Tail(q)
Next == (\E b \in Bytes : Put(b)) \/ Get
Spec == Init /\ [][Next]_q
=============================================================================
