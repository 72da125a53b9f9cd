------------------------------- MODULE MCSched -------------------------------
(***************************************************************************)
(* Instances of Sched and of Trampoline for TLC.  They see the same code   *)
(* at two depths and share no variable: part says which of them moves.     *)
(***************************************************************************)
EXTENDS Sched

CONSTANTS Harts, Users, Vals,
          Mortals     \* processes that exit
VARIABLES part, hart, tf, thread, frame, started, want, fault

T == INSTANCE Trampoline

tvars == <<hart, tf, thread, frame, started, want, fault>>

MCInit == part \in {"Sched", "Trampoline"} /\ Init /\ T!TInit

MCNext ==
  /\ UNCHANGED part
  /\ \/ part = "Sched" /\ Next /\ UNCHANGED tvars
     \/ /\ part = "Trampoline" /\ T!TNext /\ UNCHANGED vars
        /\ \A p \in Users \ Mortals : thread'[p].at # "zombie"

MCSpec == MCInit /\ [][MCNext]_<<part, vars, tvars>>

\* trampoline.S:16-141, kernelvec.S:10-85, trap.c:37-159: a process finds in user mode
\* the registers that it left, kernel code its stack and the hart that it is on, and traps
\* go to the handler that expects them.
RegistersKept == T!RegistersKept
=============================================================================
