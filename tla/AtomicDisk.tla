----------------------------- MODULE AtomicDisk -----------------------------
(***************************************************************************)
(* What kernel/log.c promises to the file system calls above it: a disk    *)
(* with a volatile current state "mem" and a durable state "stable".       *)
(* Operations open, write and close; the durable state only ever jumps to  *)
(* the current state at a moment when no operation is open, so a crash     *)
(* keeps whole operations or nothing of them.                              *)
(***************************************************************************)
CONSTANTS Procs, Blocks, Vals

VARIABLES
  stable,   \* what a restart would find after recovery
  mem,      \* what a reader sees now
  open      \* the processes inside begin_op() .. end_op()

vars == <<stable, mem, open>>

\* Both views give every block contents; only processes are in an operation.
TypeOK ==
  /\ stable \in [Blocks -> Vals]
  /\ mem \in [Blocks -> Vals]
  /\ open \subseteq Procs

Init ==
  /\ stable \in [Blocks -> Vals]
  /\ mem = stable
  /\ open = {}

Begin(p) ==
  /\ p \notin open
  /\ open' = open \cup {p}
  /\ UNCHANGED <<stable, mem>>

Write(p, b, v) ==
  /\ p \in open
  /\ mem' = [mem EXCEPT ![b] = v]
  /\ UNCHANGED <<stable, open>>

End(p) ==
  /\ p \in open
  /\ open' = open \ {p}
  /\ UNCHANGED <<stable, mem>>

Commit ==
  /\ open = {}
  /\ stable' = mem
  /\ UNCHANGED <<mem, open>>

Crash ==
  /\ mem' = stable
  /\ open' = {}
  /\ UNCHANGED stable

Next ==
  \/ \E p \in Procs : Begin(p) \/ End(p) \/ \E b \in Blocks, v \in Vals : Write(p, b, v)
  \/ Commit
  \/ Crash

Spec == Init /\ [][Next]_vars
=============================================================================
