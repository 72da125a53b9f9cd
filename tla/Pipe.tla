-------------------------------- MODULE Pipe ---------------------------------
(***************************************************************************)
(* kernel/pipe.c: one pipe, its writers and readers, and the closing of    *)
(* its two ends.  pi->lock is explicit and held from acquire() to sleep()  *)
(* or release(); inside it every loop iteration is a step, so kill(), which*)
(* does not take pi->lock, can happen between any two.                     *)
(*                                                                         *)
(* An end is closed when the last file descriptor for it goes (file.c), so *)
(* never while a process is in a system call that uses it.                 *)
(***************************************************************************)
EXTENDS Integers, Sequences, FiniteSets

CONSTANTS
  Writers, Readers, None,
  PIPESIZE,
  CtrMod,     \* 2^32 in the code: nread and nwrite are uint
  MaxN        \* largest count given to read() and write()

ASSUME PipeAssumption ==
  /\ PIPESIZE \in Nat \ {0} /\ MaxN \in Nat
  /\ CtrMod \in Nat /\ CtrMod % PIPESIZE = 0 /\ CtrMod > PIPESIZE
  /\ Writers \cap Readers = {} /\ None \notin Writers \cup Readers

Procs == Writers \cup Readers
Bytes == Writers   \* a byte is known by who wrote it

VARIABLES
  data, nread, nwrite, readopen, writeopen, lock,   \* struct pipe
  freed,             \* kfree(pi) was called
  pc, killed,
  left,              \* n - i of the call a process is in, 0 outside
  silent             \* history: a killed writer has returned from a full pipe, and
                     \* nobody has woken the readers since

pipevars == <<data, nread, nwrite, readopen, writeopen, freed>>
vars == <<pipevars, lock, pc, left, killed, silent>>

WriteCall == {"w_acquire", "w_loop", "w_sleep", "w_asleep", "w_reacquire"}
ReadCall == {"r_acquire", "r_test", "r_sleep", "r_asleep", "r_loop"}

\* struct pipe and the locals of pipewrite() and piperead() keep their types.
TypeOK ==
  /\ data \in [0 .. PIPESIZE - 1 -> Bytes]
  /\ nread \in 0 .. CtrMod - 1 /\ nwrite \in 0 .. CtrMod - 1
  /\ readopen \in BOOLEAN /\ writeopen \in BOOLEAN /\ freed \in BOOLEAN
  /\ lock \in Procs \cup {None}
  /\ pc \in [Procs -> {"idle"} \cup WriteCall \cup ReadCall]
  /\ left \in [Procs -> 0 .. MaxN]
  /\ killed \in [Procs -> BOOLEAN] /\ silent \in BOOLEAN

\* pipealloc(), pipe.c:22-56; kalloc() leaves junk in data.
Init ==
  /\ \E b \in Bytes : data = [k \in 0 .. PIPESIZE - 1 |-> b]
  /\ nread = 0 /\ nwrite = 0
  /\ readopen = TRUE /\ writeopen = TRUE /\ freed = FALSE
  /\ lock = None
  /\ pc = [p \in Procs |-> "idle"]
  /\ left = [p \in Procs |-> 0]
  /\ killed = [p \in Procs |-> FALSE] /\ silent = FALSE

Empty == nread = nwrite
FullSigned == nwrite = nread + PIPESIZE
Full == nwrite = (nread + PIPESIZE) % CtrMod

Goto(p, l) == pc' = [pc EXCEPT ![p] = l]

\* The end of a call.  A killed process exits; another one takes its place.
Returns(p) ==
  /\ lock' = None
  /\ left' = [left EXCEPT ![p] = 0]
  /\ killed' = [killed EXCEPT ![p] = FALSE]

\* wakeup(&pi->nread) and wakeup(&pi->nwrite): f is pc with the caller moved on.
ReadersLeft(f) == f
ReadersWoken(f) ==
  [p \in Procs |-> IF f[p] = "r_asleep" THEN "r_acquire" ELSE f[p]]
WritersWoken(f) ==
  [p \in Procs |-> IF f[p] = "w_asleep" THEN "w_reacquire" ELSE f[p]]

-----------------------------------------------------------------------------
(***************************************************************************)
(* pipewrite(), pipe.c:76-100.                                             *)
(***************************************************************************)
pipewrite(p, k) ==
  /\ pc[p] = "idle" /\ writeopen
  /\ left' = [left EXCEPT ![p] = k]
  /\ Goto(p, "w_acquire")
  /\ UNCHANGED <<pipevars, lock, killed, silent>>

write_acquire(p) ==
  /\ pc[p] \in {"w_acquire", "w_reacquire"} /\ lock = None
  /\ lock' = p
  /\ Goto(p, "w_loop")
  /\ UNCHANGED <<pipevars, left, killed, silent>>

write_full(p) ==
  /\ pc[p] = "w_loop" /\ left[p] > 0 /\ Full
  /\ \/ /\ ~readopen \/ killed[p]      \* return -1
        /\ Returns(p)
        /\ Goto(p, "idle")
        /\ silent' = TRUE
     \/ /\ readopen /\ ~killed[p]
        /\ pc' = ReadersWoken([pc EXCEPT ![p] = "w_sleep"])
        /\ silent' = FALSE
        /\ UNCHANGED <<lock, left, killed>>
  /\ UNCHANGED pipevars

\* sleep(&pi->nwrite, &pi->lock).
write_sleep(p) ==
  /\ pc[p] = "w_sleep"
  /\ lock' = None
  /\ Goto(p, "w_asleep")
  /\ UNCHANGED <<pipevars, left, killed, silent>>

Next1(k) == (k + 1) % CtrMod

write_byte(p) ==
  /\ pc[p] = "w_loop" /\ left[p] > 0 /\ ~Full
  /\ data' = [data EXCEPT ![nwrite % PIPESIZE] = p]
  /\ nwrite' = Next1(nwrite)
  /\ left' = [left EXCEPT ![p] = @ - 1]
  /\ UNCHANGED <<nread, readopen, writeopen, freed, lock, pc, killed, silent>>

\* The loop ends, or copyin() fails and breaks out of it.
write_done(p) ==
  /\ pc[p] = "w_loop" /\ (left[p] = 0 \/ ~Full)
  /\ pc' = ReadersWoken([pc EXCEPT ![p] = "idle"])
  /\ silent' = FALSE
  /\ Returns(p)
  /\ UNCHANGED pipevars

(***************************************************************************)
(* piperead(), pipe.c:102-127.                                             *)
(***************************************************************************)
piperead(p, k) ==
  /\ pc[p] = "idle" /\ readopen
  /\ left' = [left EXCEPT ![p] = k]
  /\ Goto(p, "r_acquire")
  /\ UNCHANGED <<pipevars, lock, killed, silent>>

read_acquire(p) ==
  /\ pc[p] = "r_acquire" /\ lock = None
  /\ lock' = p
  /\ Goto(p, "r_test")
  /\ UNCHANGED <<pipevars, left, killed, silent>>

ReadWaits == Empty /\ writeopen

read_test(p) ==
  /\ pc[p] = "r_test"
  /\ \/ /\ ReadWaits /\ killed[p]      \* return -1
        /\ Returns(p)
        /\ Goto(p, "idle")
     \/ /\ ReadWaits /\ ~killed[p]
        /\ Goto(p, "r_sleep")
        /\ UNCHANGED <<lock, left, killed>>
     \/ /\ ~ReadWaits
        /\ Goto(p, "r_loop")
        /\ UNCHANGED <<lock, left, killed>>
  /\ UNCHANGED <<pipevars, silent>>

\* sleep(&pi->nread, &pi->lock).
read_sleep(p) ==
  /\ pc[p] = "r_sleep"
  /\ lock' = None
  /\ Goto(p, "r_asleep")
  /\ UNCHANGED <<pipevars, left, killed, silent>>

read_byte(p) ==
  /\ pc[p] = "r_loop" /\ left[p] > 0 /\ ~Empty
  /\ nread' = Next1(nread)
  /\ \/ /\ left' = [left EXCEPT ![p] = @ - 1]
        /\ UNCHANGED <<lock, pc, killed>>
     \/ /\ pc' = WritersWoken([pc EXCEPT ![p] = "idle"])   \* copyout() fails
        /\ Returns(p)
  /\ UNCHANGED <<data, nwrite, readopen, writeopen, freed, silent>>

read_done(p) ==
  /\ pc[p] = "r_loop" /\ (left[p] = 0 \/ Empty)
  /\ pc' = WritersWoken([pc EXCEPT ![p] = "idle"])
  /\ Returns(p)
  /\ UNCHANGED <<pipevars, silent>>

(***************************************************************************)
(* pipeclose(), pipe.c:58-74, when the last descriptor of an end goes.     *)
(***************************************************************************)
LastEnd(otheropen) == ~otheropen

close_write ==
  /\ writeopen /\ \A p \in Writers : pc[p] = "idle"
  /\ lock = None
  /\ writeopen' = FALSE
  /\ pc' = ReadersWoken(pc)
  /\ silent' = FALSE
  /\ freed' = LastEnd(readopen)
  /\ UNCHANGED <<data, nread, nwrite, readopen, lock, left, killed>>

close_read ==
  /\ readopen /\ \A p \in Readers : pc[p] = "idle"
  /\ lock = None
  /\ readopen' = FALSE
  /\ pc' = WritersWoken(pc)
  /\ freed' = LastEnd(writeopen)
  /\ UNCHANGED <<data, nread, nwrite, writeopen, lock, left, killed, silent>>

\* kill(), proc.c:614-636: marks the process, and wakes it if it sleeps.
kill(p) ==
  /\ pc[p] # "idle" /\ ~killed[p]
  /\ killed' = [killed EXCEPT ![p] = TRUE]
  /\ pc' = [pc EXCEPT ![p] = CASE @ = "r_asleep" -> "r_acquire"
                               [] @ = "w_asleep" -> "w_reacquire"
                               [] OTHER -> @]
  /\ UNCHANGED <<pipevars, lock, left, silent>>

WriteStep(p) ==
  write_acquire(p) \/ write_full(p) \/ write_sleep(p) \/ write_byte(p) \/ write_done(p)
ReadStep(p) ==
  read_acquire(p) \/ read_test(p) \/ read_sleep(p) \/ read_byte(p) \/ read_done(p)

Next ==
  \/ \E p \in Writers : WriteStep(p) \/ \E k \in 0 .. MaxN : pipewrite(p, k)
  \/ \E p \in Readers : ReadStep(p) \/ \E k \in 0 .. MaxN : piperead(p, k)
  \/ close_write \/ close_read
  \/ \E p \in Procs : kill(p)

Spec == Init /\ [][Next]_vars

-----------------------------------------------------------------------------
\* The bytes in the pipe, oldest first.
Contents ==
  [k \in 1 .. (nwrite - nread) % CtrMod |-> data[(nread + k - 1) % PIPESIZE]]

\* The ring buffer with its two wrapping counters is a bounded queue: nothing is
\* lost, repeated, reordered or overwritten, also when the counters wrap.
F == INSTANCE Fifo WITH Capacity <- PIPESIZE, q <- Contents
\* Every step of pipewrite() and piperead() puts one byte, takes one byte, or
\* leaves the queue alone.
IsFifo == F!Spec

\* Whenever the lock is free, a reader sleeps only on an empty pipe that can
\* still be written, and a writer only on a full pipe that can still be read: the
\* wakeups of pipewrite, piperead and pipeclose are not lost.  Only a killed writer
\* that returns from a full pipe (pipe.c:86-89) leaves readers asleep beside data,
\* until the next writer or the close.  Nobody is in a call once pipeclose() has
\* freed the page.
NoLostWakeup ==
  /\ TypeOK
  /\ lock = None =>
       /\ (\E p \in Readers : pc[p] = "r_asleep") => (Empty \/ silent) /\ writeopen
       /\ (\E p \in Writers : pc[p] = "w_asleep") => Full /\ readopen
  /\ freed => lock = None /\ \A p \in Procs : pc[p] = "idle"
=============================================================================
