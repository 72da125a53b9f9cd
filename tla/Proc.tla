-------------------------------- MODULE Proc ---------------------------------
(***************************************************************************)
(* Process lifecycle, kernel/proc.c: fork, exit, wait, kill, yield and the *)
(* scheduler over the process table, at the granularity of p->lock.        *)
(*                                                                         *)
(* A step runs from one acquire() to the next.  A process that holds a     *)
(* lock while it waits for another (exit: parent's and own; wait: own and  *)
(* a child's) has its locks in `lock'.  Other critical sections are atomic.*)
(* A sleeping or zombie process's lock is released by the scheduler it     *)
(* switched to, in the same step.                                          *)
(*                                                                         *)
(* Slot 0 runs user/init.c: fork a shell, wait() for ever, fork again when *)
(* the shell exits.  Every other process makes any system calls it likes.  *)
(***************************************************************************)
EXTENDS Integers, FiniteSets, Functions

CONSTANTS
  NPROC,        \* slots of proc[]; slot 0 is initproc
  NCPU,
  MaxPid,       \* bound on the pids handed out
  KillTargets,  \* arguments processes give to kill()
  AllocFails,   \* may kalloc() fail in allocproc() and fork()?
  None

ASSUME ProcAssumption ==
  /\ NPROC \in Nat \ {0} /\ NCPU \in Nat \ {0} /\ MaxPid \in Nat \ {0}   \* init has pid 1
  /\ KillTargets \subseteq Nat /\ AllocFails \in BOOLEAN
  /\ None \notin Nat

Slots == 0 .. NPROC - 1
initproc == 0

VARIABLES
  state, parent, pid, killed, chan,   \* fields of struct proc
  lock,      \* who holds p->lock
  pc, i,     \* where a process is, and the slot its scan has reached
  kids, orig, arg,   \* locals: havekids, original_parent, kill()'s pid
  shell,     \* init's local pid: its shell, 0 when it must start one
  nextpid, panicked,
  late,      \* history: zombies that init's last wakeup may have come too early for
  stale      \* history: UNUSED slots that kill() has hit, and the processes born there

vars == <<state, parent, pid, killed, chan, lock, pc, i, kids, orig, arg, shell,
          nextpid, panicked, late, stale>>

\* The process table and the locals of fork, exit, wait, reparent and kill keep
\* their types.
TypeOK ==
  /\ state \in [Slots -> {"UNUSED", "SLEEPING", "RUNNABLE", "RUNNING", "ZOMBIE"}]
  /\ parent \in [Slots -> Slots \cup {None}]
  /\ pid \in [Slots -> 0 .. MaxPid]
  /\ killed \in [Slots -> BOOLEAN]
  /\ chan \in [Slots -> Slots \cup {None}]
  /\ lock \in [Slots -> Slots \cup {None}]
  /\ pc \in [Slots -> {"user", "fork", "kill", "exit_init", "exit_look", "exit_parent",
                       "exit_self", "reparent", "wait", "scan"}]
  /\ i \in [Slots -> 0 .. NPROC]
  /\ kids \in [Slots -> BOOLEAN]
  /\ orig \in [Slots -> Slots \cup {None}]
  /\ arg \in [Slots -> KillTargets \cup {None}]
  /\ shell \in 0 .. MaxPid
  /\ nextpid \in 1 .. MaxPid + 1
  /\ panicked \in BOOLEAN
  /\ late \subseteq Slots /\ stale \subseteq Slots

\* After procinit() and userinit(), proc.c:24-45 and 210-234.
Init ==
  /\ state = [p \in Slots |-> IF p = initproc THEN "RUNNABLE" ELSE "UNUSED"]
  /\ parent = [p \in Slots |-> None]
  /\ pid = [p \in Slots |-> IF p = initproc THEN 1 ELSE 0]
  /\ killed = [p \in Slots |-> FALSE]
  /\ chan = [p \in Slots |-> None]
  /\ lock = [p \in Slots |-> None]
  /\ pc = [p \in Slots |-> "user"]
  /\ i = [p \in Slots |-> 0]
  /\ kids = [p \in Slots |-> FALSE]
  /\ orig = [p \in Slots |-> None]
  /\ arg = [p \in Slots |-> None]
  /\ shell = 0
  /\ nextpid = 2
  /\ panicked = FALSE
  /\ late = {} /\ stale = {}

At(p, l) == ~panicked /\ state[p] = "RUNNING" /\ pc[p] = l
Goto(p, l) == pc' = [pc EXCEPT ![p] = l]
Unlocked(q) == lock[q] = None

-----------------------------------------------------------------------------
\* One visit of scheduler() to a slot, proc.c:449-491, up to the release() that
\* the process does after swtch: none when it resumes inside wait()'s sleep().
schedule(p) ==
  /\ ~panicked
  /\ state[p] = "RUNNABLE" /\ Unlocked(p)
  /\ Cardinality({q \in Slots : state[q] = "RUNNING"}) < NCPU
  /\ state' = [state EXCEPT ![p] = "RUNNING"]
  /\ lock' = IF pc[p] = "scan" THEN [lock EXCEPT ![p] = p] ELSE lock
  /\ chan' = [chan EXCEPT ![p] = None]
  /\ UNCHANGED <<parent, pid, killed, pc, i, kids, orig, arg, shell, nextpid, panicked, late, stale>>

\* yield(), proc.c:520-529: a timer interrupt, only when the process holds no lock.
yield(p) ==
  /\ ~panicked
  /\ state[p] = "RUNNING" /\ p \notin Range(lock) /\ Unlocked(p)
  /\ state' = [state EXCEPT ![p] = "RUNNABLE"]
  /\ UNCHANGED <<parent, pid, killed, chan, lock, pc, i, kids, orig, arg, shell, nextpid, panicked, late, stale>>

(***************************************************************************)
(* usertrap(), trap.c:32-84, and what the process asked for.  A killed     *)
(* process makes no system call, it exits; so does one that faults.  init  *)
(* may only fork its shell and wait.                                       *)
(***************************************************************************)
MayFork(p) == IF p = initproc THEN shell = 0 ELSE TRUE
MayWait(p) == IF p = initproc THEN shell # 0 ELSE TRUE

trap_fork(p) ==
  /\ ~killed[p] /\ MayFork(p) /\ nextpid <= MaxPid
  /\ Goto(p, "fork")
  /\ UNCHANGED <<killed, arg, panicked>>

trap_wait(p) ==
  /\ ~killed[p] /\ MayWait(p)
  /\ Goto(p, "wait")
  /\ UNCHANGED <<killed, arg, panicked>>

trap_kill(p, n) ==
  /\ ~killed[p] /\ p # initproc
  /\ arg' = [arg EXCEPT ![p] = n]
  /\ Goto(p, "kill")
  /\ UNCHANGED <<killed, panicked>>

\* exit() called, forced by killed, or after a fault, which sets killed.
trap_exit(p) ==
  /\ p # initproc
  /\ Goto(p, "exit_init")
  /\ \/ UNCHANGED killed
     \/ killed' = [killed EXCEPT ![p] = TRUE]
  /\ UNCHANGED <<arg, panicked>>

\* panic("init exiting"), proc.c:337.
trap_init_exit(p) ==
  /\ p = initproc /\ killed[p]
  /\ panicked' = TRUE
  /\ UNCHANGED <<pc, killed, arg>>

usertrap(p) ==
  /\ At(p, "user")
  /\ i' = [i EXCEPT ![p] = 0]
  /\ kids' = [kids EXCEPT ![p] = FALSE]
  /\ \/ trap_fork(p) \/ trap_wait(p) \/ trap_exit(p) \/ trap_init_exit(p)
     \/ \E n \in KillTargets : trap_kill(p, n)
  /\ UNCHANGED <<state, parent, pid, chan, lock, orig, shell, nextpid, late, stale>>

(***************************************************************************)
(* fork(), proc.c:256-301, one slot of allocproc()'s scan at a time.  The  *)
(* rest of fork() runs under the new process's lock.  kalloc() may fail    *)
(* for the trapframe, which leaves the new pid behind (proc.c:107-114), or *)
(* later, when freeproc() clears it.                                       *)
(***************************************************************************)
FirstPid == 2
NewPid == nextpid

\* fork() returns -1: init exits, anyone else goes on.
fork_fails(p) ==
  /\ IF p = initproc THEN panicked' = TRUE /\ UNCHANGED pc
                     ELSE Goto(p, "user") /\ UNCHANGED panicked
  /\ UNCHANGED <<state, parent, shell>>

\* The three outcomes in an UNUSED slot: a new process, a pid left behind, a slot freed again.
fork_born(p, np) ==
  /\ state' = [state EXCEPT ![np] = "RUNNABLE"]
  /\ parent' = [parent EXCEPT ![np] = p]
  /\ pid' = [pid EXCEPT ![np] = NewPid]
  /\ shell' = IF p = initproc THEN NewPid ELSE shell
  /\ Goto(p, "user")
  /\ UNCHANGED <<killed, stale, panicked>>

fork_leaves_pid(p, np) ==
  /\ AllocFails
  /\ pid' = [pid EXCEPT ![np] = NewPid]
  /\ UNCHANGED <<killed, stale>>
  /\ fork_fails(p)

fork_frees(p, np) ==
  /\ AllocFails
  /\ pid' = [pid EXCEPT ![np] = 0]
  /\ killed' = [killed EXCEPT ![np] = FALSE]
  /\ stale' = stale \ {np}
  /\ fork_fails(p)

fork_take(p, np) ==
  /\ state[np] = "UNUSED" /\ nextpid <= MaxPid
  /\ nextpid' = nextpid + 1
  /\ UNCHANGED i
  /\ fork_born(p, np) \/ fork_leaves_pid(p, np) \/ fork_frees(p, np)

fork_next(p) ==
  /\ state[i[p]] # "UNUSED"
  /\ i' = [i EXCEPT ![p] = @ + 1]
  /\ UNCHANGED <<state, parent, pid, killed, pc, shell, nextpid, panicked, stale>>

fork_full(p) ==
  /\ i[p] = NPROC
  /\ fork_fails(p)
  /\ UNCHANGED <<pid, killed, i, nextpid, stale>>

fork(p) ==
  /\ At(p, "fork")
  /\ \/ i[p] < NPROC /\ Unlocked(i[p]) /\ (fork_take(p, i[p]) \/ fork_next(p))
     \/ fork_full(p)
  /\ UNCHANGED <<chan, lock, kids, orig, arg, late>>

\* kill(), proc.c:614-636, one slot at a time.
kill_hit(p, q) ==
  /\ Unlocked(q) /\ pid[q] = arg[p]
  /\ killed' = [killed EXCEPT ![q] = TRUE]
  /\ state' = [state EXCEPT ![q] = IF @ = "SLEEPING" THEN "RUNNABLE" ELSE @]
  /\ stale' = IF state[q] = "UNUSED" THEN stale \union {q} ELSE stale
  /\ Goto(p, "user")
  /\ UNCHANGED i

kill_next(p) ==
  /\ Unlocked(i[p]) /\ pid[i[p]] # arg[p]
  /\ i' = [i EXCEPT ![p] = @ + 1]
  /\ UNCHANGED <<killed, state, pc, stale>>

kill_fails(p) ==
  /\ Goto(p, "user")
  /\ UNCHANGED <<killed, state, i, stale>>

kill(p) ==
  /\ At(p, "kill")
  /\ \/ i[p] < NPROC /\ (kill_hit(p, i[p]) \/ kill_next(p))
     \/ i[p] = NPROC /\ kill_fails(p)
  /\ UNCHANGED <<parent, pid, chan, lock, kids, orig, arg, shell, nextpid, panicked, late>>

(***************************************************************************)
(* exit(), proc.c:329-393, and reparent(), 303-327.                        *)
(***************************************************************************)
\* wakeup1(), proc.c:602-612.
Woken1(q) == IF chan[q] = q /\ state[q] = "SLEEPING" THEN "RUNNABLE" ELSE state[q]

exit_init(p) ==
  /\ At(p, "exit_init")
  /\ Unlocked(initproc)
  /\ state' = [state EXCEPT ![initproc] = Woken1(initproc)]
  /\ Goto(p, "exit_look")
  /\ UNCHANGED <<parent, pid, killed, chan, lock, i, kids, orig, arg, shell, nextpid, panicked, late, stale>>

exit_look(p) ==
  /\ At(p, "exit_look")
  /\ Unlocked(p)
  /\ orig' = [orig EXCEPT ![p] = parent[p]]
  /\ Goto(p, "exit_parent")
  /\ UNCHANGED <<state, parent, pid, killed, chan, lock, i, kids, arg, shell, nextpid, panicked, late, stale>>

\* The parent-then-child rule: the parent's lock first.
ChildFirst(p) == <<p, orig[p]>>
LockOrder(p) == <<orig[p], p>>

exit_parent(p) ==
  /\ At(p, "exit_parent")
  /\ Unlocked(LockOrder(p)[1])
  /\ lock' = [lock EXCEPT ![LockOrder(p)[1]] = p]
  /\ Goto(p, "exit_self")
  /\ UNCHANGED <<state, parent, pid, killed, chan, i, kids, orig, arg, shell, nextpid, panicked, late, stale>>

exit_self(p) ==
  /\ At(p, "exit_self")
  /\ Unlocked(LockOrder(p)[2])
  /\ lock' = [lock EXCEPT ![LockOrder(p)[2]] = p]
  /\ i' = [i EXCEPT ![p] = 0]
  /\ Goto(p, "reparent")
  /\ UNCHANGED <<state, parent, pid, killed, chan, kids, orig, arg, shell, nextpid, panicked, late, stale>>

ParentAfterExit(p) == initproc

reparent(p) ==
  /\ At(p, "reparent")
  /\ i[p] < NPROC
  /\ parent[i[p]] = p => Unlocked(i[p])
  /\ parent' = IF parent[i[p]] = p THEN [parent EXCEPT ![i[p]] = ParentAfterExit(p)] ELSE parent
  /\ late' = IF parent[i[p]] = p /\ state[i[p]] = "ZOMBIE" THEN late \union {i[p]} ELSE late
  /\ i' = [i EXCEPT ![p] = @ + 1]
  /\ UNCHANGED <<state, pid, killed, chan, lock, pc, kids, orig, arg, shell, nextpid, panicked,
                 stale>>

\* wakeup1(original_parent), ZOMBIE, the releases and sched().
exit_zombie(p) ==
  /\ At(p, "reparent")
  /\ i[p] = NPROC
  /\ state' = [state EXCEPT ![orig[p]] = Woken1(orig[p]), ![p] = "ZOMBIE"]
  /\ lock' = [lock EXCEPT ![orig[p]] = None, ![p] = None]
  /\ late' = IF parent[p] # orig[p] THEN late \union {p} ELSE late
  /\ UNCHANGED <<parent, pid, killed, chan, pc, i, kids, orig, arg, shell, nextpid, panicked,
                 stale>>

(***************************************************************************)
(* wait(), proc.c:395-447.  p->lock is held from wait_lock to wait_end.    *)
(***************************************************************************)
wait_lock(p) ==
  /\ At(p, "wait")
  /\ Unlocked(p)
  /\ lock' = [lock EXCEPT ![p] = p]
  /\ Goto(p, "scan")
  /\ UNCHANGED <<state, parent, pid, killed, chan, i, kids, orig, arg, shell, nextpid, panicked, late, stale>>

KilledKept(np) == killed[np]
KilledAfterFree(np) == FALSE

\* freeproc(np), proc.c:133-153, and return; the copyout of the exit status may
\* fail, and then wait returns -1 and the zombie stays.
reap_frees(p, np) ==
  /\ state' = [state EXCEPT ![np] = "UNUSED"]
  /\ parent' = [parent EXCEPT ![np] = None]
  /\ pid' = [pid EXCEPT ![np] = 0]
  /\ killed' = [killed EXCEPT ![np] = KilledAfterFree(np)]
  /\ chan' = [chan EXCEPT ![np] = None]
  /\ pc' = [pc EXCEPT ![np] = "user", ![p] = "user"]
  /\ orig' = [orig EXCEPT ![np] = None]
  /\ arg' = [arg EXCEPT ![np] = None]
  /\ kids' = [kids EXCEPT ![np] = FALSE]
  /\ i' = [i EXCEPT ![np] = 0]
  /\ shell' = IF p = initproc /\ pid[np] = shell THEN 0 ELSE shell
  /\ late' = late \ {np} /\ stale' = stale \ {np}

reap_fails(p) ==
  /\ p # initproc    \* init passes address 0
  /\ Goto(p, "user")
  /\ UNCHANGED <<state, parent, pid, killed, chan, orig, arg, kids, i, shell, late, stale>>

wait_reap(p) ==
  /\ At(p, "scan") /\ i[p] < NPROC
  /\ parent[i[p]] = p /\ Unlocked(i[p]) /\ state[i[p]] = "ZOMBIE"
  /\ reap_frees(p, i[p]) \/ reap_fails(p)
  /\ lock' = [lock EXCEPT ![p] = None]
  /\ UNCHANGED <<nextpid, panicked>>

wait_next(p) ==
  /\ At(p, "scan") /\ i[p] < NPROC
  /\ \/ parent[i[p]] # p /\ UNCHANGED kids
     \/ /\ parent[i[p]] = p /\ Unlocked(i[p]) /\ state[i[p]] # "ZOMBIE"
        /\ kids' = [kids EXCEPT ![p] = TRUE]
  /\ i' = [i EXCEPT ![p] = @ + 1]
  /\ UNCHANGED <<state, parent, pid, killed, chan, lock, pc, orig, arg, shell, nextpid, panicked, late, stale>>

IgnoresKill(p) == ~kids[p]
GivesUp(p) == ~kids[p] \/ killed[p]

wait_fails(p) ==
  /\ GivesUp(p)
  /\ Goto(p, "user")    \* init never gets here unless killed, and then exits
  /\ UNCHANGED <<state, chan, i, kids>>

\* sleep(p, &p->lock); the loop starts again.
wait_sleeps(p) ==
  /\ ~GivesUp(p)
  /\ state' = [state EXCEPT ![p] = "SLEEPING"]
  /\ chan' = [chan EXCEPT ![p] = p]
  /\ i' = [i EXCEPT ![p] = 0]
  /\ kids' = [kids EXCEPT ![p] = FALSE]
  /\ UNCHANGED pc

wait_end(p) ==
  /\ At(p, "scan") /\ i[p] = NPROC
  /\ lock' = [lock EXCEPT ![p] = None]
  /\ wait_fails(p) \/ wait_sleeps(p)
  /\ UNCHANGED <<parent, pid, killed, orig, arg, shell, nextpid, panicked, late, stale>>

Kernel(p) ==
  \/ fork(p) \/ kill(p) \/ exit_init(p) \/ exit_look(p) \/ exit_parent(p) \/ exit_self(p)
  \/ reparent(p) \/ exit_zombie(p) \/ wait_lock(p) \/ wait_reap(p) \/ wait_next(p) \/ wait_end(p)

Next == \E p \in Slots : schedule(p) \/ yield(p) \/ usertrap(p) \/ Kernel(p)

Spec == Init /\ [][Next]_vars

-----------------------------------------------------------------------------
Live(p) == state[p] # "UNUSED"

\* The lock a process needs for its next step, if any.
Wants(p) ==
  IF state[p] # "RUNNING" THEN None
  ELSE CASE pc[p] \in {"fork", "kill"} /\ i[p] < NPROC -> i[p]
         [] pc[p] = "exit_init" -> initproc
         [] pc[p] = "exit_parent" -> LockOrder(p)[1]
         [] pc[p] = "exit_self" -> LockOrder(p)[2]
         [] pc[p] \in {"exit_look", "wait"} -> p
         [] pc[p] \in {"reparent", "scan"} /\ i[p] < NPROC /\ parent[i[p]] = p -> i[p]
         [] OTHER -> None

\* Everyone in S spins for a lock that someone in S holds.
Stuck(S) == \A p \in S : Wants(p) # None /\ lock[Wants(p)] \in S

\* In exit() with the lock of a parent that has given p away since p looked it up.
Stray(p) == pc[p] \in {"exit_self", "reparent"} /\ parent[p] # orig[p]

\* proc.c:303-393, 395-447: as long as whoever is in exit() has locked the parent that it
\* still has, fork, kill, exit, reparent and wait take p->locks in an order that closes no
\* cycle.
NoLockCycle ==
  \A S \in (SUBSET Slots) \ {{}} : (\A p \in S : ~Stray(p)) => ~Stuck(S)

\* proc.c:363-368, of an exit() whose parent gives it away: "the result will be a harmless
\* spurious wakeup to a dead or wrong process".
SpuriousIsHarmless == \A S \in (SUBSET Slots) \ {{}} : ~Stuck(S)

\* No two processes have the same pid (allocpid), and a process's parent is neither
\* free nor dead: whoever exits has handed all its children to init in reparent(),
\* and init never exits.
TableSound ==
  /\ TypeOK
  /\ \A p, q \in Slots : Live(p) /\ Live(q) /\ pid[p] = pid[q] => p = q
  /\ \A p \in Slots \ {initproc} :
       Live(p) => parent[p] # None /\ state[parent[p]] \notin {"UNUSED", "ZOMBIE"}

\* proc.c:355-376, 404-445, 620-626: nobody sleeps in wait() while there is something to
\* wake up for, be it a kill or a child that has ended.  Only init may: for a zombie that
\* reparent() gave it after the wakeup meant for it, and for one that was in exit() when
\* its parent gave it away, and woke that parent instead.
NoMissedEvent ==
  \A p \in Slots : state[p] = "SLEEPING" =>
    /\ ~killed[p]
    /\ \A q \in Slots : parent[q] = p /\ state[q] = "ZOMBIE" => p = initproc /\ q \in late

\* proc.c:109-113, 133-153, 614-636: a slot's killed flag is about the process that is in
\* it now: whoever is killed has a pid that somebody gives to kill(), or is in exit(), or
\* was born in a slot that kill() had hit while it was free.  kill() does not look at the
\* state of a slot, and finds there the pid 0 that kill(0) asks for, or a pid that a failed
\* allocproc() has left; without these two calls nobody dies for a flag of the slot's.
KillsTheNamed ==
  \A p \in Slots : Live(p) /\ killed[p] /\ pc[p] \in {"user", "fork", "kill", "wait", "scan"} =>
    pid[p] \in KillTargets \/ (p \in stale /\ (0 \in KillTargets \/ AllocFails))
=============================================================================
