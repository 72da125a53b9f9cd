-------------------------------- MODULE Sched --------------------------------
(***************************************************************************)
(* The scheduler, sleep() and wakeup() of kernel/proc.c, the interrupt     *)
(* bookkeeping of kernel/spinlock.c, and the timer (kernel/trap.c), seen   *)
(* through the system call that uses all of them: sys_sleep() waits on     *)
(* &ticks under tickslock, and the timer interrupt of CPU 0 advances ticks.*)
(*                                                                         *)
(* A CPU runs its scheduler (cur[c] = None), a process, or an interrupt    *)
(* handler on top of either.  Interrupts are taken only where ie[c] holds; *)
(* "spin" is the wait of an acquire() whose push_off() is done.            *)
(***************************************************************************)
EXTENDS Integers, FiniteSets

CONSTANTS
  NCPU, NPROC,
  None,
  SleepTicks,  \* arguments given to sys_sleep()
  MaxTicks     \* bound on ticks: later timer interrupts only preempt

ASSUME SchedAssumption ==
  /\ NCPU \in Nat \ {0} /\ NPROC \in Nat \ {0}
  /\ SleepTicks \subseteq Nat /\ MaxTicks \in Nat
  /\ None \notin Int

CPUs == 0 .. NCPU - 1
Procs == 1 .. NPROC

VARIABLES
  state, sleeping, killed, plock,   \* struct proc; sleeping: chan = &ticks
  ticks, tlock,                     \* ticks and the holder of tickslock
  cur, noff, intena, ie,            \* struct cpu and the interrupt-enable bit
  spc, si, found,                   \* scheduler(): place, slot, found
  h, hi,                            \* timer handler: place, wakeup()'s slot
  pc, trap, saved, ticks0, n,       \* process: place, kerneltrap()'s place, locals
  panicked

procvars == <<state, sleeping, killed, plock>>
cpuvars == <<cur, noff, intena, ie>>
schedvars == <<spc, si, found>>
intrvars == <<h, hi>>
locals == <<pc, trap, saved, ticks0, n>>
vars == <<procvars, ticks, tlock, cpuvars, schedvars, intrvars, locals, panicked>>

\* The process table, struct cpu and the places of schedulers, handlers and
\* processes keep their types; no CPU nests more than two push_off().
TypeOK ==
  /\ state \in [Procs -> {"SLEEPING", "RUNNABLE", "RUNNING"}]
  /\ sleeping \in [Procs -> BOOLEAN] /\ killed \in [Procs -> BOOLEAN]
  /\ plock \in [Procs -> CPUs \cup {None}] /\ tlock \in CPUs \cup {None}
  /\ ticks \in 0 .. MaxTicks
  /\ cur \in [CPUs -> Procs \cup {None}]
  /\ noff \in [CPUs -> 0 .. 2]
  /\ intena \in [CPUs -> BOOLEAN] /\ ie \in [CPUs -> BOOLEAN]
  /\ spc \in [CPUs -> {"loop", "spin", "back", "wfi"}]
  /\ si \in [CPUs -> 1 .. NPROC + 1] /\ found \in [CPUs -> BOOLEAN]
  /\ h \in [CPUs -> {"none", "clock", "scan"}] /\ hi \in [CPUs -> 1 .. NPROC + 1]
  /\ pc \in [Procs -> {"user", "spin", "test", "sleep", "sleep2", "sched", "woken", "reacq",
                        "respin"}]
  /\ trap \in [Procs -> {"none", "yield", "sched", "woken", "ret"}]
  /\ saved \in [Procs -> BOOLEAN]
  /\ ticks0 \in [Procs -> 0 .. MaxTicks] /\ n \in [Procs -> SleepTicks \cup {0}]
  /\ panicked \in BOOLEAN

\* Every process has been forked; no CPU has scheduled one yet.
Init ==
  /\ state = [p \in Procs |-> "RUNNABLE"]
  /\ sleeping = [p \in Procs |-> FALSE] /\ killed = [p \in Procs |-> FALSE]
  /\ plock = [p \in Procs |-> None] /\ tlock = None /\ ticks = 0
  /\ cur = [c \in CPUs |-> None]
  /\ noff = [c \in CPUs |-> 0]
  /\ intena = [c \in CPUs |-> FALSE] /\ ie = [c \in CPUs |-> FALSE]
  /\ spc = [c \in CPUs |-> "loop"] /\ si = [c \in CPUs |-> 1]
  /\ found = [c \in CPUs |-> FALSE]
  /\ h = [c \in CPUs |-> "none"] /\ hi = [c \in CPUs |-> 1]
  /\ pc = [p \in Procs |-> "user"] /\ trap = [p \in Procs |-> "none"]
  /\ saved = [p \in Procs |-> FALSE]
  /\ ticks0 = [p \in Procs |-> 0] /\ n = [p \in Procs |-> 0]
  /\ panicked = FALSE

-----------------------------------------------------------------------------
(***************************************************************************)
(* push_off() and pop_off(), spinlock.c:84-110, on CPU c.                  *)
(***************************************************************************)

push_off(c) ==
  /\ ie' = [ie EXCEPT ![c] = FALSE]
  /\ intena' = IF noff[c] = 0 THEN [intena EXCEPT ![c] = ie[c]] ELSE intena
  /\ noff' = [noff EXCEPT ![c] = @ + 1]

pop_off(c) ==
  /\ noff' = [noff EXCEPT ![c] = @ - 1]
  /\ ie' = [ie EXCEPT ![c] = noff[c] = 1 /\ intena[c]]

\* What CPU c may execute next: a handler runs before what it interrupted.
InScheduler(c, l) == ~panicked /\ h[c] = "none" /\ cur[c] = None /\ spc[c] = l
InProc(c, p, l) ==
  ~panicked /\ h[c] = "none" /\ cur[c] = p /\ trap[p] = "none" /\ pc[p] = l
InTrap(c, p, l) == ~panicked /\ h[c] = "none" /\ cur[c] = p /\ trap[p] = l
InHandler(c, l) == ~panicked /\ h[c] = l

Goto(p, l) == pc' = [pc EXCEPT ![p] = l]

(***************************************************************************)
(* scheduler(), proc.c:449-491.                                            *)
(***************************************************************************)
\* intr_on() at the head of the loop, then push_off() of the next acquire().
sched_next(c) ==
  /\ InScheduler(c, "loop") /\ si[c] <= NPROC
  /\ IF si[c] = 1 /\ ~ie[c]
     THEN /\ ie' = [ie EXCEPT ![c] = TRUE]
          /\ found' = [found EXCEPT ![c] = FALSE]
          /\ UNCHANGED <<noff, intena, spc>>
     ELSE /\ push_off(c)
          /\ spc' = [spc EXCEPT ![c] = "spin"]
          /\ UNCHANGED found
  /\ UNCHANGED <<procvars, ticks, tlock, cur, si, intrvars, locals, panicked>>

\* The lock is free: run the process, or go on to the next one.
sched_try(c) ==
  /\ InScheduler(c, "spin")
  /\ LET p == si[c]
     IN  /\ plock[p] = None
         /\ IF state[p] = "RUNNABLE"
            THEN /\ plock' = [plock EXCEPT ![p] = c]
                 /\ state' = [state EXCEPT ![p] = "RUNNING"]
                 /\ cur' = [cur EXCEPT ![c] = p]
                 /\ spc' = [spc EXCEPT ![c] = "back"]
                 /\ UNCHANGED <<si, noff, ie>>
            ELSE /\ pop_off(c)
                 /\ si' = [si EXCEPT ![c] = @ + 1]
                 /\ spc' = [spc EXCEPT ![c] = "loop"]
                 /\ UNCHANGED <<plock, state, cur>>
  /\ UNCHANGED <<sleeping, killed, ticks, tlock, intena, found, intrvars, locals, panicked>>

\* Back from swtch(): release(&p->lock) for the process that switched here.
sched_back(c) ==
  /\ InScheduler(c, "back")
  /\ plock' = [plock EXCEPT ![si[c]] = None]
  /\ pop_off(c)
  /\ found' = [found EXCEPT ![c] = TRUE]
  /\ si' = [si EXCEPT ![c] = @ + 1]
  /\ spc' = [spc EXCEPT ![c] = "loop"]
  /\ UNCHANGED <<state, sleeping, killed, ticks, tlock, cur, intena, intrvars, locals, panicked>>

\* The end of a scan: wfi, with interrupts on, if nothing ran.
sched_end(c) ==
  /\ InScheduler(c, "loop") /\ si[c] = NPROC + 1
  /\ si' = [si EXCEPT ![c] = 1]
  /\ found' = [found EXCEPT ![c] = FALSE]
  /\ IF found[c] THEN UNCHANGED <<spc, ie>>
     ELSE /\ spc' = [spc EXCEPT ![c] = "wfi"]
          /\ ie' = [ie EXCEPT ![c] = TRUE]
  /\ UNCHANGED <<procvars, ticks, tlock, cur, noff, intena, intrvars, locals, panicked>>

(***************************************************************************)
(* sched(), proc.c:493-518: the checks, then swtch() to the scheduler.     *)
(***************************************************************************)
IntenaKept(c, p) == intena[c]      \* the forgotten restore
IntenaRestored(c, p) == saved[p]

sched(c, p) ==
  /\ panicked' = (noff[c] # 1 \/ state[p] = "RUNNING" \/ ie[c] \/ plock[p] # c)
  /\ saved' = [saved EXCEPT ![p] = intena[c]]
  /\ cur' = [cur EXCEPT ![c] = None]

\* The return from sched() on the CPU that resumes p, and release(&p->lock).
resume(c, p) ==
  /\ intena' = [intena EXCEPT ![c] = IntenaRestored(c, p)]
  /\ plock' = [plock EXCEPT ![p] = None]
  /\ noff' = [noff EXCEPT ![c] = @ - 1]
  /\ ie' = [ie EXCEPT ![c] = noff[c] = 1 /\ IntenaRestored(c, p)]

(***************************************************************************)
(* sys_sleep(), sysproc.c:55-74, and sleep(), proc.c:552-584.              *)
(***************************************************************************)
\* A process's first run returns through forkret(), which releases p->lock.
forkret(c, p) ==
  /\ InProc(c, p, "user") /\ plock[p] = c
  /\ plock' = [plock EXCEPT ![p] = None]
  /\ noff' = [noff EXCEPT ![c] = 0]
  /\ ie' = [ie EXCEPT ![c] = TRUE]       \* usertrapret() enters user mode
  /\ UNCHANGED <<state, sleeping, killed, ticks, tlock, cur, intena, schedvars, intrvars,
                 locals, panicked>>

sys_sleep(c, p, k) ==
  /\ InProc(c, p, "user") /\ plock[p] # c
  /\ ~killed[p] /\ ticks + k <= MaxTicks
  /\ push_off(c)
  /\ n' = [n EXCEPT ![p] = k]
  /\ Goto(p, "spin")
  /\ UNCHANGED <<procvars, ticks, tlock, cur, schedvars, intrvars, trap, saved, ticks0, panicked>>

\* acquire(&tickslock), on entry or at the end of sleep().
tickslock(c, p) ==
  /\ tlock = None /\ tlock' = c
  /\ \/ /\ InProc(c, p, "spin")
        /\ ticks0' = [ticks0 EXCEPT ![p] = ticks]
     \/ /\ InProc(c, p, "respin")
        /\ UNCHANGED ticks0
  /\ Goto(p, "test")
  /\ UNCHANGED <<procvars, ticks, cpuvars, schedvars, intrvars, trap, saved, n, panicked>>

MustWait(p) == ticks - ticks0[p] < n[p]

sys_sleep_test(c, p) ==
  /\ InProc(c, p, "test")
  /\ \/ /\ MustWait(p) /\ ~killed[p]
        /\ Goto(p, "sleep")
        /\ UNCHANGED <<tlock, noff, ie>>
     \/ /\ ~MustWait(p) \/ killed[p]
        /\ tlock' = None
        /\ pop_off(c)
        /\ Goto(p, "user")
  /\ UNCHANGED <<procvars, ticks, cur, intena, schedvars, intrvars, trap, saved, ticks0, n,
                 panicked>>

sleep(c, p) ==
  /\ InProc(c, p, "sleep") /\ plock[p] = None
  /\ plock' = [plock EXCEPT ![p] = c]
  /\ push_off(c)
  /\ Goto(p, "sleep2")
  /\ UNCHANGED <<state, sleeping, killed, ticks, tlock, cur, schedvars, intrvars,
                 trap, saved, ticks0, n, panicked>>

sleep_release(c, p) ==
  /\ InProc(c, p, "sleep2")
  /\ tlock' = None
  /\ pop_off(c)
  /\ sleeping' = [sleeping EXCEPT ![p] = TRUE]
  /\ state' = [state EXCEPT ![p] = "SLEEPING"]
  /\ Goto(p, "sched")
  /\ UNCHANGED <<killed, plock, ticks, cur, intena, schedvars, intrvars, trap, saved, ticks0, n,
                 panicked>>

sleep_sched(c, p) ==
  /\ InProc(c, p, "sched")
  /\ sched(c, p)
  /\ Goto(p, "woken")
  /\ UNCHANGED <<procvars, ticks, tlock, noff, intena, ie, schedvars, intrvars, trap, ticks0, n>>

sleep_woken(c, p) ==
  /\ InProc(c, p, "woken")
  /\ resume(c, p)
  /\ sleeping' = [sleeping EXCEPT ![p] = FALSE]
  /\ Goto(p, "reacq")
  /\ UNCHANGED <<state, killed, ticks, tlock, cur, schedvars, intrvars, trap, saved,
                 ticks0, n, panicked>>

sleep_reacquire(c, p) ==
  /\ InProc(c, p, "reacq")
  /\ push_off(c)
  /\ Goto(p, "respin")
  /\ UNCHANGED <<procvars, ticks, tlock, cur, schedvars, intrvars, trap, saved, ticks0, n, panicked>>

\* kill(), proc.c:614-636, from elsewhere: under p->lock.
kill(p) ==
  /\ ~panicked /\ ~killed[p] /\ plock[p] = None
  /\ killed' = [killed EXCEPT ![p] = TRUE]
  /\ state' = [state EXCEPT ![p] = IF @ = "SLEEPING" THEN "RUNNABLE" ELSE @]
  /\ UNCHANGED <<sleeping, plock, ticks, tlock, cpuvars, schedvars, intrvars, locals, panicked>>

(***************************************************************************)
(* The timer interrupt: usertrap() or kerneltrap(), devintr(), clockintr() *)
(* on CPU 0 only (trap.c:131-219), then yield() if a process was running.  *)
(***************************************************************************)
\* Leaving devintr(): the process yields; an idle scheduler leaves wfi.
AfterDevintr(c) ==
  IF cur[c] # None
  THEN trap' = [trap EXCEPT ![cur[c]] = "yield"] /\ ie' = [ie EXCEPT ![c] = FALSE] /\ UNCHANGED spc
  ELSE spc' = [spc EXCEPT ![c] = "loop"] /\ ie' = [ie EXCEPT ![c] = TRUE] /\ UNCHANGED trap

timer(c) ==
  /\ InHandler(c, "none") /\ ie[c]
  /\ IF c = 0
     THEN /\ h' = [h EXCEPT ![c] = "clock"]
          /\ ie' = [ie EXCEPT ![c] = FALSE]
          /\ UNCHANGED <<spc, trap>>
     ELSE AfterDevintr(c) /\ UNCHANGED h
  /\ UNCHANGED <<procvars, ticks, tlock, cur, noff, intena, si, found, hi, pc, saved, ticks0, n,
                 panicked>>

clockintr(c) ==
  /\ InHandler(c, "clock") /\ tlock = None
  /\ tlock' = c
  /\ push_off(c)
  /\ ticks' = IF ticks < MaxTicks THEN ticks + 1 ELSE ticks
  /\ h' = [h EXCEPT ![c] = "scan"]
  /\ hi' = [hi EXCEPT ![c] = 1]
  /\ UNCHANGED <<procvars, cur, schedvars, locals, panicked>>

\* wakeup(&ticks), proc.c:586-600, one process at a time.
AllButLast == NPROC - 1
LastSlot == NPROC

wakeup(c) ==
  /\ InHandler(c, "scan") /\ hi[c] <= LastSlot /\ plock[hi[c]] = None
  /\ state' = [state EXCEPT ![hi[c]] =
                  IF @ = "SLEEPING" /\ sleeping[hi[c]] THEN "RUNNABLE" ELSE @]
  /\ hi' = [hi EXCEPT ![c] = @ + 1]
  /\ UNCHANGED <<sleeping, killed, plock, ticks, tlock, cpuvars, schedvars, h, locals, panicked>>

clockintr_end(c) ==
  /\ InHandler(c, "scan") /\ hi[c] > LastSlot
  /\ tlock' = None
  /\ noff' = [noff EXCEPT ![c] = @ - 1]   \* intena is false: they stay off
  /\ h' = [h EXCEPT ![c] = "none"]
  /\ AfterDevintr(c)
  /\ UNCHANGED <<procvars, ticks, cur, intena, si, found, hi, pc, saved, ticks0, n, panicked>>

\* yield(), proc.c:520-529.
yield(c, p) ==
  /\ InTrap(c, p, "yield") /\ plock[p] = None
  /\ plock' = [plock EXCEPT ![p] = c]
  /\ push_off(c)
  /\ state' = [state EXCEPT ![p] = "RUNNABLE"]
  /\ trap' = [trap EXCEPT ![p] = "sched"]
  /\ UNCHANGED <<sleeping, killed, ticks, tlock, cur, schedvars, intrvars, pc, saved, ticks0, n,
                 panicked>>

yield_sched(c, p) ==
  /\ InTrap(c, p, "sched")
  /\ sched(c, p)
  /\ trap' = [trap EXCEPT ![p] = "woken"]
  /\ UNCHANGED <<procvars, ticks, tlock, noff, intena, ie, schedvars, intrvars, pc, ticks0, n>>

yield_resume(c, p) ==
  /\ InTrap(c, p, "woken")
  /\ resume(c, p)
  /\ trap' = [trap EXCEPT ![p] = "ret"]
  /\ UNCHANGED <<state, sleeping, killed, ticks, tlock, cur, schedvars, intrvars, pc, saved,
                 ticks0, n, panicked>>

\* The return from the trap turns interrupts on again.
trap_return(c, p) ==
  /\ InTrap(c, p, "ret")
  /\ trap' = [trap EXCEPT ![p] = "none"]
  /\ ie' = [ie EXCEPT ![c] = TRUE]
  /\ UNCHANGED <<procvars, ticks, tlock, cur, noff, intena, schedvars, intrvars, pc, saved,
                 ticks0, n, panicked>>

Scheduler(c) == sched_next(c) \/ sched_try(c) \/ sched_back(c) \/ sched_end(c)
Handler(c) == clockintr(c) \/ wakeup(c) \/ clockintr_end(c)
Trap(c, p) == yield(c, p) \/ yield_sched(c, p) \/ yield_resume(c, p) \/ trap_return(c, p)
Body(c, p) ==
  \/ forkret(c, p) \/ tickslock(c, p) \/ sys_sleep_test(c, p) \/ sleep(c, p)
  \/ sleep_release(c, p) \/ sleep_sched(c, p) \/ sleep_woken(c, p) \/ sleep_reacquire(c, p)

Next ==
  \/ \E c \in CPUs : Scheduler(c) \/ timer(c) \/ Handler(c)
  \/ \E c \in CPUs, p \in Procs :
       Trap(c, p) \/ Body(c, p) \/ \E k \in SleepTicks : sys_sleep(c, p, k)
  \/ \E p \in Procs : kill(p)

Spec == Init /\ [][Next]_vars

-----------------------------------------------------------------------------
\* sleep() takes p->lock before it releases tickslock, and wakeup() takes both:
\* whenever tickslock is free, whoever sleeps on ticks still has to wait.
NoLostWakeup ==
  tlock = None =>
    \A p \in Procs : state[p] = "SLEEPING" => sleeping[p] /\ MustWait(p)

\* The CPU is in the while loop of acquire().
Spinning(c) ==
  h[c] = "none" /\ \/ cur[c] = None /\ spc[c] = "spin"
                   \/ cur[c] # None /\ trap[cur[c]] = "none" /\ pc[cur[c]] \in {"spin", "respin"}

\* noff counts the locks the CPU holds, and the one it spins for, also after
\* p->lock has passed from a scheduler to a process or back; interrupts are off as
\* long as there is one, and in a trap handler that yielded and was resumed, on
\* whatever CPU.  So no check of sched() panics, and since p->lock covers every change of
\* state until swtch() has left the process's stack, a process runs on at most one CPU.
LocksCounted ==
  /\ TypeOK
  /\ \A c, d \in CPUs : cur[c] # None /\ cur[c] = cur[d] => c = d
  /\ ~panicked
  /\ \A c \in CPUs :
       /\ noff[c] = Cardinality({p \in Procs : plock[p] = c}) + (IF tlock = c THEN 1 ELSE 0)
                    + (IF Spinning(c) THEN 1 ELSE 0)
       /\ ie[c] => noff[c] = 0 /\ (cur[c] # None => trap[cur[c]] = "none")
=============================================================================
