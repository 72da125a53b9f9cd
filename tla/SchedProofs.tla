---------------------------- MODULE SchedProofs ----------------------------
(***************************************************************************)
(* Proofs about Sched for every number of CPUs and of processes, and every *)
(* sequence of timer interrupts.                                           *)
(***************************************************************************)
EXTENDS Sched, TLAPS

(***************************************************************************)
(* The inductive invariant, in parts.                                      *)
(***************************************************************************)
\* The places at which a process on a CPU holds its own p->lock, and tickslock.
WithLock(p) ==
  \/ trap[p] \in {"sched", "woken"}
  \/ trap[p] = "none" /\ pc[p] \in {"sleep2", "sched", "woken"}
WithTicks(p) == trap[p] = "none" /\ pc[p] \in {"test", "sleep", "sleep2"}
AtSpin(p) == trap[p] = "none" /\ pc[p] \in {"spin", "respin"}

\* Process p is on CPU c, whose scheduler waits in swtch() for it.  It is RUNNING until it
\* is about to call sched().  It holds p->lock there, and when it has just been switched to, for
\* the first time or later.  noff is what these places say, unless a handler is on top:
\* then the process was interrupted where it held nothing.
OnCpu(c, p) ==
  /\ spc[c] = "back" /\ si[c] = p
  /\ h[c] # "none" => trap[p] = "none" /\ pc[p] \in {"user", "reacq"}
  /\ state[p] = IF trap[p] = "sched" THEN "RUNNABLE"
                ELSE IF trap[p] = "none" /\ pc[p] = "sched" THEN "SLEEPING" ELSE "RUNNING"
  /\ WithLock(p) => plock[p] = c
  /\ plock[p] = c => WithLock(p) \/ (trap[p] = "none" /\ pc[p] = "user")
  /\ WithTicks(p) => tlock = c
  /\ tlock = c => WithTicks(p) \/ h[c] = "scan"
  /\ h[c] = "none" => noff[c] = (IF plock[p] = c THEN 1 ELSE 0) + (IF WithTicks(p) THEN 1 ELSE 0)
                                + (IF AtSpin(p) THEN 1 ELSE 0)

\* CPU c is in its scheduler, which holds a process's lock when it comes back from swtch()
\* and is interrupted only where it holds and waits for none.
InIdle(c) ==
  /\ h[c] # "none" => spc[c] \in {"loop", "wfi"}
  /\ spc[c] = "back" => plock[si[c]] = c
  /\ tlock = c => h[c] = "scan"
  /\ h[c] = "none" => noff[c] = IF spc[c] \in {"spin", "back"} THEN 1 ELSE 0

\* CPU c: a slot is one of the table when the scheduler uses it, a handler runs with the locks
\* of the handler only, and interrupts are on only where no lock is held.
CpuInv(c) ==
  /\ cur[c] = None => InIdle(c)
  /\ spc[c] \in {"spin", "back"} => si[c] \in Procs
  /\ h[c] = "clock" => noff[c] = 0
  /\ h[c] = "scan" => noff[c] = 1 /\ tlock = c
  /\ ie[c] => noff[c] = 0

\* CPU c and process p: p->lock is held by the CPU that runs p or has just left it; in a trap
\* interrupts are off, and what sched() will save there is off.
PairInv(c, p) ==
  /\ cur[c] = p => OnCpu(c, p)
  /\ plock[p] = c => spc[c] = "back" /\ si[c] = p /\ h[c] = "none"
  /\ cur[c] = p /\ ie[c] => trap[p] = "none"
  /\ cur[c] = p /\ trap[p] = "sched" => ~intena[c]

\* Process p: on no CPU, it waits where sched() will return or for its first run; a trap
\* interrupts it only where it holds no lock, and restores what it saved, interrupts off.  If it
\* sleeps it has its reason, or a wakeup() is under way that has not come to it; if it is about
\* to, it has its reason.
ProcInv(p) ==
  /\ (\A c \in CPUs : cur[c] # p) =>
       state[p] # "RUNNING" /\ (trap[p] = "woken" \/ (trap[p] = "none" /\ pc[p] \in {"user", "woken"}))
  /\ trap[p] # "none" => pc[p] \in {"user", "reacq"}
  /\ trap[p] = "woken" => ~saved[p]
  /\ state[p] = "SLEEPING" =>
       sleeping[p] /\ (MustWait(p) \/ \E c \in CPUs : h[c] = "scan" /\ hi[c] <= p)
  /\ pc[p] \in {"sleep", "sleep2"} => MustWait(p)

OneCpu == \A c, d \in CPUs : cur[c] # None /\ cur[c] = cur[d] => c = d

SchedInv ==
  /\ TypeOK /\ OneCpu /\ ~panicked
  /\ \A c \in CPUs : CpuInv(c)
  /\ \A c \in CPUs, p \in Procs : PairInv(c, p)
  /\ \A p \in Procs : ProcInv(p)

(***************************************************************************)
(* The branches of the actions that have several, one by one.              *)
(***************************************************************************)
sched_skip(c) ==
  /\ InScheduler(c, "spin") /\ plock[si[c]] = None /\ state[si[c]] # "RUNNABLE"
  /\ pop_off(c)
  /\ si' = [si EXCEPT ![c] = @ + 1]
  /\ spc' = [spc EXCEPT ![c] = "loop"]
  /\ UNCHANGED <<procvars, ticks, tlock, cur, intena, found, intrvars, locals, panicked>>

sched_run(c, p) ==
  /\ InScheduler(c, "spin") /\ si[c] = p /\ plock[p] = None /\ state[p] = "RUNNABLE"
  /\ plock' = [plock EXCEPT ![p] = c]
  /\ state' = [state EXCEPT ![p] = "RUNNING"]
  /\ cur' = [cur EXCEPT ![c] = p]
  /\ spc' = [spc EXCEPT ![c] = "back"]
  /\ UNCHANGED <<sleeping, killed, ticks, tlock, noff, intena, ie, si, found, intrvars, locals,
                 panicked>>

timer_clock(c) ==
  /\ InHandler(c, "none") /\ ie[c]
  /\ h' = [h EXCEPT ![c] = "clock"]
  /\ ie' = [ie EXCEPT ![c] = FALSE]
  /\ UNCHANGED <<procvars, ticks, tlock, cur, noff, intena, schedvars, hi, locals, panicked>>

timer_idle(c) ==
  /\ InHandler(c, "none") /\ ie[c] /\ cur[c] = None
  /\ spc' = [spc EXCEPT ![c] = "loop"]
  /\ ie' = [ie EXCEPT ![c] = TRUE]
  /\ UNCHANGED <<procvars, ticks, tlock, cur, noff, intena, si, found, intrvars, locals, panicked>>

timer_yield(c, p) ==
  /\ InHandler(c, "none") /\ ie[c] /\ cur[c] = p
  /\ trap' = [trap EXCEPT ![p] = "yield"]
  /\ ie' = [ie EXCEPT ![c] = FALSE]
  /\ UNCHANGED <<procvars, ticks, tlock, cur, noff, intena, schedvars, intrvars, pc, saved, ticks0,
                 n, panicked>>

clock_idle(c) ==
  /\ InHandler(c, "scan") /\ hi[c] > LastSlot /\ cur[c] = None
  /\ tlock' = None
  /\ noff' = [noff EXCEPT ![c] = @ - 1]
  /\ h' = [h EXCEPT ![c] = "none"]
  /\ spc' = [spc EXCEPT ![c] = "loop"]
  /\ ie' = [ie EXCEPT ![c] = TRUE]
  /\ UNCHANGED <<procvars, ticks, cur, intena, si, found, hi, locals, panicked>>

clock_yield(c, p) ==
  /\ InHandler(c, "scan") /\ hi[c] > LastSlot /\ cur[c] = p
  /\ tlock' = None
  /\ noff' = [noff EXCEPT ![c] = @ - 1]
  /\ h' = [h EXCEPT ![c] = "none"]
  /\ trap' = [trap EXCEPT ![p] = "yield"]
  /\ ie' = [ie EXCEPT ![c] = FALSE]
  /\ UNCHANGED <<procvars, ticks, cur, intena, schedvars, hi, pc, saved, ticks0, n, panicked>>

sched_on(c) ==
  /\ InScheduler(c, "loop")
  /\ ie' = [ie EXCEPT ![c] = TRUE]
  /\ found' = [found EXCEPT ![c] = FALSE]
  /\ UNCHANGED <<procvars, ticks, tlock, cur, noff, intena, spc, si, intrvars, locals, panicked>>

sched_spin(c) ==
  /\ InScheduler(c, "loop") /\ si[c] \in Procs
  /\ push_off(c)
  /\ spc' = [spc EXCEPT ![c] = "spin"]
  /\ UNCHANGED <<procvars, ticks, tlock, cur, si, found, intrvars, locals, panicked>>

test_sleep(c, p) ==
  /\ InProc(c, p, "test") /\ MustWait(p) /\ Goto(p, "sleep")
  /\ UNCHANGED <<procvars, ticks, tlock, cpuvars, schedvars, intrvars, trap, saved, ticks0, n,
                 panicked>>

test_return(c, p) ==
  /\ InProc(c, p, "test") /\ Goto(p, "user")
  /\ tlock' = None /\ pop_off(c)
  /\ UNCHANGED <<procvars, ticks, cur, intena, schedvars, intrvars, trap, saved, ticks0, n,
                 panicked>>

-----------------------------------------------------------------------------
\* None is neither a slot nor a CPU.
LEMMA Nowhere == None \notin Procs /\ None \notin CPUs
BY SchedAssumption DEF Procs, CPUs

\* The numbers of locks that a CPU counts.
LEMMA LockCounts ==
  /\ 0 + 0 + 0 = 0 /\ 1 + 0 + 0 = 1 /\ 0 + 1 + 0 = 1 /\ 0 + 0 + 1 = 1 /\ 1 + 1 + 0 = 2
  /\ 0 + 1 = 1 /\ 1 + 1 = 2 /\ 1 - 1 = 0 /\ 2 - 1 = 1
  /\ 0 \in 0 .. 2 /\ 1 \in 0 .. 2 /\ 2 \in 0 .. 2 /\ 0 # 1 /\ 0 # 2 /\ 1 # 2
OBVIOUS

\* The slot after one of the table is one that a scan may stand at, and so is the first.
LEMMA NextSlot == 1 \in 1 .. NPROC + 1 /\ \A i \in Procs : i + 1 \in 1 .. NPROC + 1
BY SchedAssumption DEF Procs

\* A wakeup() past the last slot has no slot before it.
LEMMA PastLast == \A i \in 1 .. NPROC + 1 : i > LastSlot => \A q \in Procs : ~(i <= q)
BY SchedAssumption DEF Procs, LastSlot

(***************************************************************************)
(* A step of CPU c that changes nothing of another CPU, and of no process  *)
(* but p, ends with the lock of no other process, and ends no scan early.  *)
(***************************************************************************)
OtherCpus(c) ==
  \A d \in CPUs \ {c} :
    /\ cur'[d] = cur[d] /\ noff'[d] = noff[d] /\ intena'[d] = intena[d] /\ ie'[d] = ie[d]
    /\ spc'[d] = spc[d] /\ si'[d] = si[d] /\ h'[d] = h[d] /\ hi'[d] = hi[d]

OtherLocks(c) ==
  \A d \in CPUs \ {c} :
    /\ tlock' = d <=> tlock = d
    /\ \A q \in Procs : plock'[q] = d <=> plock[q] = d

OtherProcs(c, p) ==
  \A q \in Procs \ {p} :
    /\ state'[q] = state[q] /\ sleeping'[q] = sleeping[q] /\ plock'[q] # c
    /\ pc'[q] = pc[q] /\ trap'[q] = trap[q] /\ saved'[q] = saved[q]
    /\ ticks0'[q] = ticks0[q] /\ n'[q] = n[q]
    /\ h[c] = "scan" /\ hi[c] <= q => h'[c] = "scan" /\ hi'[c] <= q

\* Such a step keeps the invariant if it keeps it for c and for p, when c is with p or in its
\* scheduler, and no other CPU is with p.
LEMMA FrameStep ==
  ASSUME SchedInv, TypeOK', NEW c \in CPUs, NEW p \in Procs \cup {None},
         OtherCpus(c), OtherLocks(c), OtherProcs(c, p), ticks' = ticks, ~panicked',
         cur[c] \in {p, None}, cur'[c] \in {p, None},
         \A d \in CPUs \ {c} : p \in Procs => cur[d] # p,
         CpuInv(c)', p \in Procs => PairInv(c, p)' /\ ProcInv(p)'
  PROVE  SchedInv'
<1>1. OneCpu'
  BY Nowhere DEF SchedInv, OneCpu, OtherCpus
<1>2. ASSUME NEW d \in CPUs \ {c} PROVE CpuInv(d)'
  <2>1. CpuInv(d)
    BY DEF SchedInv
  <2> QED BY <2>1 DEF CpuInv, InIdle, OtherCpus, OtherLocks
<1>3. ASSUME NEW q \in Procs \ {p} PROVE PairInv(c, q)'
  BY <1>3, Nowhere, ZenonT(40) DEF PairInv, OtherProcs
<1>4. ASSUME NEW d \in CPUs \ {c}, p \in Procs PROVE PairInv(d, p)'
  <2>1. PairInv(d, p) /\ cur[d] # p
    BY <1>4, Zenon DEF SchedInv
  <2> QED BY <1>4, <2>1, Zenon DEF PairInv, OtherCpus, OtherLocks
<1>5. ASSUME NEW d \in CPUs \ {c}, NEW q \in Procs \ {p} PROVE PairInv(d, q)'
  <2>1. PairInv(d, q)
    BY DEF SchedInv
  <2>2. (WithLock(q)' <=> WithLock(q)) /\ (WithTicks(q)' <=> WithTicks(q)) /\ (AtSpin(q)' <=> AtSpin(q))
    BY Zenon DEF WithLock, WithTicks, AtSpin, OtherProcs
  <2>3. OnCpu(d, q) => OnCpu(d, q)'
    BY <2>2 DEF OnCpu, OtherCpus, OtherLocks, OtherProcs
  <2> QED BY <2>1, <2>3, Zenon DEF PairInv, OtherCpus, OtherLocks, OtherProcs
<1>6. ASSUME NEW q \in Procs \ {p} PROVE ProcInv(q)'
  <2>1. ProcInv(q)
    BY DEF SchedInv
  <2>2. \A d \in CPUs : cur'[d] # q => cur[d] # q
    BY <1>6, Nowhere, Zenon DEF OtherCpus
  <2>3. \A d \in CPUs : h[d] = "scan" /\ hi[d] <= q => h'[d] = "scan" /\ hi'[d] <= q
    BY <1>6, ZenonT(40) DEF OtherCpus, OtherProcs
  <2>4. MustWait(q)' <=> MustWait(q)
    BY Zenon DEF MustWait, OtherProcs
  <2> QED BY <2>1, <2>2, <2>3, <2>4, Zenon DEF ProcInv, OtherProcs
<1> QED BY <1>1, <1>2, <1>3, <1>4, <1>5, <1>6, Zenon DEF SchedInv

\* A process on a CPU is on that one only, and the CPU holds no other process's lock.
LEMMA Here ==
  ASSUME SchedInv, NEW c \in CPUs, NEW p \in Procs, cur[c] = p
  PROVE  /\ OnCpu(c, p) /\ CpuInv(c) /\ PairInv(c, p) /\ ProcInv(p)
         /\ p # None /\ TypeOK /\ ~panicked
         /\ \A q \in Procs \ {p} : plock[q] # c
         /\ \A d \in CPUs \ {c} : cur[d] # p
<1>1. p # None
  BY Nowhere
<1>2. CpuInv(c) /\ PairInv(c, p) /\ ProcInv(p) /\ TypeOK /\ ~panicked
  BY DEF SchedInv
<1>3. OnCpu(c, p)
  BY <1>2 DEF PairInv
<1>4. \A q \in Procs \ {p} : plock[q] # c
  BY <1>3 DEF SchedInv, PairInv, OnCpu
<1>5. \A d \in CPUs \ {c} : cur[d] # p
  BY <1>1 DEF SchedInv, OneCpu
<1> QED BY <1>1, <1>2, <1>3, <1>4, <1>5

\* A CPU runs a process or its scheduler.
LEMMA RunsOne == ASSUME SchedInv, NEW c \in CPUs PROVE cur[c] \in Procs \/ cur[c] = None
BY DEF SchedInv, TypeOK

\* A CPU in its scheduler holds the lock of the slot it is at, or of none.
LEMMA Idle ==
  ASSUME SchedInv, NEW c \in CPUs, cur[c] = None
  PROVE  /\ InIdle(c) /\ CpuInv(c) /\ TypeOK /\ ~panicked
         /\ \A q \in Procs : plock[q] = c => spc[c] = "back" /\ si[c] = q /\ h[c] = "none"
BY Zenon DEF SchedInv, CpuInv, PairInv

\* A process that does not run, and whose lock is free, is on no CPU.
LEMMA OffCpu ==
  ASSUME SchedInv, NEW p \in Procs, plock[p] = None, state[p] # "RUNNING"
  PROVE  \A d \in CPUs : cur[d] # p
<1> SUFFICES ASSUME NEW d \in CPUs, cur[d] = p PROVE FALSE
  OBVIOUS
<1>1. OnCpu(d, p)
  BY Here, Zenon
<1> QED BY <1>1, Nowhere DEF OnCpu, WithLock

\* A CPU with interrupts on runs a process that holds no lock and is in no trap.
LEMMA Unlocked ==
  ASSUME SchedInv, NEW c \in CPUs, NEW p \in Procs, cur[c] = p, h[c] = "none", ie[c]
  PROVE  /\ noff[c] = 0 /\ tlock # c /\ plock[p] # c /\ state[p] = "RUNNING"
         /\ trap[p] = "none" /\ pc[p] \in {"user", "reacq"}
<1>1. OnCpu(c, p) /\ CpuInv(c) /\ PairInv(c, p) /\ TypeOK
  BY Here, Zenon
<1>2. noff[c] = 0 /\ trap[p] = "none"
  BY <1>1, Zenon DEF CpuInv, PairInv
<1>3. plock[p] # c /\ ~WithTicks(p) /\ ~AtSpin(p)
  BY <1>1, <1>2 DEF OnCpu
<1>4. pc[p] \in {"user", "reacq"}
  BY <1>1, <1>2, <1>3 DEF TypeOK, OnCpu, WithLock, WithTicks, AtSpin
<1> QED BY <1>1, <1>2, <1>3, <1>4 DEF OnCpu, WithLock, WithTicks

\* The empty set and the sets of one element, from the definition of Cardinality.
LEMMA CardNone == Cardinality({}) = 0
<1> DEFINE F(f) == f = [T \in SUBSET {} |-> IF T = {} THEN 0 ELSE 1 + f[T \ {CHOOSE x : x \in T}]]
<1>1. F([T \in SUBSET {} |-> 0])
  OBVIOUS
<1>2. F(CHOOSE f : F(f))
  BY <1>1, Zenon
<1>3. Cardinality({}) = (CHOOSE f : F(f))[{}]
  BY DEF Cardinality
<1> HIDE DEF F
<1> DEFINE g == CHOOSE f : F(f)
<1>4. F(g)
  BY <1>2
<1>5. g = [T \in SUBSET {} |-> IF T = {} THEN 0 ELSE 1 + g[T \ {CHOOSE x : x \in T}]]
  BY <1>4, Zenon DEF F
<1> HIDE DEF g
<1>6. g[{}] = 0
  BY <1>5
<1> QED BY <1>3, <1>6 DEF g

LEMMA CardOne == ASSUME NEW x PROVE Cardinality({x}) = 1
<1> DEFINE F(f) == f = [T \in SUBSET {x} |-> IF T = {} THEN 0 ELSE 1 + f[T \ {CHOOSE y : y \in T}]]
           one == [T \in SUBSET {x} |-> IF T = {} THEN 0 ELSE 1]
<1>1. \A T \in SUBSET {x} : T = {} \/ T = {x}
  OBVIOUS
<1>2. (CHOOSE y : y \in {x}) = x
  OBVIOUS
<1>3. F(one)
  <2>1. \A T \in SUBSET {x} : one[T] = IF T = {} THEN 0 ELSE 1 + one[T \ {CHOOSE y : y \in T}]
    BY <1>1, <1>2
  <2> QED BY <2>1, Zenon
<1>4. F(CHOOSE f : F(f))
  BY <1>3, Zenon
<1>5. Cardinality({x}) = (CHOOSE f : F(f))[{x}]
  BY DEF Cardinality
<1> HIDE DEF F, one
<1> DEFINE g == CHOOSE f : F(f)
<1>6. g = [T \in SUBSET {x} |-> IF T = {} THEN 0 ELSE 1 + g[T \ {CHOOSE y : y \in T}]]
  BY <1>4, Zenon DEF F
<1> HIDE DEF g
<1>7. g[{x}] = 1 + g[{x} \ {x}] /\ {x} \ {x} = {} /\ g[{}] = 0
  BY <1>2, <1>6
<1> QED BY <1>5, <1>7 DEF g

\* A CPU holds the lock of at most one process: the slot its scheduler is at.
LEMMA OneProcLock ==
  ASSUME SchedInv, NEW c \in CPUs
  PROVE  /\ spc[c] = "back" /\ plock[si[c]] = c =>
              Cardinality({p \in Procs : plock[p] = c}) = 1
         /\ ~(spc[c] = "back" /\ plock[si[c]] = c) =>
              Cardinality({p \in Procs : plock[p] = c}) = 0
<1> DEFINE Held == {p \in Procs : plock[p] = c}
<1>1. spc[c] = "back" => si[c] \in Procs
  BY DEF SchedInv, CpuInv
<1>2. \A p \in Procs : plock[p] = c => spc[c] = "back" /\ si[c] = p
  BY DEF SchedInv, PairInv
<1>3. CASE spc[c] = "back" /\ plock[si[c]] = c
  <2>1. Held = {si[c]}
    BY <1>1, <1>2, <1>3
  <2> QED BY <1>3, <2>1, CardOne, Zenon
<1>4. CASE ~(spc[c] = "back" /\ plock[si[c]] = c)
  <2>1. Held = {}
    BY <1>2, <1>4
  <2> QED BY <1>4, <2>1, CardNone, Zenon
<1> QED BY <1>3, <1>4

\* The invariant gives the count of the locks of a CPU that a process runs on.
LEMMA CountOnCpu ==
  ASSUME SchedInv, NEW c \in CPUs, NEW p \in Procs, cur[c] = p
  PROVE  noff[c] = Cardinality({q \in Procs : plock[q] = c}) + (IF tlock = c THEN 1 ELSE 0)
                   + (IF Spinning(c) THEN 1 ELSE 0)
<1>1. OnCpu(c, p) /\ CpuInv(c) /\ PairInv(c, p) /\ TypeOK /\ p # None
  BY Here, Zenon
<1>2. Cardinality({q \in Procs : plock[q] = c}) = IF plock[p] = c THEN 1 ELSE 0
  BY <1>1, OneProcLock DEF OnCpu
<1>3. CASE h[c] = "none"
  <2>1. Spinning(c) <=> AtSpin(p)
    BY <1>1, <1>3 DEF Spinning, AtSpin
  <2>2. tlock = c <=> WithTicks(p)
    BY <1>1, <1>3 DEF OnCpu
  <2> QED BY <1>1, <1>2, <1>3, <2>1, <2>2 DEF OnCpu
<1>4. CASE h[c] # "none"
  <2>1. plock[p] # c /\ ~Spinning(c) /\ ~WithTicks(p)
    BY <1>1, <1>4, Zenon DEF PairInv, Spinning, OnCpu, WithTicks
  <2>2. h[c] = "clock" \/ h[c] = "scan"
    BY <1>1, <1>4 DEF TypeOK
  <2>3. tlock = c <=> h[c] = "scan"
    BY <1>1, <2>1 DEF CpuInv, OnCpu
  <2> QED BY <1>1, <1>2, <2>1, <2>2, <2>3 DEF CpuInv
<1> QED BY <1>3, <1>4

\* And of a CPU that is in its scheduler.
LEMMA CountIdle ==
  ASSUME SchedInv, NEW c \in CPUs, cur[c] = None
  PROVE  noff[c] = Cardinality({q \in Procs : plock[q] = c}) + (IF tlock = c THEN 1 ELSE 0)
                   + (IF Spinning(c) THEN 1 ELSE 0)
<1>1. InIdle(c) /\ CpuInv(c) /\ TypeOK
  BY Idle, Zenon
<1>2. Cardinality({q \in Procs : plock[q] = c}) = IF spc[c] = "back" THEN 1 ELSE 0
  BY <1>1, OneProcLock DEF InIdle
<1>3. CASE h[c] = "none"
  BY <1>1, <1>2, <1>3 DEF InIdle, Spinning
<1>4. CASE h[c] # "none"
  <2>1. h[c] = "clock" \/ h[c] = "scan"
    BY <1>1, <1>4 DEF TypeOK
  <2> QED BY <1>1, <1>2, <1>4, <2>1 DEF CpuInv, InIdle, Spinning
<1> QED BY <1>3, <1>4

USE DEF procvars, cpuvars, schedvars, intrvars, locals

\* forkret() releases the p->lock that the scheduler took, on the CPU that runs the process.
LEMMA ForkretStep ==
  ASSUME SchedInv, NEW c \in CPUs, NEW p \in Procs, forkret(c, p)
  PROVE  SchedInv'
<1>1. /\ OnCpu(c, p) /\ CpuInv(c) /\ PairInv(c, p) /\ ProcInv(p) /\ TypeOK
      /\ p # None /\ cur[c] = p /\ ~panicked
      /\ \A q \in Procs \ {p} : plock[q] # c
      /\ \A d \in CPUs \ {c} : cur[d] # p
  BY Here, Zenon DEF forkret, InProc
<1>2. /\ h[c] = "none" /\ trap[p] = "none" /\ pc[p] = "user" /\ plock[p] = c /\ plock'[p] = None
      /\ noff'[c] = 0 /\ ie'[c]
  BY <1>1, Zenon DEF forkret, InProc, TypeOK
<1>3. /\ cur' = cur /\ intena' = intena /\ spc' = spc /\ si' = si /\ h' = h /\ hi' = hi
      /\ ticks' = ticks /\ tlock' = tlock /\ state' = state /\ sleeping' = sleeping /\ pc' = pc
      /\ trap' = trap /\ saved' = saved /\ ticks0' = ticks0 /\ n' = n /\ panicked' = panicked
  BY Zenon DEF forkret, InProc
<1>4. tlock # c /\ state[p] = "RUNNING"
  BY <1>1, <1>2, LockCounts, Zenon DEF OnCpu, WithLock, WithTicks, AtSpin
<1>5. TypeOK'
  <2>1. noff' \in [CPUs -> 0 .. 2]
    BY <1>1, <1>2, <1>4, LockCounts, Zenon DEF forkret, InProc, TypeOK
  <2> QED BY <1>1, <2>1, Zenon DEF forkret, InProc, TypeOK
<1>6. OtherCpus(c)
  BY <1>1, ZenonT(40) DEF forkret, InProc, TypeOK, OtherCpus
<1>7. OtherLocks(c)
  <2>1. plock' = [plock EXCEPT ![p] = None] /\ plock \in [Procs -> CPUs \cup {None}]
    BY <1>1, Zenon DEF forkret, InProc, TypeOK
  <2>2. tlock' = tlock
    BY <1>3, Zenon
  <2>3. plock[p] \in {c, None}
    BY <1>2, <1>4, Zenon
  <2> QED BY <2>1, <2>2, <2>3, Nowhere DEF OtherLocks
<1>8. OtherProcs(c, p)
  BY <1>1, Zenon DEF forkret, InProc, TypeOK, OtherProcs
<1>9. CpuInv(c)'
  BY <1>1, <1>2, <1>3, <1>4, Nowhere, Zenon DEF CpuInv, InIdle, OnCpu
<1>10. PairInv(c, p)'
  BY <1>1, <1>2, <1>3, <1>4, Nowhere, LockCounts, Zenon DEF PairInv, OnCpu, WithLock, WithTicks,
     AtSpin
<1>11. ProcInv(p)'
  BY <1>1, <1>2, <1>3, <1>4, Zenon DEF ProcInv, MustWait, OnCpu
<1> QED BY <1>1, <1>2, <1>3, <1>4, <1>5, <1>6, <1>7, <1>8, <1>9, <1>10, <1>11, Nowhere, FrameStep,
   Zenon

\* sys_sleep() starts from user code, with no lock: it becomes the only one waited for.
LEMMA SysSleepStep ==
  ASSUME SchedInv, NEW c \in CPUs, NEW p \in Procs, NEW k \in SleepTicks, sys_sleep(c, p, k)
  PROVE  SchedInv'
<1>1. /\ OnCpu(c, p) /\ CpuInv(c) /\ PairInv(c, p) /\ ProcInv(p) /\ TypeOK
      /\ p # None /\ cur[c] = p /\ ~panicked
      /\ \A q \in Procs \ {p} : plock[q] # c
      /\ \A d \in CPUs \ {c} : cur[d] # p
  BY Here, Zenon DEF sys_sleep, InProc, Goto, push_off
<1>2. /\ h[c] = "none" /\ trap[p] = "none" /\ pc[p] = "user" /\ plock[p] # c
      /\ noff'[c] = noff[c] + 1 /\ ~ie'[c] /\ n'[p] = k /\ pc'[p] = "spin"
  BY <1>1, ZenonT(40) DEF sys_sleep, InProc, Goto, push_off, TypeOK
<1>3. /\ cur' = cur /\ spc' = spc /\ si' = si /\ h' = h /\ hi' = hi /\ ticks' = ticks
      /\ tlock' = tlock /\ state' = state /\ sleeping' = sleeping /\ plock' = plock /\ trap' = trap
      /\ saved' = saved /\ ticks0' = ticks0 /\ panicked' = panicked
  BY Zenon DEF sys_sleep, InProc, Goto, push_off
<1>4. noff[c] = 0 /\ noff'[c] = 1 /\ tlock # c /\ state[p] = "RUNNING"
  BY <1>1, <1>2, LockCounts, Zenon DEF OnCpu, WithLock, WithTicks, AtSpin
<1>5. TypeOK'
  <2>1. noff' \in [CPUs -> 0 .. 2]
    BY <1>1, <1>2, <1>4, LockCounts, Zenon DEF sys_sleep, InProc, Goto, push_off, TypeOK
  <2> QED BY <1>1, <2>1, Zenon DEF sys_sleep, InProc, Goto, push_off, TypeOK
<1>6. OtherCpus(c)
  BY <1>1, ZenonT(40) DEF sys_sleep, InProc, Goto, push_off, TypeOK, OtherCpus
<1>7. OtherLocks(c)
  BY <1>3, Zenon DEF OtherLocks
<1>8. OtherProcs(c, p)
  BY <1>1, Zenon DEF sys_sleep, InProc, Goto, push_off, TypeOK, OtherProcs
<1>9. CpuInv(c)'
  BY <1>1, <1>2, <1>3, <1>4, Nowhere, Zenon DEF CpuInv, InIdle, OnCpu
<1>10. PairInv(c, p)'
  BY <1>1, <1>2, <1>3, <1>4, Nowhere, LockCounts, Zenon DEF PairInv, OnCpu, WithLock, WithTicks,
     AtSpin
<1>11. ProcInv(p)'
  BY <1>1, <1>2, <1>3, <1>4, Zenon DEF ProcInv, MustWait, OnCpu
<1> QED BY <1>1, <1>2, <1>3, <1>4, <1>5, <1>6, <1>7, <1>8, <1>9, <1>10, <1>11, Nowhere, FrameStep,
   Zenon

\* tickslock passes to a CPU that was spinning for it: the count stays the same.
LEMMA TickslockStep ==
  ASSUME SchedInv, NEW c \in CPUs, NEW p \in Procs, tickslock(c, p)
  PROVE  SchedInv'
<1>1. /\ OnCpu(c, p) /\ CpuInv(c) /\ PairInv(c, p) /\ ProcInv(p) /\ TypeOK
      /\ p # None /\ cur[c] = p /\ ~panicked
      /\ \A q \in Procs \ {p} : plock[q] # c
      /\ \A d \in CPUs \ {c} : cur[d] # p
  BY Here, Zenon DEF tickslock, InProc, Goto
<1>2. /\ h[c] = "none" /\ trap[p] = "none" /\ pc[p] \in {"spin", "respin"} /\ tlock = None
      /\ tlock' = c /\ pc'[p] = "test"
  BY <1>1, Zenon DEF tickslock, InProc, Goto, TypeOK
<1>3. /\ cur' = cur /\ noff' = noff /\ intena' = intena /\ ie' = ie /\ spc' = spc /\ si' = si
      /\ h' = h /\ hi' = hi /\ ticks' = ticks /\ state' = state /\ sleeping' = sleeping
      /\ plock' = plock /\ trap' = trap /\ saved' = saved /\ n' = n /\ panicked' = panicked
  BY Zenon DEF tickslock, InProc, Goto
<1>4. noff[c] = 1 /\ plock[p] # c /\ state[p] = "RUNNING"
  BY <1>1, <1>2, LockCounts, Zenon DEF OnCpu, WithLock, WithTicks, AtSpin
<1>5. TypeOK'
  <2>1. ticks0' \in [Procs -> 0 .. MaxTicks]
    BY <1>1, <1>2, <1>4, LockCounts, ZenonT(40) DEF tickslock, InProc, Goto, TypeOK
  <2> QED BY <1>1, <2>1, Zenon DEF tickslock, InProc, Goto, TypeOK
<1>6. OtherCpus(c)
  BY <1>1, Zenon DEF tickslock, InProc, Goto, TypeOK, OtherCpus
<1>7. OtherLocks(c)
  <2>1. plock' = plock
    BY <1>3, Zenon
  <2>2. tlock' = c /\ tlock \in {c, None}
    BY <1>2, <1>4, Zenon
  <2> QED BY <2>1, <2>2, Nowhere, Zenon DEF OtherLocks
<1>8. OtherProcs(c, p)
  BY <1>1, Zenon DEF tickslock, InProc, Goto, TypeOK, OtherProcs
<1>9. CpuInv(c)'
  BY <1>1, <1>2, <1>3, <1>4, Nowhere, Zenon DEF CpuInv, InIdle, OnCpu
<1>10. PairInv(c, p)'
  BY <1>1, <1>2, <1>3, <1>4, Nowhere, LockCounts, Zenon DEF PairInv, OnCpu, WithLock, WithTicks,
     AtSpin
<1>11. ProcInv(p)'
  BY <1>1, <1>2, <1>3, <1>4, Zenon DEF ProcInv, MustWait, OnCpu
<1> QED BY <1>1, <1>2, <1>3, <1>4, <1>5, <1>6, <1>7, <1>8, <1>9, <1>10, <1>11, Nowhere, FrameStep,
   Zenon

\* The loop of sys_sleep() goes on to sleep() only under tickslock, with time left to wait,
LEMMA TestSleepStep ==
  ASSUME SchedInv, NEW c \in CPUs, NEW p \in Procs, test_sleep(c, p)
  PROVE  SchedInv'
<1>1. /\ OnCpu(c, p) /\ CpuInv(c) /\ PairInv(c, p) /\ ProcInv(p) /\ TypeOK
      /\ p # None /\ cur[c] = p /\ ~panicked
      /\ \A q \in Procs \ {p} : plock[q] # c
      /\ \A d \in CPUs \ {c} : cur[d] # p
  BY Here, Zenon DEF test_sleep, InProc, Goto
<1>2. /\ h[c] = "none" /\ trap[p] = "none" /\ pc[p] = "test" /\ MustWait(p) /\ pc'[p] = "sleep"
  BY <1>1, Zenon DEF test_sleep, InProc, Goto, TypeOK
<1>3. /\ cur' = cur /\ noff' = noff /\ intena' = intena /\ ie' = ie /\ spc' = spc /\ si' = si
      /\ h' = h /\ hi' = hi /\ ticks' = ticks /\ tlock' = tlock /\ state' = state
      /\ sleeping' = sleeping /\ plock' = plock /\ trap' = trap /\ saved' = saved
      /\ ticks0' = ticks0 /\ n' = n /\ panicked' = panicked
  BY Zenon DEF test_sleep, InProc, Goto
<1>4. noff[c] = 1 /\ tlock = c /\ plock[p] # c /\ state[p] = "RUNNING"
  BY <1>1, <1>2, LockCounts, Zenon DEF OnCpu, WithLock, WithTicks, AtSpin
<1>5. TypeOK'
  BY <1>1, Zenon DEF test_sleep, InProc, Goto, TypeOK
<1>6. OtherCpus(c)
  BY <1>1, Zenon DEF test_sleep, InProc, Goto, TypeOK, OtherCpus
<1>7. OtherLocks(c)
  BY <1>3, Zenon DEF OtherLocks
<1>8. OtherProcs(c, p)
  BY <1>1, Zenon DEF test_sleep, InProc, Goto, TypeOK, OtherProcs
<1>9. CpuInv(c)'
  BY <1>1, <1>2, <1>3, <1>4, Nowhere, Zenon DEF CpuInv, InIdle, OnCpu
<1>10. PairInv(c, p)'
  BY <1>1, <1>2, <1>3, <1>4, Nowhere, LockCounts, Zenon DEF PairInv, OnCpu, WithLock, WithTicks,
     AtSpin
<1>11. ProcInv(p)'
  BY <1>1, <1>2, <1>3, <1>4, Zenon DEF ProcInv, MustWait, OnCpu
<1> QED BY <1>1, <1>2, <1>3, <1>4, <1>5, <1>6, <1>7, <1>8, <1>9, <1>10, <1>11, Nowhere, FrameStep,
   Zenon

\* or releases tickslock and returns.
LEMMA TestReturnStep ==
  ASSUME SchedInv, NEW c \in CPUs, NEW p \in Procs, test_return(c, p)
  PROVE  SchedInv'
<1>1. /\ OnCpu(c, p) /\ CpuInv(c) /\ PairInv(c, p) /\ ProcInv(p) /\ TypeOK
      /\ p # None /\ cur[c] = p /\ ~panicked
      /\ \A q \in Procs \ {p} : plock[q] # c
      /\ \A d \in CPUs \ {c} : cur[d] # p
  BY Here, Zenon DEF test_return, InProc, Goto, pop_off
<1>2. /\ h[c] = "none" /\ trap[p] = "none" /\ pc[p] = "test" /\ tlock' = None
      /\ noff'[c] = noff[c] - 1 /\ (ie'[c] => noff[c] = 1) /\ pc'[p] = "user"
  BY <1>1, ZenonT(40) DEF test_return, InProc, Goto, pop_off, TypeOK
<1>3. /\ cur' = cur /\ intena' = intena /\ spc' = spc /\ si' = si /\ h' = h /\ hi' = hi
      /\ ticks' = ticks /\ state' = state /\ sleeping' = sleeping /\ plock' = plock /\ trap' = trap
      /\ saved' = saved /\ ticks0' = ticks0 /\ n' = n /\ panicked' = panicked
  BY Zenon DEF test_return, InProc, Goto, pop_off
<1>4. noff[c] = 1 /\ noff'[c] = 0 /\ tlock = c /\ plock[p] # c /\ state[p] = "RUNNING"
  BY <1>1, <1>2, LockCounts, Zenon DEF OnCpu, WithLock, WithTicks, AtSpin
<1>5. TypeOK'
  <2>1. noff' \in [CPUs -> 0 .. 2]
    BY <1>1, <1>2, <1>4, LockCounts, Zenon DEF test_return, InProc, Goto, pop_off, TypeOK
  <2> QED BY <1>1, <2>1, Zenon DEF test_return, InProc, Goto, pop_off, TypeOK
<1>6. OtherCpus(c)
  BY <1>1, ZenonT(40) DEF test_return, InProc, Goto, pop_off, TypeOK, OtherCpus
<1>7. OtherLocks(c)
  <2>1. plock' = plock
    BY <1>3, Zenon
  <2>2. tlock' = None /\ tlock \in {c, None}
    BY <1>2, <1>4, Zenon
  <2> QED BY <2>1, <2>2, Nowhere, Zenon DEF OtherLocks
<1>8. OtherProcs(c, p)
  BY <1>1, Zenon DEF test_return, InProc, Goto, pop_off, TypeOK, OtherProcs
<1>9. CpuInv(c)'
  BY <1>1, <1>2, <1>3, <1>4, Nowhere, Zenon DEF CpuInv, InIdle, OnCpu
<1>10. PairInv(c, p)'
  BY <1>1, <1>2, <1>3, <1>4, Nowhere, LockCounts, Zenon DEF PairInv, OnCpu, WithLock, WithTicks,
     AtSpin
<1>11. ProcInv(p)'
  BY <1>1, <1>2, <1>3, <1>4, Zenon DEF ProcInv, MustWait, OnCpu
<1> QED BY <1>1, <1>2, <1>3, <1>4, <1>5, <1>6, <1>7, <1>8, <1>9, <1>10, <1>11, Nowhere, FrameStep,
   Zenon

\* The two ends of the test.
LEMMA TestStep ==
  ASSUME SchedInv, NEW c \in CPUs, NEW p \in Procs, sys_sleep_test(c, p)
  PROVE  SchedInv'
<1>1. test_sleep(c, p) \/ test_return(c, p)
  BY Zenon DEF sys_sleep_test, test_sleep, test_return
<1> QED BY <1>1, TestSleepStep, TestReturnStep, Zenon

\* sleep() takes p->lock on top of tickslock: two locks.
LEMMA SleepStep ==
  ASSUME SchedInv, NEW c \in CPUs, NEW p \in Procs, sleep(c, p)
  PROVE  SchedInv'
<1>1. /\ OnCpu(c, p) /\ CpuInv(c) /\ PairInv(c, p) /\ ProcInv(p) /\ TypeOK
      /\ p # None /\ cur[c] = p /\ ~panicked
      /\ \A q \in Procs \ {p} : plock[q] # c
      /\ \A d \in CPUs \ {c} : cur[d] # p
  BY Here, Zenon DEF sleep, InProc, Goto, push_off
<1>2. /\ h[c] = "none" /\ trap[p] = "none" /\ pc[p] = "sleep" /\ plock[p] = None /\ plock'[p] = c
      /\ noff'[c] = noff[c] + 1 /\ ~ie'[c] /\ pc'[p] = "sleep2"
  BY <1>1, ZenonT(40) DEF sleep, InProc, Goto, push_off, TypeOK
<1>3. /\ cur' = cur /\ spc' = spc /\ si' = si /\ h' = h /\ hi' = hi /\ ticks' = ticks
      /\ tlock' = tlock /\ state' = state /\ sleeping' = sleeping /\ trap' = trap /\ saved' = saved
      /\ ticks0' = ticks0 /\ n' = n /\ panicked' = panicked
  BY Zenon DEF sleep, InProc, Goto, push_off
<1>4. noff[c] = 1 /\ noff'[c] = 2 /\ tlock = c /\ state[p] = "RUNNING"
  BY <1>1, <1>2, Nowhere, LockCounts, Zenon DEF OnCpu, WithLock, WithTicks, AtSpin
<1>5. TypeOK'
  <2>1. noff' \in [CPUs -> 0 .. 2]
    BY <1>1, <1>2, <1>4, LockCounts, Zenon DEF sleep, InProc, Goto, push_off, TypeOK
  <2> QED BY <1>1, <2>1, Zenon DEF sleep, InProc, Goto, push_off, TypeOK
<1>6. OtherCpus(c)
  BY <1>1, ZenonT(40) DEF sleep, InProc, Goto, push_off, TypeOK, OtherCpus
<1>7. OtherLocks(c)
  <2>1. plock' = [plock EXCEPT ![p] = c] /\ plock \in [Procs -> CPUs \cup {None}]
    BY <1>1, Zenon DEF sleep, InProc, Goto, push_off, TypeOK
  <2>2. tlock' = tlock
    BY <1>3, Zenon
  <2>3. plock[p] \in {c, None}
    BY <1>2, <1>4, Zenon
  <2> QED BY <2>1, <2>2, <2>3, Nowhere DEF OtherLocks
<1>8. OtherProcs(c, p)
  BY <1>1, ZenonT(40) DEF sleep, InProc, Goto, push_off, TypeOK, OtherProcs
<1>9. CpuInv(c)'
  BY <1>1, <1>2, <1>3, <1>4, Nowhere, Zenon DEF CpuInv, InIdle, OnCpu
<1>10. PairInv(c, p)'
  BY <1>1, <1>2, <1>3, <1>4, Nowhere, LockCounts, Zenon DEF PairInv, OnCpu, WithLock, WithTicks,
     AtSpin
<1>11. ProcInv(p)'
  BY <1>1, <1>2, <1>3, <1>4, Zenon DEF ProcInv, MustWait, OnCpu
<1> QED BY <1>1, <1>2, <1>3, <1>4, <1>5, <1>6, <1>7, <1>8, <1>9, <1>10, <1>11, Nowhere, FrameStep,
   Zenon

\* sleep() releases tickslock when p->lock already protects the process: it has time to wait.
LEMMA ReleaseStep ==
  ASSUME SchedInv, NEW c \in CPUs, NEW p \in Procs, sleep_release(c, p)
  PROVE  SchedInv'
<1>1. /\ OnCpu(c, p) /\ CpuInv(c) /\ PairInv(c, p) /\ ProcInv(p) /\ TypeOK
      /\ p # None /\ cur[c] = p /\ ~panicked
      /\ \A q \in Procs \ {p} : plock[q] # c
      /\ \A d \in CPUs \ {c} : cur[d] # p
  BY Here, Zenon DEF sleep_release, InProc, Goto, pop_off
<1>2. /\ h[c] = "none" /\ trap[p] = "none" /\ pc[p] = "sleep2" /\ tlock' = None
      /\ noff'[c] = noff[c] - 1 /\ (ie'[c] => noff[c] = 1) /\ sleeping'[p]
      /\ state'[p] = "SLEEPING" /\ pc'[p] = "sched"
  BY <1>1, ZenonT(40) DEF sleep_release, InProc, Goto, pop_off, TypeOK
<1>3. /\ cur' = cur /\ intena' = intena /\ spc' = spc /\ si' = si /\ h' = h /\ hi' = hi
      /\ ticks' = ticks /\ plock' = plock /\ trap' = trap /\ saved' = saved /\ ticks0' = ticks0
      /\ n' = n /\ panicked' = panicked
  BY Zenon DEF sleep_release, InProc, Goto, pop_off
<1>4. noff[c] = 2 /\ noff'[c] = 1 /\ tlock = c /\ plock[p] = c /\ ~ie'[c]
  BY <1>1, <1>2, LockCounts, ZenonT(40) DEF OnCpu, WithLock, WithTicks, AtSpin
<1>5. TypeOK'
  <2>1. noff' \in [CPUs -> 0 .. 2]
    BY <1>1, <1>2, <1>4, LockCounts, Zenon DEF sleep_release, InProc, Goto, pop_off, TypeOK
  <2> QED BY <1>1, <2>1, Zenon DEF sleep_release, InProc, Goto, pop_off, TypeOK
<1>6. OtherCpus(c)
  BY <1>1, ZenonT(40) DEF sleep_release, InProc, Goto, pop_off, TypeOK, OtherCpus
<1>7. OtherLocks(c)
  <2>1. plock' = plock
    BY <1>3, Zenon
  <2>2. tlock' = None /\ tlock \in {c, None}
    BY <1>2, <1>4, Zenon
  <2> QED BY <2>1, <2>2, Nowhere, Zenon DEF OtherLocks
<1>8. OtherProcs(c, p)
  BY <1>1, ZenonT(40) DEF sleep_release, InProc, Goto, pop_off, TypeOK, OtherProcs
<1>9. CpuInv(c)'
  BY <1>1, <1>2, <1>3, <1>4, Nowhere, Zenon DEF CpuInv, InIdle, OnCpu
<1>10. PairInv(c, p)'
  BY <1>1, <1>2, <1>3, <1>4, Nowhere, LockCounts, Zenon DEF PairInv, OnCpu, WithLock, WithTicks,
     AtSpin
<1>11. ProcInv(p)'
  BY <1>1, <1>2, <1>3, <1>4, Zenon DEF ProcInv, MustWait, OnCpu
<1> QED BY <1>1, <1>2, <1>3, <1>4, <1>5, <1>6, <1>7, <1>8, <1>9, <1>10, <1>11, Nowhere, FrameStep,
   Zenon

\* sched() from sleep() finds one lock, interrupts off and the process not RUNNING.
LEMMA SleepSchedStep ==
  ASSUME SchedInv, NEW c \in CPUs, NEW p \in Procs, sleep_sched(c, p)
  PROVE  SchedInv'
<1>1. /\ OnCpu(c, p) /\ CpuInv(c) /\ PairInv(c, p) /\ ProcInv(p) /\ TypeOK
      /\ p # None /\ cur[c] = p /\ ~panicked
      /\ \A q \in Procs \ {p} : plock[q] # c
      /\ \A d \in CPUs \ {c} : cur[d] # p
  BY Here, Zenon DEF sleep_sched, InProc, Goto, sched
<1>2. /\ h[c] = "none" /\ trap[p] = "none" /\ pc[p] = "sched" /\ cur'[c] = None /\ pc'[p] = "woken"
  BY <1>1, Zenon DEF sleep_sched, InProc, Goto, sched, TypeOK
<1>3. /\ noff' = noff /\ intena' = intena /\ ie' = ie /\ spc' = spc /\ si' = si /\ h' = h
      /\ hi' = hi /\ ticks' = ticks /\ tlock' = tlock /\ state' = state /\ sleeping' = sleeping
      /\ plock' = plock /\ trap' = trap /\ ticks0' = ticks0 /\ n' = n
  BY Zenon DEF sleep_sched, InProc, Goto, sched
<1>4. noff[c] = 1 /\ tlock # c /\ plock[p] = c /\ state[p] = "SLEEPING" /\ ~ie[c] /\ ~panicked'
  BY <1>1, <1>2, LockCounts, Zenon DEF sleep_sched, sched, OnCpu, WithLock, WithTicks, AtSpin,
     CpuInv
<1>5. TypeOK'
  BY <1>1, Zenon DEF sleep_sched, InProc, Goto, sched, TypeOK
<1>6. OtherCpus(c)
  BY <1>1, Zenon DEF sleep_sched, InProc, Goto, sched, TypeOK, OtherCpus
<1>7. OtherLocks(c)
  BY <1>3, Zenon DEF OtherLocks
<1>8. OtherProcs(c, p)
  BY <1>1, ZenonT(40) DEF sleep_sched, InProc, Goto, sched, TypeOK, OtherProcs
<1>9. CpuInv(c)'
  BY <1>1, <1>2, <1>3, <1>4, Nowhere, Zenon DEF CpuInv, InIdle, OnCpu
<1>10. PairInv(c, p)'
  BY <1>1, <1>2, <1>3, <1>4, Nowhere, LockCounts, Zenon DEF PairInv, OnCpu, WithLock, WithTicks,
     AtSpin
<1>11. ProcInv(p)'
  BY <1>1, <1>2, <1>3, <1>4, Zenon DEF ProcInv, MustWait, OnCpu
<1> QED BY <1>1, <1>2, <1>3, <1>4, <1>5, <1>6, <1>7, <1>8, <1>9, <1>10, <1>11, Nowhere, FrameStep,
   Zenon

\* A process back in sleep() releases the p->lock of the CPU that it resumed on.
LEMMA WokenStep ==
  ASSUME SchedInv, NEW c \in CPUs, NEW p \in Procs, sleep_woken(c, p)
  PROVE  SchedInv'
<1>1. /\ OnCpu(c, p) /\ CpuInv(c) /\ PairInv(c, p) /\ ProcInv(p) /\ TypeOK
      /\ p # None /\ cur[c] = p /\ ~panicked
      /\ \A q \in Procs \ {p} : plock[q] # c
      /\ \A d \in CPUs \ {c} : cur[d] # p
  BY Here, Zenon DEF sleep_woken, InProc, Goto, resume, IntenaRestored
<1>2. /\ h[c] = "none" /\ trap[p] = "none" /\ pc[p] = "woken" /\ plock'[p] = None
      /\ noff'[c] = noff[c] - 1 /\ (ie'[c] => noff[c] = 1) /\ sleeping'[p] = FALSE
      /\ pc'[p] = "reacq"
  BY <1>1, ZenonT(40) DEF sleep_woken, InProc, Goto, resume, IntenaRestored, TypeOK
<1>3. /\ cur' = cur /\ spc' = spc /\ si' = si /\ h' = h /\ hi' = hi /\ ticks' = ticks
      /\ tlock' = tlock /\ state' = state /\ trap' = trap /\ saved' = saved /\ ticks0' = ticks0
      /\ n' = n /\ panicked' = panicked
  BY Zenon DEF sleep_woken, InProc, Goto, resume, IntenaRestored
<1>4. noff[c] = 1 /\ noff'[c] = 0 /\ tlock # c /\ plock[p] = c /\ state[p] = "RUNNING"
  BY <1>1, <1>2, LockCounts, Zenon DEF OnCpu, WithLock, WithTicks, AtSpin
<1>5. TypeOK'
  <2>1. noff' \in [CPUs -> 0 .. 2]
    BY <1>1, <1>2, <1>4, LockCounts, ZenonT(40) DEF sleep_woken, InProc, Goto, resume, IntenaRestored,
       TypeOK
  <2> QED BY <1>1, <2>1, Zenon DEF sleep_woken, InProc, Goto, resume, IntenaRestored, TypeOK
<1>6. OtherCpus(c)
  BY <1>1, ZenonT(40) DEF sleep_woken, InProc, Goto, resume, IntenaRestored, TypeOK, OtherCpus
<1>7. OtherLocks(c)
  <2>1. plock' = [plock EXCEPT ![p] = None] /\ plock \in [Procs -> CPUs \cup {None}]
    BY <1>1, Zenon DEF sleep_woken, InProc, Goto, resume, IntenaRestored, TypeOK
  <2>2. tlock' = tlock
    BY <1>3, Zenon
  <2>3. plock[p] \in {c, None}
    BY <1>2, <1>4, Zenon
  <2> QED BY <2>1, <2>2, <2>3, Nowhere DEF OtherLocks
<1>8. OtherProcs(c, p)
  BY <1>1, ZenonT(40) DEF sleep_woken, InProc, Goto, resume, IntenaRestored, TypeOK, OtherProcs
<1>9. CpuInv(c)'
  BY <1>1, <1>2, <1>3, <1>4, Nowhere, Zenon DEF CpuInv, InIdle, OnCpu
<1>10. PairInv(c, p)'
  BY <1>1, <1>2, <1>3, <1>4, Nowhere, LockCounts, Zenon DEF PairInv, OnCpu, WithLock, WithTicks,
     AtSpin
<1>11. ProcInv(p)'
  BY <1>1, <1>2, <1>3, <1>4, Zenon DEF ProcInv, MustWait, OnCpu
<1> QED BY <1>1, <1>2, <1>3, <1>4, <1>5, <1>6, <1>7, <1>8, <1>9, <1>10, <1>11, Nowhere, FrameStep,
   Zenon

\* sleep() goes for the caller's lock with none in hand.
LEMMA ReacquireStep ==
  ASSUME SchedInv, NEW c \in CPUs, NEW p \in Procs, sleep_reacquire(c, p)
  PROVE  SchedInv'
<1>1. /\ OnCpu(c, p) /\ CpuInv(c) /\ PairInv(c, p) /\ ProcInv(p) /\ TypeOK
      /\ p # None /\ cur[c] = p /\ ~panicked
      /\ \A q \in Procs \ {p} : plock[q] # c
      /\ \A d \in CPUs \ {c} : cur[d] # p
  BY Here, Zenon DEF sleep_reacquire, InProc, Goto, push_off
<1>2. /\ h[c] = "none" /\ trap[p] = "none" /\ pc[p] = "reacq" /\ noff'[c] = noff[c] + 1 /\ ~ie'[c]
      /\ pc'[p] = "respin"
  BY <1>1, Zenon DEF sleep_reacquire, InProc, Goto, push_off, TypeOK
<1>3. /\ cur' = cur /\ spc' = spc /\ si' = si /\ h' = h /\ hi' = hi /\ ticks' = ticks
      /\ tlock' = tlock /\ state' = state /\ sleeping' = sleeping /\ plock' = plock /\ trap' = trap
      /\ saved' = saved /\ ticks0' = ticks0 /\ n' = n /\ panicked' = panicked
  BY Zenon DEF sleep_reacquire, InProc, Goto, push_off
<1>4. noff[c] = 0 /\ noff'[c] = 1 /\ tlock # c /\ plock[p] # c /\ state[p] = "RUNNING"
  BY <1>1, <1>2, LockCounts, Zenon DEF OnCpu, WithLock, WithTicks, AtSpin
<1>5. TypeOK'
  <2>1. noff' \in [CPUs -> 0 .. 2]
    BY <1>1, <1>2, <1>4, LockCounts, Zenon DEF sleep_reacquire, InProc, Goto, push_off, TypeOK
  <2> QED BY <1>1, <2>1, Zenon DEF sleep_reacquire, InProc, Goto, push_off, TypeOK
<1>6. OtherCpus(c)
  BY <1>1, ZenonT(40) DEF sleep_reacquire, InProc, Goto, push_off, TypeOK, OtherCpus
<1>7. OtherLocks(c)
  BY <1>3, Zenon DEF OtherLocks
<1>8. OtherProcs(c, p)
  BY <1>1, Zenon DEF sleep_reacquire, InProc, Goto, push_off, TypeOK, OtherProcs
<1>9. CpuInv(c)'
  BY <1>1, <1>2, <1>3, <1>4, Nowhere, Zenon DEF CpuInv, InIdle, OnCpu
<1>10. PairInv(c, p)'
  BY <1>1, <1>2, <1>3, <1>4, Nowhere, LockCounts, Zenon DEF PairInv, OnCpu, WithLock, WithTicks,
     AtSpin
<1>11. ProcInv(p)'
  BY <1>1, <1>2, <1>3, <1>4, Zenon DEF ProcInv, MustWait, OnCpu
<1> QED BY <1>1, <1>2, <1>3, <1>4, <1>5, <1>6, <1>7, <1>8, <1>9, <1>10, <1>11, Nowhere, FrameStep,
   Zenon

\* yield() takes p->lock in a trap handler, with no lock and interrupts off.
LEMMA YieldStep ==
  ASSUME SchedInv, NEW c \in CPUs, NEW p \in Procs, yield(c, p)
  PROVE  SchedInv'
<1>1. /\ OnCpu(c, p) /\ CpuInv(c) /\ PairInv(c, p) /\ ProcInv(p) /\ TypeOK
      /\ p # None /\ cur[c] = p /\ ~panicked
      /\ \A q \in Procs \ {p} : plock[q] # c
      /\ \A d \in CPUs \ {c} : cur[d] # p
  BY Here, Zenon DEF yield, InTrap, push_off
<1>2. /\ h[c] = "none" /\ trap[p] = "yield" /\ plock[p] = None /\ plock'[p] = c
      /\ noff'[c] = noff[c] + 1 /\ ~ie'[c] /\ state'[p] = "RUNNABLE" /\ trap'[p] = "sched"
      /\ (noff[c] = 0 => intena'[c] = ie[c])
  BY <1>1, ZenonT(40) DEF yield, InTrap, push_off, TypeOK
<1>3. /\ cur' = cur /\ spc' = spc /\ si' = si /\ h' = h /\ hi' = hi /\ ticks' = ticks
      /\ tlock' = tlock /\ sleeping' = sleeping /\ pc' = pc /\ saved' = saved /\ ticks0' = ticks0
      /\ n' = n /\ panicked' = panicked
  BY Zenon DEF yield, InTrap, push_off
<1>4. noff[c] = 0 /\ noff'[c] = 1 /\ tlock # c /\ ~ie[c] /\ ~intena'[c]
  BY <1>1, <1>2, Nowhere, LockCounts, Zenon DEF OnCpu, WithLock, WithTicks, AtSpin, PairInv
<1>5. TypeOK'
  <2>1. noff' \in [CPUs -> 0 .. 2]
    BY <1>1, <1>2, <1>4, LockCounts, Zenon DEF yield, InTrap, push_off, TypeOK
  <2> QED BY <1>1, <2>1, Zenon DEF yield, InTrap, push_off, TypeOK
<1>6. OtherCpus(c)
  BY <1>1, ZenonT(40) DEF yield, InTrap, push_off, TypeOK, OtherCpus
<1>7. OtherLocks(c)
  <2>1. plock' = [plock EXCEPT ![p] = c] /\ plock \in [Procs -> CPUs \cup {None}]
    BY <1>1, Zenon DEF yield, InTrap, push_off, TypeOK
  <2>2. tlock' = tlock
    BY <1>3, Zenon
  <2>3. plock[p] \in {c, None}
    BY <1>2, <1>4, Zenon
  <2> QED BY <2>1, <2>2, <2>3, Nowhere DEF OtherLocks
<1>8. OtherProcs(c, p)
  BY <1>1, ZenonT(40) DEF yield, InTrap, push_off, TypeOK, OtherProcs
<1>9. CpuInv(c)'
  BY <1>1, <1>2, <1>3, <1>4, Nowhere, Zenon DEF CpuInv, InIdle, OnCpu
<1>10. PairInv(c, p)'
  BY <1>1, <1>2, <1>3, <1>4, Nowhere, LockCounts, ZenonT(40) DEF PairInv, OnCpu, WithLock, WithTicks,
     AtSpin
<1>11. ProcInv(p)'
  BY <1>1, <1>2, <1>3, <1>4, Zenon DEF ProcInv, MustWait, OnCpu
<1> QED BY <1>1, <1>2, <1>3, <1>4, <1>5, <1>6, <1>7, <1>8, <1>9, <1>10, <1>11, Nowhere, FrameStep,
   Zenon

\* sched() from yield() saves that interrupts were off before yield() took p->lock.
LEMMA YieldSchedStep ==
  ASSUME SchedInv, NEW c \in CPUs, NEW p \in Procs, yield_sched(c, p)
  PROVE  SchedInv'
<1>1. /\ OnCpu(c, p) /\ CpuInv(c) /\ PairInv(c, p) /\ ProcInv(p) /\ TypeOK
      /\ p # None /\ cur[c] = p /\ ~panicked
      /\ \A q \in Procs \ {p} : plock[q] # c
      /\ \A d \in CPUs \ {c} : cur[d] # p
  BY Here, Zenon DEF yield_sched, InTrap, sched
<1>2. /\ h[c] = "none" /\ trap[p] = "sched" /\ cur'[c] = None /\ saved'[p] = intena[c]
      /\ trap'[p] = "woken"
  BY <1>1, ZenonT(40) DEF yield_sched, InTrap, sched, TypeOK
<1>3. /\ noff' = noff /\ intena' = intena /\ ie' = ie /\ spc' = spc /\ si' = si /\ h' = h
      /\ hi' = hi /\ ticks' = ticks /\ tlock' = tlock /\ state' = state /\ sleeping' = sleeping
      /\ plock' = plock /\ pc' = pc /\ ticks0' = ticks0 /\ n' = n
  BY Zenon DEF yield_sched, InTrap, sched
<1>4. noff[c] = 1 /\ tlock # c /\ plock[p] = c /\ state[p] = "RUNNABLE" /\ ~ie[c] /\ ~intena[c] /\ ~panicked'
  BY <1>1, <1>2, LockCounts, Zenon DEF yield_sched, sched, OnCpu, WithLock, WithTicks, AtSpin,
     PairInv
<1>5. TypeOK'
  BY <1>1, Zenon DEF yield_sched, InTrap, sched, TypeOK
<1>6. OtherCpus(c)
  BY <1>1, Zenon DEF yield_sched, InTrap, sched, TypeOK, OtherCpus
<1>7. OtherLocks(c)
  BY <1>3, Zenon DEF OtherLocks
<1>8. OtherProcs(c, p)
  BY <1>1, ZenonT(40) DEF yield_sched, InTrap, sched, TypeOK, OtherProcs
<1>9. CpuInv(c)'
  BY <1>1, <1>2, <1>3, <1>4, Nowhere, Zenon DEF CpuInv, InIdle, OnCpu
<1>10. PairInv(c, p)'
  BY <1>1, <1>2, <1>3, <1>4, Nowhere, LockCounts, Zenon DEF PairInv, OnCpu, WithLock, WithTicks,
     AtSpin
<1>11. ProcInv(p)'
  BY <1>1, <1>2, <1>3, <1>4, Zenon DEF ProcInv, MustWait, OnCpu
<1> QED BY <1>1, <1>2, <1>3, <1>4, <1>5, <1>6, <1>7, <1>8, <1>9, <1>10, <1>11, Nowhere, FrameStep,
   Zenon

\* What sched() restores on the new CPU keeps interrupts off until the trap returns.
LEMMA YieldResumeStep ==
  ASSUME SchedInv, NEW c \in CPUs, NEW p \in Procs, yield_resume(c, p)
  PROVE  SchedInv'
<1>1. /\ OnCpu(c, p) /\ CpuInv(c) /\ PairInv(c, p) /\ ProcInv(p) /\ TypeOK
      /\ p # None /\ cur[c] = p /\ ~panicked
      /\ \A q \in Procs \ {p} : plock[q] # c
      /\ \A d \in CPUs \ {c} : cur[d] # p
  BY Here, Zenon DEF yield_resume, InTrap, resume, IntenaRestored
<1>2. /\ h[c] = "none" /\ trap[p] = "woken" /\ plock'[p] = None /\ noff'[c] = noff[c] - 1
      /\ (ie'[c] => saved[p]) /\ trap'[p] = "ret"
  BY <1>1, ZenonT(40) DEF yield_resume, InTrap, resume, IntenaRestored, TypeOK
<1>3. /\ cur' = cur /\ spc' = spc /\ si' = si /\ h' = h /\ hi' = hi /\ ticks' = ticks
      /\ tlock' = tlock /\ state' = state /\ sleeping' = sleeping /\ pc' = pc /\ saved' = saved
      /\ ticks0' = ticks0 /\ n' = n /\ panicked' = panicked
  BY Zenon DEF yield_resume, InTrap, resume, IntenaRestored
<1>4. noff[c] = 1 /\ noff'[c] = 0 /\ tlock # c /\ plock[p] = c /\ state[p] = "RUNNING" /\ ~ie'[c]
  BY <1>1, <1>2, LockCounts, Zenon DEF OnCpu, WithLock, WithTicks, AtSpin, ProcInv
<1>5. TypeOK'
  <2>1. noff' \in [CPUs -> 0 .. 2]
    BY <1>1, <1>2, <1>4, LockCounts, ZenonT(40) DEF yield_resume, InTrap, resume, IntenaRestored, TypeOK
  <2> QED BY <1>1, <2>1, Zenon DEF yield_resume, InTrap, resume, IntenaRestored, TypeOK
<1>6. OtherCpus(c)
  BY <1>1, ZenonT(40) DEF yield_resume, InTrap, resume, IntenaRestored, TypeOK, OtherCpus
<1>7. OtherLocks(c)
  <2>1. plock' = [plock EXCEPT ![p] = None] /\ plock \in [Procs -> CPUs \cup {None}]
    BY <1>1, Zenon DEF yield_resume, InTrap, resume, IntenaRestored, TypeOK
  <2>2. tlock' = tlock
    BY <1>3, Zenon
  <2>3. plock[p] \in {c, None}
    BY <1>2, <1>4, Zenon
  <2> QED BY <2>1, <2>2, <2>3, Nowhere DEF OtherLocks
<1>8. OtherProcs(c, p)
  BY <1>1, ZenonT(40) DEF yield_resume, InTrap, resume, IntenaRestored, TypeOK, OtherProcs
<1>9. CpuInv(c)'
  BY <1>1, <1>2, <1>3, <1>4, Nowhere, Zenon DEF CpuInv, InIdle, OnCpu
<1>10. PairInv(c, p)'
  BY <1>1, <1>2, <1>3, <1>4, Nowhere, LockCounts, Zenon DEF PairInv, OnCpu, WithLock, WithTicks,
     AtSpin
<1>11. ProcInv(p)'
  BY <1>1, <1>2, <1>3, <1>4, Zenon DEF ProcInv, MustWait, OnCpu
<1> QED BY <1>1, <1>2, <1>3, <1>4, <1>5, <1>6, <1>7, <1>8, <1>9, <1>10, <1>11, Nowhere, FrameStep,
   Zenon

\* The trap returns where the process held nothing.
LEMMA TrapReturnStep ==
  ASSUME SchedInv, NEW c \in CPUs, NEW p \in Procs, trap_return(c, p)
  PROVE  SchedInv'
<1>1. /\ OnCpu(c, p) /\ CpuInv(c) /\ PairInv(c, p) /\ ProcInv(p) /\ TypeOK
      /\ p # None /\ cur[c] = p /\ ~panicked
      /\ \A q \in Procs \ {p} : plock[q] # c
      /\ \A d \in CPUs \ {c} : cur[d] # p
  BY Here, Zenon DEF trap_return, InTrap
<1>2. /\ h[c] = "none" /\ trap[p] = "ret" /\ ie'[c] /\ trap'[p] = "none"
  BY <1>1, Zenon DEF trap_return, InTrap, TypeOK
<1>3. /\ cur' = cur /\ noff' = noff /\ intena' = intena /\ spc' = spc /\ si' = si /\ h' = h
      /\ hi' = hi /\ ticks' = ticks /\ tlock' = tlock /\ state' = state /\ sleeping' = sleeping
      /\ plock' = plock /\ pc' = pc /\ saved' = saved /\ ticks0' = ticks0 /\ n' = n
      /\ panicked' = panicked
  BY Zenon DEF trap_return, InTrap
<1>4. noff[c] = 0 /\ tlock # c /\ plock[p] # c /\ state[p] = "RUNNING" /\ pc[p] \in {"user", "reacq"}
  BY <1>1, <1>2, LockCounts, Zenon DEF OnCpu, WithLock, WithTicks, AtSpin, ProcInv
<1>5. TypeOK'
  BY <1>1, Zenon DEF trap_return, InTrap, TypeOK
<1>6. OtherCpus(c)
  BY <1>1, Zenon DEF trap_return, InTrap, TypeOK, OtherCpus
<1>7. OtherLocks(c)
  BY <1>3, Zenon DEF OtherLocks
<1>8. OtherProcs(c, p)
  BY <1>1, Zenon DEF trap_return, InTrap, TypeOK, OtherProcs
<1>9. CpuInv(c)'
  BY <1>1, <1>2, <1>3, <1>4, Nowhere, Zenon DEF CpuInv, InIdle, OnCpu
<1>10. PairInv(c, p)'
  BY <1>1, <1>2, <1>3, <1>4, Nowhere, LockCounts, Zenon DEF PairInv, OnCpu, WithLock, WithTicks,
     AtSpin
<1>11. ProcInv(p)'
  BY <1>1, <1>2, <1>3, <1>4, Zenon DEF ProcInv, MustWait, OnCpu
<1> QED BY <1>1, <1>2, <1>3, <1>4, <1>5, <1>6, <1>7, <1>8, <1>9, <1>10, <1>11, Nowhere, FrameStep,
   Zenon

\* The timer interrupts a process that holds no lock and is in no other trap.
LEMMA TimerYieldStep ==
  ASSUME SchedInv, NEW c \in CPUs, NEW p \in Procs, timer_yield(c, p)
  PROVE  SchedInv'
<1>1. /\ OnCpu(c, p) /\ CpuInv(c) /\ PairInv(c, p) /\ ProcInv(p) /\ TypeOK
      /\ p # None /\ cur[c] = p /\ ~panicked
      /\ \A q \in Procs \ {p} : plock[q] # c
      /\ \A d \in CPUs \ {c} : cur[d] # p
  BY Here, Zenon DEF timer_yield, InHandler
<1>2. /\ h[c] = "none" /\ ie[c] /\ ~ie'[c] /\ trap'[p] = "yield"
  BY <1>1, Zenon DEF timer_yield, InHandler, TypeOK
<1>3. /\ cur' = cur /\ noff' = noff /\ intena' = intena /\ spc' = spc /\ si' = si /\ h' = h
      /\ hi' = hi /\ ticks' = ticks /\ tlock' = tlock /\ state' = state /\ sleeping' = sleeping
      /\ plock' = plock /\ pc' = pc /\ saved' = saved /\ ticks0' = ticks0 /\ n' = n
      /\ panicked' = panicked
  BY Zenon DEF timer_yield, InHandler
<1>4. noff[c] = 0 /\ tlock # c /\ plock[p] # c /\ trap[p] = "none" /\ pc[p] \in {"user", "reacq"} /\ state[p] = "RUNNING"
  BY <1>1, <1>2, Unlocked DEF TypeOK
<1>5. TypeOK'
  BY <1>1, Zenon DEF timer_yield, InHandler, TypeOK
<1>6. OtherCpus(c)
  BY <1>1, Zenon DEF timer_yield, InHandler, TypeOK, OtherCpus
<1>7. OtherLocks(c)
  BY <1>3, Zenon DEF OtherLocks
<1>8. OtherProcs(c, p)
  BY <1>1, ZenonT(40) DEF timer_yield, InHandler, TypeOK, OtherProcs
<1>9. CpuInv(c)'
  BY <1>1, <1>2, <1>3, <1>4, Nowhere, Zenon DEF CpuInv, InIdle, OnCpu
<1>10. PairInv(c, p)'
  BY <1>1, <1>2, <1>3, <1>4, Nowhere, LockCounts, Zenon DEF PairInv, OnCpu, WithLock, WithTicks,
     AtSpin
<1>11. ProcInv(p)'
  BY <1>1, <1>2, <1>3, <1>4, Zenon DEF ProcInv, MustWait, OnCpu
<1> QED BY <1>1, <1>2, <1>3, <1>4, <1>5, <1>6, <1>7, <1>8, <1>9, <1>10, <1>11, Nowhere, FrameStep,
   Zenon

\* At the end of clockintr() there is nothing left to wake; the process will yield.
LEMMA ClockYieldStep ==
  ASSUME SchedInv, NEW c \in CPUs, NEW p \in Procs, clock_yield(c, p)
  PROVE  SchedInv'
<1>1. /\ OnCpu(c, p) /\ CpuInv(c) /\ PairInv(c, p) /\ ProcInv(p) /\ TypeOK
      /\ p # None /\ cur[c] = p /\ ~panicked
      /\ \A q \in Procs \ {p} : plock[q] # c
      /\ \A d \in CPUs \ {c} : cur[d] # p
  BY Here, Zenon DEF clock_yield, InHandler
<1>2. /\ h[c] = "scan" /\ hi[c] > LastSlot /\ tlock' = None /\ noff'[c] = noff[c] - 1
      /\ h'[c] = "none" /\ ~ie'[c] /\ trap'[p] = "yield"
  BY <1>1, Zenon DEF clock_yield, InHandler, TypeOK
<1>3. /\ cur' = cur /\ intena' = intena /\ spc' = spc /\ si' = si /\ hi' = hi /\ ticks' = ticks
      /\ state' = state /\ sleeping' = sleeping /\ plock' = plock /\ pc' = pc /\ saved' = saved
      /\ ticks0' = ticks0 /\ n' = n /\ panicked' = panicked
  BY Zenon DEF clock_yield, InHandler
<1>4. noff[c] = 1 /\ noff'[c] = 0 /\ tlock = c /\ plock[p] # c /\ trap[p] = "none" /\ pc[p] \in {"user", "reacq"}
  BY <1>1, <1>2, LockCounts, Zenon DEF OnCpu, CpuInv, PairInv
<1>5. \A q \in Procs : ~(hi[c] <= q)
  BY <1>1, <1>2, PastLast, Zenon DEF TypeOK
<1>6. TypeOK'
  <2>1. noff' \in [CPUs -> 0 .. 2]
    BY <1>1, <1>2, <1>4, LockCounts, ZenonT(40) DEF clock_yield, InHandler, TypeOK
  <2> QED BY <1>1, <2>1, Zenon DEF clock_yield, InHandler, TypeOK
<1>7. OtherCpus(c)
  BY <1>1, Zenon DEF clock_yield, InHandler, TypeOK, OtherCpus
<1>8. OtherLocks(c)
  <2>1. plock' = plock
    BY <1>3, Zenon
  <2>2. tlock' = None /\ tlock \in {c, None}
    BY <1>2, <1>4, Zenon
  <2> QED BY <2>1, <2>2, Nowhere, Zenon DEF OtherLocks
<1>9. OtherProcs(c, p)
  BY <1>1, <1>5, Zenon DEF clock_yield, InHandler, TypeOK, OtherProcs
<1>10. CpuInv(c)'
  BY <1>1, <1>2, <1>3, <1>4, Nowhere, Zenon DEF CpuInv, InIdle, OnCpu
<1>11. PairInv(c, p)'
  BY <1>1, <1>2, <1>3, <1>4, Nowhere, LockCounts, Zenon DEF PairInv, OnCpu, WithLock, WithTicks,
     AtSpin
<1>12. ProcInv(p)'
  BY <1>1, <1>2, <1>3, <1>4, Zenon DEF ProcInv, MustWait, OnCpu
<1> QED BY <1>1, <1>2, <1>3, <1>4, <1>6, <1>7, <1>8, <1>9, <1>10, <1>11, <1>12, Nowhere, FrameStep,
   Zenon

\* The scheduler turns interrupts on between two locks.
LEMMA SchedOnStep ==
  ASSUME SchedInv, NEW c \in CPUs, sched_on(c)
  PROVE  SchedInv'
<1>1. /\ InIdle(c) /\ CpuInv(c) /\ TypeOK /\ cur[c] = None /\ ~panicked
      /\ \A q \in Procs : plock[q] = c => spc[c] = "back" /\ si[c] = q /\ h[c] = "none"
  BY Idle, Zenon DEF sched_on, InScheduler
<1>2. /\ h[c] = "none" /\ spc[c] = "loop" /\ ie'[c]
  BY <1>1, Zenon DEF sched_on, InScheduler, TypeOK
<1>3. /\ cur' = cur /\ noff' = noff /\ intena' = intena /\ spc' = spc /\ si' = si /\ h' = h
      /\ hi' = hi /\ ticks' = ticks /\ tlock' = tlock /\ state' = state /\ sleeping' = sleeping
      /\ plock' = plock /\ pc' = pc /\ trap' = trap /\ saved' = saved /\ ticks0' = ticks0 /\ n' = n
      /\ panicked' = panicked
  BY Zenon DEF sched_on, InScheduler
<1>4. noff[c] = 0 /\ tlock # c /\ \A q \in Procs : plock[q] # c
  BY <1>1, <1>2, LockCounts, Zenon DEF InIdle, CpuInv
<1>5. TypeOK'
  BY <1>1, Zenon DEF sched_on, InScheduler, TypeOK
<1>6. OtherCpus(c)
  BY <1>1, Zenon DEF sched_on, InScheduler, TypeOK, OtherCpus
<1>7. OtherLocks(c)
  BY <1>3, Zenon DEF OtherLocks
<1>8. OtherProcs(c, None)
  BY <1>1, <1>4, Zenon DEF sched_on, InScheduler, TypeOK, OtherProcs
<1>9. CpuInv(c)'
  BY <1>1, <1>2, <1>3, <1>4, Nowhere, Zenon DEF CpuInv, InIdle
<1> QED BY <1>1, <1>2, <1>3, <1>4, <1>5, <1>6, <1>7, <1>8, <1>9, Nowhere, FrameStep, Zenon

\* The scheduler waits for the lock of the next process with nothing in hand.
LEMMA SchedSpinStep ==
  ASSUME SchedInv, NEW c \in CPUs, sched_spin(c)
  PROVE  SchedInv'
<1>1. /\ InIdle(c) /\ CpuInv(c) /\ TypeOK /\ cur[c] = None /\ ~panicked
      /\ \A q \in Procs : plock[q] = c => spc[c] = "back" /\ si[c] = q /\ h[c] = "none"
  BY Idle, Zenon DEF sched_spin, InScheduler, push_off
<1>2. /\ h[c] = "none" /\ spc[c] = "loop" /\ si[c] \in Procs /\ noff'[c] = noff[c] + 1 /\ ~ie'[c]
      /\ spc'[c] = "spin"
  BY <1>1, Zenon DEF sched_spin, InScheduler, push_off, TypeOK
<1>3. /\ cur' = cur /\ si' = si /\ h' = h /\ hi' = hi /\ ticks' = ticks /\ tlock' = tlock
      /\ state' = state /\ sleeping' = sleeping /\ plock' = plock /\ pc' = pc /\ trap' = trap
      /\ saved' = saved /\ ticks0' = ticks0 /\ n' = n /\ panicked' = panicked
  BY Zenon DEF sched_spin, InScheduler, push_off
<1>4. noff[c] = 0 /\ noff'[c] = 1 /\ tlock # c /\ \A q \in Procs : plock[q] # c
  BY <1>1, <1>2, LockCounts, Zenon DEF InIdle, CpuInv
<1>5. TypeOK'
  <2>1. noff' \in [CPUs -> 0 .. 2]
    BY <1>1, <1>2, <1>4, LockCounts, Zenon DEF sched_spin, InScheduler, push_off, TypeOK
  <2> QED BY <1>1, <2>1, Zenon DEF sched_spin, InScheduler, push_off, TypeOK
<1>6. OtherCpus(c)
  BY <1>1, Zenon DEF sched_spin, InScheduler, push_off, TypeOK, OtherCpus
<1>7. OtherLocks(c)
  BY <1>3, Zenon DEF OtherLocks
<1>8. OtherProcs(c, None)
  BY <1>1, <1>4, Zenon DEF sched_spin, InScheduler, push_off, TypeOK, OtherProcs
<1>9. CpuInv(c)'
  BY <1>1, <1>2, <1>3, <1>4, Nowhere, Zenon DEF CpuInv, InIdle
<1> QED BY <1>1, <1>2, <1>3, <1>4, <1>5, <1>6, <1>7, <1>8, <1>9, Nowhere, FrameStep, Zenon

\* The head of the scheduler's loop.
LEMMA SchedNextStep ==
  ASSUME SchedInv, NEW c \in CPUs, sched_next(c)
  PROVE  SchedInv'
<1>1. si[c] \in Procs
  BY SchedAssumption DEF SchedInv, TypeOK, sched_next, Procs
<1>2. sched_on(c) \/ sched_spin(c)
  BY <1>1, Zenon DEF sched_next, sched_on, sched_spin
<1> QED BY <1>2, SchedOnStep, SchedSpinStep, Zenon

\* The scheduler releases the lock of a process that it does not run.
LEMMA SkipStep ==
  ASSUME SchedInv, NEW c \in CPUs, sched_skip(c)
  PROVE  SchedInv'
<1>1. /\ InIdle(c) /\ CpuInv(c) /\ TypeOK /\ cur[c] = None /\ ~panicked
      /\ \A q \in Procs : plock[q] = c => spc[c] = "back" /\ si[c] = q /\ h[c] = "none"
  BY Idle, Zenon DEF sched_skip, InScheduler, pop_off
<1>2. /\ h[c] = "none" /\ spc[c] = "spin" /\ noff'[c] = noff[c] - 1 /\ si'[c] = si[c] + 1
      /\ spc'[c] = "loop" /\ (ie'[c] => noff[c] = 1)
  BY <1>1, Zenon DEF sched_skip, InScheduler, pop_off, TypeOK
<1>3. /\ cur' = cur /\ intena' = intena /\ h' = h /\ hi' = hi /\ ticks' = ticks /\ tlock' = tlock
      /\ state' = state /\ sleeping' = sleeping /\ plock' = plock /\ pc' = pc /\ trap' = trap
      /\ saved' = saved /\ ticks0' = ticks0 /\ n' = n /\ panicked' = panicked
  BY Zenon DEF sched_skip, InScheduler, pop_off
<1>4. noff[c] = 1 /\ noff'[c] = 0 /\ si[c] \in Procs /\ \A q \in Procs : plock[q] # c
  BY <1>1, <1>2, LockCounts, Zenon DEF InIdle, CpuInv
<1>5. TypeOK'
  <2>1. noff' \in [CPUs -> 0 .. 2]
    BY <1>1, <1>2, <1>4, LockCounts, ZenonT(40) DEF sched_skip, InScheduler, pop_off, TypeOK
  <2>2. si' \in [CPUs -> 1 .. NPROC + 1]
    BY <1>1, <1>2, <1>4, NextSlot, Zenon DEF sched_skip, InScheduler, pop_off, TypeOK
  <2> QED BY <1>1, <2>1, <2>2, Zenon DEF sched_skip, InScheduler, pop_off, TypeOK
<1>6. OtherCpus(c)
  BY <1>1, ZenonT(40) DEF sched_skip, InScheduler, pop_off, TypeOK, OtherCpus
<1>7. OtherLocks(c)
  BY <1>3, Zenon DEF OtherLocks
<1>8. OtherProcs(c, None)
  BY <1>1, <1>4, Zenon DEF sched_skip, InScheduler, pop_off, TypeOK, OtherProcs
<1>9. CpuInv(c)'
  BY <1>1, <1>2, <1>3, <1>4, Nowhere, Zenon DEF CpuInv, InIdle
<1> QED BY <1>1, <1>2, <1>3, <1>4, <1>5, <1>6, <1>7, <1>8, <1>9, Nowhere, FrameStep, Zenon

\* The scheduler ends a scan without a lock.
LEMMA SchedEndStep ==
  ASSUME SchedInv, NEW c \in CPUs, sched_end(c)
  PROVE  SchedInv'
<1>1. /\ InIdle(c) /\ CpuInv(c) /\ TypeOK /\ cur[c] = None /\ ~panicked
      /\ \A q \in Procs : plock[q] = c => spc[c] = "back" /\ si[c] = q /\ h[c] = "none"
  BY Idle, Zenon DEF sched_end, InScheduler
<1>2. /\ h[c] = "none" /\ spc[c] = "loop" /\ si'[c] = 1 /\ spc'[c] \in {"loop", "wfi"}
  BY <1>1, ZenonT(40) DEF sched_end, InScheduler, TypeOK
<1>3. /\ cur' = cur /\ noff' = noff /\ intena' = intena /\ h' = h /\ hi' = hi /\ ticks' = ticks
      /\ tlock' = tlock /\ state' = state /\ sleeping' = sleeping /\ plock' = plock /\ pc' = pc
      /\ trap' = trap /\ saved' = saved /\ ticks0' = ticks0 /\ n' = n /\ panicked' = panicked
  BY Zenon DEF sched_end, InScheduler
<1>4. noff[c] = 0 /\ tlock # c /\ \A q \in Procs : plock[q] # c
  BY <1>1, <1>2, LockCounts, Zenon DEF InIdle, CpuInv
<1>5. TypeOK'
  <2>1. si' \in [CPUs -> 1 .. NPROC + 1]
    BY <1>1, <1>2, <1>4, NextSlot, Zenon DEF sched_end, InScheduler, TypeOK
  <2> QED BY <1>1, <2>1, ZenonT(40) DEF sched_end, InScheduler, TypeOK
<1>6. OtherCpus(c)
  BY <1>1, ZenonT(40) DEF sched_end, InScheduler, TypeOK, OtherCpus
<1>7. OtherLocks(c)
  BY <1>3, Zenon DEF OtherLocks
<1>8. OtherProcs(c, None)
  BY <1>1, <1>4, Zenon DEF sched_end, InScheduler, TypeOK, OtherProcs
<1>9. CpuInv(c)'
  BY <1>1, <1>2, <1>3, <1>4, Nowhere, Zenon DEF CpuInv, InIdle
<1> QED BY <1>1, <1>2, <1>3, <1>4, <1>5, <1>6, <1>7, <1>8, <1>9, Nowhere, FrameStep, Zenon

\* The timer interrupts a scheduler that holds no lock.
LEMMA TimerIdleStep ==
  ASSUME SchedInv, NEW c \in CPUs, timer_idle(c)
  PROVE  SchedInv'
<1>1. /\ InIdle(c) /\ CpuInv(c) /\ TypeOK /\ cur[c] = None /\ ~panicked
      /\ \A q \in Procs : plock[q] = c => spc[c] = "back" /\ si[c] = q /\ h[c] = "none"
  BY Idle, Zenon DEF timer_idle, InHandler
<1>2. /\ h[c] = "none" /\ ie[c] /\ spc'[c] = "loop" /\ ie'[c]
  BY <1>1, Zenon DEF timer_idle, InHandler, TypeOK
<1>3. /\ cur' = cur /\ noff' = noff /\ intena' = intena /\ si' = si /\ h' = h /\ hi' = hi
      /\ ticks' = ticks /\ tlock' = tlock /\ state' = state /\ sleeping' = sleeping
      /\ plock' = plock /\ pc' = pc /\ trap' = trap /\ saved' = saved /\ ticks0' = ticks0 /\ n' = n
      /\ panicked' = panicked
  BY Zenon DEF timer_idle, InHandler
<1>4. noff[c] = 0 /\ tlock # c /\ \A q \in Procs : plock[q] # c
  BY <1>1, <1>2, LockCounts, Zenon DEF InIdle, CpuInv
<1>5. TypeOK'
  BY <1>1, Zenon DEF timer_idle, InHandler, TypeOK
<1>6. OtherCpus(c)
  BY <1>1, ZenonT(40) DEF timer_idle, InHandler, TypeOK, OtherCpus
<1>7. OtherLocks(c)
  BY <1>3, Zenon DEF OtherLocks
<1>8. OtherProcs(c, None)
  BY <1>1, <1>4, Zenon DEF timer_idle, InHandler, TypeOK, OtherProcs
<1>9. CpuInv(c)'
  BY <1>1, <1>2, <1>3, <1>4, Nowhere, Zenon DEF CpuInv, InIdle
<1> QED BY <1>1, <1>2, <1>3, <1>4, <1>5, <1>6, <1>7, <1>8, <1>9, Nowhere, FrameStep, Zenon

\* At the end of clockintr() there is nothing left to wake; the scheduler goes on.
LEMMA ClockIdleStep ==
  ASSUME SchedInv, NEW c \in CPUs, clock_idle(c)
  PROVE  SchedInv'
<1>1. /\ InIdle(c) /\ CpuInv(c) /\ TypeOK /\ cur[c] = None /\ ~panicked
      /\ \A q \in Procs : plock[q] = c => spc[c] = "back" /\ si[c] = q /\ h[c] = "none"
  BY Idle, Zenon DEF clock_idle, InHandler
<1>2. /\ h[c] = "scan" /\ hi[c] > LastSlot /\ tlock' = None /\ noff'[c] = noff[c] - 1
      /\ h'[c] = "none" /\ spc'[c] = "loop" /\ ie'[c]
  BY <1>1, ZenonT(40) DEF clock_idle, InHandler, TypeOK
<1>3. /\ cur' = cur /\ intena' = intena /\ si' = si /\ hi' = hi /\ ticks' = ticks /\ state' = state
      /\ sleeping' = sleeping /\ plock' = plock /\ pc' = pc /\ trap' = trap /\ saved' = saved
      /\ ticks0' = ticks0 /\ n' = n /\ panicked' = panicked
  BY Zenon DEF clock_idle, InHandler
<1>4. noff[c] = 1 /\ noff'[c] = 0 /\ tlock = c /\ \A q \in Procs : plock[q] # c
  BY <1>1, <1>2, LockCounts, Zenon DEF InIdle, CpuInv
<1>5. \A q \in Procs : ~(hi[c] <= q)
  BY <1>1, <1>2, PastLast, Zenon DEF TypeOK
<1>6. TypeOK'
  <2>1. noff' \in [CPUs -> 0 .. 2]
    BY <1>1, <1>2, <1>4, LockCounts, ZenonT(40) DEF clock_idle, InHandler, TypeOK
  <2> QED BY <1>1, <2>1, Zenon DEF clock_idle, InHandler, TypeOK
<1>7. OtherCpus(c)
  BY <1>1, ZenonT(40) DEF clock_idle, InHandler, TypeOK, OtherCpus
<1>8. OtherLocks(c)
  <2>1. plock' = plock
    BY <1>3, Zenon
  <2>2. tlock' = None /\ tlock \in {c, None}
    BY <1>2, <1>4, Zenon
  <2> QED BY <2>1, <2>2, Nowhere, Zenon DEF OtherLocks
<1>9. OtherProcs(c, None)
  BY <1>1, <1>4, <1>5, Zenon DEF clock_idle, InHandler, TypeOK, OtherProcs
<1>10. CpuInv(c)'
  BY <1>1, <1>2, <1>3, <1>4, Nowhere, Zenon DEF CpuInv, InIdle
<1> QED BY <1>1, <1>2, <1>3, <1>4, <1>6, <1>7, <1>8, <1>9, <1>10, Nowhere, FrameStep, Zenon

\* A RUNNABLE process whose lock is free is on no CPU, and waits where sched() returns.
LEMMA RunStep ==
  ASSUME SchedInv, NEW c \in CPUs, NEW p \in Procs, sched_run(c, p)
  PROVE  SchedInv'
<1>1. /\ InIdle(c) /\ CpuInv(c) /\ TypeOK /\ cur[c] = None /\ ~panicked
      /\ \A q \in Procs : plock[q] # c
      /\ ProcInv(p) /\ p # None
  BY Idle, Nowhere, Zenon DEF sched_run, InScheduler, SchedInv
<1>2. \A d \in CPUs : cur[d] # p
  BY OffCpu, Zenon DEF sched_run
<1>3. /\ h[c] = "none" /\ spc[c] = "spin" /\ si[c] = p /\ state[p] = "RUNNABLE" /\ plock[p] = None
      /\ plock'[p] = c /\ state'[p] = "RUNNING" /\ cur'[c] = p /\ spc'[c] = "back"
      /\ noff' = noff /\ intena' = intena /\ ie' = ie /\ si' = si /\ h' = h /\ hi' = hi
      /\ ticks' = ticks /\ tlock' = tlock /\ sleeping' = sleeping /\ pc' = pc /\ trap' = trap
      /\ saved' = saved /\ ticks0' = ticks0 /\ n' = n /\ panicked' = panicked
  BY <1>1, Zenon DEF sched_run, InScheduler, TypeOK
<1>4. noff[c] = 1 /\ ~ie[c] /\ tlock # c
  BY <1>1, <1>3, LockCounts, Zenon DEF InIdle, CpuInv
<1>5. trap[p] = "woken" \/ (trap[p] = "none" /\ pc[p] \in {"user", "woken"})
  BY <1>1, <1>2, Zenon DEF ProcInv
<1>6. TypeOK'
  BY <1>1, Zenon DEF sched_run, TypeOK
<1>7. OtherCpus(c)
  BY <1>1, <1>3, Zenon DEF sched_run, TypeOK, OtherCpus
<1>8. OtherLocks(c)
  <2>1. plock' = [plock EXCEPT ![p] = c] /\ plock \in [Procs -> CPUs \cup {None}]
    BY <1>1, Zenon DEF sched_run, TypeOK
  <2> QED BY <1>3, <2>1, Nowhere DEF OtherLocks
<1>9. OtherProcs(c, p)
  BY <1>1, <1>3, Zenon DEF sched_run, TypeOK, OtherProcs
<1>10. CpuInv(c)'
  BY <1>1, <1>3, <1>4, Zenon DEF CpuInv
<1>11. PairInv(c, p)'
  BY <1>1, <1>3, <1>4, <1>5, LockCounts, Zenon DEF PairInv, OnCpu, WithLock, WithTicks, AtSpin
<1>12. ProcInv(p)'
  BY <1>1, <1>3, <1>5, Zenon DEF ProcInv, MustWait
<1> QED BY <1>1, <1>2, <1>3, <1>6, <1>7, <1>8, <1>9, <1>10, <1>11, <1>12, FrameStep, Zenon

\* The scheduler releases the lock of the process that has just left the CPU.
LEMMA SchedBackStep ==
  ASSUME SchedInv, NEW c \in CPUs, sched_back(c)
  PROVE  SchedInv'
<1>1. /\ InIdle(c) /\ CpuInv(c) /\ TypeOK /\ cur[c] = None /\ ~panicked
      /\ \A q \in Procs : plock[q] = c => spc[c] = "back" /\ si[c] = q /\ h[c] = "none"
  BY Idle, Zenon DEF sched_back, InScheduler, pop_off
<1>2. /\ h[c] = "none" /\ spc[c] = "back" /\ noff'[c] = noff[c] - 1 /\ si'[c] = si[c] + 1
      /\ spc'[c] = "loop" /\ (ie'[c] => noff[c] = 1)
  BY <1>1, ZenonT(40) DEF sched_back, InScheduler, pop_off, TypeOK
<1>3. /\ cur' = cur /\ intena' = intena /\ h' = h /\ hi' = hi /\ ticks' = ticks /\ tlock' = tlock
      /\ state' = state /\ sleeping' = sleeping /\ pc' = pc /\ trap' = trap /\ saved' = saved
      /\ ticks0' = ticks0 /\ n' = n /\ panicked' = panicked
  BY Zenon DEF sched_back, InScheduler, pop_off
<1>4. noff[c] = 1 /\ noff'[c] = 0 /\ tlock # c /\ si[c] \in Procs /\ plock[si[c]] = c
  BY <1>1, <1>2, LockCounts, Zenon DEF InIdle, CpuInv
<1>5. TypeOK'
  <2>1. noff' \in [CPUs -> 0 .. 2]
    BY <1>1, <1>2, <1>4, LockCounts, ZenonT(40) DEF sched_back, InScheduler, pop_off, TypeOK
  <2>2. si' \in [CPUs -> 1 .. NPROC + 1]
    BY <1>1, <1>2, <1>4, NextSlot, Zenon DEF sched_back, InScheduler, pop_off, TypeOK
  <2> QED BY <1>1, <2>1, <2>2, Zenon DEF sched_back, InScheduler, pop_off, TypeOK
<1>6. OtherCpus(c)
  BY <1>1, ZenonT(40) DEF sched_back, InScheduler, pop_off, TypeOK, OtherCpus
<1>7. OtherLocks(c)
  <2>1. plock' = [plock EXCEPT ![si[c]] = None] /\ plock \in [Procs -> CPUs \cup {None}]
    BY <1>1, Zenon DEF sched_back, InScheduler, pop_off, TypeOK
  <2>2. tlock' = tlock
    BY <1>3, Zenon
  <2>3. plock[si[c]] \in {c, None}
    BY <1>2, <1>4, Zenon
  <2> QED BY <2>1, <2>2, <2>3, Nowhere DEF OtherLocks
<1>8. OtherProcs(c, None)
  <2>1. \A q \in Procs : plock'[q] # c
    BY <1>1, <1>4, Nowhere, ZenonT(40) DEF sched_back, TypeOK
  <2> QED BY <1>1, <2>1, Zenon DEF sched_back, InScheduler, pop_off, OtherProcs
<1>9. CpuInv(c)'
  BY <1>1, <1>2, <1>3, <1>4, Nowhere, Zenon DEF CpuInv, InIdle
<1> QED BY <1>1, <1>2, <1>3, <1>4, <1>5, <1>6, <1>7, <1>8, <1>9, Nowhere, FrameStep, Zenon

\* The timer interrupts CPU 0 only where it holds no lock: in its scheduler,
LEMMA TimerClockIdleStep ==
  ASSUME SchedInv, NEW c \in CPUs, timer_clock(c), cur[c] = None
  PROVE  SchedInv'
<1>1. /\ InIdle(c) /\ CpuInv(c) /\ TypeOK /\ cur[c] = None /\ ~panicked
      /\ \A q \in Procs : plock[q] = c => spc[c] = "back" /\ si[c] = q /\ h[c] = "none"
  BY Idle, Zenon DEF timer_clock, InHandler
<1>2. /\ h[c] = "none" /\ ie[c] /\ h'[c] = "clock" /\ ~ie'[c]
  BY <1>1, Zenon DEF timer_clock, InHandler, TypeOK
<1>3. /\ cur' = cur /\ noff' = noff /\ intena' = intena /\ spc' = spc /\ si' = si /\ hi' = hi
      /\ ticks' = ticks /\ tlock' = tlock /\ state' = state /\ sleeping' = sleeping
      /\ plock' = plock /\ pc' = pc /\ trap' = trap /\ saved' = saved /\ ticks0' = ticks0 /\ n' = n
      /\ panicked' = panicked
  BY Zenon DEF timer_clock, InHandler
<1>4. noff[c] = 0 /\ tlock # c /\ spc[c] \in {"loop", "wfi"} /\ \A q \in Procs : plock[q] # c
  BY <1>1, <1>2, LockCounts, Zenon DEF InIdle, CpuInv, TypeOK
<1>5. TypeOK'
  BY <1>1, Zenon DEF timer_clock, InHandler, TypeOK
<1>6. OtherCpus(c)
  BY <1>1, ZenonT(40) DEF timer_clock, InHandler, TypeOK, OtherCpus
<1>7. OtherLocks(c)
  BY <1>3, Zenon DEF OtherLocks
<1>8. OtherProcs(c, None)
  BY <1>1, <1>4, Zenon DEF timer_clock, InHandler, TypeOK, OtherProcs
<1>9. CpuInv(c)'
  BY <1>1, <1>2, <1>3, <1>4, Nowhere, Zenon DEF CpuInv, InIdle
<1> QED BY <1>1, <1>2, <1>3, <1>4, <1>5, <1>6, <1>7, <1>8, <1>9, Nowhere, FrameStep, Zenon

\* or in a process.
LEMMA TimerClockStep ==
  ASSUME SchedInv, NEW c \in CPUs, NEW p \in Procs, timer_clock(c), cur[c] = p
  PROVE  SchedInv'
<1>1. /\ OnCpu(c, p) /\ CpuInv(c) /\ PairInv(c, p) /\ ProcInv(p) /\ TypeOK
      /\ p # None /\ cur[c] = p /\ ~panicked
      /\ \A q \in Procs \ {p} : plock[q] # c
      /\ \A d \in CPUs \ {c} : cur[d] # p
  BY Here, ZenonT(40) DEF timer_clock, InHandler
<1>2. /\ h[c] = "none" /\ ie[c] /\ ~ie'[c] /\ h'[c] = "clock"
  BY <1>1, ZenonT(40) DEF timer_clock, InHandler, TypeOK
<1>3. /\ cur' = cur /\ noff' = noff /\ intena' = intena /\ spc' = spc /\ si' = si /\ hi' = hi
      /\ ticks' = ticks /\ tlock' = tlock /\ state' = state /\ sleeping' = sleeping
      /\ plock' = plock /\ pc' = pc /\ trap' = trap /\ saved' = saved /\ ticks0' = ticks0 /\ n' = n
      /\ panicked' = panicked
  BY Zenon DEF timer_clock, InHandler
<1>4. noff[c] = 0 /\ tlock # c /\ plock[p] # c /\ trap[p] = "none" /\ pc[p] \in {"user", "reacq"} /\ state[p] = "RUNNING"
  BY <1>1, <1>2, Unlocked DEF TypeOK
<1>5. TypeOK'
  BY <1>1, Zenon DEF timer_clock, InHandler, TypeOK
<1>6. OtherCpus(c)
  BY <1>1, ZenonT(40) DEF timer_clock, InHandler, TypeOK, OtherCpus
<1>7. OtherLocks(c)
  BY <1>3, Zenon DEF OtherLocks
<1>8. OtherProcs(c, p)
  BY <1>1, Zenon DEF timer_clock, InHandler, TypeOK, OtherProcs
<1>9. CpuInv(c)'
  BY <1>1, <1>2, <1>3, <1>4, Nowhere, Zenon DEF CpuInv, InIdle, OnCpu
<1>10. PairInv(c, p)'
  BY <1>1, <1>2, <1>3, <1>4, Nowhere, LockCounts, Zenon DEF PairInv, OnCpu, WithLock, WithTicks,
     AtSpin
<1>11. ProcInv(p)'
  BY <1>1, <1>2, <1>3, <1>4, Zenon DEF ProcInv, MustWait, OnCpu
<1> QED BY <1>1, <1>2, <1>3, <1>4, <1>5, <1>6, <1>7, <1>8, <1>9, <1>10, <1>11, Nowhere, FrameStep,
   Zenon

\* clockintr() takes tickslock when nobody is between the test of sys_sleep() and SLEEPING; its
\* wakeup() has the whole table before it.
LEMMA ClockStep ==
  ASSUME SchedInv, NEW c \in CPUs, clockintr(c)
  PROVE  SchedInv'
<1> USE DEF clockintr, InHandler, push_off
<1>1. CpuInv(c) /\ TypeOK /\ ~panicked /\ h[c] = "clock" /\ noff[c] = 0 /\ tlock = None
  BY Zenon DEF SchedInv, CpuInv
<1>2. TypeOK'
  <2>1. ie' \in [CPUs -> BOOLEAN] /\ intena' \in [CPUs -> BOOLEAN]
    BY <1>1, Zenon DEF TypeOK
  <2> QED BY <1>1, SchedAssumption DEF TypeOK
<1>3. /\ ~ie'[c] /\ noff'[c] = 1 /\ h'[c] = "scan" /\ hi'[c] = 1
      /\ \A d \in CPUs \ {c} : ie'[d] = ie[d] /\ intena'[d] = intena[d] /\ noff'[d] = noff[d]
                               /\ h'[d] = h[d] /\ tlock' # d
  BY <1>1, Nowhere DEF TypeOK
<1>4. ASSUME NEW d \in CPUs PROVE CpuInv(d)'
  <2>1. CpuInv(d)
    BY DEF SchedInv
  <2> QED BY <1>3, <2>1, Nowhere, ZenonT(40) DEF CpuInv, InIdle
<1>5. ASSUME NEW d \in CPUs, NEW q \in Procs PROVE PairInv(d, q)'
  <2>1. PairInv(d, q)
    BY DEF SchedInv
  <2>2. CASE d = c
    BY <1>3, <2>1, <2>2, Zenon DEF PairInv, OnCpu, WithLock
  <2>3. CASE d # c
    BY <2>1, <2>3, Nowhere DEF TypeOK, PairInv, OnCpu, WithLock, WithTicks, AtSpin
  <2> QED BY <2>2, <2>3
<1>6. ASSUME NEW q \in Procs PROVE ProcInv(q)'
  <2>1. ProcInv(q)
    BY DEF SchedInv
  <2>2. pc[q] \notin {"sleep", "sleep2"}
    <3> SUFFICES ASSUME pc[q] \in {"sleep", "sleep2"} PROVE FALSE
      OBVIOUS
    <3>1. trap[q] = "none" /\ \E d \in CPUs : cur[d] = q
      BY <2>1, Zenon DEF ProcInv
    <3>2. PICK d \in CPUs : cur[d] = q
      BY <3>1
    <3>3. OnCpu(d, q)
      BY <3>2, Here, Zenon
    <3> QED BY <1>1, <3>1, <3>3, Nowhere, Zenon DEF OnCpu, WithTicks
  <2>3. h'[c] = "scan" /\ hi'[c] <= q
    BY <1>3 DEF Procs
  <2> QED BY <2>1, <2>2, <2>3, Zenon DEF ProcInv
<1> QED BY <1>2, <1>4, <1>5, <1>6 DEF SchedInv, OneCpu

\* wakeup() leaves no sleeper behind in the slots it has passed.
LEMMA WakeupStep ==
  ASSUME SchedInv, NEW c \in CPUs, wakeup(c)
  PROVE  SchedInv'
<1> USE DEF wakeup, InHandler, LastSlot
<1>1. PICK p \in Procs : hi[c] = p
  BY DEF SchedInv, TypeOK, Procs
<1>2. TypeOK /\ plock[p] = None /\ ~panicked /\ \A q \in Procs \ {p} : state'[q] = state[q]
  BY <1>1 DEF SchedInv
<1>3. TypeOK'
  <2>1. state' \in [Procs -> {"SLEEPING", "RUNNABLE", "RUNNING"}]
    BY <1>2, Zenon DEF TypeOK
  <2>2. hi' \in [CPUs -> 1 .. NPROC + 1]
    BY <1>2, SchedAssumption DEF TypeOK
  <2> QED BY <1>2, <2>1, <2>2, Zenon DEF TypeOK
<1>4. state[p] = "SLEEPING" => state'[p] = "RUNNABLE" /\ \A d \in CPUs : cur[d] # p
  <2>1. ProcInv(p) /\ (state[p] = "SLEEPING" => \A d \in CPUs : cur[d] # p)
    BY <1>2, OffCpu, Zenon DEF SchedInv
  <2> QED BY <1>1, <1>2, <2>1, Zenon DEF TypeOK, ProcInv
<1>5. state[p] # "SLEEPING" => state'[p] = state[p]
  BY <1>1, <1>2 DEF TypeOK
<1>6. ASSUME NEW d \in CPUs PROVE CpuInv(d)'
  BY Zenon DEF SchedInv, CpuInv, InIdle
<1>7. ASSUME NEW d \in CPUs, NEW q \in Procs PROVE PairInv(d, q)'
  <2>1. PairInv(d, q) /\ (cur[d] = q => state'[q] = state[q])
    BY <1>2, <1>4, <1>5, Zenon DEF SchedInv
  <2> QED BY <2>1, Zenon DEF PairInv, OnCpu, WithLock, WithTicks, AtSpin
<1>8. ASSUME NEW q \in Procs PROVE ProcInv(q)'
  <2>1. ProcInv(q)
    BY DEF SchedInv
  <2>2. state'[q] = "SLEEPING" => state[q] = "SLEEPING" /\ q # p
    BY <1>2, <1>4, <1>5
  <2>3. \A d \in CPUs : q # p /\ hi[d] <= q => hi'[d] <= q
    BY <1>1, <1>2 DEF TypeOK, Procs
  <2>4. state[q] # "RUNNING" => state'[q] # "RUNNING"
    BY <1>2, <1>4, <1>5
  <2> QED BY <2>1, <2>2, <2>3, <2>4, Zenon DEF ProcInv, MustWait
<1> QED BY <1>2, <1>3, <1>6, <1>7, <1>8, Zenon DEF SchedInv, OneCpu

\* kill() makes a sleeper RUNNABLE, under its lock, and changes nobody's locks.
LEMMA KillStep ==
  ASSUME SchedInv, NEW p \in Procs, kill(p)
  PROVE  SchedInv'
<1> USE DEF kill
<1>1. TypeOK /\ plock[p] = None /\ ~panicked /\ \A q \in Procs \ {p} : state'[q] = state[q]
  BY DEF SchedInv, TypeOK
<1>2. TypeOK'
  <2>1. killed' \in [Procs -> BOOLEAN]
    BY <1>1, Zenon DEF TypeOK
  <2> QED BY <1>1, <2>1 DEF TypeOK
<1>3. state[p] = "SLEEPING" => state'[p] = "RUNNABLE" /\ \A d \in CPUs : cur[d] # p
  <2>1. state[p] = "SLEEPING" => \A d \in CPUs : cur[d] # p
    BY <1>1, OffCpu, Zenon
  <2> QED BY <1>1, <2>1 DEF TypeOK
<1>4. state[p] # "SLEEPING" => state'[p] = state[p]
  BY <1>1 DEF TypeOK
<1>5. ASSUME NEW d \in CPUs PROVE CpuInv(d)'
  BY Zenon DEF SchedInv, CpuInv, InIdle
<1>6. ASSUME NEW d \in CPUs, NEW q \in Procs PROVE PairInv(d, q)'
  <2>1. PairInv(d, q) /\ (cur[d] = q => state'[q] = state[q])
    BY <1>1, <1>3, <1>4, Zenon DEF SchedInv
  <2> QED BY <2>1, Zenon DEF PairInv, OnCpu, WithLock, WithTicks, AtSpin
<1>7. ASSUME NEW q \in Procs PROVE ProcInv(q)'
  <2>1. ProcInv(q)
    BY DEF SchedInv
  <2>2. state'[q] = state[q] \/ (state[q] = "SLEEPING" /\ state'[q] = "RUNNABLE")
    BY <1>1, <1>3, <1>4
  <2> QED BY <2>1, <2>2 DEF TypeOK, ProcInv, MustWait
<1> QED BY <1>1, <1>2, <1>5, <1>6, <1>7, Zenon DEF SchedInv, OneCpu

\* Every CPU starts in its scheduler, with no lock and interrupts off.
LEMMA SchedInit == Init => SchedInv
<1> SUFFICES ASSUME Init PROVE SchedInv
  OBVIOUS
<1>1. TypeOK
  <2>1. /\ sleeping \in [Procs -> BOOLEAN] /\ killed \in [Procs -> BOOLEAN]
        /\ intena \in [CPUs -> BOOLEAN] /\ ie \in [CPUs -> BOOLEAN] /\ found \in [CPUs -> BOOLEAN]
        /\ saved \in [Procs -> BOOLEAN] /\ panicked \in BOOLEAN
    BY Zenon DEF Init
  <2> QED BY <2>1, SchedAssumption DEF Init, TypeOK, Procs, CPUs
<1>2. \A c \in CPUs : CpuInv(c)
  BY Nowhere DEF Init, CpuInv, InIdle
<1>3. \A c \in CPUs, p \in Procs : PairInv(c, p)
  BY Nowhere DEF Init, PairInv
<1>4. \A p \in Procs : ProcInv(p)
  BY DEF Init, ProcInv
<1> QED BY <1>1, <1>2, <1>3, <1>4 DEF SchedInv, OneCpu, Init

\* sched_try() runs the process or goes on to the next.
LEMMA SchedTryStep ==
  ASSUME SchedInv, NEW c \in CPUs, sched_try(c)
  PROVE  SchedInv'
<1>1. CASE state[si[c]] # "RUNNABLE"
  <2>1. sched_skip(c)
    BY <1>1 DEF sched_try, sched_skip
  <2> QED BY <2>1, SkipStep
<1>2. CASE state[si[c]] = "RUNNABLE"
  <2>1. si[c] \in Procs
    BY DEF SchedInv, CpuInv, sched_try, InScheduler
  <2>2. sched_run(c, si[c])
    BY <1>2 DEF sched_try, sched_run
  <2> QED BY <2>1, <2>2, RunStep
<1> QED BY <1>1, <1>2

\* A timer interrupt goes to clockintr(), to yield(), or back to an idle scheduler.
LEMMA TimerStep ==
  ASSUME SchedInv, NEW c \in CPUs, timer(c)
  PROVE  SchedInv'
<1>1. CASE c = 0
  <2>1. timer_clock(c)
    BY <1>1 DEF timer, timer_clock
  <2>2. cur[c] \in Procs \/ cur[c] = None
    BY RunsOne, Zenon
  <2> QED BY <2>1, <2>2, TimerClockIdleStep, TimerClockStep, Zenon
<1>2. CASE c # 0 /\ cur[c] = None
  <2>1. timer_idle(c)
    BY <1>2 DEF timer, timer_idle, AfterDevintr
  <2> QED BY <2>1, TimerIdleStep
<1>3. CASE c # 0 /\ cur[c] # None
  <2>1. cur[c] \in Procs
    BY <1>3, RunsOne, Zenon
  <2>2. timer_yield(c, cur[c])
    BY <1>3 DEF timer, timer_yield, AfterDevintr
  <2> QED BY <2>1, <2>2, TimerYieldStep
<1> QED BY <1>1, <1>2, <1>3

\* The end of clockintr() is followed by yield(), or by an idle scheduler.
LEMMA ClockEndStep ==
  ASSUME SchedInv, NEW c \in CPUs, clockintr_end(c)
  PROVE  SchedInv'
<1>1. CASE cur[c] = None
  <2>1. clock_idle(c)
    BY <1>1, Zenon DEF clockintr_end, clock_idle, AfterDevintr
  <2> QED BY <2>1, ClockIdleStep
<1>2. CASE cur[c] # None
  <2>1. cur[c] \in Procs
    BY <1>2, RunsOne, Zenon
  <2>2. clock_yield(c, cur[c])
    BY <1>2 DEF TypeOK, clockintr_end, clock_yield, AfterDevintr
  <2> QED BY <2>1, <2>2, ClockYieldStep
<1> QED BY <1>1, <1>2

\* Every step keeps the inductive invariant.
LEMMA SchedStep == SchedInv /\ [Next]_vars => SchedInv'
<1> SUFFICES ASSUME SchedInv, [Next]_vars PROVE SchedInv'
  OBVIOUS
<1>1. CASE UNCHANGED vars
  <2>1. TypeOK' /\ OneCpu' /\ ~panicked'
    BY <1>1, Zenon DEF vars, SchedInv, TypeOK, OneCpu
  <2>2. \A c \in CPUs : CpuInv(c)'
    BY <1>1, Zenon DEF vars, SchedInv, CpuInv, InIdle
  <2>3. ASSUME NEW c \in CPUs, NEW p \in Procs PROVE PairInv(c, p)'
    <3>1. PairInv(c, p)
      BY DEF SchedInv
    <3> QED BY <1>1, <3>1, Zenon DEF vars, PairInv, OnCpu, WithLock, WithTicks, AtSpin
  <2>4. \A p \in Procs : ProcInv(p)'
    BY <1>1, Zenon DEF vars, SchedInv, ProcInv, MustWait
  <2> QED BY <2>1, <2>2, <2>3, <2>4 DEF SchedInv
<1>2. ASSUME NEW c \in CPUs, Scheduler(c) PROVE SchedInv'
  BY <1>2, SchedNextStep, SchedTryStep, SchedBackStep, SchedEndStep DEF Scheduler
<1>3. ASSUME NEW c \in CPUs, timer(c) \/ Handler(c) PROVE SchedInv'
  BY <1>3, TimerStep, ClockStep, WakeupStep, ClockEndStep DEF Handler
<1>4. ASSUME NEW c \in CPUs, NEW p \in Procs, Trap(c, p) PROVE SchedInv'
  BY <1>4, YieldStep, YieldSchedStep, YieldResumeStep, TrapReturnStep DEF Trap
<1>5. ASSUME NEW c \in CPUs, NEW p \in Procs, Body(c, p) PROVE SchedInv'
  BY <1>5, ForkretStep, TickslockStep, TestStep, SleepStep, ReleaseStep, SleepSchedStep, WokenStep,
     ReacquireStep DEF Body
<1>6. ASSUME NEW c \in CPUs, NEW p \in Procs, NEW k \in SleepTicks, sys_sleep(c, p, k) PROVE SchedInv'
  BY <1>6, SysSleepStep
<1>7. ASSUME NEW p \in Procs, kill(p) PROVE SchedInv'
  BY <1>7, KillStep
<1> QED BY <1>1, <1>2, <1>3, <1>4, <1>5, <1>6, <1>7 DEF Next

-----------------------------------------------------------------------------
\* The inductive invariant holds in every reachable state.
THEOREM SchedInvariant == Spec => []SchedInv
BY SchedInit, SchedStep, PTL DEF Spec

\* push_off() and pop_off() count the locks of their CPU through every switch, interrupt and
\* migration, interrupts are off while there is one, no check of sched() panics, and no process
\* runs on two CPUs.
THEOREM LocksAreCounted == Spec => []LocksCounted
<1>1. SchedInv => LocksCounted
  <2> SUFFICES ASSUME SchedInv PROVE LocksCounted
    OBVIOUS
  <2>1. ASSUME NEW c \in CPUs
        PROVE  noff[c] = Cardinality({p \in Procs : plock[p] = c}) + (IF tlock = c THEN 1 ELSE 0)
                         + (IF Spinning(c) THEN 1 ELSE 0)
    <3>1. cur[c] \in Procs \/ cur[c] = None
      BY RunsOne, Zenon
    <3> QED BY <2>1, <3>1, CountOnCpu, CountIdle, Zenon
  <2>2. ASSUME NEW c \in CPUs, ie[c] PROVE noff[c] = 0
    BY <2>2, Zenon DEF SchedInv, CpuInv
  <2>3. ASSUME NEW c \in CPUs, ie[c], cur[c] # None PROVE trap[cur[c]] = "none"
    BY <2>3 DEF SchedInv, TypeOK, PairInv
  <2> QED BY <2>1, <2>2, <2>3 DEF TypeOK, LocksCounted, SchedInv, OneCpu
<1> QED BY <1>1, SchedInvariant, PTL

\* The two locks of sleep() and wakeup() lose no tick: while tickslock is free, who sleeps on
\* ticks is marked so and still has to wait.
THEOREM WakeupsAreKept == Spec => []NoLostWakeup
<1>1. SchedInv => NoLostWakeup
  BY Nowhere DEF SchedInv, ProcInv, CpuInv, NoLostWakeup
<1> QED BY <1>1, SchedInvariant, PTL

=============================================================================
