----------------------------- MODULE ProcProofs -----------------------------
(***************************************************************************)
(* Proofs about Proc for every number of slots, CPUs and pids.             *)
(***************************************************************************)
EXTENDS Proc, TLAPS

Exiting(p) == pc[p] \in {"exit_parent", "exit_self", "reparent"}

\* Process p: its place follows from its state, and in wait() and exit() it holds the locks
\* that its place says.  It has a pid and, but for init, a parent; in exit() it has the parent
\* that it looked up, or init.  A flag that kill() has left in its slot is about it.
One(p) ==
  /\ pid[p] < nextpid /\ (Live(p) => pid[p] # 0)
  /\ state[p] = "UNUSED" => pc[p] = "user" /\ parent[p] = None /\ (killed[p] => p \in stale)
  /\ state[p] = "SLEEPING" => pc[p] = "scan" /\ i[p] = 0 /\ chan[p] = p /\ ~killed[p]
  /\ state[p] = "RUNNABLE" => pc[p] \notin {"exit_self", "reparent"} /\ (pc[p] = "scan" => i[p] = 0)
  /\ state[p] = "ZOMBIE" => pc[p] = "reparent" /\ i[p] = NPROC
  /\ pc[p] = "wait" => i[p] = 0
  /\ state[p] = "RUNNING" =>
       /\ pc[p] = "scan" => lock[p] = p
       /\ pc[p] \in {"exit_self", "reparent"} => lock[orig[p]] = p
       /\ pc[p] = "reparent" => lock[p] = p
  /\ Exiting(p) => orig[p] \in Slots \ {p} /\ parent[p] \in {orig[p], initproc}
  /\ IF p = initproc
     THEN /\ state[p] \notin {"UNUSED", "ZOMBIE"} /\ parent[p] = None /\ pid[p] = 1
          /\ pc[p] \notin {"exit_init", "exit_look"} /\ ~Exiting(p)
     ELSE Live(p) => parent[p] \in Slots
  /\ Live(p) /\ killed[p] /\ pc[p] \in {"user", "fork", "kill", "wait", "scan"} =>
       pid[p] \in KillTargets \/ p \in stale

\* Processes p and q: a lock is held only where wait() and exit() hold one.  A parent is older
\* than its child, and has not ended.  reparent() leaves no child behind, and wait() no zombie,
\* in the slots that they have passed; nor does wait() when it sleeps.
Pair(p, q) ==
  /\ p # q /\ pid[p] = pid[q] => pid[p] = 0
  /\ lock[q] = p =>
       /\ state[p] = "RUNNING"
       /\ \/ pc[p] \in {"scan", "reparent"} /\ q = p
          \/ pc[p] \in {"exit_self", "reparent"} /\ q = orig[p]
  /\ parent[q] = p => state[p] \notin {"UNUSED", "ZOMBIE"} /\ pid[p] < pid[q]
  /\ pc[p] = "reparent" /\ q < i[p] => parent[q] # p
  /\ parent[q] = p /\ state[q] = "ZOMBIE" /\ (state[p] = "SLEEPING" \/ (pc[p] = "scan" /\ q < i[p])) =>
       p = initproc /\ q \in late

ProcInv ==
  /\ TypeOK
  /\ \A p \in Slots : One(p)
  /\ \A p, q \in Slots : Pair(p, q)

-----------------------------------------------------------------------------
\* What the constants are; None is no slot, and slot 0 is one.
LEMMA SlotFacts ==
  /\ NPROC \in Nat \ {0} /\ MaxPid \in Nat \ {0} /\ KillTargets \subseteq Nat
  /\ Slots \subseteq Nat /\ initproc \in Slots /\ None \notin Slots /\ None \notin Nat
BY ProcAssumption DEF Slots, initproc

\* A scan that has not come to its end is at a slot.
LEMMA ScanAtSlot ==
  ASSUME ProcInv, NEW p \in Slots, i[p] < NPROC
  PROVE  i[p] \in Slots
<1>1. i[p] \in 0 .. NPROC
  BY Zenon DEF ProcInv, TypeOK
<1> QED BY <1>1, SlotFacts DEF Slots

\* Slots as numbers, and what the scans need of them.
LEMMA SlotOrder ==
  ASSUME NEW q \in Slots
  PROVE  /\ ~(q < 0) /\ q < NPROC /\ 0 # NPROC
         /\ \A c \in Slots : q < c + 1 <=> q < c \/ q = c
BY SlotFacts DEF Slots

\* Pids as numbers: one that is in use is older than the next one.
LEMMA PidOrder ==
  ASSUME TypeOK
  PROVE  /\ nextpid \in Nat /\ nextpid # 0 /\ 0 < nextpid /\ ~(nextpid < nextpid) /\ nextpid < nextpid + 1
         /\ \A a \in Slots : /\ pid[a] \in Nat /\ 0 # nextpid /\ ~(pid[a] < 0) /\ ~(pid[a] < pid[a])
                             /\ pid[a] < nextpid => pid[a] # nextpid /\ pid[a] < nextpid + 1
BY SlotFacts DEF TypeOK

(***************************************************************************)
(* A step that changes the fields and the locks of process p only, and not *)
(* its pid, its parent or the fact that it is no zombie.                   *)
(***************************************************************************)
Own(p) ==
  /\ parent' = parent /\ pid' = pid /\ nextpid' = nextpid /\ late' = late /\ stale' = stale
  /\ state'[p] # "ZOMBIE"
  /\ \A q \in Slots \ {p} :
       /\ state'[q] = state[q] /\ killed'[q] = killed[q] /\ chan'[q] = chan[q]
       /\ pc'[q] = pc[q] /\ i'[q] = i[q] /\ orig'[q] = orig[q]
       /\ \A r \in Slots : lock'[r] = q <=> lock[r] = q

\* Such a step keeps the invariant if it keeps it for p.
LEMMA OwnStep ==
  ASSUME ProcInv, TypeOK', NEW p \in Slots, Own(p), One(p)', \A q \in Slots : Pair(p, q)'
  PROVE  ProcInv'
<1>1. ASSUME NEW q \in Slots \ {p} PROVE One(q)'
  <2>1. One(q)
    BY DEF ProcInv
  <2>2. orig[q] \in Slots => (lock'[orig[q]] = q <=> lock[orig[q]] = q)
    BY <1>1 DEF Own
  <2> QED BY <1>1, <2>1, <2>2, ZenonT(40) DEF One, Own, Live, Exiting
<1>2. ASSUME NEW q \in Slots \ {p}, NEW r \in Slots PROVE Pair(q, r)'
  <2>1. Pair(q, r)
    BY DEF ProcInv
  <2>2. state'[r] = "ZOMBIE" => state[r] = "ZOMBIE"
    BY <1>2 DEF Own
  <2> QED BY <1>2, <2>1, <2>2 DEF Pair, Own
<1> QED BY <1>1, <1>2, Zenon DEF ProcInv

\* A process that resumes in wait() takes its lock again, with its scan at the start.
LEMMA ScheduleStep ==
  ASSUME ProcInv, NEW p \in Slots, schedule(p)
  PROVE  ProcInv'
<1> USE DEF schedule, Unlocked
<1>1. TypeOK /\ One(p) /\ \A q \in Slots : Pair(p, q)
  BY Zenon DEF ProcInv
<1>2. killed' \in [Slots -> BOOLEAN] /\ kids' \in [Slots -> BOOLEAN] /\ panicked' \in BOOLEAN
  BY <1>1, Zenon DEF TypeOK
<1>3. TypeOK'
  BY <1>1, <1>2, SlotFacts, Zenon DEF TypeOK, One
<1>4. Own(p)
  BY <1>1, <1>2, SlotFacts, Zenon DEF TypeOK, Own, One, Exiting
<1>5. One(p)'
  BY <1>1, <1>2, SlotFacts, Zenon DEF TypeOK, One, Live, Exiting
<1>6. ASSUME NEW q \in Slots PROVE Pair(p, q)'
  <2>1. Pair(p, q)
    BY <1>1, Zenon
  <2> QED BY <1>1, <1>2, <2>1, SlotFacts, Zenon DEF TypeOK, One, Pair, Slots, Exiting, Live
<1> QED BY <1>3, <1>4, <1>5, <1>6, OwnStep, Zenon

\* A process that yields is in no place where it would hold a lock.
LEMMA YieldStep ==
  ASSUME ProcInv, NEW p \in Slots, yield(p)
  PROVE  ProcInv'
<1> USE DEF yield, Unlocked
<1>1. TypeOK /\ One(p) /\ \A q \in Slots : Pair(p, q)
  BY Zenon DEF ProcInv
<1>2. killed' \in [Slots -> BOOLEAN] /\ kids' \in [Slots -> BOOLEAN] /\ panicked' \in BOOLEAN
  BY <1>1, Zenon DEF TypeOK
<1>3. \A q \in Slots : lock[q] # p
  BY <1>1, Zenon DEF TypeOK, Range
<1>4. TypeOK'
  BY <1>1, <1>2, <1>3, SlotFacts, Zenon DEF TypeOK, One
<1>5. Own(p)
  BY <1>1, <1>2, <1>3, SlotFacts, Zenon DEF TypeOK, Own, One, Exiting
<1>6. One(p)'
  BY <1>1, <1>2, <1>3, SlotFacts, Zenon DEF TypeOK, One, Live, Exiting
<1>7. ASSUME NEW q \in Slots PROVE Pair(p, q)'
  <2>1. Pair(p, q)
    BY <1>1, Zenon
  <2> QED BY <1>1, <1>2, <1>3, <2>1, SlotFacts, Zenon DEF TypeOK, One, Pair, Slots, Exiting, Live
<1> QED BY <1>4, <1>5, <1>6, <1>7, OwnStep, Zenon

\* allocproc() goes on to the next slot.
LEMMA ForkNextStep ==
  ASSUME ProcInv, NEW p \in Slots, At(p, "fork"), i[p] < NPROC, fork_next(p),
         UNCHANGED <<chan, lock, kids, orig, arg, late>>
  PROVE  ProcInv'
<1> USE DEF At, fork_next
<1>1. TypeOK /\ One(p) /\ \A q \in Slots : Pair(p, q)
  BY Zenon DEF ProcInv
<1>2. killed' \in [Slots -> BOOLEAN] /\ kids' \in [Slots -> BOOLEAN] /\ panicked' \in BOOLEAN
  BY <1>1, Zenon DEF TypeOK
<1>3. i' \in [Slots -> 0 .. NPROC]
  BY <1>1, SlotFacts DEF TypeOK
<1>4. TypeOK'
  BY <1>1, <1>2, <1>3, SlotFacts, Zenon DEF TypeOK, One
<1>5. Own(p)
  BY <1>1, <1>2, SlotFacts, Zenon DEF TypeOK, Own, One, Exiting
<1>6. One(p)'
  BY <1>1, <1>2, SlotFacts, Zenon DEF TypeOK, One, Live, Exiting
<1>7. ASSUME NEW q \in Slots PROVE Pair(p, q)'
  <2>1. Pair(p, q)
    BY <1>1, Zenon
  <2> QED BY <1>1, <1>2, <2>1, SlotFacts, Zenon DEF TypeOK, One, Pair, Slots, Exiting, Live
<1> QED BY <1>4, <1>5, <1>6, <1>7, OwnStep, Zenon

\* allocproc() finds no slot.
LEMMA ForkFullStep ==
  ASSUME ProcInv, NEW p \in Slots, At(p, "fork"), fork_full(p),
         UNCHANGED <<chan, lock, kids, orig, arg, late>>
  PROVE  ProcInv'
<1> USE DEF At, fork_full, fork_fails, Goto
<1>1. TypeOK /\ One(p) /\ \A q \in Slots : Pair(p, q)
  BY Zenon DEF ProcInv
<1>2. killed' \in [Slots -> BOOLEAN] /\ kids' \in [Slots -> BOOLEAN] /\ panicked' \in BOOLEAN
  BY <1>1, Zenon DEF TypeOK
<1>3. TypeOK'
  BY <1>1, <1>2, SlotFacts, Zenon DEF TypeOK, One
<1>4. Own(p)
  BY <1>1, <1>2, SlotFacts, ZenonT(40) DEF TypeOK, Own, One, Exiting
<1>5. One(p)'
  BY <1>1, <1>2, SlotFacts, Zenon DEF TypeOK, One, Live, Exiting
<1>6. ASSUME NEW q \in Slots PROVE Pair(p, q)'
  <2>1. Pair(p, q)
    BY <1>1, Zenon
  <2> QED BY <1>1, <1>2, <2>1, SlotFacts, ZenonT(40) DEF TypeOK, One, Pair, Slots, Exiting, Live
<1> QED BY <1>3, <1>4, <1>5, <1>6, OwnStep, Zenon

\* kill() goes on to the next slot.
LEMMA KillNextStep ==
  ASSUME ProcInv, NEW p \in Slots, At(p, "kill"), i[p] < NPROC, kill_next(p),
         UNCHANGED <<parent, pid, chan, lock, kids, orig, arg, shell, nextpid, panicked, late>>
  PROVE  ProcInv'
<1> USE DEF At, kill_next
<1>1. TypeOK /\ One(p) /\ \A q \in Slots : Pair(p, q)
  BY Zenon DEF ProcInv
<1>2. killed' \in [Slots -> BOOLEAN] /\ kids' \in [Slots -> BOOLEAN] /\ panicked' \in BOOLEAN
  BY <1>1, Zenon DEF TypeOK
<1>3. i' \in [Slots -> 0 .. NPROC]
  BY <1>1, SlotFacts DEF TypeOK
<1>4. TypeOK'
  BY <1>1, <1>2, <1>3, SlotFacts, Zenon DEF TypeOK, One
<1>5. Own(p)
  BY <1>1, <1>2, SlotFacts, Zenon DEF TypeOK, Own, One, Exiting
<1>6. One(p)'
  BY <1>1, <1>2, SlotFacts, Zenon DEF TypeOK, One, Live, Exiting
<1>7. ASSUME NEW q \in Slots PROVE Pair(p, q)'
  <2>1. Pair(p, q)
    BY <1>1, Zenon
  <2> QED BY <1>1, <1>2, <2>1, SlotFacts, Zenon DEF TypeOK, One, Pair, Slots, Exiting, Live
<1> QED BY <1>4, <1>5, <1>6, <1>7, OwnStep, Zenon

\* kill() finds no such process.
LEMMA KillFailsStep ==
  ASSUME ProcInv, NEW p \in Slots, At(p, "kill"), kill_fails(p),
         UNCHANGED <<parent, pid, chan, lock, kids, orig, arg, shell, nextpid, panicked, late>>
  PROVE  ProcInv'
<1> USE DEF At, kill_fails, Goto
<1>1. TypeOK /\ One(p) /\ \A q \in Slots : Pair(p, q)
  BY Zenon DEF ProcInv
<1>2. killed' \in [Slots -> BOOLEAN] /\ kids' \in [Slots -> BOOLEAN] /\ panicked' \in BOOLEAN
  BY <1>1, Zenon DEF TypeOK
<1>3. TypeOK'
  BY <1>1, <1>2, SlotFacts, Zenon DEF TypeOK, One
<1>4. Own(p)
  BY <1>1, <1>2, SlotFacts, Zenon DEF TypeOK, Own, One, Exiting
<1>5. One(p)'
  BY <1>1, <1>2, SlotFacts, Zenon DEF TypeOK, One, Live, Exiting
<1>6. ASSUME NEW q \in Slots PROVE Pair(p, q)'
  <2>1. Pair(p, q)
    BY <1>1, Zenon
  <2> QED BY <1>1, <1>2, <2>1, SlotFacts, Zenon DEF TypeOK, One, Pair, Slots, Exiting, Live
<1> QED BY <1>3, <1>4, <1>5, <1>6, OwnStep, Zenon

\* exit() looks up its parent, which it has: it is not init.
LEMMA ExitLookStep ==
  ASSUME ProcInv, NEW p \in Slots, exit_look(p)
  PROVE  ProcInv'
<1> USE DEF At, exit_look, Goto
<1>1. TypeOK /\ One(p) /\ \A q \in Slots : Pair(p, q)
  BY Zenon DEF ProcInv
<1>2. killed' \in [Slots -> BOOLEAN] /\ kids' \in [Slots -> BOOLEAN] /\ panicked' \in BOOLEAN
  BY <1>1, Zenon DEF TypeOK
<1>3. parent[p] # p
  BY <1>1, SlotFacts DEF TypeOK, Pair
<1>4. TypeOK'
  BY <1>1, <1>2, <1>3, SlotFacts, Zenon DEF TypeOK, One
<1>5. Own(p)
  BY <1>1, <1>2, <1>3, SlotFacts, Zenon DEF TypeOK, Own, One, Exiting
<1>6. One(p)'
  BY <1>1, <1>2, <1>3, SlotFacts, Zenon DEF TypeOK, One, Live, Exiting
<1>7. ASSUME NEW q \in Slots PROVE Pair(p, q)'
  <2>1. Pair(p, q)
    BY <1>1, Zenon
  <2> QED BY <1>1, <1>2, <1>3, <2>1, SlotFacts, Zenon DEF TypeOK, One, Pair, Slots, Exiting, Live
<1> QED BY <1>4, <1>5, <1>6, <1>7, OwnStep, Zenon

\* exit() takes the lock of the process that was its parent.
LEMMA ExitParentStep ==
  ASSUME ProcInv, NEW p \in Slots, exit_parent(p)
  PROVE  ProcInv'
<1> USE DEF At, exit_parent, Goto, LockOrder, Unlocked
<1>1. TypeOK /\ One(p) /\ \A q \in Slots : Pair(p, q)
  BY Zenon DEF ProcInv
<1>2. killed' \in [Slots -> BOOLEAN] /\ kids' \in [Slots -> BOOLEAN] /\ panicked' \in BOOLEAN
  BY <1>1, Zenon DEF TypeOK
<1>3. TypeOK'
  BY <1>1, <1>2, SlotFacts, Zenon DEF TypeOK, One
<1>4. Own(p)
  BY <1>1, <1>2, SlotFacts, ZenonT(40) DEF TypeOK, Own, One, Exiting
<1>5. One(p)'
  BY <1>1, <1>2, SlotFacts, ZenonT(40) DEF TypeOK, One, Live, Exiting
<1>6. ASSUME NEW q \in Slots PROVE Pair(p, q)'
  <2>1. Pair(p, q)
    BY <1>1, Zenon
  <2> QED BY <1>1, <1>2, <2>1, SlotFacts, ZenonT(40) DEF TypeOK, One, Pair, Slots, Exiting, Live
<1> QED BY <1>3, <1>4, <1>5, <1>6, OwnStep, Zenon

\* exit() takes its own lock.
LEMMA ExitSelfStep ==
  ASSUME ProcInv, NEW p \in Slots, exit_self(p)
  PROVE  ProcInv'
<1> USE DEF At, exit_self, Goto, LockOrder, Unlocked
<1>1. TypeOK /\ One(p) /\ \A q \in Slots : Pair(p, q)
  BY Zenon DEF ProcInv
<1>2. killed' \in [Slots -> BOOLEAN] /\ kids' \in [Slots -> BOOLEAN] /\ panicked' \in BOOLEAN
  BY <1>1, Zenon DEF TypeOK
<1>3. i' \in [Slots -> 0 .. NPROC]
  BY <1>1, SlotFacts DEF TypeOK
<1>4. TypeOK'
  BY <1>1, <1>2, <1>3, SlotFacts, Zenon DEF TypeOK, One
<1>5. Own(p)
  BY <1>1, <1>2, SlotFacts, ZenonT(40) DEF TypeOK, Own, One, Exiting
<1>6. One(p)'
  BY <1>1, <1>2, SlotFacts, ZenonT(40) DEF TypeOK, One, Live, Exiting
<1>7. ASSUME NEW q \in Slots PROVE Pair(p, q)'
  <2>1. Pair(p, q)
    BY <1>1, Zenon
  <2>2. /\ state' = state /\ pid' = pid /\ parent' = parent /\ late' = late /\ orig' = orig
        /\ pc'[p] = "reparent" /\ i'[p] = 0 /\ state[p] = "RUNNING" /\ pc[p] = "exit_self"
        /\ lock'[q] = p => lock[q] = p \/ q = p
    BY <1>1, Zenon DEF TypeOK
  <2> HIDE DEF At, exit_self, Goto, LockOrder, Unlocked
  <2> QED BY <2>1, <2>2, SlotOrder, Zenon DEF Pair
<1> QED BY <1>4, <1>5, <1>6, <1>7, OwnStep, Zenon

\* wait() takes its own lock.
LEMMA WaitLockStep ==
  ASSUME ProcInv, NEW p \in Slots, wait_lock(p)
  PROVE  ProcInv'
<1> USE DEF At, wait_lock, Goto, Unlocked
<1>1. TypeOK /\ One(p) /\ \A q \in Slots : Pair(p, q)
  BY Zenon DEF ProcInv
<1>2. killed' \in [Slots -> BOOLEAN] /\ kids' \in [Slots -> BOOLEAN] /\ panicked' \in BOOLEAN
  BY <1>1, Zenon DEF TypeOK
<1>3. TypeOK'
  BY <1>1, <1>2, SlotFacts, Zenon DEF TypeOK, One
<1>4. Own(p)
  BY <1>1, <1>2, SlotFacts, Zenon DEF TypeOK, Own, One, Exiting
<1>5. One(p)'
  BY <1>1, <1>2, SlotFacts, Zenon DEF TypeOK, One, Live, Exiting
<1>6. ASSUME NEW q \in Slots PROVE Pair(p, q)'
  <2>1. Pair(p, q)
    BY <1>1, Zenon
  <2>2. /\ state' = state /\ pid' = pid /\ parent' = parent /\ late' = late /\ orig' = orig
        /\ pc'[p] = "scan" /\ i'[p] = 0 /\ state[p] = "RUNNING" /\ pc[p] = "wait"
        /\ lock'[q] = p => lock[q] = p \/ q = p
    BY <1>1, Zenon DEF TypeOK, One
  <2> HIDE DEF At, wait_lock, Goto, Unlocked
  <2> QED BY <2>1, <2>2, SlotOrder, Zenon DEF Pair
<1> QED BY <1>3, <1>4, <1>5, <1>6, OwnStep, Zenon

\* wait() fails to copy out the status, and releases its lock.
LEMMA ReapFailsStep ==
  ASSUME ProcInv, NEW p \in Slots, At(p, "scan"), reap_fails(p), lock' = [lock EXCEPT ![p] = None],
         UNCHANGED <<nextpid, panicked>>
  PROVE  ProcInv'
<1> USE DEF At, reap_fails, Goto
<1>1. TypeOK /\ One(p) /\ \A q \in Slots : Pair(p, q)
  BY Zenon DEF ProcInv
<1>2. killed' \in [Slots -> BOOLEAN] /\ kids' \in [Slots -> BOOLEAN] /\ panicked' \in BOOLEAN
  BY <1>1, Zenon DEF TypeOK
<1>3. TypeOK'
  BY <1>1, <1>2, SlotFacts, Zenon DEF TypeOK, One
<1>4. Own(p)
  BY <1>1, <1>2, SlotFacts, Zenon DEF TypeOK, Own, One, Exiting
<1>5. One(p)'
  BY <1>1, <1>2, SlotFacts, Zenon DEF TypeOK, One, Live, Exiting
<1>6. ASSUME NEW q \in Slots PROVE Pair(p, q)'
  <2>1. Pair(p, q)
    BY <1>1, Zenon
  <2> QED BY <1>1, <1>2, <2>1, SlotFacts, Zenon DEF TypeOK, One, Pair, Slots, Exiting, Live
<1> QED BY <1>3, <1>4, <1>5, <1>6, OwnStep, Zenon

\* wait() passes a slot that is no child, or no zombie.
LEMMA WaitNextStep ==
  ASSUME ProcInv, NEW p \in Slots, wait_next(p)
  PROVE  ProcInv'
<1> USE DEF At, wait_next
<1>1. TypeOK /\ One(p) /\ \A q \in Slots : Pair(p, q)
  BY Zenon DEF ProcInv
<1>2. killed' \in [Slots -> BOOLEAN] /\ kids' \in [Slots -> BOOLEAN] /\ panicked' \in BOOLEAN
  BY <1>1, Zenon DEF TypeOK
<1>3. i' \in [Slots -> 0 .. NPROC]
  BY <1>1, SlotFacts DEF TypeOK
<1>4. TypeOK'
  BY <1>1, <1>2, <1>3, SlotFacts, Zenon DEF TypeOK, One
<1>5. Own(p)
  BY <1>1, <1>2, SlotFacts, Zenon DEF TypeOK, Own, One, Exiting
<1>6. One(p)'
  BY <1>1, <1>2, SlotFacts, Zenon DEF TypeOK, One, Live, Exiting
<1>7. ASSUME NEW q \in Slots PROVE Pair(p, q)'
  <2>1. Pair(p, q)
    BY <1>1, Zenon
  <2>2. /\ UNCHANGED <<state, pid, parent, late, orig, pc, lock>> /\ pc[p] = "scan"
        /\ parent[i[p]] = p => state[i[p]] # "ZOMBIE"
        /\ i'[p] = i[p] + 1 /\ state[p] # "SLEEPING" /\ i[p] \in Slots
    BY <1>1, ScanAtSlot, Zenon DEF TypeOK
  <2> HIDE DEF At, wait_next
  <2>3. q < i'[p] => q < i[p] \/ q = i[p]
    BY <2>2, SlotOrder
  <2> QED BY <2>1, <2>2, <2>3, Zenon DEF Pair
<1> QED BY <1>4, <1>5, <1>6, <1>7, OwnStep, Zenon

\* wait() returns without a child.
LEMMA WaitFailsStep ==
  ASSUME ProcInv, NEW p \in Slots, At(p, "scan"), wait_fails(p), lock' = [lock EXCEPT ![p] = None],
         UNCHANGED <<parent, pid, killed, orig, arg, shell, nextpid, panicked, late, stale>>
  PROVE  ProcInv'
<1> USE DEF At, wait_fails, Goto
<1>1. TypeOK /\ One(p) /\ \A q \in Slots : Pair(p, q)
  BY Zenon DEF ProcInv
<1>2. killed' \in [Slots -> BOOLEAN] /\ kids' \in [Slots -> BOOLEAN] /\ panicked' \in BOOLEAN
  BY <1>1, Zenon DEF TypeOK
<1>3. TypeOK'
  BY <1>1, <1>2, SlotFacts, Zenon DEF TypeOK, One
<1>4. Own(p)
  BY <1>1, <1>2, SlotFacts, Zenon DEF TypeOK, Own, One, Exiting
<1>5. One(p)'
  BY <1>1, <1>2, SlotFacts, Zenon DEF TypeOK, One, Live, Exiting
<1>6. ASSUME NEW q \in Slots PROVE Pair(p, q)'
  <2>1. Pair(p, q)
    BY <1>1, Zenon
  <2> QED BY <1>1, <1>2, <2>1, SlotFacts, ZenonT(40) DEF TypeOK, One, Pair, Slots, Exiting, Live
<1> QED BY <1>3, <1>4, <1>5, <1>6, OwnStep, Zenon

\* wait() sleeps after a scan that found no zombie but late ones, and no kill.
LEMMA WaitSleepsStep ==
  ASSUME ProcInv, NEW p \in Slots, At(p, "scan"), i[p] = NPROC, wait_sleeps(p),
         lock' = [lock EXCEPT ![p] = None],
         UNCHANGED <<parent, pid, killed, orig, arg, shell, nextpid, panicked, late, stale>>
  PROVE  ProcInv'
<1> USE DEF At, wait_sleeps
<1>1. TypeOK /\ One(p) /\ \A q \in Slots : Pair(p, q)
  BY Zenon DEF ProcInv
<1>2. killed' \in [Slots -> BOOLEAN] /\ kids' \in [Slots -> BOOLEAN] /\ panicked' \in BOOLEAN
  BY <1>1, Zenon DEF TypeOK
<1>3. ~killed[p]
  BY <1>1, Zenon DEF TypeOK, GivesUp
<1>4. i' \in [Slots -> 0 .. NPROC]
  BY <1>1, SlotFacts DEF TypeOK
<1>5. TypeOK'
  BY <1>1, <1>2, <1>3, <1>4, SlotFacts, Zenon DEF TypeOK, One
<1>6. Own(p)
  BY <1>1, <1>2, <1>3, SlotFacts, ZenonT(40) DEF TypeOK, Own, One, Exiting
<1>7. One(p)'
  BY <1>1, <1>2, <1>3, SlotFacts, Zenon DEF TypeOK, One, Live, Exiting
<1>8. ASSUME NEW q \in Slots PROVE Pair(p, q)'
  <2>1. Pair(p, q)
    BY <1>1, Zenon
  <2>2. /\ UNCHANGED <<pid, parent, late, pc>> /\ pc[p] = "scan" /\ i[p] = NPROC
        /\ state'[p] = "SLEEPING" /\ i'[p] = 0 /\ (state'[q] = "ZOMBIE" => state[q] = "ZOMBIE")
        /\ lock'[q] # p
    BY <1>1, <2>1, SlotFacts, ZenonT(40) DEF TypeOK, Pair
  <2> HIDE DEF At, wait_sleeps
  <2>3. q < i[p] /\ ~(q < i'[p])
    BY <2>2, SlotOrder
  <2> QED BY <2>1, <2>2, <2>3, Zenon DEF Pair
<1> QED BY <1>5, <1>6, <1>7, <1>8, OwnStep, Zenon

\* A process leaves user code for a system call or for exit(), init never for exit().
LEMMA TrapPlace ==
  ASSUME TypeOK, NEW p \in Slots, usertrap(p)
  PROVE  /\ arg' \in [Slots -> KillTargets \cup {None}] /\ panicked' \in BOOLEAN
         /\ \E l \in {"user", "fork", "wait", "kill", "exit_init"} :
              /\ pc' = [pc EXCEPT ![p] = l]
              /\ l = "exit_init" => p # initproc
              /\ killed' = killed \/ (l = "exit_init" /\ killed' = [killed EXCEPT ![p] = TRUE])
<1> USE DEF Goto
<1>1. CASE trap_fork(p)
  BY <1>1, Zenon DEF trap_fork, TypeOK
<1>2. CASE trap_wait(p)
  BY <1>2, Zenon DEF trap_wait, TypeOK
<1>3. CASE trap_exit(p)
  BY <1>3, Zenon DEF trap_exit, TypeOK
<1>4. CASE trap_init_exit(p)
  <2>1. pc' = [pc EXCEPT ![p] = "user"]
    BY <1>4 DEF usertrap, At, trap_init_exit, TypeOK
  <2> QED BY <1>4, <2>1, Zenon DEF trap_init_exit, TypeOK
<1>5. CASE \E n \in KillTargets : trap_kill(p, n)
  <2>1. PICK n \in KillTargets : trap_kill(p, n)
    BY <1>5
  <2>2. arg' \in [Slots -> KillTargets \cup {None}]
    BY <2>1, Zenon DEF trap_kill, TypeOK
  <2> QED BY <2>1, <2>2, Zenon DEF trap_kill, TypeOK
<1> QED BY <1>1, <1>2, <1>3, <1>4, <1>5, Zenon DEF usertrap

\* It enters them with no lock, and its scan at the start.
LEMMA TrapStep ==
  ASSUME ProcInv, NEW p \in Slots, usertrap(p)
  PROVE  ProcInv'
<1>1. TypeOK /\ One(p) /\ \A q \in Slots : Pair(p, q)
  BY Zenon DEF ProcInv
<1>2. PICK l \in {"user", "fork", "wait", "kill", "exit_init"} :
        /\ pc' = [pc EXCEPT ![p] = l]
        /\ l = "exit_init" => p # initproc
        /\ killed' = killed \/ (l = "exit_init" /\ killed' = [killed EXCEPT ![p] = TRUE])
  BY <1>1, TrapPlace, Zenon
<1>3. /\ state[p] = "RUNNING" /\ pc[p] = "user"
      /\ i' = [i EXCEPT ![p] = 0] /\ kids' = [kids EXCEPT ![p] = FALSE]
      /\ UNCHANGED <<state, parent, pid, chan, lock, orig, shell, nextpid, late, stale>>
  BY Zenon DEF usertrap, At
<1>4. /\ killed' \in [Slots -> BOOLEAN] /\ kids' \in [Slots -> BOOLEAN]
      /\ l # "exit_init" => killed' = killed
  BY <1>1, <1>2, <1>3, Zenon DEF TypeOK
<1>5. arg' \in [Slots -> KillTargets \cup {None}] /\ panicked' \in BOOLEAN
  BY <1>1, TrapPlace, Zenon
<1>6. i' \in [Slots -> 0 .. NPROC]
  BY <1>1, <1>3, SlotFacts DEF TypeOK
<1>7. TypeOK'
  BY <1>1, <1>2, <1>3, <1>4, <1>5, <1>6, Zenon DEF TypeOK
<1>8. Own(p)
  BY <1>1, <1>2, <1>3, Zenon DEF TypeOK, Own
<1>9. One(p)'
  BY <1>1, <1>2, <1>3, <1>4, SlotFacts, ZenonT(40) DEF TypeOK, One, Live, Exiting
<1>10. ASSUME NEW q \in Slots PROVE Pair(p, q)'
  <2>1. Pair(p, q)
    BY <1>1, Zenon
  <2> QED BY <1>1, <1>2, <1>3, <2>1, SlotFacts, Zenon DEF TypeOK, Pair
<1> QED BY <1>7, <1>8, <1>9, <1>10, OwnStep, Zenon

\* fork() makes a process in a free slot: younger than its parent, with nothing in it but,
\* perhaps, a kill that is on record.
LEMMA ForkBornStep ==
  ASSUME ProcInv, NEW p \in Slots, NEW np \in Slots, At(p, "fork"), state[np] = "UNUSED",
         nextpid <= MaxPid, nextpid' = nextpid + 1, UNCHANGED i, fork_born(p, np),
         UNCHANGED <<chan, lock, kids, orig, arg, late>>
  PROVE  ProcInv'
<1> USE DEF At, fork_born, Goto, NewPid
<1>1. TypeOK /\ One(p) /\ One(np) /\ p # np
  BY Zenon DEF ProcInv
<1>2. TypeOK'
  <2>1. pid' \in [Slots -> 0 .. MaxPid] /\ shell' \in 0 .. MaxPid /\ nextpid' \in 1 .. MaxPid + 1
    BY <1>1, SlotFacts DEF TypeOK
  <2> QED BY <1>1, <2>1, Zenon DEF TypeOK
<1>3. /\ state'[np] = "RUNNABLE" /\ parent'[np] = p /\ pid'[np] = nextpid /\ pc'[p] = "user"
      /\ nextpid \in Nat /\ pid[p] \in Nat
      /\ \A a \in Slots \ {np} : state'[a] = state[a] /\ parent'[a] = parent[a] /\ pid'[a] = pid[a]
      /\ \A a \in Slots \ {p} : pc'[a] = pc[a]
  BY <1>1, PidOrder, ZenonT(40) DEF TypeOK
<1>U. /\ nextpid' = nextpid + 1 /\ UNCHANGED <<killed, chan, lock, i, orig, stale, late>>
      /\ state[np] = "UNUSED" /\ state[p] = "RUNNING" /\ pc[p] = "fork"
  BY Zenon
<1> HIDE DEF At, fork_born, Goto, NewPid
<1>4. ASSUME NEW a \in Slots PROVE One(a)'
  <2>1. One(a) /\ pid[a] \in Nat
    BY <1>1, PidOrder, Zenon DEF ProcInv
  <2>2. CASE a = np
    <3>1. /\ pc'[np] = "user" /\ np # initproc /\ (killed[np] => np \in stale)
      BY <1>1, <1>3, <1>U, Zenon DEF One
    <3> QED BY <1>3, <1>U, <2>2, <3>1, PidOrder, <1>1, Zenon DEF One, Live, Exiting
  <2>3. CASE a # np
    <3>1. /\ state'[a] = state[a] /\ parent'[a] = parent[a] /\ pid'[a] = pid[a]
          /\ pc'[a] = pc[a] \/ (pc[a] = "fork" /\ pc'[a] = "user" /\ state[a] = "RUNNING")
          /\ pid[a] < nextpid => pid[a] < nextpid'
      BY <1>1, <1>3, <1>U, <2>3, PidOrder, Zenon
    <3> QED BY <1>U, <2>1, <3>1, Zenon DEF One, Live, Exiting
  <2> QED BY <2>2, <2>3, Zenon
<1>5. ASSUME NEW a \in Slots, NEW b \in Slots PROVE Pair(a, b)'
  <2>1. Pair(a, b) /\ Pair(p, b) /\ Pair(np, b) /\ One(a) /\ One(b) /\ pid[a] \in Nat /\ pid[b] \in Nat
    BY <1>1, PidOrder, Zenon DEF ProcInv
  <2>2. /\ a # np => state'[a] = state[a] /\ pid'[a] = pid[a]
        /\ b # np => state'[b] = state[b] /\ pid'[b] = pid[b] /\ parent'[b] = parent[b]
        /\ a # p => pc'[a] = pc[a]
    BY <1>3, Zenon
  <2>4. pid[a] < nextpid /\ pid[b] < nextpid /\ pid[a] # nextpid /\ pid[b] # nextpid
    BY <1>1, <2>1, PidOrder, Zenon DEF One
  <2>3. lock[b] # np /\ lock[b] # p /\ parent[b] # np /\ pid[p] < nextpid /\ pc[np] = "user"
    BY <1>1, <1>U, <2>1, Zenon DEF Pair, One
  <2>5. CASE a = np
    BY <1>3, <1>U, <2>2, <2>3, <2>4, <2>5, Zenon DEF Pair
  <2>6. CASE a # np /\ b = np
    BY <1>1, <1>3, <1>U, <2>1, <2>2, <2>3, <2>4, <2>6, Zenon DEF Pair
  <2>7. CASE a # np /\ b # np
    BY <1>3, <1>U, <2>1, <2>2, <2>3, <2>7, Zenon DEF Pair
  <2> QED BY <2>5, <2>6, <2>7, Zenon
<1> QED BY <1>2, <1>4, <1>5, Zenon DEF ProcInv

\* fork() fails after it took a free slot: the slot stays free, with a new pid or with none.
LEMMA ForkUndoneStep ==
  ASSUME ProcInv, NEW p \in Slots, NEW np \in Slots, At(p, "fork"), state[np] = "UNUSED",
         nextpid <= MaxPid, nextpid' = nextpid + 1, UNCHANGED i,
         fork_leaves_pid(p, np) \/ fork_frees(p, np), UNCHANGED <<chan, lock, kids, orig, arg, late>>
  PROVE  ProcInv'
<1> USE DEF At, fork_leaves_pid, fork_frees, fork_fails, Goto, NewPid
<1>1. TypeOK /\ One(p) /\ One(np) /\ p # np
  BY Zenon DEF ProcInv
<1>2. /\ UNCHANGED <<state, parent, shell>> /\ panicked' \in BOOLEAN
      /\ pc' = pc \/ pc' = [pc EXCEPT ![p] = "user"]
  BY <1>1, Zenon DEF TypeOK
<1>3. /\ pid' = [pid EXCEPT ![np] = nextpid] \/ pid' = [pid EXCEPT ![np] = 0]
      /\ killed' \in [Slots -> BOOLEAN] /\ stale' \subseteq Slots
      /\ killed'[np] => killed[np] /\ (np \in stale => np \in stale')
      /\ \A a \in Slots \ {np} : killed'[a] = killed[a] /\ (a \in stale => a \in stale')
  BY <1>1, Zenon DEF TypeOK
<1>4. TypeOK'
  <2>1. pid' \in [Slots -> 0 .. MaxPid] /\ nextpid' \in 1 .. MaxPid + 1
    BY <1>1, <1>3, SlotFacts DEF TypeOK
  <2> QED BY <1>1, <1>2, <1>3, <2>1, Zenon DEF TypeOK
<1>5. /\ nextpid \in Nat /\ nextpid > 0 /\ (pid'[np] = nextpid \/ pid'[np] = 0)
      /\ \A a \in Slots \ {np} : pid'[a] = pid[a]
      /\ \A a \in Slots \ {p} : pc'[a] = pc[a]
      /\ pc'[p] \in {"fork", "user"}
  <2>1. pc'[p] \in {"fork", "user"} /\ \A a \in Slots \ {p} : pc'[a] = pc[a]
    BY <1>1, <1>2, Zenon DEF TypeOK
  <2>2. (pid'[np] = nextpid \/ pid'[np] = 0) /\ \A a \in Slots \ {np} : pid'[a] = pid[a]
    BY <1>1, <1>3, Zenon DEF TypeOK
  <2>3. nextpid \in Nat /\ nextpid > 0
    BY <1>1, PidOrder
  <2> QED BY <2>1, <2>2, <2>3, Zenon
<1>U. /\ nextpid' = nextpid + 1 /\ UNCHANGED <<state, parent, chan, lock, i, orig, late>>
      /\ state[np] = "UNUSED" /\ state[p] = "RUNNING" /\ pc[p] = "fork"
  BY <1>2, Zenon
<1> HIDE DEF At, fork_leaves_pid, fork_frees, fork_fails, Goto, NewPid
<1>6. ASSUME NEW a \in Slots PROVE One(a)'
  <2>1. One(a) /\ pid[a] \in Nat
    BY <1>1, PidOrder, Zenon DEF ProcInv
  <2>2. CASE a = np
    <3>1. pc'[np] = "user" /\ np # initproc /\ parent[np] = None /\ (killed'[np] => np \in stale')
      BY <1>1, <1>3, <1>5, <1>U, Zenon DEF One
    <3>2. pid'[np] < nextpid'
      BY <1>5, <1>U
    <3> QED BY <1>U, <2>2, <3>1, <3>2, Zenon DEF One, Live, Exiting
  <2>3. CASE a # np
    <3>1. /\ pid'[a] = pid[a] /\ killed'[a] = killed[a] /\ (a \in stale => a \in stale')
          /\ pc'[a] = pc[a] \/ (pc[a] = "fork" /\ pc'[a] = "user" /\ state[a] = "RUNNING")
      BY <1>1, <1>3, <1>5, <1>U, <2>3, Zenon
    <3>2. pid[a] < nextpid => pid[a] < nextpid'
      BY <1>1, <1>U, PidOrder, Zenon
    <3> QED BY <1>U, <2>1, <3>1, <3>2, Zenon DEF One, Live, Exiting
  <2> QED BY <2>2, <2>3, Zenon
<1>7. ASSUME NEW a \in Slots, NEW b \in Slots PROVE Pair(a, b)'
  <2>1. Pair(a, b) /\ Pair(p, b) /\ Pair(np, b) /\ One(a) /\ One(b) /\ pid[a] \in Nat /\ pid[b] \in Nat
    BY <1>1, PidOrder, Zenon DEF ProcInv
  <2>2. /\ a # np => pid'[a] = pid[a]
        /\ b # np => pid'[b] = pid[b]
        /\ a # p => pc'[a] = pc[a]
    BY <1>5, Zenon
  <2>3. lock[b] # np /\ lock[b] # p /\ parent[b] # np /\ pc[np] = "user" /\ parent[np] = None
    BY <1>1, <1>U, <2>1, Zenon DEF Pair, One
  <2>4. pid[a] # nextpid /\ pid[b] # nextpid
    BY <1>1, <2>1, PidOrder, Zenon DEF One
  <2>5. CASE a = np
    BY <1>1, <1>5, <1>U, <2>2, <2>3, <2>4, <2>5, Zenon DEF Pair
  <2>6. CASE a # np /\ b = np
    BY <1>1, <1>5, <1>U, <2>1, <2>2, <2>3, <2>4, <2>6, SlotFacts, Zenon DEF Pair
  <2>7. CASE a # np /\ b # np
    BY <1>1, <1>5, <1>U, <2>1, <2>2, <2>3, <2>7, Zenon DEF Pair
  <2> QED BY <2>5, <2>6, <2>7, Zenon
<1> QED BY <1>4, <1>6, <1>7, Zenon DEF ProcInv

\* kill() marks the process that has the pid, and wakes it up.
LEMMA KillHitStep ==
  ASSUME ProcInv, NEW p \in Slots, NEW q \in Slots, At(p, "kill"), kill_hit(p, q),
         UNCHANGED <<parent, pid, chan, lock, kids, orig, arg, shell, nextpid, panicked, late>>
  PROVE  ProcInv'
<1> USE DEF At, kill_hit, Goto
<1>1. TypeOK /\ One(p) /\ One(q)
  BY Zenon DEF ProcInv
<1>2. /\ killed' \in [Slots -> BOOLEAN] /\ (\A a \in Slots \ {q} : killed'[a] = killed[a])
      /\ stale' \subseteq Slots /\ (\A a \in stale : a \in stale')
      /\ state[q] = "UNUSED" => q \in stale'
  BY <1>1, Zenon DEF TypeOK
<1>3. TypeOK'
  <2>1. state' \in [Slots -> {"UNUSED", "SLEEPING", "RUNNABLE", "RUNNING", "ZOMBIE"}]
    BY <1>1 DEF TypeOK
  <2> QED BY <1>1, <1>2, <2>1, Zenon DEF TypeOK
<1>4. /\ \A a \in Slots \ {q} : state'[a] = state[a]
      /\ \A a \in Slots \ {p} : pc'[a] = pc[a]
      /\ state'[q] = (IF state[q] = "SLEEPING" THEN "RUNNABLE" ELSE state[q]) /\ pc'[p] = "user"
  BY <1>1 DEF TypeOK
<1>5. pid[q] \in KillTargets
  BY <1>1, SlotFacts DEF TypeOK
<1>U. /\ UNCHANGED <<parent, pid, chan, lock, i, orig, nextpid, late>>
      /\ state[p] = "RUNNING" /\ pc[p] = "kill"
  BY Zenon
<1> HIDE DEF At, kill_hit, Goto
<1>6. ASSUME NEW a \in Slots PROVE One(a)'
  <2>1. One(a)
    BY Zenon DEF ProcInv
  <2>2. CASE a = q
    <3>1. pc'[a] = pc[a] \/ (pc[a] = "kill" /\ pc'[a] = "user" /\ state[a] = "RUNNING")
      BY <1>4, <1>U, Zenon
    <3>2. CASE state[a] = "SLEEPING"
      <4>1. pc[a] = "scan" /\ i[a] = 0 /\ state'[a] = "RUNNABLE" /\ pc'[a] = "scan"
        BY <1>4, <2>1, <2>2, <3>1, <3>2, Zenon DEF One
      <4> QED BY <1>5, <1>U, <2>1, <2>2, <3>2, <4>1, Zenon DEF One, Live, Exiting
    <3>3. CASE state[a] # "SLEEPING"
      <4>1. state'[a] = state[a]
        BY <1>4, <2>2, <3>3, Zenon
      <4> QED BY <1>2, <1>5, <1>U, <2>1, <2>2, <3>1, <3>3, <4>1, Zenon DEF One, Live, Exiting
    <3> QED BY <3>2, <3>3, Zenon
  <2>3. CASE a # q
    <3>1. /\ state'[a] = state[a] /\ killed'[a] = killed[a] /\ (a \in stale => a \in stale')
          /\ pc'[a] = pc[a] \/ (pc[a] = "kill" /\ pc'[a] = "user" /\ state[a] = "RUNNING")
      BY <1>2, <1>4, <1>U, <2>3, Zenon
    <3> QED BY <1>U, <2>1, <3>1, Zenon DEF One, Live, Exiting
  <2> QED BY <2>2, <2>3, Zenon
<1>7. ASSUME NEW a \in Slots, NEW b \in Slots PROVE Pair(a, b)'
  <2>1. Pair(a, b) /\ Pair(p, b)
    BY Zenon DEF ProcInv
  <2>2. (state'[b] = "ZOMBIE" <=> state[b] = "ZOMBIE") /\ (state'[a] = "SLEEPING" => state[a] = "SLEEPING")
    BY <1>4
  <2>3. /\ pc'[a] = pc[a] \/ (pc[a] = "kill" /\ pc'[a] = "user")
        /\ (state'[a] = "RUNNING" <=> state[a] = "RUNNING")
        /\ (state'[a] \in {"UNUSED", "ZOMBIE"} => state[a] \in {"UNUSED", "ZOMBIE"})
    BY <1>4, <1>U, Zenon
  <2> QED BY <1>U, <2>1, <2>2, <2>3, Zenon DEF Pair
<1> QED BY <1>3, <1>6, <1>7, Zenon DEF ProcInv

\* exit() wakes up init.
LEMMA ExitInitStep ==
  ASSUME ProcInv, NEW p \in Slots, exit_init(p)
  PROVE  ProcInv'
<1> USE DEF At, exit_init, Goto
<1>1. TypeOK /\ One(p) /\ One(initproc) /\ p # initproc /\ initproc \in Slots
  BY SlotFacts, Zenon DEF ProcInv, One
<1>2. TypeOK'
  <2>1. state' \in [Slots -> {"UNUSED", "SLEEPING", "RUNNABLE", "RUNNING", "ZOMBIE"}]
    BY <1>1 DEF TypeOK, Woken1
  <2> QED BY <1>1, <2>1, Zenon DEF TypeOK
<1>3. /\ \A a \in Slots \ {initproc} : state'[a] = state[a]
      /\ \A a \in Slots \ {p} : pc'[a] = pc[a]
      /\ state'[initproc] = (IF state[initproc] = "SLEEPING" THEN "RUNNABLE" ELSE state[initproc])
      /\ pc'[p] = "exit_look"
  BY <1>1, Zenon DEF TypeOK, Woken1, One
<1>U. /\ UNCHANGED <<parent, pid, killed, chan, lock, i, orig, nextpid, late, stale>>
      /\ state[p] = "RUNNING" /\ pc[p] = "exit_init"
  BY Zenon
<1> HIDE DEF At, exit_init, Goto
<1>4. ASSUME NEW a \in Slots PROVE One(a)'
  <2>1. One(a)
    BY Zenon DEF ProcInv
  <2>2. CASE a = initproc
    <3>1. pc'[a] = pc[a]
      BY <1>1, <1>3, <2>2, Zenon
    <3>2. CASE state[a] = "SLEEPING"
      <4>1. pc[a] = "scan" /\ i[a] = 0 /\ state'[a] = "RUNNABLE" /\ ~killed[a]
        BY <1>3, <2>1, <2>2, <3>2, Zenon DEF One
      <4> QED BY <1>U, <2>1, <2>2, <3>1, <3>2, <4>1, Zenon DEF One, Live, Exiting
    <3>3. CASE state[a] # "SLEEPING"
      <4>1. state'[a] = state[a]
        BY <1>3, <2>2, <3>3, Zenon
      <4> QED BY <1>U, <2>1, <2>2, <3>1, <4>1, Zenon DEF One, Live, Exiting
    <3> QED BY <3>2, <3>3, Zenon
  <2>3. CASE a # initproc
    <3>1. /\ state'[a] = state[a]
          /\ pc'[a] = pc[a] \/ (pc[a] = "exit_init" /\ pc'[a] = "exit_look" /\ state[a] = "RUNNING")
      BY <1>3, <1>U, <2>3, Zenon
    <3> QED BY <1>U, <2>1, <2>3, <3>1, Zenon DEF One, Live, Exiting
  <2> QED BY <2>2, <2>3, Zenon
<1>5. ASSUME NEW a \in Slots, NEW b \in Slots PROVE Pair(a, b)'
  <2>1. Pair(a, b) /\ Pair(p, b)
    BY Zenon DEF ProcInv
  <2>2. (state'[b] = "ZOMBIE" <=> state[b] = "ZOMBIE") /\ (state'[a] = "SLEEPING" => state[a] = "SLEEPING")
    BY <1>3
  <2>3. /\ pc'[a] = pc[a] \/ (pc[a] = "exit_init" /\ pc'[a] = "exit_look")
        /\ (state'[a] = "RUNNING" <=> state[a] = "RUNNING")
        /\ (state'[a] \in {"UNUSED", "ZOMBIE"} => state[a] \in {"UNUSED", "ZOMBIE"})
    BY <1>3, <1>U, Zenon
  <2> QED BY <1>U, <2>1, <2>2, <2>3, Zenon DEF Pair
<1> QED BY <1>2, <1>4, <1>5, Zenon DEF ProcInv

\* reparent() passes a slot, and gives the child that it finds there to init.
LEMMA ReparentStep ==
  ASSUME ProcInv, NEW p \in Slots, reparent(p)
  PROVE  ProcInv'
<1> DEFINE c == i[p]
<1> USE DEF At, reparent, ParentAfterExit
<1>1. TypeOK /\ One(p) /\ One(initproc) /\ p # initproc /\ initproc \in Slots
  BY SlotFacts, Zenon DEF ProcInv, One, Exiting
<1>2. c \in Slots /\ One(c) /\ Pair(p, c) /\ Pair(initproc, c)
  <2>1. c \in Slots
    BY ScanAtSlot
  <2> QED BY <1>1, <2>1, Zenon DEF ProcInv
<1>3. /\ parent' \in [Slots -> Slots \cup {None}] /\ i' \in [Slots -> 0 .. NPROC] /\ late' \subseteq Slots
      /\ late \subseteq late' /\ (parent[c] = p /\ state[c] = "ZOMBIE" => c \in late')
  <2>1. i' \in [Slots -> 0 .. NPROC]
    BY <1>1, <1>2, SlotFacts DEF TypeOK
  <2> QED BY <1>1, <1>2, <2>1, Zenon DEF TypeOK
<1>4. TypeOK'
  BY <1>1, <1>3, Zenon DEF TypeOK
<1>5. /\ \A a \in Slots \ {c} : parent'[a] = parent[a]
      /\ \A a \in Slots \ {p} : i'[a] = i[a]
      /\ parent'[c] = (IF parent[c] = p THEN initproc ELSE parent[c])
      /\ i'[p] = c + 1
  BY <1>1, <1>2 DEF TypeOK
<1>6. parent[c] = p => /\ c \notin {p, initproc} /\ state[c] # "UNUSED"
                       /\ pid[initproc] = 1 /\ pid[c] \in Nat /\ pid[c] > 1
  <2>1. pid[c] \in Nat /\ pid[p] \in Nat
    BY <1>1, <1>2 DEF TypeOK
  <2> SUFFICES ASSUME parent[c] = p
               PROVE  /\ c \notin {p, initproc} /\ state[c] # "UNUSED"
                      /\ pid[initproc] = 1 /\ pid[c] > 1
    BY <2>1, Zenon
  <2>2. pid[p] < pid[c] /\ pid[initproc] = 1 /\ parent[initproc] = None /\ Live(p)
    BY <1>1, <1>2, Zenon DEF One, Pair, Live
  <2>3. pid[p] # 0 /\ c # initproc /\ state[c] # "UNUSED"
    BY <1>1, <1>2, <2>2, SlotFacts, Zenon DEF One
  <2> HIDE DEF c
  <2> QED BY <2>1, <2>2, <2>3
<1> HIDE DEF c
<1>7. UNCHANGED <<state, pid, killed, chan, lock, pc, orig, nextpid, stale>> /\ pc[p] = "reparent" /\ i[p] = c
      /\ state[p] = "RUNNING"
  BY Zenon DEF c
<1> HIDE DEF At, reparent, ParentAfterExit
<1>8. ASSUME NEW a \in Slots PROVE One(a)'
  <2>1. One(a)
    BY Zenon DEF ProcInv
  <2>2. CASE a = c
    <3>1. i'[a] = i[a] \/ (pc[a] = "reparent" /\ state[a] = "RUNNING")
      BY <1>5, <1>7, Zenon
    <3>2. CASE parent[c] = p
      <4>1. a # initproc /\ state[a] # "UNUSED" /\ parent'[a] = initproc
        BY <1>5, <1>6, <2>2, <3>2, Zenon
      <4> QED BY <1>1, <1>7, <2>1, <3>1, <4>1, Zenon DEF One, Live, Exiting
    <3>3. CASE parent[c] # p
      <4>1. parent'[a] = parent[a]
        BY <1>5, <2>2, <3>3, Zenon
      <4> QED BY <1>7, <2>1, <3>1, <4>1, Zenon DEF One, Live, Exiting
    <3> QED BY <3>2, <3>3, Zenon
  <2>3. CASE a # c
    <3>1. parent'[a] = parent[a] /\ (i'[a] = i[a] \/ (pc[a] = "reparent" /\ state[a] = "RUNNING"))
      BY <1>5, <1>7, <2>3, Zenon
    <3> QED BY <1>7, <2>1, <3>1, Zenon DEF One, Live, Exiting
  <2> QED BY <2>2, <2>3, Zenon
<1>9. ASSUME NEW a \in Slots, NEW b \in Slots PROVE Pair(a, b)'
  <2>1. Pair(a, b)
    BY Zenon DEF ProcInv
  <2>2. CASE b = c /\ parent[c] = p
    <3>1. /\ Pair(p, b) /\ Pair(initproc, b)
          /\ state[initproc] \notin {"UNUSED", "ZOMBIE"} /\ parent'[b] = initproc
      BY <1>1, <1>2, <1>5, <2>2, Zenon DEF One
    <3>2. pc[a] = "reparent" => a # initproc
      BY <1>1, Zenon DEF One, Exiting
    <3>3. state[b] = "ZOMBIE" => b \in late'
      BY <1>3, <2>2
    <3> QED BY <1>1, <1>6, <1>7, <2>1, <2>2, <3>1, <3>2, <3>3, SlotFacts, ZenonT(40) DEF Pair
  <2>4. CASE b = c /\ parent[c] # p
    <3>1. parent'[b] = parent[b] /\ (pc[a] = "reparent" /\ b < i'[a] => parent[b] # a)
      BY <1>2, <1>5, <1>7, <2>1, <2>4, SlotFacts, Zenon DEF Pair
    <3>2. pc[a] = "scan" => i'[a] = i[a]
      BY <1>5, <1>7
    <3> QED BY <1>3, <1>7, <2>1, <3>1, <3>2, Zenon DEF Pair
  <2>3. CASE b # c
    <3>1. parent'[b] = parent[b] /\ (b \in late => b \in late')
      BY <1>3, <1>5, <2>3, Zenon
    <3>2. a # p => i'[a] = i[a]
      BY <1>5, Zenon
    <3>3. a = p => (b < i'[a] => b < i[a])
      BY <1>2, <1>5, <1>7, <2>3, SlotOrder
    <3> QED BY <1>7, <2>1, <3>1, <3>2, <3>3, Zenon DEF Pair
  <2> QED BY <2>2, <2>3, <2>4, Zenon
<1> QED BY <1>4, <1>8, <1>9, Zenon DEF ProcInv

\* exit() ends: no slot has p for a parent any more, and the parent that p looked up is awake.
\* If p has another parent by now, that is init, and p comes late.
LEMMA ExitZombieStep ==
  ASSUME ProcInv, NEW p \in Slots, exit_zombie(p)
  PROVE  ProcInv'
<1> DEFINE o == orig[p]
<1> USE DEF At, exit_zombie
<1>1. TypeOK /\ One(p) /\ p # initproc
  BY SlotFacts, Zenon DEF ProcInv, One, Exiting
<1>2. o \in Slots \ {p} /\ One(o) /\ parent[p] \in {o, initproc} /\ lock[o] = p /\ lock[p] = p
  <2>1. o \in Slots \ {p} /\ parent[p] \in {o, initproc} /\ lock[o] = p /\ lock[p] = p
    BY <1>1, Zenon DEF One, Exiting
  <2> QED BY <2>1, Zenon DEF ProcInv
<1>3. late \subseteq late' /\ late' \subseteq Slots /\ (parent[p] # o => p \in late')
  BY <1>1 DEF TypeOK
<1>4. /\ state' = [state EXCEPT ![o] = Woken1(o), ![p] = "ZOMBIE"]
      /\ lock' = [lock EXCEPT ![o] = None, ![p] = None]
      /\ UNCHANGED <<parent, pid, killed, chan, pc, i, orig, nextpid, stale>> /\ pc[p] = "reparent"
      /\ i[p] = NPROC /\ state[p] = "RUNNING" /\ orig[p] = o
  BY Zenon
<1>5. TypeOK'
  <2>1. /\ state' \in [Slots -> {"UNUSED", "SLEEPING", "RUNNABLE", "RUNNING", "ZOMBIE"}]
        /\ lock' \in [Slots -> Slots \cup {None}]
    <3>1. Woken1(o) \in {"UNUSED", "SLEEPING", "RUNNABLE", "RUNNING", "ZOMBIE"}
      BY <1>1, <1>2, Zenon DEF TypeOK, Woken1
    <3> QED BY <1>1, <1>2, <1>4, <3>1 DEF TypeOK
  <2> QED BY <1>1, <1>3, <2>1, Zenon DEF TypeOK
<1> HIDE DEF o, At, exit_zombie
<1>6. /\ \A a \in Slots \ {o, p} : state'[a] = state[a] /\ lock'[a] = lock[a]
      /\ state'[p] = "ZOMBIE" /\ lock'[p] = None /\ lock'[o] = None
      /\ state'[o] = (IF state[o] = "SLEEPING" THEN "RUNNABLE" ELSE state[o])
  BY <1>1, <1>2, <1>4, ZenonT(40) DEF TypeOK, Woken1, One
<1>7. ASSUME NEW a \in Slots PROVE One(a)'
  <2>1. One(a)
    BY Zenon DEF ProcInv
  <2>2. CASE a = p
    BY <1>1, <1>2, <1>4, <1>6, <2>2, SlotFacts, Zenon DEF One, Live, Exiting
  <2>3. CASE a # p
    <3>1. pc[a] \in {"exit_self", "reparent"} /\ state[a] = "RUNNING" => lock'[orig[a]] = a
      <4>1. pc[a] \in {"exit_self", "reparent"} /\ state[a] = "RUNNING" =>
              lock[orig[a]] = a /\ orig[a] \in Slots
        BY <2>1, Zenon DEF One, Exiting
      <4> QED BY <1>2, <1>6, <2>3, <4>1
    <3>2. pc[a] \in {"scan", "reparent"} /\ state[a] = "RUNNING" => lock'[a] = a
      BY <1>2, <1>6, <2>1, <2>3, SlotFacts, Zenon DEF One
    <3>3. CASE a = o /\ state[a] = "SLEEPING"
      <4>1. state'[a] = "RUNNABLE" /\ pc[a] = "scan" /\ i[a] = 0 /\ ~killed[a]
        BY <1>2, <1>6, <2>1, <3>3, Zenon DEF One
      <4> QED BY <1>4, <2>1, <3>3, <4>1, SlotFacts, Zenon DEF One, Live, Exiting
    <3>4. CASE ~(a = o /\ state[a] = "SLEEPING")
      <4>1. state'[a] = state[a]
        BY <1>6, <2>3, <3>4
      <4> QED BY <1>4, <2>1, <3>1, <3>2, <4>1, Zenon DEF One, Live, Exiting
    <3> QED BY <3>3, <3>4, ZenonT(40)
  <2> QED BY <2>2, <2>3, Zenon
<1>8. ASSUME NEW a \in Slots, NEW b \in Slots PROVE Pair(a, b)'
  <2>1. Pair(a, b) /\ Pair(p, b) /\ One(b)
    BY Zenon DEF ProcInv
  <2>2. /\ state'[a] = "SLEEPING" => state[a] = "SLEEPING" /\ a # o
        /\ state'[b] = "ZOMBIE" => state[b] = "ZOMBIE" \/ b = p
        /\ state'[a] = "ZOMBIE" => state[a] = "ZOMBIE" \/ a = p
        /\ state'[a] = "UNUSED" => state[a] = "UNUSED"
        /\ state'[a] = "RUNNING" <=> state[a] = "RUNNING" /\ a # p
    BY <1>2, <1>6
  <2>5. lock'[b] = a => lock[b] = a /\ b \notin {o, p}
    BY <1>6, SlotFacts
  <2>6. lock'[b] = a => a # p
    BY <1>4, <2>1, <2>5, Zenon DEF Pair
  <2>3. parent[b] = a => a # p
    <3>1. b < i[p]
      BY <1>4, SlotOrder
    <3> QED BY <1>4, <2>1, <3>1, Zenon DEF Pair
  <2>4. a = o /\ pc[a] = "scan" => ~(b < i[a])
    <3>1. lock[o] # o
      BY <1>1, <1>2, Zenon
    <3>2. a = o /\ pc[a] = "scan" => i[a] = 0 \/ state[a] \in {"UNUSED", "ZOMBIE", "RUNNING"}
      BY <1>1, <1>2, Zenon DEF One, TypeOK
    <3>3. a = o /\ pc[a] = "scan" => i[a] = 0
      BY <1>2, <3>1, <3>2, Zenon DEF One
    <3> QED BY <3>3, SlotOrder, Zenon
  <2>7. parent[b] = a /\ b = p /\ a # o => a = initproc /\ b \in late'
    BY <1>2, <1>3, Zenon
  <2> QED BY <1>3, <1>4, <2>1, <2>2, <2>3, <2>4, <2>5, <2>6, <2>7, Zenon DEF Pair
<1> QED BY <1>5, <1>7, <1>8, Zenon DEF ProcInv

\* wait() frees a zombie, which is nobody's parent.
LEMMA ReapFreesStep ==
  ASSUME ProcInv, NEW p \in Slots, NEW np \in Slots, At(p, "scan"), parent[np] = p,
         state[np] = "ZOMBIE", reap_frees(p, np), lock' = [lock EXCEPT ![p] = None],
         UNCHANGED <<nextpid, panicked>>
  PROVE  ProcInv'
<1> USE DEF At, reap_frees, KilledAfterFree
<1>1. TypeOK /\ One(p) /\ One(np) /\ p # np
  BY Zenon DEF ProcInv
<1>2. np # initproc
  BY <1>1, Zenon DEF One
<1>3. killed' \in [Slots -> BOOLEAN] /\ ~killed'[np] /\ kids' \in [Slots -> BOOLEAN] /\ panicked' \in BOOLEAN
      /\ (\A a \in Slots \ {np} : killed'[a] = killed[a] /\ (a \in stale => a \in stale'))
  BY <1>1, Zenon DEF TypeOK
<1>4. TypeOK'
  <2>1. pid' \in [Slots -> 0 .. MaxPid] /\ i' \in [Slots -> 0 .. NPROC] /\ shell' \in 0 .. MaxPid
        /\ late' \subseteq Slots /\ stale' \subseteq Slots
    BY <1>1, SlotFacts DEF TypeOK
  <2> QED BY <1>1, <1>3, <2>1, Zenon DEF TypeOK
<1>5. /\ state'[np] = "UNUSED" /\ parent'[np] = None /\ pid'[np] = 0 /\ pc'[np] = "user" /\ i'[np] = 0
      /\ pc'[p] = "user" /\ orig'[np] = None
      /\ \A a \in Slots \ {np} : /\ state'[a] = state[a] /\ parent'[a] = parent[a] /\ pid'[a] = pid[a]
                                 /\ chan'[a] = chan[a] /\ i'[a] = i[a] /\ orig'[a] = orig[a]
                                 /\ (a # p => pc'[a] = pc[a])
      /\ nextpid' = nextpid /\ nextpid \in Nat /\ pid[np] \in Nat /\ pid[np] < nextpid
  <2>1. /\ nextpid' = nextpid /\ nextpid \in Nat /\ pid[np] \in Nat /\ pid[np] < nextpid
    BY <1>1, PidOrder, Zenon DEF One
  <2>2. /\ state'[np] = "UNUSED" /\ parent'[np] = None /\ pid'[np] = 0 /\ pc'[np] = "user" /\ i'[np] = 0
        /\ pc'[p] = "user" /\ orig'[np] = None
    BY <1>1, Zenon DEF TypeOK
  <2>3. ASSUME NEW a \in Slots \ {np}
        PROVE  /\ state'[a] = state[a] /\ parent'[a] = parent[a] /\ pid'[a] = pid[a]
               /\ chan'[a] = chan[a] /\ i'[a] = i[a] /\ orig'[a] = orig[a]
               /\ (a # p => pc'[a] = pc[a])
    BY <1>1, Zenon DEF TypeOK
  <2> QED BY <2>1, <2>2, <2>3, Zenon
<1>6. lock[p] = p /\ state[p] = "RUNNING" /\ pc[p] = "scan"
      /\ lock'[p] = None /\ \A a \in Slots \ {p} : lock'[a] = lock[a]
  BY <1>1, Zenon DEF One, TypeOK
<1> HIDE DEF At, reap_frees, KilledAfterFree
<1>7. ASSUME NEW a \in Slots PROVE One(a)'
  <2>1. One(a)
    BY ZenonT(40) DEF ProcInv
  <2>2. CASE a = np
    <3>1. pid'[np] < nextpid'
      BY <1>5, <1>1, PidOrder, Zenon
    <3> QED BY <1>2, <1>3, <1>5, <2>2, <3>1, Zenon DEF One, Live, Exiting
  <2>3. CASE a = p
    BY <1>1, <1>3, <1>5, <1>6, <2>3, SlotFacts, ZenonT(40) DEF One, Live, Exiting
  <2>4. CASE a \notin {p, np}
    <3>1. /\ state'[a] = state[a] /\ parent'[a] = parent[a] /\ pid'[a] = pid[a] /\ chan'[a] = chan[a]
          /\ i'[a] = i[a] /\ orig'[a] = orig[a] /\ pc'[a] = pc[a] /\ lock'[a] = lock[a]
          /\ killed'[a] = killed[a] /\ (a \in stale => a \in stale') /\ nextpid' = nextpid
      BY <1>3, <1>5, <1>6, <2>4, Zenon
    <3>2. orig[a] \in Slots /\ lock[orig[a]] = a => lock'[orig[a]] = a
      BY <1>6, <2>4, Zenon
    <3> QED BY <2>1, <3>1, <3>2, Zenon DEF One, Live, Exiting
  <2> QED BY <2>2, <2>3, <2>4, Zenon
<1>8. ASSUME NEW a \in Slots, NEW b \in Slots PROVE Pair(a, b)'
  <2>1. Pair(a, b) /\ Pair(np, b) /\ Pair(p, b)
    BY Zenon DEF ProcInv
  <2>2. b # np => (b \in late => b \in late')
    BY Zenon DEF reap_frees
  <2>3. lock'[b] = a => lock[b] = a /\ b # p
    BY <1>6, SlotFacts, Zenon
  <2>4. lock'[b] = a => a # np /\ a # p
    BY <1>6, <2>1, <2>3, Zenon DEF Pair
  <2>5. parent'[b] = a => parent[b] = a /\ b # np
    BY <1>5, SlotFacts, ZenonT(40)
  <2>6. parent[b] = a => a # np
    BY <2>1, Zenon DEF Pair
  <2>7. CASE a = np
    BY <1>5, <2>4, <2>5, <2>6, <2>7, Zenon DEF Pair
  <2>8. CASE a # np
    <3>1. /\ b # np => pid'[b] = pid[b] /\ state'[b] = state[b]
          /\ state'[a] = state[a] /\ pid'[a] = pid[a] /\ i'[a] = i[a] /\ orig'[a] = orig[a]
          /\ pc'[a] = (IF a = p THEN "user" ELSE pc[a]) /\ (b = np => pid'[b] = 0)
      BY <1>1, <1>5, <2>8, Zenon
    <3> QED BY <2>1, <2>2, <2>3, <2>4, <2>5, <2>6, <2>8, <3>1, Zenon DEF Pair
  <2> QED BY <2>7, <2>8, Zenon
<1> QED BY <1>4, <1>7, <1>8, Zenon DEF ProcInv

\* The handlers that end in several ways.
LEMMA ForkStep ==
  ASSUME ProcInv, NEW p \in Slots, fork(p)
  PROVE  ProcInv'
<1>1. At(p, "fork") /\ UNCHANGED <<chan, lock, kids, orig, arg, late>>
  BY Zenon DEF fork
<1>2. CASE i[p] < NPROC /\ fork_take(p, i[p])
  <2>1. i[p] \in Slots
    BY <1>2, ScanAtSlot
  <2> QED BY <1>1, <1>2, <2>1, ForkBornStep, ForkUndoneStep, Zenon DEF fork_take
<1>3. CASE i[p] < NPROC /\ fork_next(p)
  BY <1>1, <1>3, ForkNextStep, Zenon
<1>4. CASE fork_full(p)
  BY <1>1, <1>4, ForkFullStep, Zenon
<1> QED BY <1>2, <1>3, <1>4, Zenon DEF fork

LEMMA KillStep ==
  ASSUME ProcInv, NEW p \in Slots, kill(p)
  PROVE  ProcInv'
<1>1. At(p, "kill") /\ UNCHANGED <<parent, pid, chan, lock, kids, orig, arg, shell, nextpid, panicked, late>>
  BY Zenon DEF kill
<1>2. CASE i[p] < NPROC /\ kill_hit(p, i[p])
  <2>1. i[p] \in Slots
    BY <1>2, ScanAtSlot
  <2> QED BY <1>1, <1>2, <2>1, KillHitStep, Zenon
<1>3. CASE i[p] < NPROC /\ kill_next(p)
  BY <1>1, <1>3, KillNextStep, Zenon
<1>4. CASE kill_fails(p)
  BY <1>1, <1>4, KillFailsStep, Zenon
<1> QED BY <1>2, <1>3, <1>4, Zenon DEF kill

LEMMA WaitReapStep ==
  ASSUME ProcInv, NEW p \in Slots, wait_reap(p)
  PROVE  ProcInv'
<1>1. i[p] \in Slots
  BY ScanAtSlot, Zenon DEF wait_reap
<1>2. CASE reap_frees(p, i[p])
  BY <1>1, <1>2, ReapFreesStep, Zenon DEF wait_reap
<1>3. CASE reap_fails(p)
  BY <1>3, ReapFailsStep, Zenon DEF wait_reap
<1> QED BY <1>2, <1>3, Zenon DEF wait_reap

LEMMA WaitEndStep ==
  ASSUME ProcInv, NEW p \in Slots, wait_end(p)
  PROVE  ProcInv'
<1>1. CASE wait_fails(p)
  BY <1>1, WaitFailsStep, Zenon DEF wait_end
<1>2. CASE wait_sleeps(p)
  BY <1>2, WaitSleepsStep, Zenon DEF wait_end
<1> QED BY <1>1, <1>2, Zenon DEF wait_end

LEMMA ProcStep ==
  ASSUME ProcInv, [Next]_vars
  PROVE  ProcInv'
<1>1. CASE UNCHANGED vars
  <2>1. TypeOK'
    BY <1>1, Zenon DEF ProcInv, TypeOK, vars
  <2>2. ASSUME NEW p \in Slots PROVE One(p)'
    <3>1. One(p)
      BY Zenon DEF ProcInv
    <3> QED BY <1>1, <3>1, Zenon DEF One, Live, Exiting, vars
  <2>3. ASSUME NEW p \in Slots, NEW q \in Slots PROVE Pair(p, q)'
    <3>1. Pair(p, q)
      BY Zenon DEF ProcInv
    <3> QED BY <1>1, <3>1, Zenon DEF Pair, vars
  <2> QED BY <2>1, <2>2, <2>3, Zenon DEF ProcInv
<1>2. CASE Next
  <2>1. PICK p \in Slots : schedule(p) \/ yield(p) \/ usertrap(p) \/ Kernel(p)
    BY <1>2, Zenon DEF Next
  <2>2. CASE schedule(p) \/ yield(p) \/ usertrap(p)
    BY <2>2, ScheduleStep, YieldStep, TrapStep, Zenon
  <2>3. CASE fork(p) \/ kill(p)
    BY <2>3, ForkStep, KillStep, Zenon
  <2>4. CASE exit_init(p) \/ exit_look(p) \/ exit_parent(p) \/ exit_self(p)
    BY <2>4, ExitInitStep, ExitLookStep, ExitParentStep, ExitSelfStep, Zenon
  <2>5. CASE reparent(p) \/ exit_zombie(p)
    BY <2>5, ReparentStep, ExitZombieStep, Zenon
  <2>6. CASE wait_lock(p) \/ wait_reap(p) \/ wait_next(p) \/ wait_end(p)
    BY <2>6, WaitLockStep, WaitReapStep, WaitNextStep, WaitEndStep, Zenon
  <2> QED BY <2>1, <2>2, <2>3, <2>4, <2>5, <2>6, Zenon DEF Kernel
<1> QED BY <1>1, <1>2

LEMMA ProcInit ==
  ASSUME Init
  PROVE  ProcInv
<1>1. /\ killed = [p \in Slots |-> FALSE] /\ kids = [p \in Slots |-> FALSE] /\ panicked = FALSE
      /\ killed \in [Slots -> BOOLEAN] /\ kids \in [Slots -> BOOLEAN] /\ panicked \in BOOLEAN
  BY Zenon DEF Init
<1>2. TypeOK
  <2>1. /\ pid \in [Slots -> 0 .. MaxPid] /\ i \in [Slots -> 0 .. NPROC] /\ nextpid \in 1 .. MaxPid + 1
        /\ shell \in 0 .. MaxPid
        /\ state \in [Slots -> {"UNUSED", "SLEEPING", "RUNNABLE", "RUNNING", "ZOMBIE"}]
    BY SlotFacts DEF Init
  <2> QED BY <1>1, <2>1, Zenon DEF Init, TypeOK
<1>3. ASSUME NEW p \in Slots PROVE One(p)
  <2>1. ~killed[p]
    BY <1>1, Zenon
  <2> QED BY <2>1, SlotFacts DEF Init, One, Live, Exiting
<1>4. ASSUME NEW p \in Slots, NEW q \in Slots PROVE Pair(p, q)
  BY SlotFacts DEF Init, Pair
<1> QED BY <1>2, <1>3, <1>4, Zenon DEF ProcInv

\* proc.c:80-153, 256-447, 614-636: ProcInv holds in every state that fork(), exit(), wait()
\* and kill() reach, however many slots and CPUs there are.
THEOREM ProcInvariant == Spec => []ProcInv
BY ProcInit, ProcStep, PTL DEF Spec

\* proc.c:107-153, 256-393: no two processes have the same pid, and every process but init has
\* a parent that is alive and has not ended, whenever and wherever the others exit.
THEOREM TableIsSound == Spec => []TableSound
<1>1. ASSUME ProcInv PROVE TableSound
  <2>1. TypeOK
    BY <1>1, Zenon DEF ProcInv
  <2>2. ASSUME NEW p \in Slots, NEW q \in Slots, Live(p), Live(q), pid[p] = pid[q] PROVE p = q
    <3>1. One(p) /\ Pair(p, q)
      BY <1>1, Zenon DEF ProcInv
    <3> QED BY <2>2, <3>1, Zenon DEF One, Pair
  <2>3. ASSUME NEW p \in Slots \ {initproc}, Live(p)
        PROVE  parent[p] # None /\ state[parent[p]] \notin {"UNUSED", "ZOMBIE"}
    <3>1. One(p) /\ parent[p] \in Slots
      BY <1>1, <2>3, Zenon DEF ProcInv, One
    <3>2. Pair(parent[p], p)
      BY <1>1, <3>1, Zenon DEF ProcInv
    <3> QED BY <3>1, <3>2, SlotFacts, Zenon DEF Pair
  <2> QED BY <2>1, <2>2, <2>3, Zenon DEF TableSound
<1> QED BY <1>1, ProcInvariant, PTL

\* proc.c:355-376, 404-445, 620-626: whoever sleeps in wait() has not been killed, and has no
\* child that has ended, unless it is init and the child came late.
THEOREM EventsAreSeen == Spec => []NoMissedEvent
<1>1. ASSUME ProcInv PROVE NoMissedEvent
  <2> SUFFICES ASSUME NEW p \in Slots, state[p] = "SLEEPING"
               PROVE  /\ ~killed[p]
                      /\ \A q \in Slots : parent[q] = p /\ state[q] = "ZOMBIE" => p = initproc /\ q \in late
    BY Zenon DEF NoMissedEvent
  <2>1. One(p) /\ \A q \in Slots : Pair(p, q)
    BY <1>1, Zenon DEF ProcInv
  <2> QED BY <2>1, Zenon DEF One, Pair
<1> QED BY <1>1, ProcInvariant, PTL

\* Nobody asks for pid 0, and no allocproc() fails: a free slot has pid 0, and kill() does
\* not find it.
FreeSlots ==
  0 \in KillTargets \/ AllocFails \/ (stale = {} /\ \A p \in Slots : state[p] = "UNUSED" => pid[p] = 0)

\* Slots become free in wait() only, and lose their pid there.
LEMMA FreeSlotsStep ==
  ASSUME ProcInv, FreeSlots, [Next]_vars
  PROVE  FreeSlots'
<1> SUFFICES ASSUME 0 \notin KillTargets, ~AllocFails
             PROVE  stale' = {} /\ \A q \in Slots : state'[q] = "UNUSED" => pid'[q] = 0
  BY Zenon DEF FreeSlots
<1>1. stale = {} /\ \A q \in Slots : state[q] = "UNUSED" => pid[q] = 0
  BY Zenon DEF FreeSlots
<1>2. /\ state \in [Slots -> {"UNUSED", "SLEEPING", "RUNNABLE", "RUNNING", "ZOMBIE"}]
      /\ pid \in [Slots -> 0 .. MaxPid] /\ arg \in [Slots -> KillTargets \cup {None}]
  BY Zenon DEF ProcInv, TypeOK
<1>3. CASE UNCHANGED vars
  BY <1>1, <1>3, Zenon DEF vars
<1>4. CASE Next
  <2>1. PICK p \in Slots : schedule(p) \/ yield(p) \/ usertrap(p) \/ Kernel(p)
    BY <1>4, Zenon DEF Next
  <2>2. CASE schedule(p) \/ yield(p) \/ usertrap(p)
    BY <1>1, <1>2, <2>2, Zenon DEF schedule, yield, usertrap
  <2>3. CASE fork(p)
    <3>1. CASE i[p] < NPROC /\ fork_take(p, i[p])
      <4>1. i[p] \in Slots
        BY <3>1, ScanAtSlot
      <4> QED BY <1>1, <1>2, <3>1, <4>1, Zenon DEF fork_take, fork_born, fork_leaves_pid, fork_frees
    <3>2. CASE fork_next(p) \/ fork_full(p)
      BY <1>1, <3>2, Zenon DEF fork_next, fork_full, fork_fails
    <3> QED BY <2>3, <3>1, <3>2, Zenon DEF fork
  <2>4. CASE kill(p)
    <3>1. CASE i[p] < NPROC /\ kill_hit(p, i[p])
      <4>1. i[p] \in Slots
        BY <3>1, ScanAtSlot
      <4>2. arg[p] \in KillTargets
        <5>1. pid[i[p]] \in Nat
          BY <4>1, PidOrder, Zenon DEF ProcInv
        <5> QED BY <1>2, <3>1, <5>1, SlotFacts, Zenon DEF kill_hit
      <4>3. state[i[p]] # "UNUSED"
        BY <1>1, <3>1, <4>1, <4>2, Zenon DEF kill_hit
      <4> QED BY <1>1, <1>2, <2>4, <3>1, <4>1, <4>3, Zenon DEF kill, kill_hit
    <3>2. CASE kill_next(p) \/ kill_fails(p)
      BY <1>1, <2>4, <3>2, Zenon DEF kill, kill_next, kill_fails
    <3> QED BY <2>4, <3>1, <3>2, Zenon DEF kill
  <2>5. CASE exit_init(p) \/ exit_look(p) \/ exit_parent(p) \/ exit_self(p) \/ reparent(p)
    BY <1>1, <1>2, <2>5, SlotFacts, Zenon DEF exit_init, exit_look, exit_parent, exit_self, reparent, Woken1
  <2>6. CASE exit_zombie(p)
    <3>1. orig[p] \in Slots
      BY <2>6, Zenon DEF ProcInv, One, Exiting, exit_zombie, At
    <3> QED BY <1>1, <1>2, <2>6, <3>1, Zenon DEF exit_zombie, Woken1
  <2>7. CASE wait_reap(p)
    <3>1. i[p] \in Slots
      BY <2>7, ScanAtSlot, Zenon DEF wait_reap
    <3>2. CASE reap_frees(p, i[p])
      BY <1>1, <1>2, <3>1, <3>2, Zenon DEF reap_frees
    <3>3. CASE reap_fails(p)
      BY <1>1, <3>3, Zenon DEF reap_fails
    <3> QED BY <2>7, <3>2, <3>3, Zenon DEF wait_reap
  <2>8. CASE wait_lock(p) \/ wait_next(p) \/ wait_end(p)
    BY <1>1, <1>2, <2>8, Zenon DEF wait_lock, wait_next, wait_end, wait_fails, wait_sleeps
  <2> QED BY <2>1, <2>2, <2>3, <2>4, <2>5, <2>6, <2>7, <2>8, Zenon DEF Kernel
<1> QED BY <1>3, <1>4

\* proc.c:109-113, 133-153, 614-636: a process that is killed was named to kill(), or has a
\* slot that kill() hit while it was free; and that happens only to who calls kill(0), or
\* when an allocproc() has failed.
THEOREM KillsAreMeant == Spec => []KillsTheNamed
<1>1. Init => FreeSlots
  <2> SUFFICES ASSUME Init PROVE FreeSlots
    OBVIOUS
  <2> QED BY SlotFacts, Zenon DEF Init, FreeSlots
<1>2. ProcInv /\ FreeSlots => KillsTheNamed
  <2> SUFFICES ASSUME ProcInv, FreeSlots,
                      NEW p \in Slots, Live(p), killed[p], pc[p] \in {"user", "fork", "kill", "wait", "scan"}
               PROVE  pid[p] \in KillTargets \/ (p \in stale /\ (0 \in KillTargets \/ AllocFails))
    BY Zenon DEF KillsTheNamed
  <2>1. pid[p] \in KillTargets \/ p \in stale
    BY Zenon DEF ProcInv, One
  <2> QED BY <2>1, Zenon DEF FreeSlots
<1> QED BY <1>1, <1>2, FreeSlotsStep, ProcInvariant, PTL DEF Spec

WF == INSTANCE WellFoundedInduction

\* A set of numbers has a least one.
LEMMA LeastOf ==
  ASSUME NEW T, T \subseteq Nat, T # {}
  PROVE  \E x \in T : \A y \in T : x <= y
<1> DEFINE R == WF!OpToRel(<, Nat)
<1>1. WF!IsWellFoundedOn(R, Nat)
  BY WF!NatLessThanWellFounded, Zenon
<1>2. PICK x \in T : \A y \in T : <<y, x>> \notin R
  <2> HIDE DEF R
  <2> QED BY <1>1, WF!WFMin, Zenon
<1>3. \A y \in T : ~(y < x)
  <2> SUFFICES ASSUME NEW y \in T, y < x PROVE FALSE
    OBVIOUS
  <2>1. <<y, x>> \in {ss \in Nat \X Nat : ss[1] < ss[2]}
    OBVIOUS
  <2>2. R = {ss \in Nat \X Nat : ss[1] < ss[2]}
    BY Zenon DEF WF!OpToRel
  <2> QED BY <1>2, <2>1, <2>2, Zenon
<1> HIDE DEF R
<1> QED BY <1>2, <1>3

\* Whoever has a lock and wants another one finds it in the hands of a younger process: it
\* wants its own, which only its children take, or a child's, which only the child and the
\* child's children take.
LEMMA HeldByYounger ==
  ASSUME ProcInv, NEW h \in Slots, NEW w \in Slots, lock[w] = h,
         Wants(h) # None, NEW g \in Slots, lock[Wants(h)] = g, ~Stray(g)
  PROVE  pid[h] < pid[g]
<1>1. TypeOK /\ One(h) /\ One(g) /\ Pair(h, w) /\ Pair(h, h) /\ Pair(h, g)
  BY Zenon DEF ProcInv
<1>2. state[h] = "RUNNING" /\ pc[h] \in {"scan", "exit_self", "reparent"}
  BY <1>1, Zenon DEF Pair
<1>3. CASE pc[h] = "exit_self"
  <2>1. Wants(h) = h
    BY <1>2, <1>3 DEF Wants, LockOrder
  <2>2. g # h
    BY <1>1, <1>3, <2>1, Zenon DEF Pair, One, Exiting
  <2>3. Pair(g, h)
    BY Zenon DEF ProcInv
  <2>4. parent[g] = h
    BY <2>1, <2>2, <2>3, Zenon DEF Pair, Stray
  <2> QED BY <1>1, <2>4, Zenon DEF Pair
<1>4. CASE pc[h] \in {"scan", "reparent"}
  <2>1. i[h] < NPROC /\ parent[i[h]] = h /\ Wants(h) = i[h]
    BY <1>2, <1>4, Zenon DEF Wants
  <2>2. i[h] \in Slots
    BY <2>1, ScanAtSlot
  <2>3. Pair(h, i[h]) /\ Pair(g, i[h]) /\ Pair(i[h], g)
    BY <2>2, Zenon DEF ProcInv
  <2>4. pid[h] < pid[i[h]]
    BY <2>1, <2>3, Zenon DEF Pair
  <2>5. i[h] = g \/ parent[g] = i[h]
    BY <2>1, <2>3, Zenon DEF Pair, Stray
  <2>6. i[h] # g => pid[i[h]] < pid[g]
    BY <2>3, <2>5, Zenon DEF Pair
  <2>7. pid[h] \in Nat /\ pid[g] \in Nat /\ pid[i[h]] \in Nat
    BY <1>1, <2>2 DEF TypeOK
  <2> QED BY <2>4, <2>6, <2>7
<1> QED BY <1>2, <1>3, <1>4

\* proc.c:303-393, 395-447: the p->locks that fork, kill, exit, reparent and wait spin for
\* close no cycle among processes none of which has locked a parent it no longer has.
THEOREM LocksAreOrdered == Spec => []NoLockCycle
<1>1. ASSUME ProcInv PROVE NoLockCycle
  <2> SUFFICES ASSUME NEW S \in SUBSET Slots, S # {}, \A p \in S : ~Stray(p), Stuck(S)
               PROVE  FALSE
    BY DEF NoLockCycle
  <2> DEFINE H == {lock[Wants(p)] : p \in S}
             T == {MaxPid - pid[h] : h \in H}
  <2>1. H \subseteq S /\ H # {} /\ \A p \in S : Wants(p) # None /\ lock[Wants(p)] \in H
    BY Zenon DEF Stuck
  <2>2. ASSUME NEW p \in S PROVE Wants(p) \in Slots
    <3>1. TypeOK /\ One(p) /\ Wants(p) # None
      BY <1>1, <2>1, Zenon DEF ProcInv
    <3>2. i[p] < NPROC => i[p] \in Slots
      BY <1>1, ScanAtSlot
    <3> QED BY <3>1, <3>2, SlotFacts, ZenonT(40) DEF Wants, LockOrder, One, Exiting, TypeOK
  <2>3. \A h \in H : pid[h] \in 0 .. MaxPid
    BY <1>1, <2>1, Zenon DEF ProcInv, TypeOK
  <2>4. ASSUME NEW h \in H PROVE \E g \in H : pid[h] < pid[g]
    <3>1. PICK p \in S : h = lock[Wants(p)]
      OBVIOUS
    <3> HIDE DEF H
    <3> QED BY <1>1, <2>1, <2>2, <3>1, HeldByYounger, Zenon
  <2> HIDE DEF H
  <2>5. T \subseteq Nat /\ T # {}
    <3>1. \A h \in H : MaxPid - pid[h] \in Nat
      BY <2>3, SlotFacts
    <3> QED BY <2>1, <3>1, Zenon
  <2>6. PICK x \in T : \A y \in T : x <= y
    <3> HIDE DEF T
    <3> QED BY <2>5, LeastOf, Zenon
  <2>7. PICK h \in H : x = MaxPid - pid[h]
    OBVIOUS
  <2>8. PICK g \in H : pid[h] < pid[g]
    BY <2>4
  <2>9. MaxPid - pid[g] \in T
    OBVIOUS
  <2> HIDE DEF T
  <2> QED BY <2>3, <2>6, <2>7, <2>8, <2>9, SlotFacts
<1> QED BY <1>1, ProcInvariant, PTL

=============================================================================
