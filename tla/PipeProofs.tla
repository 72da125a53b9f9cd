----------------------------- MODULE PipeProofs -----------------------------
(***************************************************************************)
(* Proofs about Pipe for every number of readers and writers, every size   *)
(* of the ring and every multiple of it at which the counters wrap.        *)
(***************************************************************************)
EXTENDS Pipe, RingLemmas, TLAPS

(***************************************************************************)
(* The inductive invariant, in parts.                                      *)
(***************************************************************************)
\* The places at which a process holds pi->lock.
InLock == {"w_loop", "w_sleep", "r_test", "r_sleep", "r_loop"}

\* pi->lock is held by who is between acquire() and sleep() or release(), and by no
\* other; readers run piperead(), writers pipewrite().
LockHeld ==
  /\ \A p \in Procs : pc[p] \in InLock <=> lock = p
  /\ \A p \in Writers : pc[p] \in {"idle"} \cup WriteCall
  /\ \A p \in Readers : pc[p] \in {"idle"} \cup ReadCall

\* Nobody is in a call on an end that is closed; the page goes with the second.
EndsUsed ==
  /\ ~writeopen => \A p \in Writers : pc[p] = "idle"
  /\ ~readopen => \A p \in Readers : pc[p] = "idle"
  /\ freed => ~readopen /\ ~writeopen

\* Readers sleep on an empty pipe unless a writer is about to wake them: it is in its
\* loop, which ends in a wakeup.  The same for writers.  Who is about to sleep still has
\* its reason to.
SleepersRight ==
  /\ \A p \in Readers : pc[p] = "r_asleep" =>
       writeopen /\ (Empty \/ silent \/ \E w \in Writers : pc[w] = "w_loop")
  /\ \A p \in Writers : pc[p] = "w_asleep" =>
       readopen /\ (Full \/ \E r \in Readers : pc[r] = "r_loop")
  /\ \A p \in Readers : pc[p] = "r_sleep" => Empty /\ writeopen
  /\ \A p \in Writers : pc[p] = "w_sleep" => Full /\ readopen

PipeInv == TypeOK /\ LockHeld /\ EndsUsed /\ SleepersRight

-----------------------------------------------------------------------------
\* A counter that is one more stays a counter, and finds its place in the ring.
LEMMA CounterTypes ==
  ASSUME NEW k \in 0 .. CtrMod - 1
  PROVE  Next1(k) \in 0 .. CtrMod - 1 /\ k % PIPESIZE \in 0 .. PIPESIZE - 1
BY PipeAssumption DEF Next1

\* What a return, and a wakeup, leave is of the right type.
LEMMA ReturnTypes ==
  ASSUME TypeOK, NEW p \in Procs, Returns(p)
  PROVE  /\ lock' = None /\ left' \in [Procs -> 0 .. MaxN]
         /\ killed' \in [Procs -> BOOLEAN]
<1>1. lock' = None
  BY DEF Returns
<1>2. left' \in [Procs -> 0 .. MaxN]
  BY PipeAssumption DEF Returns, TypeOK
<1>3. killed' \in [Procs -> BOOLEAN]
  BY Zenon DEF Returns, TypeOK
<1> QED BY <1>1, <1>2, <1>3

\* wakeup (pipe.c:64, 67, 90, 97, 124) moves sleepers to places of their own call.
LEMMA WokenTypes ==
  ASSUME NEW f \in [Procs -> {"idle"} \cup WriteCall \cup ReadCall]
  PROVE  /\ ReadersWoken(f) \in [Procs -> {"idle"} \cup WriteCall \cup ReadCall]
         /\ WritersWoken(f) \in [Procs -> {"idle"} \cup WriteCall \cup ReadCall]
BY DEF ReadersWoken, WritersWoken, WriteCall, ReadCall

\* The pipe that pipealloc (pipe.c:22-55) makes satisfies the invariant.
LEMMA PipeInit == Init => PipeInv
<1> SUFFICES ASSUME Init PROVE PipeInv
  OBVIOUS
<1>1. data \in [0 .. PIPESIZE - 1 -> Bytes]
  BY DEF Init
<1>2. 0 \in 0 .. CtrMod - 1 /\ 0 \in 0 .. MaxN
  BY PipeAssumption
<1>3. TypeOK
  BY <1>1, <1>2, Zenon DEF Init, TypeOK
<1>4. LockHeld
  BY PipeAssumption DEF Init, LockHeld, InLock, Procs
<1>5. EndsUsed /\ SleepersRight
  BY DEF Init, EndsUsed, SleepersRight, Procs
<1> QED BY <1>3, <1>4, <1>5 DEF PipeInv

\* Every step of pipewrite, piperead, pipeclose and kill preserves it.
LEMMA PipeStep == PipeInv /\ [Next]_vars => PipeInv'
<1> SUFFICES ASSUME PipeInv, [Next]_vars PROVE PipeInv'
  OBVIOUS
<1> USE DEF PipeInv
<1>s. \A x : x \in Procs <=> x \in Writers \/ x \in Readers
  BY DEF Procs
<1>d. \A x : ~(x \in Writers /\ x \in Readers)
  BY PipeAssumption
<1>n. None \notin Procs
  BY PipeAssumption DEF Procs
<1>1. ASSUME NEW p \in Writers, NEW k \in 0 .. MaxN, pipewrite(p, k)
      PROVE  PipeInv'
  <2> USE <1>1, <1>s, <1>d, <1>n DEF pipewrite, Goto, pipevars
  <2>1. TypeOK'
    BY PipeAssumption DEF TypeOK, WriteCall, ReadCall
  <2>2. LockHeld'
    BY PipeAssumption DEF TypeOK, LockHeld, InLock, WriteCall, ReadCall
  <2>3. EndsUsed'
    BY DEF TypeOK, LockHeld, InLock, EndsUsed
  <2>4. SleepersRight'
    BY DEF TypeOK, LockHeld, InLock, SleepersRight, Empty, Full
  <2> QED BY <2>1, <2>2, <2>3, <2>4
<1>2. ASSUME NEW p \in Readers, NEW k \in 0 .. MaxN, piperead(p, k)
      PROVE  PipeInv'
  <2> USE <1>2, <1>s, <1>d, <1>n DEF piperead, Goto, pipevars
  <2>1. TypeOK'
    BY PipeAssumption DEF TypeOK, WriteCall, ReadCall
  <2>2. LockHeld'
    BY PipeAssumption DEF TypeOK, LockHeld, InLock, WriteCall, ReadCall
  <2>3. EndsUsed'
    BY DEF TypeOK, LockHeld, InLock, EndsUsed
  <2>4. SleepersRight'
    BY DEF TypeOK, LockHeld, InLock, SleepersRight, Empty, Full
  <2> QED BY <2>1, <2>2, <2>3, <2>4
<1>3. ASSUME NEW p \in Writers, write_acquire(p)
      PROVE  PipeInv'
  <2> USE <1>3, <1>s, <1>d, <1>n DEF write_acquire, Goto, pipevars
  <2>1. TypeOK'
    BY PipeAssumption DEF TypeOK, WriteCall, ReadCall
  <2>2. LockHeld'
    BY PipeAssumption DEF TypeOK, LockHeld, InLock, WriteCall, ReadCall
  <2>3. EndsUsed'
    BY DEF TypeOK, LockHeld, InLock, EndsUsed
  <2>4. SleepersRight'
    BY DEF TypeOK, LockHeld, InLock, SleepersRight, Empty, Full
  <2> QED BY <2>1, <2>2, <2>3, <2>4
<1>4. ASSUME NEW p \in Writers, write_full(p)
      PROVE  PipeInv'
  <2> USE <1>4, <1>s, <1>d, <1>n DEF write_full, Goto, pipevars
  <2>1. CASE Returns(p) /\ pc' = [pc EXCEPT ![p] = "idle"] /\ silent'
    <3>1. TypeOK'
      BY <2>1, ReturnTypes DEF TypeOK, WriteCall, ReadCall
    <3>2. LockHeld'
      BY <2>1 DEF Returns, TypeOK, LockHeld, InLock, WriteCall, ReadCall
    <3>3. EndsUsed' /\ SleepersRight'
      BY <2>1 DEF TypeOK, LockHeld, InLock, EndsUsed, SleepersRight, Empty, Full
    <3> QED BY <3>1, <3>2, <3>3
  <2>2. CASE /\ readopen /\ UNCHANGED <<lock, left, killed>> /\ ~silent'
             /\ pc' = ReadersWoken([pc EXCEPT ![p] = "w_sleep"])
    <3>1. TypeOK'
      BY <2>2, WokenTypes, Zenon DEF TypeOK, WriteCall, ReadCall
    <3>2. LockHeld'
      BY <2>2 DEF ReadersWoken, TypeOK, LockHeld, InLock, WriteCall, ReadCall
    <3>3. EndsUsed' /\ SleepersRight'
      BY <2>2 DEF ReadersWoken, TypeOK, LockHeld, InLock, EndsUsed, SleepersRight, Empty, Full
    <3> QED BY <3>1, <3>2, <3>3
  <2> QED BY <2>1, <2>2
<1>5. ASSUME NEW p \in Writers, write_sleep(p)
      PROVE  PipeInv'
  <2> USE <1>5, <1>s, <1>d, <1>n DEF write_sleep, Goto, pipevars
  <2>1. TypeOK'
    BY PipeAssumption DEF TypeOK, WriteCall, ReadCall
  <2>2. LockHeld'
    BY PipeAssumption DEF TypeOK, LockHeld, InLock, WriteCall, ReadCall
  <2>3. EndsUsed'
    BY DEF TypeOK, LockHeld, InLock, EndsUsed
  <2>4. SleepersRight'
    BY DEF TypeOK, LockHeld, InLock, SleepersRight, Empty, Full
  <2> QED BY <2>1, <2>2, <2>3, <2>4
<1>6. ASSUME NEW p \in Writers, write_byte(p)
      PROVE  PipeInv'
  <2> USE <1>6, <1>s, <1>d, <1>n DEF write_byte, pipevars
  <2>1. TypeOK'
    <3>1. data' \in [0 .. PIPESIZE - 1 -> Bytes]
      BY Zenon DEF TypeOK, Bytes
    <3>2. nwrite' \in 0 .. CtrMod - 1
      BY CounterTypes DEF TypeOK
    <3>3. left' \in [Procs -> 0 .. MaxN]
      BY PipeAssumption DEF TypeOK
    <3> QED BY <3>1, <3>2, <3>3 DEF TypeOK
  <2>2. LockHeld'
    BY PipeAssumption DEF TypeOK, LockHeld, InLock, WriteCall, ReadCall
  <2>3. EndsUsed'
    BY DEF TypeOK, LockHeld, InLock, EndsUsed
  <2>4. SleepersRight'
    BY DEF TypeOK, LockHeld, InLock, SleepersRight, Empty, Full
  <2> QED BY <2>1, <2>2, <2>3, <2>4
<1>7. ASSUME NEW p \in Writers, write_done(p)
      PROVE  PipeInv'
  <2> USE <1>7, <1>s, <1>d, <1>n DEF write_done, pipevars
  <2>1. TypeOK'
    BY ReturnTypes, WokenTypes, Zenon DEF TypeOK, WriteCall, ReadCall
  <2>2. LockHeld'
    BY DEF Returns, ReadersWoken, TypeOK, LockHeld, InLock, WriteCall, ReadCall
  <2>3. EndsUsed'
    BY DEF ReadersWoken, TypeOK, LockHeld, InLock, EndsUsed
  <2>4. SleepersRight'
    BY DEF ReadersWoken, TypeOK, LockHeld, InLock, SleepersRight, Empty, Full
  <2> QED BY <2>1, <2>2, <2>3, <2>4
<1>8. ASSUME NEW p \in Readers, read_acquire(p)
      PROVE  PipeInv'
  <2> USE <1>8, <1>s, <1>d, <1>n DEF read_acquire, Goto, pipevars
  <2>1. TypeOK'
    BY PipeAssumption DEF TypeOK, WriteCall, ReadCall
  <2>2. LockHeld'
    BY PipeAssumption DEF TypeOK, LockHeld, InLock, WriteCall, ReadCall
  <2>3. EndsUsed'
    BY DEF TypeOK, LockHeld, InLock, EndsUsed
  <2>4. SleepersRight'
    BY DEF TypeOK, LockHeld, InLock, SleepersRight, Empty, Full
  <2> QED BY <2>1, <2>2, <2>3, <2>4
<1>9. ASSUME NEW p \in Readers, read_test(p)
      PROVE  PipeInv'
  <2> USE <1>9, <1>s, <1>d, <1>n DEF read_test, Goto, ReadWaits, pipevars
  <2>1. CASE Returns(p) /\ pc' = [pc EXCEPT ![p] = "idle"]
    <3>1. TypeOK'
      BY <2>1, ReturnTypes DEF TypeOK, WriteCall, ReadCall
    <3>2. LockHeld'
      BY <2>1 DEF Returns, TypeOK, LockHeld, InLock, WriteCall, ReadCall
    <3>3. EndsUsed' /\ SleepersRight'
      BY <2>1 DEF Returns, TypeOK, LockHeld, InLock, EndsUsed, SleepersRight, Empty, Full
    <3> QED BY <3>1, <3>2, <3>3
  <2>2. CASE /\ ReadWaits /\ UNCHANGED <<lock, left, killed>>
             /\ pc' = [pc EXCEPT ![p] = "r_sleep"]
    <3>1. TypeOK'
      BY <2>2 DEF TypeOK, WriteCall, ReadCall
    <3>2. LockHeld'
      BY <2>2 DEF TypeOK, LockHeld, InLock, WriteCall, ReadCall
    <3>3. EndsUsed' /\ SleepersRight'
      BY <2>2 DEF TypeOK, LockHeld, InLock, EndsUsed, SleepersRight, Empty, Full
    <3> QED BY <3>1, <3>2, <3>3
  <2>3. CASE UNCHANGED <<lock, left, killed>> /\ pc' = [pc EXCEPT ![p] = "r_loop"]
    <3>1. TypeOK'
      BY <2>3 DEF TypeOK, WriteCall, ReadCall
    <3>2. LockHeld'
      BY <2>3 DEF TypeOK, LockHeld, InLock, WriteCall, ReadCall
    <3>3. EndsUsed' /\ SleepersRight'
      BY <2>3 DEF TypeOK, LockHeld, InLock, EndsUsed, SleepersRight, Empty, Full
    <3> QED BY <3>1, <3>2, <3>3
  <2> QED BY <2>1, <2>2, <2>3
<1>10. ASSUME NEW p \in Readers, read_sleep(p)
       PROVE  PipeInv'
  <2> USE <1>10, <1>s, <1>d, <1>n DEF read_sleep, Goto, pipevars
  <2>1. TypeOK'
    BY PipeAssumption DEF TypeOK, WriteCall, ReadCall
  <2>2. LockHeld'
    BY PipeAssumption DEF TypeOK, LockHeld, InLock, WriteCall, ReadCall
  <2>3. EndsUsed'
    BY DEF TypeOK, LockHeld, InLock, EndsUsed
  <2>4. SleepersRight'
    BY DEF TypeOK, LockHeld, InLock, SleepersRight, Empty, Full
  <2> QED BY <2>1, <2>2, <2>3, <2>4
<1>11. ASSUME NEW p \in Readers, read_byte(p)
       PROVE  PipeInv'
  <2> USE <1>11, <1>s, <1>d, <1>n DEF read_byte, pipevars
  <2>0. nread' \in 0 .. CtrMod - 1
    BY CounterTypes DEF TypeOK
  <2>1. CASE left' = [left EXCEPT ![p] = @ - 1] /\ UNCHANGED <<lock, pc, killed>>
    <3>0. left' \in [Procs -> 0 .. MaxN]
      BY <2>1, PipeAssumption DEF TypeOK
    <3>1. TypeOK'
      BY <2>1, <2>0, <3>0 DEF TypeOK, WriteCall, ReadCall
    <3>2. LockHeld'
      BY <2>1 DEF TypeOK, LockHeld, InLock, WriteCall, ReadCall
    <3>3. EndsUsed' /\ SleepersRight'
      BY <2>1 DEF TypeOK, LockHeld, InLock, EndsUsed, SleepersRight, Empty, Full
    <3> QED BY <3>1, <3>2, <3>3
  <2>2. CASE Returns(p) /\ pc' = WritersWoken([pc EXCEPT ![p] = "idle"])
    <3>1. TypeOK'
      BY <2>2, <2>0, ReturnTypes, WokenTypes, Zenon DEF TypeOK, WriteCall, ReadCall
    <3>2. LockHeld'
      BY <2>2 DEF Returns, WritersWoken, TypeOK, LockHeld, InLock, WriteCall, ReadCall
    <3>3. EndsUsed' /\ SleepersRight'
      BY <2>2 DEF Returns, WritersWoken, TypeOK, LockHeld, InLock, EndsUsed, SleepersRight, Empty, Full
    <3> QED BY <3>1, <3>2, <3>3
  <2> QED BY <2>1, <2>2
<1>12. ASSUME NEW p \in Readers, read_done(p)
       PROVE  PipeInv'
  <2> USE <1>12, <1>s, <1>d, <1>n DEF read_done, Returns, WritersWoken, pipevars
  <2>1. TypeOK'
    BY PipeAssumption DEF TypeOK, WriteCall, ReadCall
  <2>2. LockHeld'
    BY PipeAssumption DEF TypeOK, LockHeld, InLock, WriteCall, ReadCall
  <2>3. EndsUsed'
    BY DEF TypeOK, LockHeld, InLock, EndsUsed
  <2>4. SleepersRight'
    BY DEF TypeOK, LockHeld, InLock, SleepersRight, Empty, Full
  <2> QED BY <2>1, <2>2, <2>3, <2>4
<1>13. ASSUME close_write
       PROVE  PipeInv'
  <2> USE <1>13, <1>s, <1>d, <1>n DEF close_write, LastEnd, ReadersWoken, pipevars
  <2>1. TypeOK'
    BY PipeAssumption, Zenon DEF TypeOK, WriteCall, ReadCall
  <2>2. LockHeld'
    BY PipeAssumption DEF TypeOK, LockHeld, InLock, WriteCall, ReadCall
  <2>3. EndsUsed'
    BY DEF TypeOK, LockHeld, InLock, EndsUsed
  <2>4. SleepersRight'
    BY DEF TypeOK, LockHeld, InLock, SleepersRight, Empty, Full
  <2> QED BY <2>1, <2>2, <2>3, <2>4
<1>14. ASSUME close_read
       PROVE  PipeInv'
  <2> USE <1>14, <1>s, <1>d, <1>n DEF close_read, LastEnd, WritersWoken, pipevars
  <2>1. TypeOK'
    BY PipeAssumption, Zenon DEF TypeOK, WriteCall, ReadCall
  <2>2. LockHeld'
    BY PipeAssumption DEF TypeOK, LockHeld, InLock, WriteCall, ReadCall
  <2>3. EndsUsed'
    BY DEF TypeOK, LockHeld, InLock, EndsUsed
  <2>4. SleepersRight'
    BY DEF TypeOK, LockHeld, InLock, SleepersRight, Empty, Full
  <2> QED BY <2>1, <2>2, <2>3, <2>4
<1>15. ASSUME NEW p \in Procs, kill(p)
       PROVE  PipeInv'
  <2> USE <1>15, <1>s, <1>d, <1>n DEF kill, pipevars
  <2>1. TypeOK'
    BY PipeAssumption DEF TypeOK, WriteCall, ReadCall
  <2>2. LockHeld'
    BY PipeAssumption DEF TypeOK, LockHeld, InLock, WriteCall, ReadCall
  <2>3. EndsUsed'
    BY DEF TypeOK, LockHeld, InLock, EndsUsed
  <2>4. SleepersRight'
    BY DEF TypeOK, LockHeld, InLock, SleepersRight, Empty, Full
  <2> QED BY <2>1, <2>2, <2>3, <2>4
<1>16. CASE UNCHANGED vars
  BY <1>16 DEF vars, pipevars, TypeOK, LockHeld, EndsUsed, SleepersRight, Empty, Full
<1> QED
  BY <1>1, <1>2, <1>3, <1>4, <1>5, <1>6, <1>7, <1>8, <1>9, <1>10, <1>11, <1>12, <1>13, <1>14, <1>15, <1>16
  DEF Next, WriteStep, ReadStep

\* pi->lock is held by who is between acquire and release, an end is open while somebody
\* is in a call on it, and a sleeper's reason to sleep lasts until someone in its loop is
\* about to call wakeup (pipe.c:76-126).
THEOREM PipeInvariant == Spec => []PipeInv
BY PipeInit, PipeStep, PTL DEF Spec

\* No interleaving of pipewrite, piperead, pipeclose and kill loses a wakeup: whenever
\* pi->lock is free, readers sleep on an empty pipe only and writers on a full one
\* (pipe.c:85-91, 110-116), but for the bytes of a killed writer; a freed page has no user.
THEOREM WakeupsKept == Spec => []NoLostWakeup
<1>1. ASSUME PipeInv PROVE NoLostWakeup
  <2> USE <1>1 DEF PipeInv
  <2>1. ASSUME lock = None
        PROVE  \A p \in Procs : pc[p] \notin InLock
    BY <2>1, PipeAssumption DEF LockHeld, Procs
  <2>2. ASSUME lock = None, NEW p \in Readers, pc[p] = "r_asleep"
        PROVE  (Empty \/ silent) /\ writeopen
    BY <2>1, <2>2 DEF SleepersRight, EndsUsed, InLock, Procs
  <2>3. ASSUME lock = None, NEW p \in Writers, pc[p] = "w_asleep"
        PROVE  Full /\ readopen
    BY <2>1, <2>3 DEF SleepersRight, InLock, Procs
  <2>4. freed => lock = None /\ \A p \in Procs : pc[p] = "idle"
    BY DEF TypeOK, LockHeld, EndsUsed, InLock, Procs
  <2> QED BY <2>2, <2>3, <2>4 DEF NoLostWakeup
<1> QED BY <1>1, PipeInvariant, PTL

-----------------------------------------------------------------------------
(***************************************************************************)
(* The ring is a queue.  Dist is how far the counter w is ahead of r, and  *)
(* Filled the length of Contents.                                          *)
(***************************************************************************)
Dist(w, r) == (w - r) % CtrMod
Filled == Dist(nwrite, nread)
Fits == Filled <= PIPESIZE

\* The sizes of the ring and of its counters, as the lemmas on rings ask for them.
LEMMA Sizes ==
  /\ PIPESIZE \in Nat \ {0} /\ CtrMod \in Nat \ {0} /\ CtrMod \in Int /\ PIPESIZE < CtrMod
  /\ CtrMod % PIPESIZE = 0
BY PipeAssumption

\* A counter's successor, the distance of two counters and its change by one, without
\* modulus.
LEMMA Counters ==
  ASSUME NEW w \in 0 .. CtrMod - 1, NEW r \in 0 .. CtrMod - 1
  PROVE  /\ Next1(w) = IF w + 1 = CtrMod THEN 0 ELSE w + 1
         /\ Dist(w, r) \in 0 .. CtrMod - 1
         /\ Dist(w, r) = IF r <= w THEN w - r ELSE w - r + CtrMod
         /\ Dist(w, r) + 1 < CtrMod => Dist(Next1(w), r) = Dist(w, r) + 1
         /\ Dist(w, r) > 0 => Dist(w, Next1(r)) = Dist(w, r) - 1
<1>1. \A k \in 0 .. CtrMod - 1 :
        Next1(k) \in 0 .. CtrMod - 1 /\ Next1(k) = IF k + 1 = CtrMod THEN 0 ELSE k + 1
  <2> SUFFICES ASSUME NEW k \in 0 .. CtrMod - 1
               PROVE  Next1(k) = IF k + 1 = CtrMod THEN 0 ELSE k + 1
    BY Sizes
  <2>1. 1 \in 0 .. CtrMod
    BY Sizes
  <2>2. (k + 1) % CtrMod = IF k + 1 < CtrMod THEN k + 1 ELSE k + 1 - CtrMod
    BY <2>1, Sizes, RingPlus, Zenon
  <2> QED BY <2>2, Sizes DEF Next1
<1>2. \A x, y \in 0 .. CtrMod - 1 : Dist(x, y) = IF y <= x THEN x - y ELSE x - y + CtrMod
  BY Sizes, RingDistance DEF Dist
<1>3. Next1(w) \in 0 .. CtrMod - 1 /\ Next1(r) \in 0 .. CtrMod - 1
  BY <1>1
<1>4. /\ Dist(w, r) = IF r <= w THEN w - r ELSE w - r + CtrMod
      /\ Dist(Next1(w), r) = IF r <= Next1(w) THEN Next1(w) - r ELSE Next1(w) - r + CtrMod
      /\ Dist(w, Next1(r)) = IF Next1(r) <= w THEN w - Next1(r) ELSE w - Next1(r) + CtrMod
  BY <1>2, <1>3
<1>5. /\ Next1(w) = IF w + 1 = CtrMod THEN 0 ELSE w + 1
      /\ Next1(r) = IF r + 1 = CtrMod THEN 0 ELSE r + 1
  BY <1>1
<1> QED BY <1>4, <1>5, Sizes

\* Since CtrMod is a multiple of PIPESIZE, a counter that wraps goes on at the next place.
LEMMA Places ==
  ASSUME NEW d, NEW w \in 0 .. CtrMod - 1, NEW r \in 0 .. CtrMod - 1, NEW len \in Nat
  PROVE  /\ Ring(d, Next1(r), len, PIPESIZE) = Ring(d, r + 1, len, PIPESIZE)
         /\ (r + Dist(w, r)) % PIPESIZE = w % PIPESIZE
<1>1. Ring(d, Next1(r), len, PIPESIZE) = Ring(d, r + 1, len, PIPESIZE)
  <2>1. CASE r + 1 = CtrMod
    <3>1. Ring(d, 0 + CtrMod, len, PIPESIZE) = Ring(d, 0, len, PIPESIZE)
      BY Sizes, RingMultiple
    <3>2. 0 + CtrMod = r + 1 /\ Next1(r) = 0
      BY <2>1, Counters, Sizes
    <3> QED BY <3>1, <3>2
  <2>2. CASE r + 1 # CtrMod
    BY <2>2, Counters
  <2> QED BY <2>1, <2>2
<1>2. (w + CtrMod) % PIPESIZE = w % PIPESIZE
  <2>1. \A a \in Int : (a + CtrMod) % PIPESIZE = a % PIPESIZE
    BY Sizes, ModMultiple, Zenon
  <2> QED BY <2>1
<1>3. Dist(w, r) = IF r <= w THEN w - r ELSE w - r + CtrMod
  BY Counters
<1>4. r + Dist(w, r) = w \/ r + Dist(w, r) = w + CtrMod
  BY <1>3, Sizes
<1> QED BY <1>1, <1>2, <1>4

\* The test for a full pipe (pipe.c:85) is right, and so is that for an empty one.
LEMMA Tests ==
  ASSUME TypeOK, Fits
  PROVE  (Full <=> Filled = PIPESIZE) /\ (Empty <=> Filled = 0)
<1>1. nread \in 0 .. CtrMod - 1 /\ nwrite \in 0 .. CtrMod - 1
  BY DEF TypeOK
<1>2. PIPESIZE \in 0 .. CtrMod
  BY Sizes
<1>3. (nread + PIPESIZE) % CtrMod = IF nread + PIPESIZE < CtrMod THEN nread + PIPESIZE
                                    ELSE nread + PIPESIZE - CtrMod
  BY <1>1, <1>2, Sizes, RingPlus, Zenon
<1>4. Filled = IF nread <= nwrite THEN nwrite - nread ELSE nwrite - nread + CtrMod
  BY <1>1, Counters DEF Filled
<1> QED BY <1>1, <1>3, <1>4, Sizes DEF Full, Empty, Fits

\* What is in the pipe is a sequence of bytes, as long as the counters are apart.
LEMMA ContentsSeq ==
  ASSUME TypeOK
  PROVE  /\ Contents = Ring(data, nread, Filled, PIPESIZE)
         /\ Filled \in Nat /\ Contents \in Seq(Bytes) /\ Len(Contents) = Filled
<1>1. Filled \in Nat
  <2>1. nread \in 0 .. CtrMod - 1 /\ nwrite \in 0 .. CtrMod - 1
    BY DEF TypeOK
  <2>2. Dist(nwrite, nread) \in 0 .. CtrMod - 1
    BY <2>1, Counters
  <2> QED BY <2>2, Sizes DEF Filled
<1>2. Contents = Ring(data, nread, Filled, PIPESIZE)
  BY DEF Contents, Ring, Filled, Dist
<1>3. data \in [0 .. PIPESIZE - 1 -> Bytes] /\ nread \in Int
  BY Sizes DEF TypeOK
<1>4. PIPESIZE \in Nat \ {0}
  BY Sizes
<1>5. Ring(data, nread, Filled, PIPESIZE) \in Seq(Bytes)
        /\ Len(Ring(data, nread, Filled, PIPESIZE)) = Filled
  BY <1>1, <1>3, <1>4, RingSeq
<1> QED BY <1>1, <1>2, <1>5

\* write_byte appends: the new byte comes behind the others and overwrites none.
LEMMA WritePuts ==
  ASSUME TypeOK, Fits, NEW p \in Writers, write_byte(p)
  PROVE  Fits' /\ F!Put(p)
<1>1. /\ nread \in 0 .. CtrMod - 1 /\ nwrite \in 0 .. CtrMod - 1 /\ nread \in Int
      /\ data \in [0 .. PIPESIZE - 1 -> Bytes] /\ p \in Bytes
  BY Sizes DEF TypeOK, Bytes
<1>2. Filled \in 0 .. PIPESIZE - 1
  BY Tests, ContentsSeq, Sizes DEF write_byte, Fits
<1>3. Filled' = Filled + 1
  <2>1. Dist(nwrite, nread) + 1 < CtrMod => Dist(Next1(nwrite), nread) = Dist(nwrite, nread) + 1
    BY <1>1, Counters
  <2>2. nwrite' = Next1(nwrite) /\ nread' = nread
    BY DEF write_byte
  <2>3. Filled' = Dist(Next1(nwrite), nread) /\ Filled = Dist(nwrite, nread)
    BY <2>2 DEF Filled, Dist
  <2> QED BY <1>2, <2>1, <2>3, Sizes
<1>4. (nread + Filled) % PIPESIZE = nwrite % PIPESIZE
  BY <1>1, Places, Zenon DEF Filled
<1>5. Ring(data', nread, Filled + 1, PIPESIZE) = Append(Ring(data, nread, Filled, PIPESIZE), p)
  <2>1. PIPESIZE \in Nat \ {0}
    BY Sizes
  <2>2. RingStore(data', data, nread + Filled, PIPESIZE, p)
    BY <1>4, Zenon DEF write_byte, RingStore
  <2>3. data' \in [0 .. PIPESIZE - 1 -> Bytes]
    BY <1>1, Zenon DEF write_byte
  <2>4. Longer(data', data, nread, Filled, PIPESIZE, p)
    BY <1>1, <1>2, <2>1, <2>2, <2>3, RingPut
  <2> QED BY <2>4 DEF Longer
<1>6. Contents' = Ring(data', nread', Filled', PIPESIZE)
  BY DEF Contents, Ring, Filled, Dist
<1>7. Contents' = Append(Contents, p)
  BY <1>3, <1>5, <1>6, ContentsSeq, Zenon DEF write_byte
<1> QED BY <1>2, <1>3, <1>7, ContentsSeq, Sizes DEF F!Put, Fits

\* read_byte takes the oldest byte.
LEMMA ReadGets ==
  ASSUME TypeOK, Fits, NEW p \in Readers, read_byte(p)
  PROVE  Fits' /\ F!Get
<1>1. /\ nread \in 0 .. CtrMod - 1 /\ nwrite \in 0 .. CtrMod - 1 /\ nread \in Int
      /\ data \in [0 .. PIPESIZE - 1 -> Bytes]
  BY Sizes DEF TypeOK
<1>2. Filled \in Nat \ {0}
  BY Tests, ContentsSeq DEF read_byte
<1>3. Filled' = Filled - 1
  <2>1. Dist(nwrite, nread) > 0 => Dist(nwrite, Next1(nread)) = Dist(nwrite, nread) - 1
    BY <1>1, Counters
  <2>2. nwrite' = nwrite /\ nread' = Next1(nread)
    BY DEF read_byte
  <2>3. Filled' = Dist(nwrite, Next1(nread)) /\ Filled = Dist(nwrite, nread)
    BY <2>2 DEF Filled, Dist
  <2> QED BY <1>2, <2>1, <2>3
<1>4. Ring(data, nread + 1, Filled - 1, PIPESIZE) = Tail(Ring(data, nread, Filled, PIPESIZE))
  <2>1. PIPESIZE \in Nat \ {0}
    BY Sizes
  <2> QED BY <1>1, <1>2, <2>1, RingGet, Zenon
<1>5. Contents' = Ring(data', nread', Filled', PIPESIZE)
  BY DEF Contents, Ring, Filled, Dist
<1>6. Filled - 1 \in Nat
  BY <1>2
<1>7. Contents' = Tail(Contents)
  BY <1>1, <1>3, <1>4, <1>5, <1>6, Places, ContentsSeq, Zenon DEF read_byte
<1>8. Contents # <<>>
  BY <1>2, ContentsSeq
<1> QED BY <1>2, <1>3, <1>7, <1>8, Sizes DEF F!Get, Fits

\* The pipe is a bounded queue of bytes (Fifo): with any number of readers and writers, and
\* however often the counters wrap (pipe.c:85, 95, 120), each step puts one byte behind the
\* others, takes the oldest, or leaves the queue alone.
THEOREM PipeIsFifo == Spec => IsFifo
<1>1. Init => Fits /\ F!Init
  <2> SUFFICES ASSUME Init PROVE Fits /\ Contents = <<>>
    BY DEF F!Init
  <2>1. TypeOK
    BY PipeInit DEF PipeInv
  <2>2. Filled = 0
    BY <2>1, Counters, Sizes DEF Init, Filled, TypeOK
  <2>3. Contents \in Seq(Bytes) /\ Len(Contents) = 0
    BY <2>1, <2>2, ContentsSeq
  <2>4. Contents = <<>>
    BY <2>3
  <2>5. Fits
    BY <2>2, Sizes DEF Fits
  <2> QED BY <2>4, <2>5
<1>2. TypeOK /\ Fits /\ [Next]_vars => Fits' /\ [F!Next]_Contents
  <2> SUFFICES ASSUME TypeOK, Fits, [Next]_vars
               PROVE  Fits' /\ [F!Next]_Contents
    OBVIOUS
  <2>1. CASE UNCHANGED <<data, nread, nwrite>>
    BY <2>1 DEF Filled, Dist, Contents, Fits
  <2>2. ASSUME NEW p \in Writers, write_byte(p)
        PROVE  Fits' /\ [F!Next]_Contents
    BY <2>2, WritePuts DEF F!Next, Bytes
  <2>3. ASSUME NEW p \in Readers, read_byte(p)
        PROVE  Fits' /\ [F!Next]_Contents
    BY <2>3, ReadGets DEF F!Next
  <2> QED
    BY <2>1, <2>2, <2>3, Zenon
    DEF Next, WriteStep, ReadStep, vars, pipevars, pipewrite, write_acquire, write_full,
        write_sleep, write_done, piperead, read_acquire, read_test, read_sleep, read_done,
        close_write, close_read, kill
<1>3. PipeInv => TypeOK
  BY DEF PipeInv
<1> QED BY <1>1, <1>2, <1>3, PipeInvariant, PTL DEF Spec, IsFifo, F!Spec
=============================================================================
