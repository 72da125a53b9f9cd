-------------------------------- MODULE Bio ---------------------------------
(***************************************************************************)
(* The buffer cache of kernel/bio.c: a fixed set of buffers on an LRU      *)
(* list, reference counts under bcache.lock, one sleep lock per buffer     *)
(* (kernel/sleeplock.c), and the pins the log puts on buffers.             *)
(*                                                                         *)
(* A critical section of bcache.lock or of a sleep lock's spin lock is one *)
(* step.  bget() drops bcache.lock before it takes the sleep lock, and     *)
(* brelse() drops the sleep lock before it takes bcache.lock; other        *)
(* processes run in between.                                               *)
(***************************************************************************)
EXTENDS Integers, Sequences, FiniteSets, Functions

CONSTANTS
  Procs, Bufs, Blocks, Vals, None,
  RefMod,      \* 2^32 in the code: refcnt is a uint
  MaxPinned,   \* most blocks the log pins at once (log.c:218)
  MaxOps       \* bound on the breads each process makes

ASSUME BioAssumption ==
  /\ IsFiniteSet(Procs) /\ IsFiniteSet(Bufs) /\ Bufs # {}
  /\ None \notin Procs \cup Bufs \cup Blocks \cup Vals
  /\ RefMod \in Nat /\ Cardinality(Procs) + 1 < RefMod
  /\ MaxPinned \in Nat /\ MaxOps \in Nat

VARIABLES
  block, valid, data, refcnt,  \* fields of struct buf
  locker,   \* holder of b->lock, or None
  lru,      \* the list from head.next (most recently used) to head.prev
  disk,
  pinned,   \* blocks with a reference held by the log
  pc, ref,  \* where a process is, and the buffer it got from bget
  ops, panicked,
  latest    \* history: the last contents given to each block

bufvars == <<block, valid, data, refcnt, locker, lru>>
vars == <<block, valid, data, refcnt, locker, lru, disk, pinned, pc, ref, ops,
          panicked, latest>>

RefInc(n) == (n + 1) % RefMod
RefDec(n) == (n + RefMod - 1) % RefMod

\* A process that holds its buffer's lock.
Using(p) == pc[p] \in {"locked", "have", "dirty"}

\* struct buf and struct bcache keep their types: the list from bcache.head always
\* holds each buffer exactly once, whatever order brelse() moves them in.
TypeOK ==
  /\ block \in [Bufs -> Blocks \cup {None}]
  /\ valid \in [Bufs -> BOOLEAN]
  /\ data \in [Bufs -> Vals]
  /\ refcnt \in [Bufs -> 0 .. RefMod - 1]
  /\ locker \in [Bufs -> Procs \cup {None}]
  /\ Len(lru) = Cardinality(Bufs) /\ Range(lru) = Bufs
  /\ disk \in [Blocks -> Vals]
  /\ pinned \subseteq Blocks
  /\ pc \in [Procs -> {"idle", "lock", "asleep", "locked", "have", "dirty", "rel"}]
  /\ ref \in [Procs -> Bufs \cup {None}]
  /\ ops \in [Procs -> 0 .. MaxOps]
  /\ panicked \in BOOLEAN
  /\ latest \in [Blocks -> Vals]

\* The cache after binit() and an initlog() that found the log empty; what recovery
\* does to the counts of the blocks it copies is in Log.tla.
Init ==
  /\ lru = CHOOSE f \in Bijection(1 .. Cardinality(Bufs), Bufs) : TRUE
  /\ block = [b \in Bufs |-> None]
  /\ refcnt = [b \in Bufs |-> 0]
  /\ valid = [b \in Bufs |-> FALSE]
  /\ \E v \in Vals : data = [b \in Bufs |-> v]
  /\ disk \in [Blocks -> Vals]
  /\ latest = disk
  /\ locker = [b \in Bufs |-> None]
  /\ pinned = {}
  /\ pc = [p \in Procs |-> "idle"]
  /\ ref = [p \in Procs |-> None]
  /\ ops = [p \in Procs |-> 0]
  /\ panicked = FALSE

-----------------------------------------------------------------------------
(***************************************************************************)
(* bget(), bio.c:55-89.  A hit is the first match from head.next; a miss   *)
(* takes the first buffer with refcnt 0 from head.prev.                    *)
(***************************************************************************)
MatchesInUse(n) == {k \in 1 .. Len(lru) : block[lru[k]] = n /\ refcnt[lru[k]] > 0}
Matches(n) == {k \in 1 .. Len(lru) : block[lru[k]] = n}

Recyclable == {k \in 1 .. Len(lru) : refcnt[lru[k]] = 0}

bget_hit(p, n) ==
  /\ Matches(n) # {}
  /\ LET b == lru[CHOOSE k \in Matches(n) : \A j \in Matches(n) : k <= j]
     IN  /\ refcnt' = [refcnt EXCEPT ![b] = RefInc(@)]
         /\ ref' = [ref EXCEPT ![p] = b]
  /\ pc' = [pc EXCEPT ![p] = "lock"]
  /\ UNCHANGED <<block, valid, panicked>>

bget_miss(p, n) ==
  /\ Matches(n) = {} /\ Recyclable # {}
  /\ LET b == lru[CHOOSE k \in Recyclable : \A j \in Recyclable : k >= j]
     IN  /\ block' = [block EXCEPT ![b] = n]
         /\ valid' = [valid EXCEPT ![b] = FALSE]
         /\ refcnt' = [refcnt EXCEPT ![b] = 1]
         /\ ref' = [ref EXCEPT ![p] = b]
  /\ pc' = [pc EXCEPT ![p] = "lock"]
  /\ UNCHANGED panicked

bget_panic(p, n) ==
  /\ Matches(n) = {} /\ Recyclable = {}
  /\ panicked' = TRUE
  /\ UNCHANGED <<block, valid, refcnt, ref, pc>>

bget(p, n) ==
  /\ ~panicked
  /\ pc[p] = "idle" /\ ops[p] < MaxOps
  /\ ops' = [ops EXCEPT ![p] = @ + 1]
  /\ bget_hit(p, n) \/ bget_miss(p, n) \/ bget_panic(p, n)
  /\ UNCHANGED <<data, locker, lru, disk, pinned, latest>>

(***************************************************************************)
(* acquiresleep() and releasesleep(), sleeplock.c:21-41.                   *)
(***************************************************************************)
Free(b) == locker[b] = None

acquiresleep(p) ==
  /\ ~panicked
  /\ pc[p] = "lock"
  /\ \/ /\ Free(ref[p])
        /\ locker' = [locker EXCEPT ![ref[p]] = p]
        /\ pc' = [pc EXCEPT ![p] = "locked"]
     \/ /\ ~Free(ref[p])
        /\ pc' = [pc EXCEPT ![p] = "asleep"]
        /\ UNCHANGED locker
  /\ UNCHANGED <<block, valid, data, refcnt, lru, disk, pinned, ref, ops, panicked, latest>>

StillAsleep(b) == pc

Woken(b) == [q \in Procs |-> IF pc[q] = "asleep" /\ ref[q] = b THEN "lock" ELSE pc[q]]

(***************************************************************************)
(* The rest of bread(), bio.c:91-103: read the block unless it is valid.   *)
(***************************************************************************)
bread_fill(p) ==
  /\ ~panicked
  /\ pc[p] = "locked"
  /\ LET b == ref[p]
     IN  /\ data' = [data EXCEPT ![b] = IF valid[b] THEN @ ELSE disk[block[b]]]
         /\ valid' = [valid EXCEPT ![b] = TRUE]
  /\ pc' = [pc EXCEPT ![p] = "have"]
  /\ UNCHANGED <<block, refcnt, locker, lru, disk, pinned, ref, ops, panicked, latest>>

\* The holder changes b->data.
modify(p, v) ==
  /\ ~panicked
  /\ pc[p] = "have"
  /\ data' = [data EXCEPT ![ref[p]] = v]
  /\ latest' = [latest EXCEPT ![block[ref[p]]] = v]
  /\ pc' = [pc EXCEPT ![p] = "dirty"]
  /\ UNCHANGED <<block, valid, refcnt, locker, lru, disk, pinned, ref, ops, panicked>>

\* bwrite(), bio.c:105-112.
bwrite(p) ==
  /\ ~panicked
  /\ pc[p] = "dirty"
  /\ disk' = [disk EXCEPT ![block[ref[p]]] = data[ref[p]]]
  /\ pc' = [pc EXCEPT ![p] = "have"]
  /\ UNCHANGED <<bufvars, pinned, ref, ops, panicked, latest>>

\* bpin(), bio.c:139-144, as log_write() calls it: once per logged block.
PinsNothing(r, new) == r
RefAfterPin(r, new) == IF new THEN RefInc(r) ELSE r

bpin(p) ==
  /\ ~panicked
  /\ pc[p] = "dirty"
  /\ block[ref[p]] \in pinned \/ Cardinality(pinned) < MaxPinned
  /\ LET n == block[ref[p]]
     IN  /\ refcnt' = [refcnt EXCEPT ![ref[p]] = RefAfterPin(@, n \notin pinned)]
         /\ pinned' = pinned \cup {n}
  /\ pc' = [pc EXCEPT ![p] = "have"]
  /\ UNCHANGED <<block, valid, data, locker, lru, disk, ref, ops, panicked, latest>>

\* install_trans() on a logged block: bwrite() and bunpin(), bio.c:146-151.
bunpin(p) ==
  /\ ~panicked
  /\ pc[p] = "have" /\ block[ref[p]] \in pinned
  /\ disk' = [disk EXCEPT ![block[ref[p]]] = data[ref[p]]]
  /\ refcnt' = [refcnt EXCEPT ![ref[p]] = RefDec(@)]
  /\ pinned' = pinned \ {block[ref[p]]}
  /\ UNCHANGED <<block, valid, data, locker, lru, pc, ref, ops, panicked, latest>>

(***************************************************************************)
(* brelse(), bio.c:114-137, in its two critical sections.                  *)
(***************************************************************************)
releasesleep(p) ==
  /\ ~panicked
  /\ pc[p] = "have"
  /\ locker' = [locker EXCEPT ![ref[p]] = None]
  /\ pc' = [Woken(ref[p]) EXCEPT ![p] = "rel"]
  /\ UNCHANGED <<block, valid, data, refcnt, lru, disk, pinned, ref, ops, panicked, latest>>

ToFront(b) ==
  LET i == CHOOSE k \in 1 .. Len(lru) : lru[k] = b
  IN  [k \in 1 .. Len(lru) |-> IF k = 1 THEN b ELSE IF k <= i THEN lru[k - 1] ELSE lru[k]]

brelse(p) ==
  /\ ~panicked
  /\ pc[p] = "rel"
  /\ LET b == ref[p]
     IN  /\ refcnt' = [refcnt EXCEPT ![b] = RefDec(@)]
         /\ lru' = IF refcnt'[b] = 0 THEN ToFront(b) ELSE lru
  /\ pc' = [pc EXCEPT ![p] = "idle"]
  /\ ref' = [ref EXCEPT ![p] = None]
  /\ UNCHANGED <<block, valid, data, locker, disk, pinned, ops, panicked, latest>>

Step(p) ==
  \/ acquiresleep(p) \/ bread_fill(p) \/ bwrite(p) \/ bpin(p) \/ bunpin(p)
  \/ releasesleep(p) \/ brelse(p)

Next ==
  \E p \in Procs :
    \/ \E n \in Blocks : bget(p, n)
    \/ \E v \in Vals : modify(p, v)
    \/ Step(p)

Spec == Init /\ [][Next]_vars

\* A process that has started a bread runs on and releases what it holds.
Fairness ==
  \A p \in Procs : WF_vars(Step(p)) /\ SF_vars(releasesleep(p))
FairSpec == Spec /\ Fairness

-----------------------------------------------------------------------------
\* bget scans the list before it recycles: no two buffers ever cache the same
\* block, so a block has one lock and one copy.  A reference count is the number
\* of processes between bget and the end of brelse plus the log's pin, whatever
\* order they run in.  And bget panics (bio.c:88) only when it must: every buffer is in
\* some process's hands or pinned by the log at that moment.
CacheSound ==
  /\ TypeOK
  /\ \A a, b \in Bufs : block[a] = block[b] /\ block[a] # None => a = b
  /\ \A b \in Bufs :
       refcnt[b] = Cardinality({p \in Procs : ref[p] = b})
                   + (IF block[b] \in pinned THEN 1 ELSE 0)
  /\ panicked => \A b \in Bufs : block[b] \in pinned \/ \E p \in Procs : ref[p] = b

\* Whoever has read a block sees the last contents any process gave it: no
\* recycling loses an update that was written or pinned before brelse.
ReadsLatest ==
  \A p \in Procs : pc[p] \in {"have", "dirty"} => data[ref[p]] = latest[block[ref[p]]]

\* Every process that waits for a buffer's lock gets the buffer: releasesleep's
\* wakeup is never lost.
BreadReturns == \A p \in Procs : pc[p] \in {"lock", "asleep"} ~> Using(p) \/ panicked
=============================================================================
