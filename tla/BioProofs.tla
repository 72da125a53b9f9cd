----------------------------- MODULE BioProofs ------------------------------
(***************************************************************************)
(* Proofs about Bio for every number of processes, buffers and blocks:     *)
(* one current copy per block, and exact reference counts.                 *)
(***************************************************************************)
EXTENDS Bio, RingLemmas, FiniteSetTheorems, TLAPS

(***************************************************************************)
(* The inductive invariant, in parts.                                      *)
(***************************************************************************)
\* The processes with a reference to b, and the log's.
Holders(b) == {p \in Procs : ref[p] = b}
Pin(b) == IF block[b] \in pinned THEN 1 ELSE 0

\* The fields of the buffers and the places of the processes; the list is in Listed.
Typed ==
  /\ block \in [Bufs -> Blocks \cup {None}]
  /\ valid \in [Bufs -> BOOLEAN]
  /\ data \in [Bufs -> Vals]
  /\ refcnt \in [Bufs -> 0 .. RefMod - 1]
  /\ locker \in [Bufs -> Procs \cup {None}]
  /\ disk \in [Blocks -> Vals]
  /\ pinned \subseteq Blocks
  /\ pc \in [Procs -> {"idle", "lock", "asleep", "locked", "have", "dirty", "rel"}]
  /\ ref \in [Procs -> Bufs \cup {None}]
  /\ ops \in [Procs -> 0 .. MaxOps]
  /\ panicked \in BOOLEAN
  /\ latest \in [Blocks -> Vals]

\* The list from bcache.head holds every buffer.
Listed ==
  /\ lru \in Seq(Bufs) /\ Len(lru) = Cardinality(Bufs)
  /\ \A b \in Bufs : \E k \in 1 .. Len(lru) : lru[k] = b

\* Who is between bget and brelse has a buffer, and the buffer a block.
Placed ==
  \A p \in Procs : /\ pc[p] = "idle" <=> ref[p] = None
                   /\ pc[p] # "idle" => block[ref[p]] \in Blocks

\* The three other parts of CacheSound: one buffer per block, exact counts, no panic in vain.
Unique == \A a, b \in Bufs : block[a] = block[b] /\ block[a] # None => a = b

Counted == \A b \in Bufs : refcnt[b] = Cardinality(Holders(b)) + Pin(b)

Forced == panicked => \A b \in Bufs : block[b] \in pinned \/ \E p \in Procs : ref[p] = b

\* A buffer's lock is held by who uses the buffer: one process at a time.
Locked == \A b \in Bufs, p \in Procs : locker[b] = p <=> Using(p) /\ ref[p] = b

\* What is cached is current; what is neither pinned nor in a holder's hands is on disk.
Cached == \A n \in pinned : \E b \in Bufs : block[b] = n /\ valid[b]

Current ==
  /\ \A b \in Bufs : valid[b] => block[b] \in Blocks /\ data[b] = latest[block[b]]
  /\ \A p \in Procs : pc[p] \in {"have", "dirty"} => valid[ref[p]]

OnDisk ==
  \A n \in Blocks : \/ disk[n] = latest[n] \/ n \in pinned
                    \/ \E p \in Procs : pc[p] = "dirty" /\ block[ref[p]] = n

BioInv ==
  /\ Typed /\ Listed /\ Placed /\ Unique /\ Counted /\ Forced
  /\ Locked /\ Cached /\ Current /\ OnDisk

-----------------------------------------------------------------------------
\* A nonempty set of positions has a first and a last: what bget's scans stop at.
LEMMA Ends ==
  ASSUME NEW N \in Nat, NEW S \in SUBSET (1 .. N), S # {}
  PROVE  (\E k \in S : \A j \in S : k <= j) /\ (\E k \in S : \A j \in S : k >= j)
<1> DEFINE Less == OpToRel(<, Nat)
<1>a. IsWellFoundedOn(Less, Nat)
  BY NatLessThanWellFounded, Zenon
<1>b. \A j, k \in Nat : j < k => <<j, k>> \in Less
  BY DEF OpToRel
<1> HIDE DEF Less
<1>1. ASSUME NEW T \in SUBSET Nat, T # {} PROVE \E k \in T : \A j \in T : k <= j
  <2>1. PICK k \in T : \A j \in T : ~(<<j, k>> \in Less)
    <3>1. T \subseteq Nat
      OBVIOUS
    <3> QED BY <1>a, <1>1, <3>1, WFMin, Zenon
  <2>2. ASSUME NEW j \in T PROVE k <= j
    <3>1. k \in Nat /\ j \in Nat
      BY <1>1
    <3>2. ~(j < k)
      BY <1>b, <2>1, <3>1, Zenon
    <3> QED BY <3>1, <3>2
  <2> QED BY <2>2
<1>2. \E k \in S : \A j \in S : k <= j
  BY <1>1
<1>3. \E k \in S : \A j \in S : k >= j
  <2> DEFINE T == {m \in 0 .. N : N - m \in S}
  <2>1. PICK i \in S : TRUE
    BY Zenon
  <2>2. i \in 1 .. N /\ N - i \in 0 .. N /\ N - (N - i) = i
    OBVIOUS
  <2>3. N - i \in T /\ T \in SUBSET Nat
    BY <2>2
  <2>4. PICK t \in T : \A u \in T : t <= u
    BY <1>1, <2>3, Zenon
  <2>5. ASSUME NEW j \in S PROVE N - t >= j
    <3>1. j \in 1 .. N /\ N - j \in 0 .. N /\ N - (N - j) = j
      OBVIOUS
    <3>2. N - j \in T
      BY <3>1
    <3>3. t <= N - j /\ t \in 0 .. N
      BY <2>4, <3>2
    <3> QED BY <3>1, <3>3
  <2> QED BY <2>5
<1> QED BY <1>2, <1>3, Zenon

\* The sets of holders are finite, and no larger than Procs.
LEMMA HolderCount ==
  ASSUME NEW S \in SUBSET Procs
  PROVE  /\ IsFiniteSet(S) /\ Cardinality(S) \in Nat
         /\ Cardinality(S) <= Cardinality(Procs) /\ Cardinality(Procs) \in Nat
         /\ Cardinality(S) = 0 <=> S = {}
BY BioAssumption, FS_Subset, FS_CardinalityType, FS_EmptySet

\* refcnt counts up and down without wrapping in its range.
LEMMA RefArith ==
  ASSUME NEW n \in 0 .. RefMod - 1
  PROVE  /\ n + 1 < RefMod => RefInc(n) = n + 1
         /\ n > 0 => RefDec(n) = n - 1
<1>1. RefMod \in Nat \ {0} /\ 1 \in 0 .. RefMod /\ RefMod - 1 \in 0 .. RefMod
  BY BioAssumption, FS_CardinalityType
<1>2. (n + 1) % RefMod = IF n + 1 < RefMod THEN n + 1 ELSE n + 1 - RefMod
  BY <1>1, RingPlus, Zenon
<1>3. (n + (RefMod - 1)) % RefMod
        = IF n + (RefMod - 1) < RefMod THEN n + (RefMod - 1) ELSE n + (RefMod - 1) - RefMod
  BY <1>1, RingPlus, Zenon
<1>4. n + RefMod - 1 = n + (RefMod - 1)
  BY <1>1
<1>5. n + 1 < RefMod => RefInc(n) = n + 1
  BY <1>2 DEF RefInc
<1>6. n > 0 => RefDec(n) = n - 1
  BY <1>1, <1>3, <1>4 DEF RefDec
<1> QED BY <1>5, <1>6

-----------------------------------------------------------------------------
\* binit (bio.c:35-53) puts every buffer on the list.
LEMMA ListInit ==
  lru = (CHOOSE f \in Bijection(1 .. Cardinality(Bufs), Bufs) : TRUE) => Listed
<1> DEFINE N == Cardinality(Bufs)
<1> SUFFICES ASSUME lru = CHOOSE f \in Bijection(1 .. N, Bufs) : TRUE PROVE Listed
  OBVIOUS
<1>1. N \in Nat /\ ExistsBijection(1 .. N, Bufs)
  BY BioAssumption, FS_CardinalityType
<1>2. lru \in Bijection(1 .. N, Bufs)
  BY <1>1 DEF ExistsBijection
<1>3. lru \in [1 .. N -> Bufs] /\ \A b \in Bufs : \E k \in 1 .. N : lru[k] = b
  BY <1>2, Zenon DEF Bijection, Surjection
<1> HIDE DEF N
<1>4. lru \in Seq(Bufs) /\ Len(lru) = N
  BY <1>1, <1>3
<1> QED BY <1>3, <1>4, Zenon DEF Listed, N

\* Moving a buffer to the front (bio.c:127-132) loses none.
LEMMA ListFront ==
  ASSUME Listed, NEW b \in Bufs
  PROVE  /\ ToFront(b) \in Seq(Bufs) /\ Len(ToFront(b)) = Cardinality(Bufs)
         /\ \A c \in Bufs : \E k \in 1 .. Len(lru) : ToFront(b)[k] = c
<1> DEFINE N == Len(lru)
           i == CHOOSE k \in 1 .. N : lru[k] = b
           f == [k \in 1 .. N |-> IF k = 1 THEN b ELSE IF k <= i THEN lru[k - 1] ELSE lru[k]]
<1>1. N \in Nat /\ N = Cardinality(Bufs) /\ lru \in [1 .. N -> Bufs]
  BY DEF Listed
<1>2. i \in 1 .. N /\ lru[i] = b
  BY DEF Listed
<1>3. f = ToFront(b)
  BY DEF ToFront
<1> HIDE DEF N, i
<1>4. f \in [1 .. N -> Bufs]
  BY <1>1, <1>2
<1>5. ASSUME NEW c \in Bufs PROVE \E k \in 1 .. N : f[k] = c
  <2>1. PICK j \in 1 .. N : lru[j] = c
    BY DEF Listed, N
  <2>2. CASE j = i
    <3>1. 1 \in 1 .. N /\ f[1] = b
      BY <1>1, <1>2
    <3> QED BY <1>2, <2>1, <2>2, <3>1
  <2>3. CASE j < i
    <3>1. j + 1 \in 1 .. N /\ j + 1 # 1 /\ j + 1 <= i /\ (j + 1) - 1 = j
      BY <1>1, <1>2, <2>3
    <3>2. f[j + 1] = lru[j]
      BY <3>1
    <3> QED BY <2>1, <3>1, <3>2
  <2>4. CASE j > i
    <3>1. j # 1 /\ ~(j <= i)
      BY <1>1, <1>2, <2>4
    <3>2. f[j] = lru[j]
      BY <3>1
    <3> QED BY <2>1, <3>2
  <2> QED BY <1>1, <1>2, <2>2, <2>3, <2>4
<1> HIDE DEF f
<1>6. f \in Seq(Bufs) /\ Len(f) = N
  BY <1>1, <1>4
<1> QED BY <1>1, <1>3, <1>5, <1>6 DEF N

\* What the scans of bget (bio.c:63-70, 75-84) find.
LEMMA Scans ==
  ASSUME Listed, NEW n
  PROVE  /\ Matches(n) = {} => \A b \in Bufs : block[b] # n
         /\ Recyclable = {} => \A b \in Bufs : refcnt[b] # 0
         /\ Matches(n) # {} =>
              LET k == CHOOSE k \in Matches(n) : \A j \in Matches(n) : k <= j
              IN  lru[k] \in Bufs /\ block[lru[k]] = n
         /\ Recyclable # {} =>
              LET k == CHOOSE k \in Recyclable : \A j \in Recyclable : k >= j
              IN  lru[k] \in Bufs /\ refcnt[lru[k]] = 0
<1>1. Len(lru) \in Nat /\ \A k \in 1 .. Len(lru) : lru[k] \in Bufs
  BY DEF Listed
<1>2. Matches(n) = {} => \A b \in Bufs : block[b] # n
  BY DEF Listed, Matches
<1>3. Recyclable = {} => \A b \in Bufs : refcnt[b] # 0
  BY DEF Listed, Recyclable
<1>4. Matches(n) \in SUBSET (1 .. Len(lru)) /\ Recyclable \in SUBSET (1 .. Len(lru))
  BY DEF Matches, Recyclable
<1>5. Matches(n) # {} => \E k \in Matches(n) : \A j \in Matches(n) : k <= j
  BY <1>1, <1>4, Ends, Zenon
<1>6. Recyclable # {} => \E k \in Recyclable : \A j \in Recyclable : k >= j
  BY <1>1, <1>4, Ends, Zenon
<1>7. ASSUME Matches(n) # {}
      PROVE  (CHOOSE k \in Matches(n) : \A j \in Matches(n) : k <= j) \in Matches(n)
  BY <1>5, <1>7
<1>8. ASSUME Recyclable # {}
      PROVE  (CHOOSE k \in Recyclable : \A j \in Recyclable : k >= j) \in Recyclable
  BY <1>6, <1>8
<1>9. /\ \A k \in Matches(n) : lru[k] \in Bufs /\ block[lru[k]] = n
      /\ \A k \in Recyclable : lru[k] \in Bufs /\ refcnt[lru[k]] = 0
  BY <1>1 DEF Matches, Recyclable
<1> QED BY <1>2, <1>3, <1>7, <1>8, <1>9

-----------------------------------------------------------------------------
\* How the number of holders changes when bget gives a process a buffer.
LEMMA HoldersGet ==
  ASSUME Typed, NEW p \in Procs, ref[p] = None, NEW c \in Bufs, ref' = [ref EXCEPT ![p] = c],
         NEW b \in Bufs
  PROVE  Cardinality(Holders(b)') = IF b = c THEN Cardinality(Holders(b)) + 1
                                    ELSE Cardinality(Holders(b))
<1>1. Holders(b)' = IF b = c THEN Holders(b) \cup {p} ELSE Holders(b)
  BY BioAssumption DEF Typed, Holders
<1>2. p \notin Holders(b) /\ IsFiniteSet(Holders(b))
  BY BioAssumption, HolderCount DEF Holders
<1> QED BY <1>1, <1>2, FS_AddElement, Zenon

\* The same for brelse.
LEMMA HoldersPut ==
  ASSUME Typed, NEW p \in Procs, ref' = [ref EXCEPT ![p] = None], NEW b \in Bufs
  PROVE  Cardinality(Holders(b)') = IF b = ref[p] THEN Cardinality(Holders(b)) - 1
                                    ELSE Cardinality(Holders(b))
<1>1. Holders(b)' = IF b = ref[p] THEN Holders(b) \ {p} ELSE Holders(b)
  BY BioAssumption DEF Typed, Holders
<1>2. b = ref[p] => p \in Holders(b)
  BY DEF Holders
<1>3. IsFiniteSet(Holders(b))
  BY HolderCount DEF Holders
<1> QED BY <1>1, <1>2, <1>3, FS_RemoveElement, Zenon

\* What a process between bget and brelse may rely on.
LEMMA Held ==
  ASSUME BioInv, NEW p \in Procs, pc[p] # "idle"
  PROVE  /\ ref[p] \in Bufs /\ ref[p] # None /\ block[ref[p]] \in Blocks /\ block[ref[p]] # None
         /\ refcnt[ref[p]] > 0
<1>1. ref[p] \in Bufs /\ ref[p] # None /\ block[ref[p]] \in Blocks /\ block[ref[p]] # None
  BY BioAssumption DEF BioInv, Typed, Placed
<1>2. p \in Holders(ref[p]) /\ Holders(ref[p]) \in SUBSET Procs
  BY DEF Holders
<1>3. Cardinality(Holders(ref[p])) \in Nat /\ Cardinality(Holders(ref[p])) # 0
  BY <1>2, HolderCount
<1>4. refcnt[ref[p]] = Cardinality(Holders(ref[p])) + Pin(ref[p]) /\ Pin(ref[p]) \in {0, 1}
  BY <1>1 DEF BioInv, Counted, Pin
<1> QED BY <1>1, <1>3, <1>4

\* A reference count has room for one more reference of a process or of the log.
LEMMA Room ==
  ASSUME BioInv, NEW b \in Bufs
  PROVE  /\ Cardinality(Holders(b)) \in Nat /\ Cardinality(Holders(b)) + 1 < RefMod
         /\ \A p \in Procs : ref[p] # b => Cardinality(Holders(b)) + 2 < RefMod
         /\ refcnt[b] = 0 => block[b] \notin pinned /\ \A p \in Procs : ref[p] # b
<1>1. /\ Cardinality(Holders(b)) \in Nat /\ Cardinality(Procs) \in Nat
      /\ Cardinality(Holders(b)) <= Cardinality(Procs)
      /\ Cardinality(Holders(b)) = 0 <=> Holders(b) = {}
  BY HolderCount DEF Holders
<1>2. ASSUME NEW p \in Procs, ref[p] # b PROVE Cardinality(Holders(b)) < Cardinality(Procs)
  <2>1. Holders(b) \in SUBSET Procs /\ Holders(b) # Procs
    BY <1>2 DEF Holders
  <2> QED BY <1>1, <2>1, BioAssumption, FS_Subset
<1>3. refcnt[b] = 0 => block[b] \notin pinned /\ \A p \in Procs : ref[p] # b
  <2>1. refcnt[b] = Cardinality(Holders(b)) + Pin(b) /\ Pin(b) \in {0, 1}
    BY DEF BioInv, Counted, Pin
  <2>2. refcnt[b] = 0 => Holders(b) = {} /\ Pin(b) = 0
    BY <1>1, <2>1
  <2> QED BY <2>2 DEF Holders, Pin
<1> QED BY <1>1, <1>2, <1>3, BioAssumption

-----------------------------------------------------------------------------
\* The cache that binit leaves satisfies the invariant.
LEMMA BioInit == Init => BioInv
<1> SUFFICES ASSUME Init PROVE BioInv
  OBVIOUS
<1>1. Listed
  BY ListInit DEF Init
<1>2. Typed
  <2>1. RefMod > 0 /\ RefMod \in Nat /\ MaxOps \in Nat
    BY BioAssumption, HolderCount
  <2>2. data \in [Bufs -> Vals]
    BY DEF Init
  <2>3. valid \in [Bufs -> BOOLEAN] /\ panicked \in BOOLEAN
    BY Zenon DEF Init
  <2>4. 0 \in 0 .. RefMod - 1 /\ 0 \in 0 .. MaxOps
    BY <2>1
  <2>5. refcnt \in [Bufs -> 0 .. RefMod - 1] /\ ops \in [Procs -> 0 .. MaxOps]
    BY <2>4 DEF Init
  <2> QED BY <2>2, <2>3, <2>5 DEF Init, Typed
<1>3. Placed /\ Unique /\ Forced
  BY DEF Init, Placed, Unique, Forced
<1>4. Counted
  <2> SUFFICES ASSUME NEW b \in Bufs PROVE refcnt[b] = Cardinality(Holders(b)) + Pin(b)
    BY DEF Counted
  <2>1. Holders(b) = {}
    BY BioAssumption DEF Init, Holders
  <2>2. refcnt[b] = 0 /\ Pin(b) = 0
    BY DEF Init, Pin
  <2> QED BY <2>1, <2>2, FS_EmptySet
<1>5. Locked
  BY BioAssumption DEF Init, Locked, Using
<1>6. Cached /\ Current /\ OnDisk
  BY DEF Init, Cached, Current, OnDisk
<1> QED BY <1>1, <1>2, <1>3, <1>4, <1>5, <1>6 DEF BioInv

\* bget of a block that some buffer caches.
LEMMA HitStep ==
  ASSUME BioInv, NEW p \in Procs, NEW n \in Blocks, bget(p, n), bget_hit(p, n)
  PROVE  BioInv'
<1> DEFINE b == lru[CHOOSE k \in Matches(n) : \A j \in Matches(n) : k <= j]
<1>0. Typed /\ Listed /\ Placed /\ Unique /\ Counted /\ Locked /\ Cached /\ Current /\ OnDisk
  BY DEF BioInv
<1>1. b \in Bufs /\ block[b] = n
  BY <1>0, Scans, Zenon DEF bget_hit
<1>2. /\ refcnt' = [refcnt EXCEPT ![b] = RefInc(refcnt[b])] /\ ref' = [ref EXCEPT ![p] = b]
      /\ pc' = [pc EXCEPT ![p] = "lock"] /\ ops' = [ops EXCEPT ![p] = ops[p] + 1]
      /\ UNCHANGED <<block, valid, panicked, data, locker, lru, disk, pinned, latest>>
      /\ pc[p] = "idle" /\ ops[p] < MaxOps /\ ~panicked
  BY DEF bget, bget_hit
<1> HIDE DEF b
<1>3. ref[p] = None /\ ref[p] # b
  BY <1>0, <1>1, <1>2, BioAssumption DEF Placed
<1>4. RefInc(refcnt[b]) = refcnt[b] + 1 /\ refcnt[b] + 1 \in 0 .. RefMod - 1
  <2>1. refcnt[b] = Cardinality(Holders(b)) + Pin(b) /\ Pin(b) \in {0, 1}
    BY <1>0, <1>1 DEF Counted, Pin
  <2>2. Cardinality(Holders(b)) \in Nat /\ Cardinality(Holders(b)) + 2 < RefMod
    BY <1>1, <1>3, Room
  <2>3. refcnt[b] \in 0 .. RefMod - 1 /\ RefMod \in Nat
    BY <1>0, <1>1, BioAssumption DEF Typed
  <2>4. refcnt[b] + 1 < RefMod
    BY <2>1, <2>2, <2>3
  <2>5. RefInc(refcnt[b]) = refcnt[b] + 1
    BY <2>3, <2>4, RefArith
  <2> QED BY <2>3, <2>4, <2>5
<1>5. Typed'
  <2>1. ops' \in [Procs -> 0 .. MaxOps]
    BY <1>0, <1>2, BioAssumption DEF Typed
  <2>2. refcnt' \in [Bufs -> 0 .. RefMod - 1]
    BY <1>0, <1>2, <1>4, Zenon DEF Typed
  <2>3. ref' \in [Procs -> Bufs \cup {None}]
    BY <1>0, <1>1, <1>2 DEF Typed
  <2> QED BY <1>0, <1>2, <2>1, <2>2, <2>3, ZenonT(40) DEF Typed
<1>6. Listed' /\ Unique' /\ Forced'
  BY <1>0, <1>2, ZenonT(40) DEF Listed, Unique, Forced
<1>7. Placed'
  BY <1>0, <1>1, <1>2, BioAssumption DEF Placed, Typed
<1>8. Counted'
  <2> SUFFICES ASSUME NEW c \in Bufs PROVE (refcnt[c] = Cardinality(Holders(c)) + Pin(c))'
    BY DEF Counted
  <2>1. refcnt[c] = Cardinality(Holders(c)) + Pin(c) /\ Pin(c) \in {0, 1} /\ Pin(c)' = Pin(c)
    BY <1>0, <1>2 DEF Counted, Pin
  <2>2. Cardinality(Holders(c)') = IF c = b THEN Cardinality(Holders(c)) + 1
                                   ELSE Cardinality(Holders(c))
    BY <1>0, <1>1, <1>2, <1>3, HoldersGet, Zenon
  <2>3. Cardinality(Holders(c)) \in Nat
    BY Room
  <2>4. refcnt'[c] = IF c = b THEN refcnt[c] + 1 ELSE refcnt[c]
    BY <1>0, <1>1, <1>2, <1>4 DEF Typed
  <2> QED BY <2>1, <2>2, <2>3, <2>4
<1>9. Locked'
  BY <1>0, <1>2 DEF Typed, Locked, Using
<1>10. Cached' /\ Current' /\ OnDisk'
  BY <1>0, <1>2 DEF Typed, Cached, Current, OnDisk
<1> QED BY <1>5, <1>6, <1>7, <1>8, <1>9, <1>10 DEF BioInv

\* bget of a block that no buffer caches: the buffer it recycles has no reference.
LEMMA MissStep ==
  ASSUME BioInv, NEW p \in Procs, NEW n \in Blocks, bget(p, n), bget_miss(p, n)
  PROVE  BioInv'
<1> DEFINE b == lru[CHOOSE k \in Recyclable : \A j \in Recyclable : k >= j]
<1>0. Typed /\ Listed /\ Placed /\ Unique /\ Counted /\ Locked /\ Cached /\ Current /\ OnDisk
  BY DEF BioInv
<1>1. b \in Bufs /\ refcnt[b] = 0 /\ \A c \in Bufs : block[c] # n
  BY <1>0, Scans, ZenonT(40) DEF bget_miss
<1>2. /\ block' = [block EXCEPT ![b] = n] /\ valid' = [valid EXCEPT ![b] = FALSE]
      /\ refcnt' = [refcnt EXCEPT ![b] = 1] /\ ref' = [ref EXCEPT ![p] = b]
      /\ pc' = [pc EXCEPT ![p] = "lock"] /\ ops' = [ops EXCEPT ![p] = ops[p] + 1]
      /\ UNCHANGED <<panicked, data, locker, lru, disk, pinned, latest>>
      /\ pc[p] = "idle" /\ ops[p] < MaxOps /\ ~panicked
  BY DEF bget, bget_miss
<1> HIDE DEF b
<1>3. ref[p] = None /\ ref[p] # b /\ n # None
  BY <1>0, <1>1, <1>2, BioAssumption DEF Placed
<1>4. block[b] \notin pinned /\ n \notin pinned /\ \A q \in Procs : ref[q] # b
  BY <1>0, <1>1, Room DEF Cached
<1>5. Typed'
  <2>1. ops' \in [Procs -> 0 .. MaxOps]
    BY <1>0, <1>2, BioAssumption DEF Typed
  <2>2. refcnt' \in [Bufs -> 0 .. RefMod - 1]
    <3>1. 1 \in 0 .. RefMod - 1
      BY BioAssumption, HolderCount
    <3> QED BY <1>0, <1>2, <3>1, Zenon DEF Typed
  <2>3. ref' \in [Procs -> Bufs \cup {None}]
    BY <1>0, <1>1, <1>2 DEF Typed
  <2>4. valid' \in [Bufs -> BOOLEAN]
    BY <1>0, <1>2, Zenon DEF Typed
  <2> QED BY <1>0, <1>2, <2>1, <2>2, <2>3, <2>4 DEF Typed
<1>6. Listed' /\ Forced'
  BY <1>0, <1>2 DEF Listed, Forced
<1>7. Unique'
  BY <1>0, <1>1, <1>2 DEF Unique, Typed
<1>8. Placed'
  BY <1>0, <1>1, <1>2, <1>4, BioAssumption DEF Placed, Typed
<1>9. Counted'
  <2> SUFFICES ASSUME NEW c \in Bufs PROVE (refcnt[c] = Cardinality(Holders(c)) + Pin(c))'
    BY DEF Counted
  <2>1. refcnt[c] = Cardinality(Holders(c)) + Pin(c) /\ Pin(c) \in {0, 1}
    BY <1>0 DEF Counted, Pin
  <2>2. Cardinality(Holders(c)') = IF c = b THEN Cardinality(Holders(c)) + 1
                                   ELSE Cardinality(Holders(c))
    BY <1>0, <1>1, <1>2, <1>3, HoldersGet, ZenonT(40)
  <2>3. Cardinality(Holders(c)) \in Nat
    BY Room
  <2>4. refcnt'[c] = IF c = b THEN 1 ELSE refcnt[c]
    BY <1>0, <1>1, <1>2 DEF Typed
  <2>5. Pin(c)' = Pin(c)
    BY <1>0, <1>1, <1>2, <1>4 DEF Pin, Typed
  <2>6. c = b => refcnt[c] = 0
    BY <1>1
  <2> QED BY <2>1, <2>2, <2>3, <2>4, <2>5, <2>6
<1>10. Locked'
  BY <1>0, <1>2, <1>4 DEF Typed, Locked, Using
<1>11. Cached'
  BY <1>0, <1>1, <1>2, <1>4 DEF Typed, Cached
<1>12. Current'
  BY <1>0, <1>1, <1>2, <1>4 DEF Typed, Current
<1>13. OnDisk'
  BY <1>0, <1>1, <1>2, <1>4 DEF Typed, OnDisk
<1> QED BY <1>5, <1>6, <1>7, <1>8, <1>9, <1>10, <1>11, <1>12, <1>13 DEF BioInv

\* bget without a buffer to recycle panics, and every buffer has a reference.
LEMMA PanicStep ==
  ASSUME BioInv, NEW p \in Procs, NEW n \in Blocks, bget(p, n), bget_panic(p, n)
  PROVE  BioInv'
<1>0. Typed /\ Listed /\ Placed /\ Unique /\ Counted /\ Locked /\ Cached /\ Current /\ OnDisk
  BY DEF BioInv
<1>1. /\ panicked' = TRUE /\ ops' = [ops EXCEPT ![p] = ops[p] + 1] /\ ops[p] < MaxOps
      /\ UNCHANGED <<bufvars, disk, pinned, pc, ref, latest>>
  BY DEF bget, bget_panic, bufvars
<1>2. ASSUME NEW b \in Bufs PROVE block[b] \in pinned \/ \E q \in Procs : ref[q] = b
  <2>1. refcnt[b] # 0
    BY <1>0, Scans DEF bget_panic
  <2>2. refcnt[b] = Cardinality(Holders(b)) + Pin(b)
    BY <1>0 DEF Counted
  <2>3. block[b] \notin pinned => Cardinality(Holders(b)) # 0
    BY <2>1, <2>2 DEF Pin
  <2>4. Holders(b) \in SUBSET Procs /\ (Holders(b) # {} => \E q \in Procs : ref[q] = b)
    BY DEF Holders
  <2> QED BY <2>3, <2>4, HolderCount, Zenon
<1>3. Typed'
  <2>1. ops' \in [Procs -> 0 .. MaxOps]
    BY <1>0, <1>1, BioAssumption DEF Typed
  <2> QED BY <1>0, <1>1, <2>1 DEF Typed, bufvars
<1>4. Forced'
  BY <1>1, <1>2 DEF Forced, bufvars
<1>5. Listed' /\ Placed' /\ Unique'
  BY <1>0, <1>1 DEF bufvars, Listed, Placed, Unique
<1>6. Counted'
  BY <1>0, <1>1 DEF bufvars, Counted, Holders, Pin
<1>7. Locked' /\ Cached'
  BY <1>0, <1>1 DEF bufvars, Locked, Using, Cached
<1>8. Current' /\ OnDisk'
  BY <1>0, <1>1 DEF bufvars, Current, OnDisk
<1> QED BY <1>3, <1>4, <1>5, <1>6, <1>7, <1>8 DEF BioInv

\* The sleep lock is taken when it is free.
LEMMA AcquireStep ==
  ASSUME BioInv, NEW p \in Procs, acquiresleep(p)
  PROVE  BioInv'
<1>0. Typed /\ Listed /\ Placed /\ Unique /\ Counted /\ Locked /\ Cached /\ Current /\ OnDisk
  BY DEF BioInv
<1>1. /\ pc[p] = "lock" /\ ~panicked
      /\ UNCHANGED <<block, valid, data, refcnt, lru, disk, pinned, ref, ops, panicked, latest>>
  BY DEF acquiresleep
<1>2. ref[p] \in Bufs
  BY <1>1, Held
<1>3. pc' = [pc EXCEPT ![p] = "locked"] \/ pc' = [pc EXCEPT ![p] = "asleep"]
  BY DEF acquiresleep
<1>4. Typed'
  BY <1>0, <1>1, <1>2 DEF Typed, acquiresleep
<1>5. Placed' /\ Listed' /\ Unique' /\ Forced' /\ Cached'
  BY <1>0, <1>1, <1>3 DEF Typed, Placed, Listed, Unique, Forced, Cached
<1>6. Counted'
  BY <1>0, <1>1 DEF Counted, Holders, Pin
<1>7. Current' /\ OnDisk'
  BY <1>0, <1>1, <1>3 DEF Typed, Current, OnDisk
<1>8. Locked'
  BY <1>0, <1>1, <1>2, BioAssumption DEF Typed, Locked, Using, acquiresleep, Free
<1> QED BY <1>4, <1>5, <1>6, <1>7, <1>8 DEF BioInv

\* bread reads a block that is not valid: its latest contents are on disk.
LEMMA FillStep ==
  ASSUME BioInv, NEW p \in Procs, bread_fill(p)
  PROVE  BioInv'
<1>0. Typed /\ Listed /\ Placed /\ Unique /\ Counted /\ Locked /\ Cached /\ Current /\ OnDisk
  BY DEF BioInv
<1> DEFINE b == ref[p]
           v == IF valid[b] THEN data[b] ELSE disk[block[b]]
<1>1. /\ pc[p] = "locked" /\ pc' = [pc EXCEPT ![p] = "have"]
      /\ data' = [data EXCEPT ![b] = v] /\ valid' = [valid EXCEPT ![b] = TRUE]
      /\ UNCHANGED <<block, refcnt, locker, lru, disk, pinned, ref, ops, panicked, latest>>
  BY DEF bread_fill
<1>2. b \in Bufs /\ block[b] \in Blocks /\ block[b] # None
  BY <1>1, Held
<1>3. v = latest[block[b]]
  <2>1. CASE valid[b]
    BY <1>0, <1>2, <2>1 DEF Current
  <2>2. CASE ~valid[b]
    <3>1. block[b] \notin pinned
      BY <1>0, <1>2, <2>2 DEF Cached, Unique
    <3>2. ASSUME NEW q \in Procs, pc[q] = "dirty" PROVE block[ref[q]] # block[b]
      <4>1. ref[q] \in Bufs /\ valid[ref[q]]
        BY <1>0, <3>2, Held DEF Current
      <4> QED BY <1>0, <1>2, <2>2, <4>1 DEF Unique
    <3> QED BY <1>0, <1>2, <2>2, <3>1, <3>2 DEF OnDisk
  <2> QED BY <2>1, <2>2
<1>4. Typed'
  <2>1. valid' \in [Bufs -> BOOLEAN]
    BY <1>0, <1>1, Zenon DEF Typed
  <2>2. data' \in [Bufs -> Vals]
    BY <1>0, <1>1, <1>2, <1>3, ZenonT(40) DEF Typed
  <2> QED BY <1>0, <1>1, <2>1, <2>2 DEF Typed
<1> HIDE DEF v
<1>5. Placed' /\ Listed' /\ Unique' /\ Forced'
  BY <1>0, <1>1 DEF BioInv, Typed, Placed, Listed, Unique, Forced
<1>6. Counted'
  BY <1>0, <1>1 DEF Counted, Holders, Pin
<1>7. Locked'
  BY <1>0, <1>1 DEF Typed, Locked, Using
<1>8. Cached'
  BY <1>0, <1>1, <1>2 DEF Typed, Cached
<1>9. Current'
  BY <1>0, <1>1, <1>2, <1>3 DEF Typed, Current
<1>10. OnDisk'
  BY <1>0, <1>1 DEF Typed, OnDisk
<1> QED BY <1>4, <1>5, <1>6, <1>7, <1>8, <1>9, <1>10 DEF BioInv

\* The holder of the lock changes the only copy.
LEMMA ModifyStep ==
  ASSUME BioInv, NEW p \in Procs, NEW v \in Vals, modify(p, v)
  PROVE  BioInv'
<1>0. Typed /\ Listed /\ Placed /\ Unique /\ Counted /\ Locked /\ Cached /\ Current /\ OnDisk
  BY DEF BioInv
<1> DEFINE b == ref[p]
<1>1. /\ pc[p] = "have" /\ pc' = [pc EXCEPT ![p] = "dirty"]
      /\ data' = [data EXCEPT ![b] = v] /\ latest' = [latest EXCEPT ![block[b]] = v]
      /\ UNCHANGED <<block, valid, refcnt, locker, lru, disk, pinned, ref, ops, panicked>>
  BY DEF modify
<1>2. b \in Bufs /\ block[b] \in Blocks /\ block[b] # None
  BY <1>1, Held
<1>3. Typed'
  BY <1>0, <1>1, <1>2, Zenon DEF Typed
<1>4. Placed' /\ Listed' /\ Unique' /\ Forced' /\ Cached'
  BY <1>0, <1>1, ZenonT(40) DEF BioInv, Typed, Placed, Listed, Unique, Forced, Cached
<1>5. Counted'
  BY <1>0, <1>1 DEF Counted, Holders, Pin
<1>6. Locked'
  BY <1>0, <1>1 DEF Typed, Locked, Using
<1>7. Current'
  <2>1. ASSUME NEW c \in Bufs, valid'[c] PROVE block'[c] \in Blocks /\ data'[c] = latest'[block'[c]]
    <3>1. valid[c] /\ block'[c] = block[c] /\ block[c] \in Blocks /\ data[c] = latest[block[c]]
      BY <1>0, <1>1, <2>1 DEF Current
    <3>2. CASE c = b
      BY <1>0, <1>1, <1>2, <3>1, <3>2, ZenonT(40) DEF Typed
    <3>3. CASE c # b
      <4>1. block[c] # block[b]
        BY <1>0, <1>2, <3>3 DEF Unique
      <4> QED BY <1>0, <1>1, <1>2, <3>1, <3>3, <4>1 DEF Typed
    <3> QED BY <3>2, <3>3, Zenon
  <2>2. ASSUME NEW q \in Procs, pc'[q] \in {"have", "dirty"} PROVE valid'[ref'[q]]
    BY <1>0, <1>1, <2>2, Zenon DEF Typed, Current
  <2> QED BY <2>1, <2>2, Zenon DEF Current
<1>8. OnDisk'
  <2> SUFFICES ASSUME NEW n \in Blocks
               PROVE  \/ disk'[n] = latest'[n] \/ n \in pinned'
                      \/ \E q \in Procs : pc'[q] = "dirty" /\ block'[ref'[q]] = n
    BY DEF OnDisk
  <2>1. CASE n = block[b]
    BY <1>0, <1>1, <2>1, Zenon DEF Typed
  <2>2. CASE n # block[b]
    BY <1>0, <1>1, <1>2, <2>2 DEF Typed, OnDisk
  <2> QED BY <2>1, <2>2, Zenon
<1> QED BY <1>3, <1>4, <1>5, <1>6, <1>7, <1>8 DEF BioInv

\* bwrite puts the block on disk.
LEMMA WriteStep ==
  ASSUME BioInv, NEW p \in Procs, bwrite(p)
  PROVE  BioInv'
<1>0. Typed /\ Listed /\ Placed /\ Unique /\ Counted /\ Locked /\ Cached /\ Current /\ OnDisk
  BY DEF BioInv
<1> DEFINE b == ref[p]
<1>1. /\ pc[p] = "dirty" /\ pc' = [pc EXCEPT ![p] = "have"]
      /\ disk' = [disk EXCEPT ![block[b]] = data[b]]
      /\ UNCHANGED <<block, valid, data, refcnt, locker, lru, pinned, ref, ops, panicked, latest>>
  BY DEF bwrite, bufvars
<1>2. b \in Bufs /\ block[b] \in Blocks /\ data[b] = latest[block[b]]
  BY <1>0, <1>1, Held, Zenon DEF Current
<1>3. Typed'
  BY <1>0, <1>1, <1>2, ZenonT(40) DEF Typed
<1>4. Placed' /\ Listed' /\ Unique' /\ Forced' /\ Cached'
  BY <1>0, <1>1 DEF BioInv, Typed, Placed, Listed, Unique, Forced, Cached
<1>5. Counted'
  BY <1>0, <1>1 DEF Counted, Holders, Pin
<1>6. Locked'
  BY <1>0, <1>1 DEF Typed, Locked, Using
<1>7. Current'
  BY <1>0, <1>1 DEF Typed, Current
<1>8. OnDisk'
  BY <1>0, <1>1, <1>2 DEF Typed, OnDisk
<1> QED BY <1>3, <1>4, <1>5, <1>6, <1>7, <1>8 DEF BioInv

\* bpin adds one reference for a block that the log did not have.
LEMMA PinStep ==
  ASSUME BioInv, NEW p \in Procs, bpin(p)
  PROVE  BioInv'
<1>0. Typed /\ Listed /\ Placed /\ Unique /\ Counted /\ Locked /\ Cached /\ Current /\ OnDisk
  BY DEF BioInv
<1> DEFINE b == ref[p]
<1>1. /\ pc[p] = "dirty" /\ pc' = [pc EXCEPT ![p] = "have"]
      /\ refcnt' = [refcnt EXCEPT ![b] = RefAfterPin(refcnt[b], block[b] \notin pinned)]
      /\ pinned' = pinned \cup {block[b]}
      /\ UNCHANGED <<block, valid, data, locker, lru, disk, ref, ops, panicked, latest>>
      /\ ~panicked
  BY Zenon DEF bpin
<1>2. b \in Bufs /\ block[b] \in Blocks /\ block[b] # None /\ valid[b]
  BY <1>0, <1>1, Held, ZenonT(40) DEF Current
<1>3. /\ RefAfterPin(refcnt[b], block[b] \notin pinned) = Cardinality(Holders(b)) + 1
      /\ Cardinality(Holders(b)) + 1 \in 0 .. RefMod - 1
  <2>1. refcnt[b] = Cardinality(Holders(b)) + Pin(b) /\ refcnt[b] \in 0 .. RefMod - 1
    BY <1>0, <1>2, Zenon DEF Counted, Typed
  <2>2. Cardinality(Holders(b)) \in Nat /\ Cardinality(Holders(b)) + 1 < RefMod /\ RefMod \in Nat
    BY <1>2, Room, BioAssumption, ZenonT(40)
  <2>3. CASE block[b] \in pinned
    BY <2>1, <2>2, <2>3, ZenonT(40) DEF Pin, RefAfterPin
  <2>4. CASE block[b] \notin pinned
    <3>1. refcnt[b] = Cardinality(Holders(b))
      BY <2>1, <2>2, <2>4 DEF Pin
    <3>2. RefInc(refcnt[b]) = refcnt[b] + 1
      BY <2>1, <2>2, <3>1, RefArith, ZenonT(40)
    <3> QED BY <2>2, <2>4, <3>1, <3>2 DEF RefAfterPin
  <2> QED BY <2>3, <2>4
<1>4. Typed'
  <2>1. refcnt' \in [Bufs -> 0 .. RefMod - 1]
    BY <1>0, <1>1, <1>3, Zenon DEF Typed
  <2> QED BY <1>0, <1>1, <1>2, <2>1, ZenonT(40) DEF Typed
<1>5. Placed' /\ Listed' /\ Unique' /\ Forced'
  BY <1>0, <1>1, Zenon DEF Typed, Placed, Listed, Unique, Forced
<1>6. Counted'
  <2> SUFFICES ASSUME NEW c \in Bufs PROVE (refcnt[c] = Cardinality(Holders(c)) + Pin(c))'
    BY DEF Counted
  <2>1. Holders(c)' = Holders(c) /\ refcnt[c] = Cardinality(Holders(c)) + Pin(c)
    BY <1>0, <1>1 DEF Counted, Holders
  <2>2. CASE c = b
    <3>1. Pin(c)' = 1
      BY <1>1, <2>2 DEF Pin
    <3>2. refcnt'[c] = Cardinality(Holders(c)) + 1
      BY <1>0, <1>1, <1>2, <1>3, <2>2, ZenonT(40) DEF Typed
    <3> QED BY <2>1, <3>1, <3>2, ZenonT(40)
  <2>3. CASE c # b
    <3>1. block[c] # block[b]
      BY <1>0, <1>2, <2>3 DEF Unique
    <3>2. Pin(c)' = Pin(c)
      BY <1>1, <3>1 DEF Pin
    <3>3. refcnt'[c] = refcnt[c]
      BY <1>0, <1>1, <2>3 DEF Typed
    <3> QED BY <2>1, <3>2, <3>3
  <2> QED BY <2>2, <2>3, Zenon
<1>7. Locked'
  BY <1>0, <1>1 DEF Typed, Locked, Using
<1>8. Cached'
  BY <1>0, <1>1, <1>2 DEF Cached
<1>9. Current'
  BY <1>0, <1>1 DEF Typed, Current
<1>10. OnDisk'
  BY <1>0, <1>1 DEF Typed, OnDisk
<1> QED BY <1>4, <1>5, <1>6, <1>7, <1>8, <1>9, <1>10 DEF BioInv

\* install_trans writes the block home and drops the log's reference.
LEMMA UnpinStep ==
  ASSUME BioInv, NEW p \in Procs, bunpin(p)
  PROVE  BioInv'
<1>0. Typed /\ Listed /\ Placed /\ Unique /\ Counted /\ Locked /\ Cached /\ Current /\ OnDisk
  BY DEF BioInv
<1> DEFINE b == ref[p]
<1>1. /\ pc[p] = "have" /\ block[b] \in pinned
      /\ disk' = [disk EXCEPT ![block[b]] = data[b]]
      /\ refcnt' = [refcnt EXCEPT ![b] = RefDec(refcnt[b])]
      /\ pinned' = pinned \ {block[b]}
      /\ UNCHANGED <<block, valid, data, locker, lru, pc, ref, ops, panicked, latest>>
      /\ ~panicked
  BY DEF bunpin
<1>2. b \in Bufs /\ block[b] \in Blocks /\ block[b] # None /\ data[b] = latest[block[b]]
  BY <1>0, <1>1, Held, Zenon DEF Current
<1>3. /\ RefDec(refcnt[b]) = Cardinality(Holders(b))
      /\ Cardinality(Holders(b)) \in 0 .. RefMod - 1
  <2>1. refcnt[b] = Cardinality(Holders(b)) + 1 /\ refcnt[b] \in 0 .. RefMod - 1
    BY <1>0, <1>1, <1>2, ZenonT(40) DEF Counted, Typed, Pin
  <2>2. Cardinality(Holders(b)) \in Nat /\ Cardinality(Holders(b)) + 1 < RefMod /\ RefMod \in Nat
    BY <1>2, Room, BioAssumption
  <2>3. refcnt[b] > 0
    BY <2>1, <2>2
  <2>4. RefDec(refcnt[b]) = refcnt[b] - 1
    BY <2>1, <2>3, RefArith, Zenon
  <2> QED BY <2>1, <2>2, <2>4
<1>4. Typed'
  <2>1. refcnt' \in [Bufs -> 0 .. RefMod - 1]
    BY <1>0, <1>1, <1>3, Zenon DEF Typed
  <2> QED BY <1>0, <1>1, <1>2, <2>1, ZenonT(40) DEF Typed
<1>5. Placed' /\ Listed' /\ Unique' /\ Forced'
  BY <1>0, <1>1, ZenonT(40) DEF Typed, Placed, Listed, Unique, Forced
<1>6. Counted'
  <2> SUFFICES ASSUME NEW c \in Bufs PROVE (refcnt[c] = Cardinality(Holders(c)) + Pin(c))'
    BY DEF Counted
  <2>1. Holders(c)' = Holders(c) /\ refcnt[c] = Cardinality(Holders(c)) + Pin(c)
    BY <1>0, <1>1, Zenon DEF Counted, Holders
  <2>2. CASE c = b
    <3>1. Pin(c)' = 0
      BY <1>1, <2>2 DEF Pin
    <3>2. refcnt'[c] = Cardinality(Holders(c))
      BY <1>0, <1>1, <1>2, <1>3, <2>2, ZenonT(40) DEF Typed
    <3>3. Cardinality(Holders(c)) \in Nat
      BY Room
    <3> QED BY <2>1, <3>1, <3>2, <3>3
  <2>3. CASE c # b
    <3>1. block[c] # block[b]
      BY <1>0, <1>2, <2>3, ZenonT(40) DEF Unique
    <3>2. Pin(c)' = Pin(c)
      BY <1>1, <3>1 DEF Pin
    <3>3. refcnt'[c] = refcnt[c]
      BY <1>0, <1>1, <2>3 DEF Typed
    <3> QED BY <2>1, <3>2, <3>3
  <2> QED BY <2>2, <2>3
<1>7. Locked'
  BY <1>0, <1>1, ZenonT(40) DEF Typed, Locked, Using
<1>8. Cached' /\ Current'
  BY <1>0, <1>1, ZenonT(40) DEF Cached, Current
<1>9. OnDisk'
  BY <1>0, <1>1, <1>2 DEF Typed, OnDisk
<1> QED BY <1>4, <1>5, <1>6, <1>7, <1>8, <1>9 DEF BioInv

\* brelse gives the lock back first, and wakes who waits for it,
LEMMA ReleaseStep ==
  ASSUME BioInv, NEW p \in Procs, releasesleep(p)
  PROVE  BioInv'
<1>0. Typed /\ Listed /\ Placed /\ Unique /\ Counted /\ Locked /\ Cached /\ Current /\ OnDisk
  BY DEF BioInv
<1> DEFINE b == ref[p]
<1>1. /\ pc[p] = "have" /\ pc' = [Woken(b) EXCEPT ![p] = "rel"]
      /\ locker' = [locker EXCEPT ![b] = None]
      /\ UNCHANGED <<block, valid, data, refcnt, lru, disk, pinned, ref, ops, panicked, latest>>
      /\ ~panicked
  BY Zenon DEF releasesleep
<1>2. b \in Bufs
  BY <1>1, Held, Zenon
<1>3. /\ pc' \in [Procs -> {"idle", "lock", "asleep", "locked", "have", "dirty", "rel"}]
      /\ pc'[p] = "rel"
      /\ \A q \in Procs : q # p => pc'[q] = pc[q] \/ (pc[q] = "asleep" /\ pc'[q] = "lock")
  BY <1>0, <1>1, Zenon DEF Typed, Woken
<1>4. Typed'
  BY <1>0, <1>1, <1>2, <1>3, Zenon DEF Typed
<1>5. Placed' /\ Listed' /\ Unique' /\ Forced' /\ Cached'
  BY <1>0, <1>1, <1>3 DEF Placed, Listed, Unique, Forced, Cached
<1>6. Counted'
  BY <1>0, <1>1, ZenonT(40) DEF Counted, Holders, Pin
<1>7. Locked'
  <2> SUFFICES ASSUME NEW c \in Bufs, NEW q \in Procs
               PROVE  (locker[c] = q <=> Using(q) /\ ref[q] = c)'
    BY DEF Locked
  <2>1. locker[c] = q <=> Using(q) /\ ref[q] = c
    BY <1>0, Zenon DEF Locked
  <2>2. locker[b] = p
    BY <1>0, <1>1, <1>2 DEF Locked, Using
  <2>3. q # p => (Using(q)' <=> Using(q))
    BY <1>3 DEF Using
  <2>4. ~Using(p)' /\ locker'[c] = IF c = b THEN None ELSE locker[c]
    BY <1>0, <1>1, <1>2, <1>3, ZenonT(40) DEF Using, Typed
  <2> QED BY <1>1, <2>1, <2>2, <2>3, <2>4, BioAssumption
<1>8. Current'
  BY <1>0, <1>1, <1>3, ZenonT(40) DEF Current
<1>9. OnDisk'
  <2>1. \A q \in Procs : pc[q] = "dirty" => pc'[q] = "dirty"
    BY <1>1, <1>3
  <2>2. UNCHANGED <<disk, latest, pinned, block, ref>> /\ OnDisk
    BY <1>0, <1>1
  <2> QED BY <2>1, <2>2, ZenonT(40) DEF OnDisk
<1> QED BY <1>4, <1>5, <1>6, <1>7, <1>8, <1>9 DEF BioInv

\* and then its reference.
LEMMA BrelseStep ==
  ASSUME BioInv, NEW p \in Procs, brelse(p)
  PROVE  BioInv'
<1>0. Typed /\ Listed /\ Placed /\ Unique /\ Counted /\ Locked /\ Cached /\ Current /\ OnDisk
  BY DEF BioInv
<1> DEFINE b == ref[p]
<1>1. /\ pc[p] = "rel" /\ pc' = [pc EXCEPT ![p] = "idle"]
      /\ refcnt' = [refcnt EXCEPT ![b] = RefDec(refcnt[b])]
      /\ lru' = lru \/ lru' = ToFront(b)
      /\ ref' = [ref EXCEPT ![p] = None]
      /\ UNCHANGED <<block, valid, data, locker, disk, pinned, ops, panicked, latest>>
      /\ ~panicked
  BY DEF brelse
<1>2. b \in Bufs /\ b # None /\ refcnt[b] > 0
  BY <1>1, Held
<1>3. RefDec(refcnt[b]) = refcnt[b] - 1 /\ refcnt[b] - 1 \in 0 .. RefMod - 1
  <2>1. refcnt[b] \in 0 .. RefMod - 1 /\ RefMod \in Nat
    BY <1>0, <1>2, BioAssumption, Zenon DEF Typed
  <2> QED BY <1>2, <2>1, RefArith
<1>4. Typed'
  <2>1. refcnt' \in [Bufs -> 0 .. RefMod - 1]
    BY <1>0, <1>1, <1>3, ZenonT(40) DEF Typed
  <2> QED BY <1>0, <1>1, <2>1, Zenon DEF Typed
<1>5. Listed'
  <2>1. CASE lru' = lru
    BY <1>0, <2>1 DEF Listed
  <2>2. CASE lru' = ToFront(b)
    <3>1. Len(lru) = Cardinality(Bufs)
      BY <1>0 DEF Listed
    <3>2. /\ ToFront(b) \in Seq(Bufs) /\ Len(ToFront(b)) = Cardinality(Bufs)
          /\ \A c \in Bufs : \E k \in 1 .. Len(lru) : ToFront(b)[k] = c
      BY <1>0, <1>2, ListFront
    <3> QED BY <2>2, <3>1, <3>2 DEF Listed
  <2> QED BY <1>1, <2>1, <2>2
<1>6. Placed' /\ Unique' /\ Forced' /\ Cached'
  BY <1>0, <1>1, BioAssumption, ZenonT(40) DEF Typed, Placed, Unique, Forced, Cached
<1>7. Counted'
  <2> SUFFICES ASSUME NEW c \in Bufs PROVE (refcnt[c] = Cardinality(Holders(c)) + Pin(c))'
    BY DEF Counted
  <2>1. refcnt[c] = Cardinality(Holders(c)) + Pin(c) /\ Pin(c) \in {0, 1} /\ Pin(c)' = Pin(c)
    BY <1>0, <1>1, Zenon DEF Counted, Pin
  <2>2. Cardinality(Holders(c)') = IF c = b THEN Cardinality(Holders(c)) - 1
                                   ELSE Cardinality(Holders(c))
    BY <1>0, <1>1, HoldersPut, ZenonT(40)
  <2>3. Cardinality(Holders(c)) \in Nat
    BY Room
  <2>4. refcnt'[c] = IF c = b THEN refcnt[c] - 1 ELSE refcnt[c]
    BY <1>0, <1>1, <1>2, <1>3, Zenon DEF Typed
  <2>5. CASE c = b
    BY <2>1, <2>2, <2>3, <2>4, <2>5
  <2>6. CASE c # b
    BY <2>1, <2>2, <2>4, <2>6, ZenonT(40)
  <2> QED BY <2>5, <2>6
<1>8. Locked'
  BY <1>0, <1>1, <1>2 DEF Typed, Locked, Using
<1>9. Current'
  BY <1>0, <1>1, ZenonT(40) DEF Typed, Current
<1>10. OnDisk'
  BY <1>0, <1>1 DEF Typed, OnDisk
<1> QED BY <1>4, <1>5, <1>6, <1>7, <1>8, <1>9, <1>10 DEF BioInv

-----------------------------------------------------------------------------
\* Every step of the cache preserves the invariant.
LEMMA BioStep == BioInv /\ [Next]_vars => BioInv'
<1> SUFFICES ASSUME BioInv, [Next]_vars PROVE BioInv'
  OBVIOUS
<1>1. ASSUME NEW p \in Procs, NEW n \in Blocks, bget(p, n) PROVE BioInv'
  <2>1. bget_hit(p, n) \/ bget_miss(p, n) \/ bget_panic(p, n)
    BY <1>1 DEF bget
  <2> QED BY <1>1, <2>1, HitStep, MissStep, PanicStep, ZenonT(40)
<1>2. ASSUME NEW p \in Procs, NEW v \in Vals, modify(p, v) PROVE BioInv'
  BY <1>2, ModifyStep
<1>3. ASSUME NEW p \in Procs, Step(p) PROVE BioInv'
  BY <1>3, AcquireStep, FillStep, WriteStep, PinStep, UnpinStep, ReleaseStep, BrelseStep, Zenon DEF Step
<1>4. CASE UNCHANGED vars
  <2>1. Typed' /\ Listed' /\ Placed' /\ Unique'
    BY <1>4 DEF vars, BioInv, Typed, Listed, Placed, Unique
  <2>2. Counted' /\ Forced'
    BY <1>4, ZenonT(40) DEF vars, BioInv, Counted, Holders, Pin, Forced
  <2>3. Locked' /\ Cached'
    BY <1>4, ZenonT(40) DEF vars, BioInv, Locked, Using, Cached
  <2>4. Current' /\ OnDisk'
    BY <1>4 DEF vars, BioInv, Current, OnDisk
  <2> QED BY <2>1, <2>2, <2>3, <2>4, ZenonT(40) DEF BioInv
<1> QED BY <1>1, <1>2, <1>3, <1>4 DEF Next

\* Whatever processes and the log do with the cache (bio.c:55-151), a lock belongs to one
\* user, what is cached is current, and what is not cached, pinned or in use is on disk.
THEOREM BioInvariant == Spec => []BioInv
BY BioInit, BioStep, PTL DEF Spec

\* One buffer per block, with an exact reference count, on a list that holds every buffer; and
\* bget panics (bio.c:88) only when each buffer is in use or pinned.
THEOREM CacheIsSound == Spec => []CacheSound
<1>1. ASSUME BioInv PROVE CacheSound
  <2>1. TypeOK
    <3>1. Range(lru) = Bufs
      BY <1>1 DEF BioInv, Listed, Range
    <3> QED BY <1>1, <3>1 DEF BioInv, Typed, Listed, TypeOK
  <2>2. ASSUME NEW b \in Bufs
        PROVE  refcnt[b] = Cardinality({p \in Procs : ref[p] = b})
                           + (IF block[b] \in pinned THEN 1 ELSE 0)
    BY <1>1 DEF BioInv, Counted, Holders, Pin
  <2> QED BY <1>1, <2>1, <2>2, Zenon DEF CacheSound, BioInv, Unique, Forced
<1> QED BY <1>1, BioInvariant, PTL

\* Whoever bread (bio.c:91-103) has given a block sees what was last written to it, however
\* often its buffer was recycled in between.
THEOREM ReadsAreLatest == Spec => []ReadsLatest
<1>1. ASSUME BioInv PROVE ReadsLatest
  <2> SUFFICES ASSUME NEW p \in Procs, pc[p] \in {"have", "dirty"}
               PROVE  data[ref[p]] = latest[block[ref[p]]]
    BY DEF ReadsLatest
  <2>1. ref[p] \in Bufs
    BY <1>1, Held
  <2> QED BY <1>1, <2>1, Zenon DEF BioInv, Current
<1> QED BY <1>1, BioInvariant, PTL
=============================================================================
