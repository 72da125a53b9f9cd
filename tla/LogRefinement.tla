--------------------------- MODULE LogRefinement ----------------------------
(***************************************************************************)
(* The proof that Log implements AtomicDisk, for every number of           *)
(* processes, blocks and crashes: whatever the interleaving of calls, disk *)
(* writes, cache traffic and crashes, the recoverable state of the disk    *)
(* changes only at a commit, to exactly what the completed calls wrote.    *)
(* It assumes ~RecycleAfterReplay: with it, the reference count that       *)
(* install_trans() takes away during recovery lets a logged block be       *)
(* recycled and the theorem is false.                                      *)
(***************************************************************************)
EXTENDS LogProofs

Writing == \E p \in Procs : pc[p] = "write_log"
Installing == \E p \in Procs : pc[p] = "install"
Held(b) == \E p \in Procs : held[p] = b
\* b is in the log and its home copy is not yet up to date.
Pending(b) == \E i \in 1 .. Len(lh) : lh[i] = b /\ (Installing => i > tail)

NoRepeats(s) == \A i, j \in 1 .. Len(s) : s[i] = s[j] => i = j

\* When the on-disk header names blocks, and which.
HeaderInv ==
  /\ boot = "up" /\ ~Installing => dhead = <<>>
  /\ boot = "install" \/ Installing => dhead = lh
  /\ NoRepeats(lh) /\ NoRepeats(dhead)
  /\ boot = "up" /\ InOp = {} /\ ~Writing /\ ~Installing => lh = <<>>
  /\ boot = "install" \/ Installing \/ Writing => tail <= Len(lh)

\* The cache differs from the disk only in blocks that are logged or held.
CacheInv ==
  /\ boot # "up" => \A b \in Blocks : cache[b] \in {NoBuf, disk[b]}
  /\ boot = "up" => \A b \in Blocks :
       /\ ~Pending(b) /\ ~Held(b) => cache[b] \in {NoBuf, disk[b]}
       /\ Pending(b) \/ Held(b) => cache[b] # NoBuf

\* What the copies to the log and back have achieved so far.
CopyInv ==
  /\ Writing => \A i \in 1 .. tail : dlog[i] = cache[lh[i]]
  /\ Installing => \A i \in 1 .. Len(lh) : i > tail => cache[lh[i]] = dlog[i]
  /\ Installing \/ boot = "install" => \A i \in 1 .. tail : disk[lh[i]] = dlog[i]

\* Sleep locks: a buffer has one holder.
OneHolder == \A p, q \in Procs : held[p] = held[q] /\ held[p] \in Blocks => p = q

Bit(x) == IF x THEN 1 ELSE 0

\* Until a recovery has replayed something, a reference count is exactly one
\* for the log plus one for the holder.
PinInv ==
  /\ boot = "read_head" => ~replayed /\ \A b \in Blocks : refcnt[b] = 0
  /\ boot = "install" /\ ~replayed => lh = <<>> /\ \A b \in Blocks : refcnt[b] = 0
  /\ boot = "up" /\ ~replayed =>
       \A b \in Blocks : refcnt[b] = Bit(Pending(b)) + Bit(Held(b))

DataInv == HeaderInv /\ CacheInv /\ CopyInv /\ OneHolder /\ PinInv

-----------------------------------------------------------------------------
\* While a commit copies blocks no call is open, so no buffer is held.
LEMMA Phases ==
  ASSUME ReserveInv
  PROVE  /\ Writing \/ Installing => InOp = {} /\ boot = "up" /\ \A b \in Blocks : ~Held(b)
         /\ ~(Writing /\ Installing)
         /\ boot # "up" => ~Writing /\ ~Installing /\ InOp = {} /\ \A b \in Blocks : ~Held(b)
         /\ \A p \in Procs : pc[p] \in {"write_log", "install", "finish"} =>
              InOp = {} /\ \A q \in Procs : q # p => pc[q] \notin {"write_log", "install", "finish"}
<1> USE DEF ReserveInv, CountInv
<1>1. InOp = {} => \A b \in Blocks : ~Held(b)
  BY LogAssumption DEF Holding, InOp, Held
<1>2. \A p \in Procs : pc[p] \in {"write_log", "install", "finish"} => p \in InCommit
  BY DEF InCommit
<1>3. \A p \in Procs : pc[p] \in {"write_log", "install", "finish"} =>
        InOp = {} /\ \A q \in Procs : q # p => pc[q] \notin {"write_log", "install", "finish"}
  BY <1>2 DEF Exclusive
<1>4. boot # "up" => ~Writing /\ ~Installing /\ InOp = {}
  BY DEF Exclusive, Writing, Installing, InOp
<1>5. ~(Writing /\ Installing)
  BY <1>3 DEF Writing, Installing
<1> QED BY <1>1, <1>3, <1>4, <1>5, ZenonT(40) DEF Writing, Installing, TypeOK

\* Small reference counts do not wrap.
LEMMA RefSmall ==
  RefInc(0) = 1 /\ RefInc(1) = 2 /\ RefDec(1) = 0 /\ RefDec(2) = 1
BY LogAssumption DEF RefInc, RefDec

\* The data invariant holds initially.
LEMMA DataInit == Init => DataInv
<1> SUFFICES ASSUME Init PROVE DataInv
  OBVIOUS
<1>1. ~Writing /\ ~Installing /\ \A b \in Blocks : ~Held(b)
  BY LogAssumption DEF Init, Writing, Installing, Held
<1> QED BY <1>1, LogAssumption DEF Init, DataInv, HeaderInv, CacheInv, CopyInv, OneHolder, PinInv,
           NoRepeats

\* Steps that move no data preserve the data invariant.
LEMMA DataFrame ==
  ASSUME ReserveInv, DataInv, Writing' = Writing, Installing' = Installing,
         UNCHANGED <<disk, dlog, dhead, cache, refcnt, lh, held, boot, replayed>>,
         tail' = tail \/ (~Writing /\ ~Installing /\ boot = "up"),
         InOp' = {} /\ boot = "up" /\ ~Writing /\ ~Installing => InOp = {} \/ lh = <<>>
  PROVE  DataInv'
<1>1. \A b : Held(b)' <=> Held(b)
  BY DEF Held
<1>2. \A b : Pending(b)' <=> Pending(b)
  BY DEF Pending
<1>3. HeaderInv'
  BY DEF DataInv, HeaderInv, NoRepeats
<1>4. CacheInv'
  BY <1>1, <1>2, Zenon DEF DataInv, CacheInv
<1>5. CopyInv'
  BY DEF DataInv, CopyInv
<1>6. OneHolder'
  BY DEF DataInv, OneHolder
<1>7. PinInv'
  BY <1>1, <1>2 DEF DataInv, PinInv, Bit
<1> QED BY <1>3, <1>4, <1>5, <1>6, <1>7, Zenon DEF DataInv

-----------------------------------------------------------------------------
\* Every step preserves the data invariant.
LEMMA DataStep ==
  ASSUME ~RecycleAfterReplay, ReserveInv, ReserveInv', DataInv, [Next]_vars
  PROVE  DataInv'
<1>0. TypeOK /\ TypeOK'
  BY ZenonT(40) DEF ReserveInv, CountInv
<1>t. tail \in Nat /\ lh \in Seq(Blocks) /\ dhead \in Seq(Blocks)
  BY <1>0, Zenon DEF TypeOK
<1>f. /\ disk \in [Blocks -> Vals] /\ cache \in [Blocks -> Vals \cup {NoBuf}]
      /\ dlog \in [1 .. LOGSIZE -> Vals] /\ refcnt \in [Blocks -> 0 .. RefMod - 1]
  BY <1>0, Zenon DEF TypeOK
<1>p. held \in [Procs -> Blocks \cup {NoBuf}] /\ DOMAIN pc = Procs
  BY <1>0, Zenon DEF TypeOK
<1>1. ASSUME NEW p \in Procs, begin_op(p) PROVE DataInv'
  <2>1. Writing' = Writing /\ Installing' = Installing
    BY <1>0, <1>1, Zenon DEF begin_op, Writing, Installing, TypeOK
  <2>2. InOp' = {} => InOp = {}
    BY <1>0, <1>1, Zenon DEF begin_op, InOp, TypeOK
  <2> QED BY <1>1, <2>1, <2>2, DataFrame, ZenonT(40) DEF begin_op, ondisk, bufs, sys
<1>2. ASSUME NEW p \in Procs, log_write_check(p) PROVE DataInv'
  <2>1. Writing' = Writing /\ Installing' = Installing
    BY <1>0, <1>2, Zenon DEF log_write_check, Writing, Installing, TypeOK
  <2>2. InOp' = {} => InOp = {}
    BY <1>p, <1>2, Zenon DEF log_write_check, InOp
  <2> QED BY <1>2, <2>1, <2>2, DataFrame, ZenonT(40) DEF log_write_check, ondisk, bufs, logstate
<1>3. ASSUME NEW p \in Procs, finish(p) PROVE DataInv'
  <2>1. Writing' = Writing /\ Installing' = Installing
    BY <1>0, <1>3, ZenonT(40) DEF finish, Writing, Installing, TypeOK, Woken
  <2>2. InOp = {}
    BY <1>3, Phases, Zenon DEF finish
  <2> QED BY <1>3, <2>1, <2>2, DataFrame, Zenon DEF finish, ondisk, bufs, sys
<1>4. ASSUME NEW p \in Procs, end_op(p) PROVE DataInv'
  <2>1. p \in InOp /\ ~Writing /\ ~Installing /\ boot = "up" /\ boot' = boot
    BY <1>4, Phases, Zenon DEF end_op, InOp, Running
  <2>2. CASE outstanding = 1 /\ lh # <<>>
    <3>1. pc' = [pc EXCEPT ![p] = "write_log"] /\ tail' = 0
      BY <1>4, <2>2 DEF end_op, CommitEntry
    <3>2. Writing' /\ ~Installing'
      BY <1>p, <2>1, <3>1, Zenon DEF Writing, Installing
    <3>3. UNCHANGED <<disk, dlog, dhead, cache, refcnt, lh, held, boot, replayed>>
      BY <1>4 DEF end_op, ondisk, bufs
    <3>4. \A b : (Held(b)' <=> Held(b)) /\ (Pending(b)' <=> Pending(b))
      BY <2>1, <3>2, <3>3, ZenonT(40) DEF Held, Pending
    <3>5. HeaderInv'
      BY <2>1, <3>1, <3>2, <3>3 DEF DataInv, HeaderInv, NoRepeats
    <3>6. CacheInv'
      BY <3>3, <3>4, ZenonT(40) DEF DataInv, CacheInv
    <3>7. CopyInv'
      BY <2>1, <3>1, <3>2 DEF CopyInv
    <3>8. OneHolder' /\ PinInv'
      BY <2>1, <3>3, <3>4, Zenon DEF DataInv, OneHolder, PinInv, Bit
    <3> QED BY <3>5, <3>6, <3>7, <3>8, Zenon DEF DataInv
  <2>3. CASE outstanding # 1 \/ lh = <<>>
    <3>1. Writing' = Writing /\ Installing' = Installing
      BY <1>0, <1>4, <2>3, Zenon DEF end_op, Writing, Installing, TypeOK, Woken, CommitEntry
    <3>2. InOp' = {} => lh = <<>>
      <4> SUFFICES ASSUME InOp' = {} PROVE outstanding = 1
        BY <2>3, ZenonT(40)
      <4>1. outstanding' = 0
        BY FS_EmptySet DEF ReserveInv, CountInv, Counted
      <4> QED BY <1>0, <1>4, <4>1 DEF end_op, TypeOK
    <3> QED BY <1>4, <2>1, <3>1, <3>2, DataFrame, ZenonT(40) DEF end_op, ondisk, bufs
  <2> QED BY <2>2, <2>3
<1>5. ASSUME NEW p \in Procs, NEW b \in Blocks, NEW v \in Vals, Modify(p, b, v)
      PROVE  DataInv'
  <2>1. InOp # {} /\ ~Writing /\ ~Installing /\ boot = "up" /\ boot' = boot
        /\ ~Writing' /\ ~Installing' /\ InOp' # {}
    BY <1>p, <1>5, Phases, Zenon DEF Modify, InOp, Running, Writing, Installing, sys
  <2>2. UNCHANGED <<disk, dlog, dhead, lh, tail, replayed>>
    BY <1>5, ZenonT(40) DEF Modify, ondisk, logstate, sys
  <2>a. held[p] \notin Blocks /\ held' = [held EXCEPT ![p] = b]
    BY <1>5 DEF Modify, ReserveInv, CountInv, Holding
  <2>3. ~Held(b) /\ \A c \in Blocks : Held(c)' <=> Held(c) \/ c = b
    <3>1. \A q \in Procs : held'[q] = IF q = p THEN b ELSE held[q]
      BY <1>p, <2>a
    <3> QED BY <1>5, <2>a, <3>1, Zenon DEF Modify, Held
  <2>4. \A c : Pending(c)' <=> Pending(c)
    BY <2>1, <2>2 DEF Pending
  <2>5. HeaderInv'
    BY <2>1, <2>2, ZenonT(40) DEF DataInv, HeaderInv, NoRepeats
  <2>6. CacheInv'
    BY LogAssumption, <1>f, <1>5, <2>1, <2>2, <2>3, <2>4, Zenon DEF Modify, DataInv, CacheInv
  <2>7. CopyInv'
    BY <2>1, ZenonT(40) DEF CopyInv
  <2>8. OneHolder'
    BY <1>p, <1>5, Zenon DEF Modify, DataInv, OneHolder
  <2>9. PinInv'
    <3> SUFFICES ASSUME ~replayed, NEW c \in Blocks
                 PROVE  refcnt'[c] = Bit(Pending(c)') + Bit(Held(c)')
      BY <2>1, <2>2 DEF PinInv
    <3>1. refcnt[c] = Bit(Pending(c)) + Bit(Held(c))
      BY <2>1 DEF DataInv, PinInv
    <3>2. refcnt' = [refcnt EXCEPT ![b] = RefInc(refcnt[b])]
      BY <1>5, Zenon DEF Modify
    <3>3. CASE c = b
      <4>1. /\ refcnt'[c] = RefInc(refcnt[c]) /\ ~Held(c) /\ Held(c)'
            /\ Pending(c)' <=> Pending(c)
        BY <1>f, <2>3, <2>4, <3>2, <3>3, Zenon
      <4> QED BY <3>1, <4>1, RefSmall DEF Bit
    <3>4. CASE c # b
      <4>1. refcnt'[c] = refcnt[c] /\ (Held(c)' <=> Held(c)) /\ (Pending(c)' <=> Pending(c))
        BY <1>f, <2>3, <2>4, <3>2, <3>4, Zenon
      <4> QED BY <3>1, <4>1, Zenon DEF Bit
    <3> QED BY <3>3, <3>4
  <2> QED BY <2>5, <2>6, <2>7, <2>8, <2>9, Zenon DEF DataInv
<1>6. ASSUME NEW p \in Procs, log_write(p) PROVE DataInv'
  <2>1. PICK b \in Blocks : b = held[p]
    BY <1>6, ZenonT(40) DEF log_write, ReserveInv, CountInv, Holding
  <2> DEFINE new == b \notin Entries(lh)
  <2>2. InOp # {} /\ ~Writing /\ ~Installing /\ boot = "up" /\ boot' = boot
        /\ ~Writing' /\ ~Installing' /\ InOp' # {}
    BY <1>0, <1>6, Phases, Zenon DEF log_write, InOp, Running, TypeOK, Writing, Installing, sys
  <2>3. /\ UNCHANGED <<disk, dlog, dhead, cache, tail, replayed>>
        /\ lh' = (IF new THEN Append(lh, b) ELSE lh)
        /\ refcnt' = [refcnt EXCEPT ![b] = RefAfterLogWrite(refcnt[b], new)]
        /\ held' = [held EXCEPT ![p] = NoBuf]
    BY <1>6, <2>1, Zenon DEF log_write, New, ondisk, sys
  <2>4. Held(b) /\ ~Held(b)' /\ \A c \in Blocks : c # b => (Held(c)' <=> Held(c))
    <3>1. \A q \in Procs : held'[q] = IF q = p THEN NoBuf ELSE held[q]
      BY <1>p, <2>3, Zenon
    <3> QED BY LogAssumption, <2>1, <3>1, Zenon DEF Held, DataInv, OneHolder
  <2>5. /\ Len(lh) \in Nat /\ Len(lh') \in Nat
        /\ new => Len(lh') = Len(lh) + 1 /\ lh'[Len(lh) + 1] = b
                  /\ \A i \in 1 .. Len(lh) : lh'[i] = lh[i] /\ lh[i] # b
        /\ ~new => lh' = lh /\ \E i \in 1 .. Len(lh) : lh[i] = b
    <3>1. CASE new
      <4>1. lh' = Append(lh, b) /\ lh \in Seq(Blocks)
        BY <1>t, <2>3, <3>1, Zenon
      <4>2. \A i \in 1 .. Len(lh) : lh[i] # b
        BY <3>1 DEF Entries
      <4> HIDE DEF new
      <4> QED BY <3>1, <4>1, <4>2
    <3>2. CASE ~new
      <4>1. lh' = lh /\ lh \in Seq(Blocks)
        BY <1>t, <2>3, <3>2
      <4> QED BY <3>2, <4>1 DEF Entries
    <3> QED BY <3>1, <3>2, Zenon
  <2> HIDE DEF new
  <2>6. Pending(b)' /\ (Pending(b) <=> ~new)
        /\ \A c \in Blocks : c # b => (Pending(c)' <=> Pending(c))
    <3>1. CASE new
      BY <2>2, <2>5, <3>1 DEF Pending
    <3>2. CASE ~new
      BY <2>2, <2>5, <3>2, ZenonT(40) DEF Pending
    <3> QED BY <3>1, <3>2
  <2>7. HeaderInv'
    <3>1. NoRepeats(lh')
      BY <2>5 DEF NoRepeats, DataInv, HeaderInv
    <3> QED BY <2>2, <2>3, <3>1 DEF DataInv, HeaderInv, NoRepeats
  <2>8. CacheInv'
    BY <2>1, <2>2, <2>3, <2>4, <2>6, Zenon DEF DataInv, CacheInv
  <2>9. CopyInv'
    BY <2>2, ZenonT(40) DEF CopyInv
  <2>10. OneHolder'
    BY LogAssumption, <1>p, <2>3, Zenon DEF DataInv, OneHolder
  <2>11. PinInv'
    <3> SUFFICES ASSUME ~replayed, NEW c \in Blocks
                 PROVE  refcnt'[c] = Bit(Pending(c)') + Bit(Held(c)')
      BY <2>2, <2>3 DEF PinInv
    <3>1. refcnt[c] = Bit(Pending(c)) + Bit(Held(c))
      BY <2>2 DEF DataInv, PinInv
    <3>2. CASE c = b
      <4>1. /\ refcnt'[c] = IF new THEN RefDec(RefInc(refcnt[c])) ELSE RefDec(refcnt[c])
            /\ Held(c) /\ ~Held(c)' /\ Pending(c)' /\ (Pending(c) <=> ~new)
        BY <1>f, <2>3, <2>4, <2>6, <3>2, Zenon DEF RefAfterLogWrite
      <4> QED BY <3>1, <4>1, RefSmall DEF Bit
    <3>3. CASE c # b
      BY <1>f, <2>1, <2>3, <2>4, <2>6, <3>1, <3>3, Zenon DEF Bit
    <3> QED BY <3>2, <3>3
  <2> QED BY <2>7, <2>8, <2>9, <2>10, <2>11, ZenonT(40) DEF DataInv
<1>7. ASSUME NEW p \in Procs, write_log(p) PROVE DataInv'
  <2> DEFINE b == lh[tail + 1]
  <2>1. Writing /\ ~Installing /\ boot = "up" /\ Writing' /\ ~Installing'
    BY <1>7, Phases, ZenonT(40) DEF write_log, Writing, Installing, procstate
  <2>2. /\ UNCHANGED <<disk, dhead, refcnt, lh, held, boot, replayed, pc>>
        /\ dlog' = [dlog EXCEPT ![tail + 1] = Cached(b)]
        /\ cache' = [cache EXCEPT ![b] = Cached(b)]
        /\ tail' = tail + 1 /\ tail < Len(lh)
    BY <1>7 DEF write_log, logstate, procstate, sys
  <2>3. b \in Blocks /\ tail + 1 \in 1 .. Len(lh) /\ tail + 1 \in 1 .. LOGSIZE
    BY <1>0, <2>2, ReserveFits DEF TypeOK, HeaderFits
  <2>4. Pending(b)
    BY <2>1, <2>3, Zenon DEF Pending
  <2>5. Cached(b) = cache[b] /\ cache' = cache
    BY <1>f, <2>1, <2>2, <2>3, <2>4, ZenonT(40) DEF DataInv, CacheInv, Cached
  <2>6. \A c : (Held(c)' <=> Held(c)) /\ (Pending(c)' <=> Pending(c))
    BY <2>1, <2>2, ZenonT(40) DEF Held, Pending
  <2>7. HeaderInv'
    <3>1. InOp' = InOp
      BY <2>2, Zenon DEF InOp
    <3> QED BY <1>t, <2>1, <2>2, <3>1 DEF DataInv, HeaderInv, NoRepeats
  <2>8. CacheInv'
    BY <2>2, <2>5, <2>6, ZenonT(40) DEF DataInv, CacheInv
  <2>9. CopyInv'
    <3>1. ASSUME NEW i \in 1 .. tail' PROVE dlog'[i] = cache'[lh'[i]]
      <4>1. CASE i = tail + 1
        BY <1>f, <2>2, <2>3, <2>5, <4>1, Zenon
      <4>2. CASE i # tail + 1
        <5>1. i \in 1 .. tail
          BY <1>t, <2>2, <4>2
        <5>2. dlog[i] = cache[lh[i]]
          BY <2>1, <5>1, ZenonT(40) DEF DataInv, CopyInv
        <5> QED BY <2>2, <2>5, <4>2, <5>2
      <4> QED BY <4>1, <4>2, Zenon
    <3> QED BY <2>1, <2>2, <3>1, ZenonT(40) DEF CopyInv
  <2>10. OneHolder' /\ PinInv'
    BY <2>1, <2>2, <2>6, ZenonT(40) DEF DataInv, OneHolder, PinInv, Bit
  <2> QED BY <2>7, <2>8, <2>9, <2>10, ZenonT(40) DEF DataInv
<1>8. ASSUME NEW p \in Procs, write_head(p) PROVE DataInv'
  <2>1. Writing /\ ~Installing /\ boot = "up"
    BY <1>8, Phases, ZenonT(40) DEF write_head, Writing
  <2>2. ~Writing' /\ Installing'
    BY <1>p, <1>8, Phases, Zenon DEF write_head, Writing, Installing
  <2>3. /\ UNCHANGED <<disk, dlog, cache, refcnt, lh, held, boot, replayed>>
        /\ dhead' = lh /\ tail' = 0 /\ tail = Len(lh)
    BY <1>8, Zenon DEF write_head, bufs, logstate, sys
  <2>4. \A c : (Held(c)' <=> Held(c)) /\ (Pending(c)' <=> Pending(c))
    BY <2>1, <2>2, <2>3 DEF Held, Pending
  <2>5. HeaderInv'
    BY <2>1, <2>2, <2>3 DEF DataInv, HeaderInv, NoRepeats
  <2>6. CacheInv'
    BY <2>3, <2>4, ZenonT(40) DEF DataInv, CacheInv
  <2>7. CopyInv'
    BY <2>1, <2>2, <2>3 DEF DataInv, CopyInv
  <2>8. OneHolder' /\ PinInv'
    BY <2>1, <2>3, <2>4, ZenonT(40) DEF DataInv, OneHolder, PinInv, Bit
  <2> QED BY <2>5, <2>6, <2>7, <2>8, ZenonT(40) DEF DataInv
<1>9. ASSUME NEW p \in Procs, install_trans(p) PROVE DataInv'
  <2>1. Installing /\ ~Writing /\ boot = "up" /\ Installing' /\ ~Writing'
        /\ (\A c \in Blocks : ~Held(c)) /\ InOp = {}
    BY <1>9, Phases, ZenonT(40) DEF install_trans, Writing, Installing, procstate
  <2>2. PICK b \in Blocks : b = lh[tail + 1]
    BY <1>t, <1>9 DEF install_trans, InstallBlock
  <2>3. /\ UNCHANGED <<dlog, dhead, lh, held, boot, replayed, pc>>
        /\ disk' = [disk EXCEPT ![b] = dlog[tail + 1]]
        /\ cache' = [cache EXCEPT ![b] = dlog[tail + 1]]
        /\ refcnt' = [refcnt EXCEPT ![b] = RefDec(refcnt[b])]
        /\ tail' = tail + 1 /\ tail < Len(lh)
    BY <1>9, <2>2, Zenon DEF install_trans, InstallBlock, logstate, procstate, sys
  <2>4. tail + 1 \in 1 .. Len(lh) /\ tail \in Nat /\ Len(lh) \in Nat
    BY <1>t, <2>3
  <2>5. cache[b] = dlog[tail + 1] /\ cache' = cache /\ disk'[b] = cache[b]
    BY <1>f, <2>1, <2>2, <2>3, <2>4 DEF DataInv, CopyInv
  <2>6. \A i \in 1 .. Len(lh) : i # tail + 1 => lh[i] # b
    BY <2>2, <2>4, ZenonT(40) DEF DataInv, HeaderInv, NoRepeats
  <2>7. \A c \in Blocks : Held(c)' <=> Held(c)
    BY <2>3, Zenon DEF Held
  <2>8. Pending(b) /\ ~Pending(b)' /\ \A c \in Blocks : c # b => (Pending(c)' <=> Pending(c))
    BY <2>1, <2>2, <2>3, <2>4, <2>6 DEF Pending
  <2>9. HeaderInv'
    BY <2>1, <2>3, <2>4 DEF DataInv, HeaderInv, NoRepeats
  <2>10. CacheInv'
    <3> SUFFICES ASSUME NEW c \in Blocks PROVE CacheInv!2!2!(c)'
      BY <2>1, <2>3, ZenonT(40) DEF CacheInv
    <3>1. CASE c = b
      BY <2>1, <2>5, <2>7, <2>8, <3>1, ZenonT(40)
    <3>2. CASE c # b
      BY <1>f, <2>1, <2>3, <2>5, <2>7, <2>8, <3>2, ZenonT(40) DEF DataInv, CacheInv
    <3> QED BY <3>1, <3>2, ZenonT(40)
  <2>11. CopyInv'
    <3>1. ASSUME NEW i \in 1 .. tail' PROVE disk'[lh[i]] = dlog[i]
      <4>1. CASE i = tail + 1
        BY <2>2, <2>5, <4>1, Zenon
      <4>2. CASE i # tail + 1
        <5>1. i \in 1 .. tail /\ i \in 1 .. Len(lh)
          BY <2>3, <2>4, <4>2
        <5>2. disk[lh[i]] = dlog[i] /\ lh[i] # b
          BY <2>1, <2>6, <4>2, <5>1, ZenonT(40) DEF DataInv, CopyInv
        <5>3. lh[i] \in Blocks
          BY <1>t, <5>1
        <5> QED BY <1>f, <2>3, <5>2, <5>3, Zenon
      <4> QED BY <4>1, <4>2, ZenonT(40)
    <3>2. ASSUME NEW i \in 1 .. Len(lh), i > tail' PROVE cache'[lh[i]] = dlog[i]
      BY <2>1, <2>3, <2>4, <2>5, <3>2 DEF DataInv, CopyInv
    <3>3. lh' = lh /\ dlog' = dlog
      BY <2>3
    <3>4. \A i \in 1 .. tail' : disk'[lh'[i]] = dlog'[i]
      BY <3>1, <3>3, Zenon
    <3>5. \A i \in 1 .. Len(lh') : i > tail' => cache'[lh'[i]] = dlog'[i]
      BY <3>2, <3>3, ZenonT(40)
    <3> QED BY <2>1, <3>4, <3>5, ZenonT(40) DEF CopyInv
  <2>12. OneHolder'
    BY <2>3, Zenon DEF DataInv, OneHolder
  <2>13. PinInv'
    <3> SUFFICES ASSUME ~replayed, NEW c \in Blocks
                 PROVE  refcnt'[c] = Bit(Pending(c)') + Bit(Held(c)')
      BY <2>1, <2>3, ZenonT(40) DEF PinInv
    <3>1. refcnt[c] = Bit(Pending(c)) + Bit(Held(c))
      BY <2>1, ZenonT(40) DEF DataInv, PinInv
    <3>2. CASE c = b
      <4>1. refcnt'[c] = RefDec(refcnt[c]) /\ ~Held(c) /\ ~Held(c)' /\ Pending(c) /\ ~Pending(c)'
        BY <1>f, <2>1, <2>3, <2>7, <2>8, <3>2, ZenonT(40)
      <4> QED BY <3>1, <4>1, RefSmall DEF Bit
    <3>3. CASE c # b
      BY <1>f, <2>3, <2>7, <2>8, <3>1, <3>3, ZenonT(40) DEF Bit
    <3> QED BY <3>2, <3>3
  <2> QED BY <2>9, <2>10, <2>11, <2>12, <2>13, Zenon DEF DataInv
<1>10. ASSUME NEW p \in Procs, erase(p) PROVE DataInv'
  <2>1. Installing /\ ~Writing /\ boot = "up" /\ (\A c \in Blocks : ~Held(c)) /\ InOp = {}
    BY <1>10, Phases, ZenonT(40) DEF erase, Writing, Installing
  <2>2. ~Installing' /\ ~Writing'
    BY <1>p, <1>10, Phases, Zenon DEF erase, Writing, Installing
  <2>3. /\ UNCHANGED <<disk, dlog, cache, refcnt, held, boot, replayed>>
        /\ lh' = <<>> /\ dhead' = <<>> /\ tail = Len(lh)
    BY <1>10, Zenon DEF erase, EraseLog, bufs, sys
  <2>4. \A c \in Blocks : (Held(c)' <=> Held(c)) /\ ~Pending(c) /\ ~Pending(c)'
    BY <2>1, <2>3 DEF Held, Pending
  <2>5. HeaderInv'
    BY <2>1, <2>2, <2>3 DEF HeaderInv, NoRepeats
  <2>6. CacheInv'
    BY <2>1, <2>3, <2>4, ZenonT(40) DEF DataInv, CacheInv
  <2>7. CopyInv' /\ OneHolder'
    BY <2>1, <2>2, <2>3, ZenonT(40) DEF DataInv, CopyInv, OneHolder
  <2>8. PinInv'
    BY <2>1, <2>3, <2>4, Zenon DEF DataInv, PinInv, Bit
  <2> QED BY <2>5, <2>6, <2>7, <2>8, ZenonT(40) DEF DataInv
<1>11. ASSUME read_head PROVE DataInv'
  <2>1. ~Writing /\ ~Installing /\ ~Writing' /\ ~Installing' /\ \A c \in Blocks : ~Held(c)
    BY <1>11, Phases DEF read_head, Writing, Installing, procstate
  <2>2. /\ UNCHANGED <<disk, dlog, dhead, cache, refcnt, held>>
        /\ lh' = dhead /\ tail' = 0 /\ boot = "read_head" /\ boot' = "install"
        /\ (replayed' <=> dhead # <<>>)
    BY <1>11, ZenonT(40) DEF read_head, ondisk, bufs, procstate
  <2>3. HeaderInv'
    BY <2>1, <2>2 DEF DataInv, HeaderInv, NoRepeats
  <2>4. CacheInv' /\ CopyInv' /\ OneHolder'
    <3>1. CacheInv'
      BY <2>1, <2>2, Zenon DEF DataInv, CacheInv
    <3>2. CopyInv'
      BY <2>1, <2>2 DEF DataInv, CopyInv
    <3>3. OneHolder'
      BY <2>1, <2>2, ZenonT(40) DEF DataInv, OneHolder
    <3> QED BY <3>1, <3>2, <3>3
  <2>5. PinInv'
    BY <2>2 DEF DataInv, PinInv
  <2> QED BY <2>3, <2>4, <2>5, ZenonT(40) DEF DataInv
<1>12. ASSUME recover_install PROVE DataInv'
  <2>1. ~Writing /\ ~Installing /\ ~Writing' /\ ~Installing'
    BY <1>12, Phases, ZenonT(40) DEF recover_install, Writing, Installing, procstate
  <2>2. PICK b \in Blocks : b = lh[tail + 1]
    BY <1>t, <1>12 DEF recover_install, InstallBlock
  <2>3. /\ UNCHANGED <<dlog, dhead, lh, held, replayed, pc>>
        /\ disk' = [disk EXCEPT ![b] = dlog[tail + 1]]
        /\ cache' = [cache EXCEPT ![b] = dlog[tail + 1]]
        /\ tail' = tail + 1 /\ tail < Len(lh) /\ boot = "install" /\ boot' = "install"
    BY <1>12, <2>2, ZenonT(40) DEF recover_install, InstallBlock, logstate, procstate, sys
  <2>4. tail + 1 \in 1 .. Len(lh) /\ tail \in Nat /\ Len(lh) \in Nat
    BY <1>t, <2>3
  <2>5. \A i \in 1 .. Len(lh) : i # tail + 1 => lh[i] # b
    BY <2>2, <2>4, ZenonT(40) DEF DataInv, HeaderInv, NoRepeats
  <2>6. HeaderInv'
    BY <2>1, <2>3, <2>4 DEF DataInv, HeaderInv, NoRepeats
  <2>7. CacheInv'
    BY <1>0, <2>3, ZenonT(40) DEF DataInv, CacheInv, TypeOK
  <2>8. CopyInv'
    <3>1. ASSUME NEW i \in 1 .. tail' PROVE disk'[lh'[i]] = dlog'[i]
      <4>1. CASE i = tail + 1
        BY <1>f, <2>2, <2>3, <4>1, Zenon
      <4>2. CASE i # tail + 1
        <5>1. i \in 1 .. tail /\ i \in 1 .. Len(lh)
          BY <2>3, <2>4, <4>2
        <5>2. disk[lh[i]] = dlog[i] /\ lh[i] # b
          BY <2>3, <2>5, <4>2, <5>1, ZenonT(40) DEF DataInv, CopyInv
        <5>3. lh[i] \in Blocks
          BY <1>t, <5>1
        <5> QED BY <1>f, <2>3, <5>2, <5>3, ZenonT(40)
      <4> QED BY <4>1, <4>2, ZenonT(40)
    <3> QED BY <2>1, <3>1, ZenonT(40) DEF CopyInv
  <2>9. lh # <<>>
    BY <2>4
  <2>10. OneHolder' /\ PinInv'
    BY <2>3, <2>9, ZenonT(40) DEF DataInv, OneHolder, PinInv
  <2> QED BY <2>6, <2>7, <2>8, <2>10, Zenon DEF DataInv
<1>13. ASSUME recover_erase PROVE DataInv'
  <2>1. ~Writing' /\ ~Installing' /\ \A c \in Blocks : ~Held(c)
    BY <1>13, Phases, ZenonT(40) DEF recover_erase, Writing, Installing, procstate
  <2>2. /\ UNCHANGED <<disk, dlog, cache, refcnt, held, replayed>>
        /\ lh' = <<>> /\ dhead' = <<>> /\ boot = "install" /\ boot' = "up"
    BY <1>13 DEF recover_erase, EraseLog, bufs, procstate
  <2>3. \A c \in Blocks : ~Held(c)' /\ ~Pending(c)'
    BY <2>1, <2>2 DEF Held, Pending
  <2>4. HeaderInv'
    BY <2>1, <2>2 DEF HeaderInv, NoRepeats
  <2>5. CacheInv' /\ CopyInv' /\ OneHolder'
    BY <2>1, <2>2, <2>3, ZenonT(40) DEF DataInv, CacheInv, CopyInv, OneHolder
  <2>6. PinInv'
    BY <2>2, <2>3 DEF DataInv, PinInv, Bit
  <2> QED BY <2>4, <2>5, <2>6 DEF DataInv
<1>14. ASSUME NEW b \in Blocks, bread(b) \/ recycle(b) PROVE DataInv'
  <2>1. /\ UNCHANGED <<disk, dlog, dhead, refcnt, lh, held, pc, tail, boot, replayed>>
        /\ boot = "up"
    BY <1>14, ZenonT(40) DEF bread, recycle, Running, ondisk, logstate, procstate, sys
  <2>2. /\ Writing' = Writing /\ Installing' = Installing /\ InOp' = InOp
        /\ \A c : (Held(c)' <=> Held(c)) /\ (Pending(c)' <=> Pending(c))
    BY <2>1 DEF Writing, Installing, InOp, Held, Pending
  <2>3. ~Pending(b) /\ ~Held(b)
    <3>1. CASE bread(b)
      BY <2>1, <3>1, ZenonT(40) DEF bread, DataInv, CacheInv
    <3>2. CASE recycle(b)
      <4>1. ~replayed /\ refcnt[b] = 0
        BY <3>2, ZenonT(40) DEF recycle
      <4> QED BY <2>1, <4>1 DEF DataInv, PinInv, Bit
    <3> QED BY <1>14, <3>1, <3>2
  <2>4. cache'[b] \in {NoBuf, disk[b]} /\ \A c \in Blocks : c # b => cache'[c] = cache[c]
    BY <1>f, <1>14, Zenon DEF bread, recycle
  <2>5. \A i \in 1 .. Len(lh) : (Installing => i > tail) => lh[i] # b
    BY <2>3, ZenonT(40) DEF Pending
  <2>6. HeaderInv'
    BY <2>1, <2>2 DEF DataInv, HeaderInv, NoRepeats
  <2>7. CacheInv'
    BY <2>1, <2>2, <2>3, <2>4, ZenonT(40) DEF DataInv, CacheInv
  <2>8. CopyInv'
    <3>1. ASSUME Writing, NEW i \in 1 .. tail PROVE dlog[i] = cache'[lh[i]]
      <4>1. ~Installing /\ i \in 1 .. Len(lh)
        BY <1>t, <3>1, Phases DEF DataInv, HeaderInv
      <4>2. lh[i] \in Blocks
        BY <1>t, <4>1
      <4>3. lh[i] # b
        BY <2>5, <4>1
      <4> QED BY <2>4, <3>1, <4>2, <4>3, ZenonT(40) DEF DataInv, CopyInv
    <3>2. ASSUME Installing, NEW i \in 1 .. Len(lh), i > tail PROVE cache'[lh[i]] = dlog[i]
      <4>a. lh \in Seq(Blocks)
        BY <1>0 DEF TypeOK
      <4>1. lh[i] \in Blocks
        BY <4>a, ElementOfSeq
      <4>2. lh[i] # b
        BY <2>5, <3>2, Zenon
      <4> QED BY <2>4, <3>2, <4>1, <4>2, ZenonT(40) DEF DataInv, CopyInv
    <3>3. \A i \in 1 .. tail : Installing \/ boot = "install" => disk[lh[i]] = dlog[i]
      BY ZenonT(40) DEF DataInv, CopyInv
    <3> QED BY <2>1, <2>2, <3>1, <3>2, <3>3, ZenonT(40) DEF CopyInv
  <2>9. OneHolder' /\ PinInv'
    BY <2>1, <2>2, Zenon DEF DataInv, OneHolder, PinInv, Bit
  <2> QED BY <2>6, <2>7, <2>8, <2>9, Zenon DEF DataInv
<1>15. ASSUME Crash PROVE DataInv'
  <2>1. ~Writing' /\ ~Installing' /\ \A c \in Blocks : ~Held(c)'
    BY LogAssumption, <1>15, ZenonT(40) DEF Crash, Writing, Installing, Held
  <2>2. HeaderInv'
    BY <1>15, <2>1 DEF Crash, DataInv, HeaderInv, NoRepeats, ondisk
  <2>3. CacheInv'
    BY <1>15, <2>1, ZenonT(40) DEF Crash, CacheInv
  <2>4. CopyInv'
    BY <1>15, <2>1, ZenonT(40) DEF Crash, CopyInv
  <2>5. OneHolder' /\ PinInv'
    BY LogAssumption, <1>15, <2>1, ZenonT(40) DEF Crash, OneHolder, PinInv
  <2> QED BY <2>2, <2>3, <2>4, <2>5, ZenonT(40) DEF DataInv
<1>16. CASE UNCHANGED vars
  <2>1. Writing' = Writing /\ Installing' = Installing /\ InOp' = InOp
    BY <1>16 DEF vars, Writing, Installing, InOp
  <2> QED BY <1>16, <2>1, DataFrame, ZenonT(40) DEF vars, DataInv, HeaderInv
<1> QED
  BY <1>1, <1>2, <1>3, <1>4, <1>5, <1>6, <1>7, <1>8, <1>9, <1>10, <1>11, <1>12, <1>13, ZenonT(40),
     <1>14, <1>15, <1>16 DEF Next, EndStep, WriteStep, Recovery

-----------------------------------------------------------------------------
Inv == ReserveInv /\ DataInv

\* The full invariant holds throughout.
THEOREM DataInvariant == ASSUME ~RecycleAfterReplay PROVE Spec => []Inv
<1>1. Init => Inv
  BY ReserveInit, DataInit DEF Inv
<1>2. Inv /\ [Next]_vars => Inv'
  BY ReserveFits, CountStep, ReserveStep, DataStep, Zenon DEF Inv, ReserveInv
<1> QED BY <1>1, <1>2, PTL DEF Spec

\* A block that log_write recorded stays in the cache until it is copied home.
THEOREM LoggedBlocksStayCached ==
  ASSUME ~RecycleAfterReplay PROVE Spec => []LoggedStaysCached
<1>1. Inv => LoggedStaysCached
  <2> SUFFICES ASSUME Inv, boot = "up", NEW i \in 1 .. Len(lh),
                      i > tail \/ (\A p \in Procs : pc[p] # "install")
               PROVE  cache[lh[i]] # NoBuf
    BY DEF LoggedStaysCached
  <2>1. lh[i] \in Blocks
    BY ElementOfSeq DEF Inv, ReserveInv, CountInv, TypeOK
  <2>2. Pending(lh[i])
    BY DEF Pending, Installing
  <2> QED BY <2>1, <2>2 DEF Inv, DataInv, CacheInv
<1> QED BY <1>1, DataInvariant, PTL

\* What recovery makes of a disk with an empty header is that disk.
LEMMA StableWhenErased == ASSUME TypeOK, dhead = <<>> PROVE Stable = disk
<1>1. Entries(dhead) = {}
  BY DEF Entries
<1> QED BY <1>1 DEF Stable, TypeOK

\* With no call open and no commit running, everything is on disk.
THEOREM Durability == ASSUME ~RecycleAfterReplay PROVE Spec => []Durable
<1>1. Inv => Durable
  <2> SUFFICES ASSUME Inv, Running, outstanding = 0, ~committing PROVE Stable = Mem
    BY DEF Durable
  <2>1. TypeOK /\ InOp = {} /\ ~Writing /\ ~Installing /\ boot = "up"
    BY ProcSets, Zenon DEF Inv, ReserveInv, CountInv, Counted, Exclusive, InCommit, InOp,
                    Writing, Installing, Running
  <2>2. lh = <<>> /\ dhead = <<>>
    BY <2>1 DEF Inv, DataInv, HeaderInv
  <2>3. \A b \in Blocks : ~Pending(b) /\ ~Held(b)
    BY <2>1, <2>2, LogAssumption DEF Pending, Held, Inv, ReserveInv, CountInv, Holding, InOp
  <2>4. \A b \in Blocks : Cached(b) = disk[b]
    BY <2>1, <2>3, ZenonT(40) DEF Inv, DataInv, CacheInv, Cached
  <2>5. Stable = disk
    BY <2>1, <2>2, StableWhenErased
  <2> QED BY <2>1, <2>4, <2>5, Zenon DEF Mem, TypeOK
<1> QED BY <1>1, DataInvariant, PTL

\* A home block changes on disk only when the on-disk header names it.
THEOREM WriteAheadRule == ASSUME ~RecycleAfterReplay PROVE Spec => WriteAhead
<1>1. Inv /\ [Next]_vars =>
        [\A b \in Blocks : disk'[b] # disk[b] => b \in Entries(dhead)]_vars
  <2> SUFFICES ASSUME Inv, [Next]_vars, NEW b \in Blocks, disk'[b] # disk[b]
               PROVE  b \in Entries(dhead)
    OBVIOUS
  <2>1. \/ \E p \in Procs : install_trans(p)
        \/ recover_install
    BY ZenonT(40) DEF Next, EndStep, WriteStep, Recovery, begin_op, Modify, log_write_check, log_write,
           end_op, write_log, write_head, erase, finish, read_head, recover_erase, bread,
           recycle, Crash, vars, ondisk
  <2>2. InstallBlock
    BY <2>1 DEF install_trans, recover_install
  <2>3. dhead = lh
    BY <2>1 DEF install_trans, recover_install, Inv, DataInv, HeaderInv, Installing
  <2>4. TypeOK
    BY DEF Inv, ReserveInv, CountInv
  <2>5. tail + 1 \in 1 .. Len(lh) /\ b = lh[tail + 1]
    BY <2>2, <2>4 DEF InstallBlock, TypeOK
  <2> QED BY <2>3, <2>5 DEF Entries
<1> QED BY <1>1, DataInvariant, PTL DEF Spec, WriteAhead

-----------------------------------------------------------------------------
\* A header without repeats gives each of its blocks one position.
LEMMA PosOfEntry ==
  ASSUME NEW s \in Seq(Blocks), NoRepeats(s), NEW i \in 1 .. Len(s)
  PROVE  s[i] \in Entries(s) /\ PosOf(s, s[i]) = i
BY DEF NoRepeats, Entries, PosOf

\* After every block is copied home, what recovery would find is the disk.
LEMMA StableWhenInstalled ==
  ASSUME TypeOK, NoRepeats(dhead), \A i \in 1 .. Len(dhead) : disk[dhead[i]] = dlog[i]
  PROVE  Stable = disk
<1>1. ASSUME NEW b \in Blocks PROVE Stable[b] = disk[b]
  <2>1. CASE b \in Entries(dhead)
    <3>1. PICK i \in 1 .. Len(dhead) : dhead[i] = b
      BY <2>1, ZenonT(40) DEF Entries
    <3>2. PosOf(dhead, b) = i
      BY <3>1, PosOfEntry, Zenon DEF TypeOK
    <3> QED BY <2>1, <3>1, <3>2 DEF Stable
  <2>2. CASE b \notin Entries(dhead)
    BY <2>2 DEF Stable
  <2> QED BY <2>1, <2>2, ZenonT(40)
<1> QED BY <1>1, Zenon DEF Stable, TypeOK

\* A step that leaves the three mapped values alone is a stuttering step.
LEMMA Stutter ==
  ASSUME Stable' = Stable, Mem' = Mem, InOp' = InOp
  PROVE  [AD!Next]_(AD!vars)
BY Zenon DEF AD!vars

\* A step that touches neither the disk, the cache nor boot keeps both mapped states.
LEMMA SameData ==
  ASSUME UNCHANGED <<disk, dlog, dhead, cache, boot>>
  PROVE  Stable' = Stable /\ Mem' = Mem
BY Zenon DEF Stable, Mem, Cached

\* Every step of Log is a step of AtomicDisk or changes nothing there.
LEMMA RefinementStep ==
  ASSUME Inv, Inv', ~RecycleAfterReplay, [Next]_vars
  PROVE  [AD!Next]_(AD!vars)
<1>0. ReserveInv /\ DataInv /\ TypeOK /\ TypeOK'
  BY ZenonT(40) DEF Inv, ReserveInv, CountInv
<1>t. tail \in Nat /\ lh \in Seq(Blocks) /\ dhead \in Seq(Blocks)
  BY <1>0, Zenon DEF TypeOK
<1>f. /\ disk \in [Blocks -> Vals] /\ cache \in [Blocks -> Vals \cup {NoBuf}]
      /\ dlog \in [1 .. LOGSIZE -> Vals] /\ refcnt \in [Blocks -> 0 .. RefMod - 1]
  BY <1>0, Zenon DEF TypeOK
<1>p. held \in [Procs -> Blocks \cup {NoBuf}] /\ DOMAIN pc = Procs
  BY <1>0, Zenon DEF TypeOK
<1>1. ASSUME NEW p \in Procs, begin_op(p) PROVE [AD!Next]_(AD!vars)
  <2>1. Stable' = Stable /\ Mem' = Mem
    BY <1>1, SameData, ZenonT(40) DEF begin_op, ondisk, bufs, sys
  <2>2. InOp' = InOp \/ (p \notin InOp /\ InOp' = InOp \cup {p})
    BY <1>0, <1>1, Zenon DEF begin_op, InOp, TypeOK
  <2>3. CASE p \notin InOp /\ InOp' = InOp \cup {p}
    BY <2>1, <2>3, ZenonT(40) DEF AD!Next, AD!Begin
  <2> QED BY <2>1, <2>2, <2>3, Stutter, Zenon
<1>2. ASSUME NEW p \in Procs, end_op(p) PROVE [AD!Next]_(AD!vars)
  <2>1. Stable' = Stable /\ Mem' = Mem
    BY <1>2, SameData, Zenon DEF end_op, ondisk, bufs
  <2>2. p \in InOp /\ InOp' = InOp \ {p}
    BY <1>0, <1>2, ZenonT(40) DEF end_op, InOp, TypeOK, Woken, CommitEntry
  <2> QED BY <2>1, <2>2, ZenonT(40) DEF AD!Next, AD!End
<1>3. ASSUME NEW p \in Procs, log_write_check(p) \/ log_write(p) \/ finish(p)
      PROVE  [AD!Next]_(AD!vars)
  <2>1. Stable' = Stable /\ Mem' = Mem
    BY <1>3, SameData, Zenon DEF log_write_check, log_write, finish, ondisk, bufs, sys
  <2>2. InOp' = InOp
    BY <1>0, <1>3, ZenonT(40) DEF log_write_check, log_write, finish, InOp, TypeOK, Woken
  <2> QED BY <2>1, <2>2, Stutter, ZenonT(40)
<1>4. ASSUME NEW p \in Procs, NEW b \in Blocks, NEW v \in Vals, Modify(p, b, v)
      PROVE  [AD!Next]_(AD!vars)
  <2>1. UNCHANGED <<disk, dlog, dhead, boot>> /\ boot = "up"
    BY <1>4, Zenon DEF Modify, ondisk, sys, Running
  <2>2. Stable' = Stable
    BY <2>1, ZenonT(40) DEF Stable
  <2>3. InOp' = InOp /\ p \in InOp
    BY <1>p, <1>4, Zenon DEF Modify, InOp
  <2>4. Mem' = [Mem EXCEPT ![b] = v]
    BY LogAssumption, <1>f, <1>4, <2>1, Zenon DEF Modify, Mem, Cached
  <2> QED BY <2>2, <2>3, <2>4, Zenon DEF AD!Next, AD!Write
<1>5. ASSUME NEW p \in Procs, write_log(p) PROVE [AD!Next]_(AD!vars)
  <2>1. Writing /\ ~Installing /\ boot = "up" /\ boot' = boot /\ disk' = disk /\ dhead' = dhead
        /\ pc' = pc
    BY <1>0, <1>5, Phases, ZenonT(40) DEF write_log, Writing, Installing, procstate, sys
  <2>2. dhead = <<>>
    BY <1>0, <2>1, ZenonT(40) DEF DataInv, HeaderInv
  <2>3. Stable' = Stable
    BY <2>1, <2>2 DEF Stable, Entries
  <2>a. /\ cache' = [cache EXCEPT ![lh[tail + 1]] = Cached(lh[tail + 1])]
        /\ lh[tail + 1] \in Blocks
    <3>1. /\ tail < Len(lh)
          /\ cache' = [cache EXCEPT ![lh[tail + 1]] = Cached(lh[tail + 1])]
      BY <1>5, ZenonT(40) DEF write_log
    <3>2. lh \in Seq(Blocks) /\ tail \in Nat
      BY <1>0 DEF TypeOK
    <3> QED BY <3>1, <3>2
  <2>4. ASSUME NEW c \in Blocks PROVE Cached(c)' = Cached(c)
    <3>1. CASE c = lh[tail + 1]
      <4>1. cache'[c] = Cached(c)
        BY <1>f, <2>a, <3>1, Zenon
      <4>2. Cached(c) # NoBuf \/ Cached(c) = disk[c]
        BY ZenonT(40) DEF Cached
      <4> QED BY <2>1, <4>1, <4>2, ZenonT(40) DEF Cached
    <3>2. CASE c # lh[tail + 1]
      BY <1>f, <2>1, <2>a, <3>2, Zenon DEF Cached
    <3> QED BY <3>1, <3>2
  <2>5. InOp' = InOp
    BY <2>1 DEF InOp
  <2> QED BY <2>1, <2>3, <2>4, <2>5, Stutter, ZenonT(40) DEF Mem
<1>6. ASSUME NEW p \in Procs, write_head(p) PROVE [AD!Next]_(AD!vars)
  <2>1. Writing /\ ~Installing /\ boot = "up" /\ InOp = {} /\ \A c \in Blocks : ~Held(c)
    BY <1>0, <1>6, Phases, ZenonT(40) DEF write_head, Writing
  <2>2. /\ UNCHANGED <<disk, dlog, cache, lh, boot>>
        /\ dhead' = lh /\ tail = Len(lh)
    BY <1>6, ZenonT(40) DEF write_head, bufs, logstate, sys
  <2>3. InOp' = {}
    BY <1>6, <2>1 DEF write_head, InOp
  <2>4. Mem' = Mem
    BY <2>1, <2>2, Zenon DEF Mem, Cached
  <2>5. ASSUME NEW b \in Blocks PROVE Stable'[b] = Cached(b)
    <3>1. CASE b \in Entries(lh)
      <4>1. PICK i \in 1 .. Len(lh) : lh[i] = b
        BY <3>1, ZenonT(40) DEF Entries
      <4>2. PosOf(lh, b) = i
        BY <1>0, <1>t, <4>1, PosOfEntry, Zenon DEF DataInv, HeaderInv
      <4>3. dlog[i] = cache[b]
        BY <1>0, <2>1, <2>2, <4>1, ZenonT(40) DEF DataInv, CopyInv
      <4>4. Pending(b)
        BY <2>1, <4>1, ZenonT(40) DEF Pending
      <4>5. cache[b] # NoBuf
        BY <1>0, <2>1, <4>4, Zenon DEF DataInv, CacheInv
      <4> QED BY <2>2, <3>1, <4>2, <4>3, <4>5, ZenonT(40) DEF Stable, Cached
    <3>2. CASE b \notin Entries(lh)
      <4>1. ~Pending(b)
        BY <3>2, Zenon DEF Pending, Entries
      <4>2. Cached(b) = disk[b]
        BY <1>0, <2>1, <4>1, Zenon DEF DataInv, CacheInv, Cached
      <4> QED BY <2>2, <3>2, <4>2, Zenon DEF Stable
    <3> QED BY <3>1, <3>2, Zenon
  <2>6. Stable' = Mem
    BY <2>1, <2>5, Zenon DEF Stable, Mem
  <2> QED BY <2>1, <2>3, <2>4, <2>6, ZenonT(40) DEF AD!Next, AD!Commit
<1>7. ASSUME NEW p \in Procs, install_trans(p) PROVE [AD!Next]_(AD!vars)
  <2>1. Installing /\ boot = "up" /\ boot' = boot /\ dhead' = dhead /\ dlog' = dlog /\ pc' = pc
    BY <1>0, <1>7, Phases, Zenon DEF install_trans, Installing, procstate, sys
  <2>2. PICK b \in Blocks : b = lh[tail + 1] /\ tail + 1 \in 1 .. Len(lh)
    <3>1. tail < Len(lh)
      BY <1>7, Zenon DEF install_trans, InstallBlock
    <3>2. lh \in Seq(Blocks) /\ tail \in Nat
      BY <1>0 DEF TypeOK
    <3> QED BY <3>1, <3>2
  <2>3. /\ disk' = [disk EXCEPT ![b] = dlog[tail + 1]]
        /\ cache' = [cache EXCEPT ![b] = dlog[tail + 1]]
    BY <1>7, <2>2, Zenon DEF install_trans, InstallBlock
  <2>4. dhead = lh /\ b \in Entries(dhead)
    BY <1>0, <2>1, <2>2, ZenonT(40) DEF DataInv, HeaderInv, Entries
  <2>5. Stable' = Stable
    BY <2>1, <2>3, <2>4 DEF Stable
  <2>6. cache[b] = dlog[tail + 1] /\ cache[b] # NoBuf
    <3>1. tail + 1 > tail
      BY <1>0 DEF TypeOK
    <3>2. Pending(b)
      BY <2>2, <3>1, Zenon DEF Pending
    <3> QED BY <1>0, <2>1, <2>2, <3>1, <3>2, ZenonT(40) DEF DataInv, CopyInv, CacheInv
  <2>7. ASSUME NEW c \in Blocks PROVE Cached(c)' = Cached(c)
    <3>1. CASE c = b
      BY <1>f, <2>3, <2>6, <3>1, Zenon DEF Cached
    <3>2. CASE c # b
      BY <1>f, <2>3, <3>2, Zenon DEF Cached
    <3> QED BY <3>1, <3>2, Zenon
  <2>8. InOp' = InOp
    BY <2>1, ZenonT(40) DEF InOp
  <2> QED BY <2>1, <2>5, <2>7, <2>8, Stutter, ZenonT(40) DEF Mem
<1>8. ASSUME NEW p \in Procs, erase(p) PROVE [AD!Next]_(AD!vars)
  <2>1. Installing /\ boot = "up"
    BY <1>0, <1>8, Phases, ZenonT(40) DEF erase, Installing
  <2>2. UNCHANGED <<disk, dlog, cache, boot>> /\ dhead' = <<>> /\ tail = Len(lh)
    BY <1>8, ZenonT(40) DEF erase, EraseLog, bufs, sys
  <2>3. NoRepeats(dhead) /\ \A i \in 1 .. Len(dhead) : disk[dhead[i]] = dlog[i]
    BY <1>0, <2>1, <2>2, Zenon DEF DataInv, HeaderInv, CopyInv
  <2>4. Stable = disk
    BY <1>0, <2>3, StableWhenInstalled, Zenon
  <2>5. Stable' = disk'
    BY <1>f, <2>2 DEF Stable, Entries
  <2>6. Mem' = Mem
    BY <2>1, <2>2, Zenon DEF Mem, Cached
  <2>7. InOp' = InOp
    BY <1>8 DEF erase, InOp
  <2> QED BY <2>2, <2>4, <2>5, <2>6, <2>7, Stutter, Zenon
<1>9. ASSUME read_head \/ recover_install PROVE [AD!Next]_(AD!vars)
  <2>1. boot # "up" /\ boot' # "up" /\ dhead' = dhead /\ dlog' = dlog /\ pc' = pc
    BY <1>9 DEF read_head, recover_install, ondisk, procstate, sys
  <2>2. Stable' = Stable
    <3>1. CASE read_head
      BY <3>1, ZenonT(40) DEF read_head, ondisk, Stable
    <3>2. CASE recover_install
      <4>1. PICK b \in Blocks : b = lh[tail + 1] /\ tail + 1 \in 1 .. Len(lh)
        <5>1. tail < Len(lh)
          BY <3>2, Zenon DEF recover_install, InstallBlock
        <5>2. lh \in Seq(Blocks) /\ tail \in Nat
          BY <1>0, Zenon DEF TypeOK
        <5> QED BY <5>1, <5>2
      <4>2. disk' = [disk EXCEPT ![b] = dlog[tail + 1]]
        BY <3>2, <4>1, Zenon DEF recover_install, InstallBlock
      <4>3. b \in Entries(dhead)
        BY <1>0, <3>2, <4>1, ZenonT(40) DEF recover_install, DataInv, HeaderInv, Entries
      <4> QED BY <1>f, <2>1, <4>2, <4>3, ZenonT(40) DEF Stable
    <3> QED BY <1>9, <3>1, <3>2, Zenon
  <2>3. Mem' = Mem /\ InOp' = InOp
    BY <2>1, <2>2 DEF Mem, InOp
  <2> QED BY <2>2, <2>3, Stutter, Zenon
<1>10. ASSUME recover_erase PROVE [AD!Next]_(AD!vars)
  <2>1. UNCHANGED <<disk, dlog, cache, pc>> /\ dhead' = <<>> /\ tail = Len(lh)
        /\ boot = "install" /\ boot' = "up"
    BY <1>10, Zenon DEF recover_erase, EraseLog, bufs, procstate
  <2>2. NoRepeats(dhead) /\ \A i \in 1 .. Len(dhead) : disk[dhead[i]] = dlog[i]
    BY <1>0, <2>1, Zenon DEF DataInv, HeaderInv, CopyInv
  <2>3. Stable = disk
    BY <1>0, <2>2, StableWhenInstalled, ZenonT(40)
  <2>4. Stable' = disk
    BY <1>f, <2>1 DEF Stable, Entries
  <2>5. \A b \in Blocks : Cached(b)' = disk[b]
    BY <1>0, <2>1, ZenonT(40) DEF DataInv, CacheInv, Cached
  <2>6. Mem' = disk /\ Mem = Stable
    BY <1>f, <2>1, <2>5, Zenon DEF Mem
  <2>7. InOp' = InOp
    BY <2>1 DEF InOp
  <2> QED BY <2>3, <2>4, <2>6, <2>7, Stutter, ZenonT(40)
<1>11. ASSUME NEW b \in Blocks, bread(b) \/ recycle(b) PROVE [AD!Next]_(AD!vars)
  <2>1. UNCHANGED <<disk, dlog, dhead, pc, boot>> /\ boot = "up"
    BY <1>11, ZenonT(40) DEF bread, recycle, Running, ondisk, procstate, sys
  <2>2. Stable' = Stable
    BY <2>1, Zenon DEF Stable
  <2>3. Cached(b)' = disk[b] /\ \A c \in Blocks : c # b => Cached(c)' = Cached(c)
    BY <1>f, <1>11, <2>1, Zenon DEF bread, recycle, Cached
  <2>4. Cached(b) = disk[b]
    <3>1. CASE bread(b)
      BY <3>1 DEF bread, Cached
    <3>2. CASE recycle(b)
      <4>1. ~replayed /\ refcnt[b] = 0
        BY <3>2, ZenonT(40) DEF recycle
      <4>2. ~Pending(b) /\ ~Held(b)
        BY <1>0, <2>1, <4>1 DEF DataInv, PinInv, Bit
      <4> QED BY <1>0, <2>1, <4>2, Zenon DEF DataInv, CacheInv, Cached
    <3> QED BY <1>11, <3>1, <3>2, Zenon
  <2>5. Mem' = Mem
    BY <2>1, <2>3, <2>4, ZenonT(40) DEF Mem
  <2>6. InOp' = InOp
    BY <2>1, ZenonT(40) DEF InOp
  <2> QED BY <2>2, <2>5, <2>6, Stutter, Zenon
<1>12. ASSUME Crash PROVE [AD!Next]_(AD!vars)
  <2>1. Stable' = Stable /\ boot' # "up" /\ InOp' = {}
    BY <1>12, Zenon DEF Crash, Stable, InOp, ondisk
  <2> QED BY <2>1 DEF Mem, AD!Next, AD!Crash
<1>13. CASE UNCHANGED vars
  <2>1. Stable' = Stable /\ Mem' = Mem
    BY <1>13, SameData, ZenonT(40) DEF vars
  <2>2. InOp' = InOp
    BY <1>13 DEF vars, InOp
  <2> QED BY <2>1, <2>2, Stutter, Zenon
<1> QED
  BY <1>1, <1>2, <1>3, <1>4, <1>5, <1>6, <1>7, <1>8, <1>9, <1>10, <1>11, <1>12, <1>13, ZenonT(40)
  DEF Next, EndStep, WriteStep, Recovery

\* Log implements AtomicDisk: commits are atomic and survive any crash.
THEOREM LogIsAtomic == ASSUME ~RecycleAfterReplay PROVE Spec => AtomicCommit
<1>1. Init => AD!Init
  <2> SUFFICES ASSUME Init PROVE AD!Init
    BY Zenon
  <2>1. TypeOK /\ dhead = <<>> /\ boot # "up" /\ InOp = {}
    BY CountInit DEF CountInv, Init, InOp
  <2>2. Stable = disk
    BY <2>1, StableWhenErased
  <2> QED BY <2>1, <2>2 DEF AD!Init, Mem, TypeOK
<1>2. Inv /\ Inv' /\ [Next]_vars => [AD!Next]_(AD!vars)
  BY RefinementStep
<1> QED BY <1>1, <1>2, DataInvariant, PTL DEF Spec, AtomicCommit, AD!Spec
=============================================================================
