----------------------------- MODULE LogProofs ------------------------------
(***************************************************************************)
(* Proofs about Log that hold for every number of processes, blocks and    *)
(* contents, and for every log size: types, what log.outstanding counts,   *)
(* who can be committing, and the arithmetic of begin_op's reservation.    *)
(***************************************************************************)
EXTENDS Log, TLAPS, FiniteSetTheorems, SequenceTheorems

(***************************************************************************)
(* The inductive invariant, in parts.                                      *)
(***************************************************************************)
\* log.outstanding counts the calls between begin_op and end_op.
Counted == outstanding = Cardinality(InOp)

\* Commit is exclusive: it excludes open calls and other committers, and
\* nothing runs before recovery is over.
Exclusive ==
  /\ committing <=> InCommit # {}
  /\ committing => InOp = {}
  /\ \A p, q \in InCommit : p = q
  /\ boot # "up" => \A p \in Procs : pc[p] = "idle"

\* A call holds a buffer exactly between bread and brelse.
Holding == \A p \in Procs : pc[p] \in {"buf", "append"} <=> held[p] \in Blocks

\* What the open calls may still append: one pair per block each may yet write.
Budget ==
  {x \in Procs \X (1 .. OpBlocks) : x[1] \in InOp /\ x[2] > Cardinality(wrote[x[1]])}

Cap == LOGSIZE - (MAXOPBLOCKS - OpBlocks)

\* The blocks a call has written are in the log, and it stays within OpBlocks.
WithinOp ==
  \A p \in InOp :
    /\ IsFiniteSet(wrote[p])
    /\ Cardinality(wrote[p]) <= OpBlocks
    /\ wrote[p] \subseteq Entries(lh)
    /\ pc[p] \in {"buf", "append"} =>
         held[p] \in Blocks /\ Cardinality(wrote[p] \cup {held[p]}) <= OpBlocks

\* What is logged plus what may still be logged fits.
Reserved ==
  /\ (lh # <<>> \/ InOp # {}) => Len(lh) + Cardinality(Budget) <= Cap
  /\ dhead # <<>> => Len(dhead) <= Cap
  /\ boot = "read_head" => lh = <<>>

CountInv == TypeOK /\ Counted /\ Exclusive /\ Holding
ReserveInv == CountInv /\ WithinOp /\ Reserved

-----------------------------------------------------------------------------
\* Counting a buffer's references modulo RefMod stays within its type.
LEMMA RefTypes ==
  ASSUME NEW n \in 0 .. RefMod - 1
  PROVE  RefInc(n) \in 0 .. RefMod - 1 /\ RefDec(n) \in 0 .. RefMod - 1
BY LogAssumption DEF RefInc, RefDec

\* Sets of processes are finite.
LEMMA ProcSets ==
  ASSUME NEW S \in SUBSET Procs
  PROVE  IsFiniteSet(S) /\ Cardinality(S) \in Nat
         /\ (Cardinality(S) = 0 <=> S = {})
BY LogAssumption, FS_Subset, FS_CardinalityType, FS_EmptySet

\* The initial state satisfies the counting invariant.
LEMMA CountInit == Init => CountInv
<1> SUFFICES ASSUME Init PROVE CountInv
  OBVIOUS
<1>0. dlog \in [1 .. LOGSIZE -> Vals] /\ <<>> \in Seq(Blocks)
  <2>1. PICK v \in Vals : dlog = [i \in 1 .. LOGSIZE |-> v]
    BY DEF Init
  <2> QED BY <2>1, EmptySeq
<1>a. 0 \in 0 .. RefMod - 1
  BY LogAssumption
<1>b. cache \in [Blocks -> Vals \cup {NoBuf}] /\ refcnt \in [Blocks -> 0 .. RefMod - 1]
  BY <1>a DEF Init
<1>1. TypeOK
  BY <1>0, <1>b, Zenon DEF Init, TypeOK
<1>2. InOp = {} /\ InCommit = {}
  BY DEF Init, InOp, InCommit
<1>3. Counted
  BY <1>2, FS_EmptySet DEF Counted, Init
<1> QED BY <1>1, <1>2, <1>3, LogAssumption DEF CountInv, Exclusive, Holding, Init

\* No step of the log disturbs types, the count of open calls or exclusion, as
\* long as the logged blocks fit the header.
LEMMA CountStep == CountInv /\ HeaderFits /\ [Next]_vars => CountInv'
<1> SUFFICES ASSUME CountInv, HeaderFits, [Next]_vars PROVE CountInv'
  OBVIOUS
<1> USE DEF CountInv
<1>0. InOp \in SUBSET Procs /\ InCommit \in SUBSET Procs
  BY DEF InOp, InCommit
<1>1. ASSUME NEW p \in Procs, begin_op(p) PROVE CountInv'
  <2>1. CASE HasRoom /\ outstanding' = outstanding + 1 /\ pc' = [pc EXCEPT ![p] = "op"]
             /\ wrote' = [wrote EXCEPT ![p] = {}]
    <3>1. InOp' = InOp \cup {p} /\ p \notin InOp /\ InCommit' = InCommit
      BY <1>1, <2>1, ZenonT(40) DEF begin_op, InOp, InCommit, TypeOK
    <3>2. Cardinality(InOp \cup {p}) = Cardinality(InOp) + 1
      BY <1>0, <3>1, ProcSets, FS_AddElement
    <3>3. TypeOK'
      BY <1>1, <2>1 DEF begin_op, TypeOK, ondisk, bufs, sys
    <3>4. Holding'
      BY <1>1, <2>1 DEF begin_op, Holding, TypeOK
    <3> QED BY <1>1, <2>1, <3>1, <3>2, <3>3, <3>4, Zenon
            DEF begin_op, HasRoom, Running, Counted, Exclusive, InCommit, TypeOK, sys
  <2>2. CASE pc' = [pc EXCEPT ![p] = "sleep"] /\ UNCHANGED <<outstanding, wrote>>
    <3>1. InOp' = InOp /\ InCommit' = InCommit
      BY <1>1, <2>2 DEF begin_op, InOp, InCommit, TypeOK
    <3>2. TypeOK'
      BY <1>1, <2>2 DEF begin_op, TypeOK, ondisk, bufs, sys
    <3>3. Holding'
      BY <1>1, <2>2 DEF begin_op, Holding, TypeOK
    <3> QED BY <1>1, <2>2, <3>1, <3>2, <3>3, Zenon DEF begin_op, Running, Counted, Exclusive, sys
  <2> QED BY <1>1, <2>1, <2>2, Zenon DEF begin_op
<1>2. ASSUME NEW p \in Procs, NEW b \in Blocks, NEW v \in Vals, Modify(p, b, v)
      PROVE  CountInv'
  <2>1. InOp' = InOp /\ InCommit' = InCommit
    BY <1>2 DEF Modify, InOp, InCommit, TypeOK
  <2>2. TypeOK'
    BY <1>2, RefTypes, Zenon DEF Modify, TypeOK, ondisk, logstate, sys
  <2>3. Holding'
    BY <1>2 DEF Modify, Holding, TypeOK
  <2> QED BY <1>2, <2>1, <2>2, <2>3, ZenonT(40) DEF Modify, Running, Counted, Exclusive, logstate, sys
<1>3. ASSUME NEW p \in Procs, log_write_check(p) PROVE CountInv'
  <2>1. InOp' = InOp /\ InCommit' = InCommit
    BY <1>3, Zenon DEF log_write_check, InOp, InCommit, TypeOK
  <2>2. TypeOK'
    BY <1>3, Zenon DEF log_write_check, TypeOK, ondisk, bufs, logstate
  <2>3. Holding'
    BY <1>3 DEF log_write_check, Holding, TypeOK
  <2> QED BY <1>3, <2>1, <2>2, <2>3
          DEF log_write_check, Running, Counted, Exclusive, logstate
<1>4. ASSUME NEW p \in Procs, log_write(p) PROVE CountInv'
  <2>1. InOp' = InOp /\ InCommit' = InCommit
    BY <1>4, Zenon DEF log_write, InOp, InCommit, TypeOK
  <2>2. held[p] \in Blocks
    BY <1>4 DEF log_write, Holding
  <2>3. lh' \in Seq(Blocks)
    BY <1>4, <2>2 DEF log_write, TypeOK
  <2>4. refcnt' \in [Blocks -> 0 .. RefMod - 1]
    BY <1>4, <2>2, RefTypes, Zenon DEF log_write, TypeOK, RefAfterLogWrite
  <2>5. TypeOK'
    BY <1>4, <2>2, <2>3, <2>4, Zenon DEF log_write, TypeOK, ondisk, sys
  <2>6. Holding'
    BY LogAssumption, <1>4, Zenon DEF log_write, Holding, TypeOK
  <2> QED BY <1>4, <2>1, <2>5, <2>6 DEF log_write, Running, Counted, Exclusive, sys
<1>5. ASSUME NEW p \in Procs, end_op(p) PROVE CountInv'
  <2>1. InOp' = InOp \ {p} /\ p \in InOp
    BY <1>5, Zenon DEF end_op, InOp, TypeOK, Woken, CommitEntry
  <2>2. Cardinality(InOp \ {p}) = Cardinality(InOp) - 1
    BY <1>0, <2>1, ProcSets, FS_RemoveElement
  <2>3. outstanding \in Nat \ {0} /\ ~committing
    BY <1>0, <2>1, ProcSets DEF Counted, Exclusive
  <2>a. CommitEntry \in {"finish", "write_log"}
    BY DEF CommitEntry
  <2>b. pc' \in [Procs -> {"idle", "begin", "sleep", "op", "buf", "append",
                           "write_log", "install", "finish"}]
    BY <1>5, <2>a, ZenonT(40) DEF end_op, TypeOK, Woken
  <2>c. panicked' \in BOOLEAN /\ committing' \in BOOLEAN
    BY <1>5, Zenon DEF end_op, TypeOK
  <2>4. TypeOK'
    BY <1>5, <2>3, <2>b, <2>c DEF end_op, TypeOK, ondisk, bufs
  <2>5. Holding'
    BY <1>5, Zenon DEF end_op, Holding, TypeOK, Woken, CommitEntry
  <2>6. CASE outstanding = 1
    <3>1. InCommit' = InCommit \cup {p} /\ InOp' = {}
      <4>1. pc' = [pc EXCEPT ![p] = CommitEntry]
        BY <1>5, <2>6 DEF end_op
      <4>2. InCommit' = InCommit \cup {p}
        BY <4>1, <2>a DEF InCommit, TypeOK
      <4> QED BY <1>0, <2>1, <2>2, <2>6, <4>2, ProcSets DEF Counted
    <3> QED BY <1>5, <2>1, <2>2, <2>3, <2>4, <2>5, <2>6, <3>1
            DEF end_op, Running, Counted, Exclusive
  <2>7. CASE outstanding # 1
    <3>1. InCommit' = InCommit
      BY <1>5, <2>7, Zenon DEF end_op, InCommit, TypeOK, Woken
    <3> QED BY <1>5, <2>1, <2>2, <2>3, <2>4, <2>5, <2>7, <3>1
            DEF end_op, Running, Counted, Exclusive
  <2> QED BY <2>6, <2>7
<1>6. ASSUME NEW p \in Procs, write_log(p) PROVE CountInv'
  <2>1. InOp' = InOp /\ InCommit' = InCommit
    BY <1>6 DEF write_log, InOp, InCommit, procstate
  <2>2. lh[tail + 1] \in Blocks /\ Cached(lh[tail + 1]) \in Vals
    BY <1>6 DEF write_log, TypeOK, Cached
  <2>a. dlog' = [dlog EXCEPT ![tail + 1] = Cached(lh[tail + 1])]
        /\ cache' = [cache EXCEPT ![lh[tail + 1]] = Cached(lh[tail + 1])]
        /\ tail' = tail + 1
    BY <1>6 DEF write_log
  <2>b. dlog' \in [1 .. LOGSIZE -> Vals]
    BY <2>2, <2>a, Zenon DEF TypeOK
  <2>c. cache' \in [Blocks -> Vals \cup {NoBuf}] /\ tail' \in Nat
    BY <2>2, <2>a DEF TypeOK
  <2>3. TypeOK'
    BY <1>6, <2>b, <2>c DEF write_log, TypeOK, procstate, logstate, sys
  <2> QED BY <1>6, <2>1, <2>3
          DEF write_log, Counted, Exclusive, Holding, procstate, logstate, sys
<1>7. ASSUME NEW p \in Procs, write_head(p) PROVE CountInv'
  <2>1. InOp' = InOp /\ InCommit' = InCommit
    BY <1>7 DEF write_head, InOp, InCommit, TypeOK
  <2>2. TypeOK'
    BY <1>7 DEF write_head, TypeOK, bufs, logstate, sys
  <2>3. Holding'
    BY <1>7, Zenon DEF write_head, Holding, TypeOK
  <2> QED BY <1>7, <2>1, <2>2, <2>3
          DEF write_head, Running, Counted, Exclusive, logstate, sys
<1>8. InstallBlock =>
        /\ disk' \in [Blocks -> Vals] /\ cache' \in [Blocks -> Vals \cup {NoBuf}]
        /\ refcnt' \in [Blocks -> 0 .. RefMod - 1] /\ tail' \in Nat
  <2> SUFFICES ASSUME InstallBlock
               PROVE  /\ disk' \in [Blocks -> Vals] /\ cache' \in [Blocks -> Vals \cup {NoBuf}]
                      /\ refcnt' \in [Blocks -> 0 .. RefMod - 1] /\ tail' \in Nat
    OBVIOUS
  <2>1. lh[tail + 1] \in Blocks /\ dlog[tail + 1] \in Vals
    BY LogAssumption DEF InstallBlock, TypeOK, HeaderFits
  <2>2. RefDec(refcnt[lh[tail + 1]]) \in 0 .. RefMod - 1
    BY <2>1, RefTypes, ZenonT(40) DEF TypeOK
  <2>3. /\ disk' = [disk EXCEPT ![lh[tail + 1]] = dlog[tail + 1]]
        /\ cache' = [cache EXCEPT ![lh[tail + 1]] = dlog[tail + 1]]
        /\ refcnt' = [refcnt EXCEPT ![lh[tail + 1]] = RefDec(refcnt[lh[tail + 1]])]
        /\ tail' = tail + 1
    BY Zenon DEF InstallBlock
  <2> QED BY <2>1, <2>2, <2>3 DEF TypeOK
<1>9. ASSUME NEW p \in Procs, install_trans(p) PROVE CountInv'
  <2>1. InOp' = InOp /\ InCommit' = InCommit
    BY <1>9 DEF install_trans, InOp, InCommit, procstate
  <2>2. TypeOK'
    BY <1>8, <1>9 DEF install_trans, TypeOK, procstate, logstate, sys
  <2> QED BY <1>9, <2>1, <2>2
          DEF install_trans, Counted, Exclusive, Holding, procstate, logstate, sys
<1>10. ASSUME NEW p \in Procs, erase(p) PROVE CountInv'
  <2>1. InOp' = InOp /\ InCommit' = InCommit
    BY <1>10 DEF erase, InOp, InCommit, TypeOK
  <2>2. TypeOK'
    BY <1>10, EmptySeq DEF erase, EraseLog, TypeOK, bufs, sys
  <2>3. Holding'
    BY <1>10, Zenon DEF erase, Holding, TypeOK
  <2> QED BY <1>10, <2>1, <2>2, <2>3
          DEF erase, Running, Counted, Exclusive, sys
<1>11. ASSUME NEW p \in Procs, finish(p) PROVE CountInv'
  <2>1. InOp' = InOp /\ InCommit' = {}
    BY <1>11 DEF finish, InOp, InCommit, TypeOK, Woken, Exclusive
  <2>2. TypeOK'
    BY <1>11, Zenon DEF finish, TypeOK, ondisk, bufs, sys, Woken
  <2>3. Holding'
    BY <1>11, Zenon DEF finish, Holding, TypeOK, Woken
  <2> QED BY <1>11, <2>1, <2>2, <2>3, ZenonT(40)
          DEF finish, Running, Counted, Exclusive, sys
<1>12. ASSUME read_head PROVE CountInv'
  <2>1. InOp' = InOp /\ InCommit' = InCommit
    BY <1>12 DEF read_head, InOp, InCommit, procstate
  <2>2. replayed' \in BOOLEAN
    BY <1>12, Zenon DEF read_head
  <2>3. TypeOK'
    BY <1>12, <2>2, ZenonT(40) DEF read_head, TypeOK, ondisk, bufs, procstate
  <2> QED BY <1>12, <2>1, <2>3
          DEF read_head, Counted, Exclusive, Holding, procstate
<1>13. ASSUME recover_install PROVE CountInv'
  <2>1. InOp' = InOp /\ InCommit' = InCommit
    BY <1>13 DEF recover_install, InOp, InCommit, procstate
  <2>2. TypeOK'
    BY <1>8, <1>13, ZenonT(40) DEF recover_install, TypeOK, procstate, logstate, sys
  <2> QED BY <1>13, <2>1, <2>2
          DEF recover_install, Counted, Exclusive, Holding, procstate, logstate, sys
<1>14. ASSUME recover_erase PROVE CountInv'
  <2>1. InOp' = InOp /\ InCommit' = InCommit
    BY <1>14 DEF recover_erase, InOp, InCommit, procstate
  <2>2. TypeOK'
    BY <1>14, EmptySeq, Zenon DEF recover_erase, EraseLog, TypeOK, bufs, procstate
  <2> QED BY <1>14, <2>1, <2>2
          DEF recover_erase, Counted, Exclusive, Holding, procstate
<1>15. ASSUME NEW b \in Blocks, bread(b) \/ recycle(b) PROVE CountInv'
  <2>1. InOp' = InOp /\ InCommit' = InCommit
    BY <1>15 DEF bread, recycle, InOp, InCommit, procstate
  <2>2. TypeOK'
    BY <1>15, Zenon DEF bread, recycle, TypeOK, ondisk, logstate, procstate, sys
  <2> QED BY <1>15, <2>1, <2>2
          DEF bread, recycle, Counted, Exclusive, Holding, procstate, logstate, sys
<1>16. ASSUME Crash PROVE CountInv'
  <2>1. InOp' = {} /\ InCommit' = {}
    BY <1>16 DEF Crash, InOp, InCommit
  <2>a. 0 \in 0 .. RefMod - 1 /\ <<>> \in Seq(Blocks)
    BY LogAssumption, EmptySeq
  <2>b. /\ cache' \in [Blocks -> Vals \cup {NoBuf}]
        /\ refcnt' \in [Blocks -> 0 .. RefMod - 1]
        /\ held' \in [Procs -> Blocks \cup {NoBuf}]
        /\ wrote' \in [Procs -> SUBSET Blocks]
    BY <1>16, <2>a DEF Crash
  <2>c. committing' \in BOOLEAN /\ replayed' \in BOOLEAN /\ panicked' \in BOOLEAN
    BY <1>16, Zenon DEF Crash
  <2>2. TypeOK'
    BY <1>16, <2>a, <2>b, <2>c DEF Crash, TypeOK, ondisk
  <2> QED BY LogAssumption, <1>16, <2>1, <2>2, FS_EmptySet, Zenon DEF Crash, Counted, Exclusive, Holding
<1>17. CASE UNCHANGED vars
  <2>1. InOp' = InOp /\ InCommit' = InCommit
    BY <1>17 DEF InOp, InCommit, vars
  <2> QED BY <1>17, <2>1 DEF TypeOK, Counted, Exclusive, Holding, vars
<1> QED
  BY <1>1, <1>2, <1>3, <1>4, <1>5, <1>6, <1>7, <1>9, <1>10, <1>11, <1>12, <1>13, ZenonT(40),
     <1>14, <1>15, <1>16, <1>17 DEF Next, EndStep, WriteStep, Recovery

-----------------------------------------------------------------------------
\* A set of (process, index) pairs is no larger than OpBlocks per process.
LEMMA BudgetBound ==
  ASSUME NEW S \in SUBSET Procs, NEW B \in SUBSET (S \X (1 .. OpBlocks))
  PROVE  /\ IsFiniteSet(B) /\ Cardinality(B) \in Nat
         /\ Cardinality(B) <= Cardinality(S) * OpBlocks
<1>1. IsFiniteSet(S) /\ Cardinality(S) \in Nat
  BY ProcSets
<1>2. IsFiniteSet(1 .. OpBlocks) /\ Cardinality(1 .. OpBlocks) = OpBlocks
  BY LogAssumption, FS_Interval
<1>3. IsFiniteSet(S \X (1 .. OpBlocks))
      /\ Cardinality(S \X (1 .. OpBlocks)) = Cardinality(S) * OpBlocks
  BY <1>1, <1>2, FS_Product, Zenon
<1>4. IsFiniteSet(B) /\ Cardinality(B) <= Cardinality(S \X (1 .. OpBlocks))
  BY <1>3, FS_Subset
<1> QED BY <1>3, <1>4, FS_CardinalityType

\* The budget belongs to the open calls, and is finite.
LEMMA BudgetType ==
  /\ Budget \in SUBSET (InOp \X (1 .. OpBlocks))
  /\ IsFiniteSet(Budget) /\ Cardinality(Budget) \in Nat
<1>1. InOp \in SUBSET Procs /\ Budget \in SUBSET (InOp \X (1 .. OpBlocks))
  BY DEF Budget, InOp
<1> QED BY <1>1, BudgetBound

\* The reservation keeps the logged blocks within the header array.
LEMMA ReserveFits == ReserveInv => HeaderFits
<1> SUFFICES ASSUME ReserveInv PROVE Len(lh) <= LOGSIZE
  BY DEF HeaderFits
<1>1. CASE lh = <<>>
  BY <1>1, LogAssumption
<1>2. CASE lh # <<>>
  BY <1>2, BudgetType, LogAssumption DEF ReserveInv, CountInv, TypeOK, Reserved, Cap
<1> QED BY <1>1, <1>2

\* The initial state satisfies the reservation invariant.
LEMMA ReserveInit == Init => ReserveInv
BY CountInit DEF ReserveInv, WithinOp, Reserved, Init, InOp

\* Reserving MAXOPBLOCKS for each of k + 1 calls that write OpBlocks leaves a
\* margin of MAXOPBLOCKS - OpBlocks at least.
LEMMA Margin ==
  ASSUME NEW k \in Nat, NEW n \in Nat, NEW c \in Nat,
         n + (k + 1) * MAXOPBLOCKS <= LOGSIZE, c <= (k + 1) * OpBlocks
  PROVE  n + c <= Cap
<1>1. PICK d \in Nat : MAXOPBLOCKS = OpBlocks + d
  <2>1. MAXOPBLOCKS - OpBlocks \in Nat /\ MAXOPBLOCKS = OpBlocks + (MAXOPBLOCKS - OpBlocks)
    BY LogAssumption
  <2> QED BY <2>1
<1>2. (k + 1) * MAXOPBLOCKS = (k + 1) * OpBlocks + (k + 1) * d
  BY <1>1, LogAssumption
<1>3. (k + 1) * d = k * d + d /\ k * d \in Nat
  BY <1>1
<1>4. (k + 1) * OpBlocks \in Nat
  BY LogAssumption
<1> QED BY <1>1, <1>2, <1>3, <1>4, LogAssumption DEF Cap

\* Every step preserves the reservation invariant.
LEMMA ReserveStep == ReserveInv /\ CountInv' /\ [Next]_vars => ReserveInv'
<1> SUFFICES ASSUME ReserveInv, CountInv', [Next]_vars PROVE WithinOp' /\ Reserved'
  BY DEF ReserveInv
<1> USE DEF ReserveInv, CountInv
<1>0. InOp \in SUBSET Procs
  BY DEF InOp
<1>1. ASSUME NEW p \in Procs, begin_op(p) PROVE WithinOp' /\ Reserved'
  <2>1. CASE HasRoom /\ outstanding' = outstanding + 1 /\ pc' = [pc EXCEPT ![p] = "op"]
             /\ wrote' = [wrote EXCEPT ![p] = {}]
    <3>1. InOp' = InOp \cup {p} /\ p \notin InOp
      BY <1>1, <2>1 DEF begin_op, InOp, TypeOK
    <3>2. WithinOp'
      <4> SUFFICES ASSUME NEW q \in InOp' PROVE WithinOp!(q)'
        BY DEF WithinOp
      <4>1. lh' = lh /\ held' = held
        BY <1>1, Zenon DEF begin_op
      <4>2. CASE q = p
        BY LogAssumption, <2>1, <4>2, FS_EmptySet DEF TypeOK
      <4>3. CASE q # p
        BY <2>1, <3>1, <4>1, <4>3, <1>0, Zenon DEF TypeOK, WithinOp
      <4> QED BY <4>2, <4>3, ZenonT(40)
    <3>3. Cardinality(InOp') = outstanding + 1
      BY <1>0, <3>1, ProcSets, FS_AddElement, ZenonT(40) DEF Counted
    <3>4. Budget' \in SUBSET (InOp' \X (1 .. OpBlocks)) /\ InOp' \in SUBSET Procs
      BY DEF Budget, InOp
    <3>5. Cardinality(Budget') \in Nat
          /\ Cardinality(Budget') <= (outstanding + 1) * OpBlocks
      BY <3>3, <3>4, BudgetBound
    <3>a. /\ outstanding \in Nat /\ Len(lh) \in Nat
          /\ Len(lh) + (outstanding + 1) * MAXOPBLOCKS <= LOGSIZE
      BY <2>1 DEF HasRoom, TypeOK
    <3>6. Len(lh) + Cardinality(Budget') <= Cap
      BY <3>5, <3>a, Margin, ZenonT(40)
    <3> QED BY <1>1, <3>2, <3>6, ZenonT(40) DEF begin_op, Reserved, ondisk, sys, Running
  <2>2. CASE pc' = [pc EXCEPT ![p] = "sleep"] /\ UNCHANGED <<outstanding, wrote>>
    <3>1. InOp' = InOp
      BY <1>1, <2>2, ZenonT(40) DEF begin_op, InOp, TypeOK
    <3>2. Budget' = Budget
      BY <2>2, <3>1 DEF Budget
    <3>3. WithinOp'
      BY <1>1, <2>2, <3>1, Zenon DEF begin_op, WithinOp, TypeOK, InOp
    <3> QED BY <1>1, <3>1, <3>2, <3>3 DEF begin_op, Reserved, ondisk, sys
  <2> QED BY <1>1, <2>1, <2>2 DEF begin_op
<1>2. ASSUME NEW p \in Procs, NEW b \in Blocks, NEW v \in Vals, Modify(p, b, v)
      PROVE  WithinOp' /\ Reserved'
  <2>1. InOp' = InOp
    BY <1>2, Zenon DEF Modify, InOp, TypeOK
  <2>2. Budget' = Budget
    BY <1>2, <2>1, ZenonT(40) DEF Modify, Budget
  <2>3. WithinOp'
    BY <1>2, <2>1, ZenonT(40) DEF Modify, WithinOp, TypeOK, InOp, logstate
  <2> QED BY <1>2, <2>1, <2>2, <2>3, ZenonT(40) DEF Modify, Reserved, ondisk, logstate, sys
<1>3. ASSUME NEW p \in Procs, log_write_check(p) PROVE WithinOp' /\ Reserved'
  <2>1. InOp' = InOp
    BY <1>3, ZenonT(40) DEF log_write_check, InOp, TypeOK
  <2>2. Budget' = Budget
    BY <1>3, <2>1 DEF log_write_check, Budget
  <2>3. WithinOp'
    BY <1>3, <2>1, ZenonT(40) DEF log_write_check, WithinOp, TypeOK, InOp, logstate
  <2> QED BY <1>3, <2>1, <2>2, <2>3, Zenon DEF log_write_check, Reserved, ondisk, logstate
<1>4. ASSUME NEW p \in Procs, log_write(p) PROVE WithinOp' /\ Reserved'
  <2> DEFINE b == held[p]
             new == b \notin Entries(lh)
             x == <<p, Cardinality(wrote[p]) + 1>>
  <2>1. /\ InOp' = InOp /\ p \in InOp /\ b \in Blocks
        /\ lh' = (IF new THEN Append(lh, b) ELSE lh)
        /\ wrote' = [wrote EXCEPT ![p] = wrote[p] \cup {b}]
    BY <1>4 DEF log_write, New, InOp, TypeOK, Holding
  <2>2. /\ IsFiniteSet(wrote[p]) /\ Cardinality(wrote[p]) \in Nat
        /\ wrote[p] \subseteq Entries(lh)
        /\ IsFiniteSet(wrote[p] \cup {b})
        /\ Cardinality(wrote[p] \cup {b}) =
             IF b \in wrote[p] THEN Cardinality(wrote[p]) ELSE Cardinality(wrote[p]) + 1
        /\ Cardinality(wrote[p] \cup {b}) <= OpBlocks
    BY <1>4, <2>1, FS_AddElement, FS_CardinalityType, ZenonT(40) DEF log_write, WithinOp
  <2>3. Entries(lh') = Entries(lh) \cup {b}
    <3>1. CASE ~new
      BY <2>1, <3>1
    <3>2. CASE new
      <4>1. /\ lh' = Append(lh, b) /\ Len(lh') = Len(lh) + 1 /\ lh'[Len(lh) + 1] = b
            /\ Len(lh) \in Nat /\ \A i \in 1 .. Len(lh) : lh'[i] = lh[i]
        BY <2>1, <3>2 DEF TypeOK
      <4> HIDE DEF b
      <4> QED BY <4>1 DEF Entries
    <3> QED BY <3>1, <3>2
  <2>4. WithinOp'
    <3> SUFFICES ASSUME NEW q \in InOp' PROVE WithinOp!(q)'
      BY DEF WithinOp
    <3>1. CASE q = p
      BY <1>4, <2>1, <2>2, <2>3, <3>1 DEF log_write, TypeOK
    <3>2. CASE q # p
      BY <1>4, <2>1, <2>3, <3>2, <1>0, Zenon DEF log_write, TypeOK, WithinOp
    <3> QED BY <3>1, <3>2
  <2>5. Len(lh) + Cardinality(Budget) <= Cap
    BY <2>1, ZenonT(40) DEF Reserved
  <2>6. Len(lh') + Cardinality(Budget') <= Cap
    <3>1. CASE b \in wrote[p]
      <4>1. wrote' = wrote /\ lh' = lh
        BY <2>1, <2>2, <3>1 DEF TypeOK
      <4> QED BY <2>1, <2>5, <4>1, ZenonT(40) DEF Budget
    <3>2. CASE b \notin wrote[p]
      <4>1. Budget' = Budget \ {x} /\ x \in Budget
        <5>1. ASSUME NEW q \in Procs, q # p PROVE wrote'[q] = wrote[q]
          BY <2>1, <5>1, ZenonT(40) DEF TypeOK
        <5>2. Cardinality(wrote'[p]) = Cardinality(wrote[p]) + 1
          BY <2>1, <2>2, <3>2, Zenon DEF TypeOK
        <5>3. ASSUME NEW q \in Procs, NEW k \in 1 .. OpBlocks
              PROVE  <<q, k>> \in Budget' <=> <<q, k>> \in Budget /\ <<q, k>> # x
          <6>0. /\ <<q, k>> \in Budget <=> q \in InOp /\ k > Cardinality(wrote[q])
                /\ <<q, k>> \in Budget' <=> q \in InOp' /\ k > Cardinality(wrote'[q])
            BY Zenon DEF Budget
          <6>1. CASE q = p
            BY <2>1, <2>2, <5>2, <6>0, <6>1
          <6>2. CASE q # p
            BY <2>1, <5>1, <6>0, <6>2, ZenonT(40)
          <6> QED BY <6>1, <6>2, ZenonT(40)
        <5>4. x \in Budget
          BY <2>1, <2>2, <3>2 DEF Budget
        <5> HIDE DEF x
        <5>5. Budget' \subseteq Procs \X (1 .. OpBlocks) /\ Budget \subseteq Procs \X (1 .. OpBlocks)
          BY DEF Budget
        <5> QED BY <5>3, <5>4, <5>5
      <4>2. Cardinality(Budget') = Cardinality(Budget) - 1
        <5> HIDE DEF x
        <5>1. Cardinality(Budget \ {x}) = Cardinality(Budget) - 1
          BY <4>1, BudgetType, FS_RemoveElement, ZenonT(40)
        <5> QED BY <4>1, <5>1, Zenon
      <4>3. Len(lh') <= Len(lh) + 1 /\ Len(lh') \in Nat /\ Len(lh) \in Nat
        BY <2>1 DEF TypeOK
      <4>4. Cardinality(Budget) \in Nat
        BY BudgetType
      <4> QED BY LogAssumption, <2>5, <4>2, <4>3, <4>4 DEF Cap
    <3> QED BY <3>1, <3>2, Zenon
  <2> QED BY <1>4, <2>1, <2>4, <2>6 DEF log_write, Reserved, Running, ondisk, sys
<1>5. ASSUME NEW p \in Procs, end_op(p) PROVE WithinOp' /\ Reserved'
  <2>1. InOp' = InOp \ {p} /\ \A q \in InOp' : pc'[q] = pc[q]
    BY <1>5, Zenon DEF end_op, InOp, TypeOK, Woken, CommitEntry
  <2>2. WithinOp'
    BY <1>5, <2>1, Zenon DEF end_op, WithinOp
  <2>3. Budget' \in SUBSET Budget
    BY <1>5, <2>1 DEF end_op, Budget
  <2>4. Cardinality(Budget') <= Cardinality(Budget) /\ Cardinality(Budget') \in Nat
    BY <2>3, BudgetType, FS_Subset, FS_CardinalityType
  <2>5. lh' = lh /\ dhead' = dhead /\ boot' = boot /\ p \in InOp
    BY <1>5, ZenonT(40) DEF end_op, ondisk, InOp
  <2>a. Len(lh) + Cardinality(Budget) <= Cap
    BY <2>5 DEF Reserved
  <2>b. Len(lh) \in Nat /\ Cardinality(Budget) \in Nat /\ Cap \in Int
    BY LogAssumption, BudgetType DEF Cap, TypeOK
  <2>6. Len(lh) + Cardinality(Budget') <= Cap
    BY <2>4, <2>a, <2>b
  <2> QED BY <2>2, <2>5, <2>6, ZenonT(40) DEF Reserved
<1>6. ASSUME UNCHANGED <<pc, held, wrote, lh>>, dhead' = dhead, boot' = boot
      PROVE  WithinOp' /\ Reserved'
  <2>1. InOp' = InOp
    BY <1>6 DEF InOp
  <2>2. Budget' = Budget
    BY <1>6, <2>1, ZenonT(40) DEF Budget
  <2> QED BY <1>6, <2>1, <2>2 DEF WithinOp, Reserved
<1>7. ASSUME InOp' = {}, dhead' \in {dhead, <<>>} \/ (dhead' = lh /\ InOp = {}),
             lh' \in {<<>>, dhead} \/ (lh' = lh /\ InOp = {}), boot' # "read_head"
      PROVE  WithinOp' /\ Reserved'
  <2>1. Budget' = {}
    BY <1>7 DEF Budget
  <2>2. Cardinality(Budget') = 0
    BY <2>1, FS_EmptySet, ZenonT(40)
  <2>3. lh # <<>> => Len(lh) <= Cap
    BY LogAssumption, BudgetType DEF Reserved, TypeOK, Cap
  <2>4. lh' # <<>> => Len(lh') <= Cap
    BY <1>7, <2>3 DEF Reserved
  <2>5. dhead' # <<>> => Len(dhead') <= Cap
    BY <1>7, <2>3 DEF Reserved
  <2>6. lh' # <<>> => Len(lh') + Cardinality(Budget') <= Cap
    BY <2>2, <2>4 DEF TypeOK
  <2> QED BY <1>7, <2>5, <2>6 DEF WithinOp, Reserved
<1>8. ASSUME Crash PROVE WithinOp' /\ Reserved'
  <2>1. InOp' = {}
    BY <1>8, Zenon DEF Crash, InOp
  <2> QED BY <1>8, <2>1 DEF Crash, WithinOp, Reserved, ondisk
<1>9. ASSUME NEW p \in Procs, write_head(p) \/ erase(p) \/ finish(p)
      PROVE  WithinOp' /\ Reserved'
  <2>1. p \in InCommit
    BY <1>9, ZenonT(40) DEF write_head, erase, finish, InCommit
  <2>2. InOp = {}
    BY <2>1, Zenon DEF Exclusive
  <2>3. InOp' = {}
    BY <1>9, <2>2, Zenon DEF write_head, erase, finish, InOp, TypeOK, Woken
  <2> QED BY <1>7, <1>9, <2>2, <2>3, Zenon
          DEF write_head, erase, finish, EraseLog, Running, ondisk, logstate, sys
<1>10. ASSUME read_head \/ recover_erase PROVE WithinOp' /\ Reserved'
  <2>1. InOp' = {}
    BY <1>10 DEF read_head, recover_erase, InOp, Exclusive, procstate
  <2> QED BY <1>7, <1>10, <2>1, ZenonT(40) DEF read_head, recover_erase, EraseLog, ondisk
<1>11. CASE \/ \E p \in Procs : write_log(p) \/ install_trans(p)
            \/ \E b \in Blocks : bread(b) \/ recycle(b)
            \/ recover_install \/ UNCHANGED vars
  BY <1>6, <1>11, Zenon DEF write_log, install_trans, bread, recycle, recover_install, vars,
                     ondisk, logstate, procstate, sys
<1> QED
  BY <1>1, <1>2, <1>3, <1>4, <1>5, <1>8, <1>9, <1>10, <1>11, ZenonT(40)
  DEF Next, EndStep, WriteStep, Recovery

-----------------------------------------------------------------------------
\* The reservation invariant holds throughout, for every value of the constants.
THEOREM ReserveInvariant == Spec => []ReserveInv
<1>1. Init => ReserveInv
  BY ReserveInit
<1>2. ReserveInv /\ [Next]_vars => ReserveInv'
  BY ReserveFits, CountStep, ReserveStep DEF ReserveInv
<1> QED BY <1>1, <1>2, PTL DEF Spec

\* Every variable keeps its type: in particular log.outstanding never goes below
\* zero and every reference count stays a machine integer.
THEOREM TypeCorrect == Spec => []TypeOK
<1>1. ReserveInv => TypeOK
  BY DEF ReserveInv, CountInv
<1> QED BY <1>1, ReserveInvariant, PTL

\* log.lh.n never passes the length of logheader.block[], although log_write
\* tests it before it takes log.lock.
THEOREM HeaderNeverOverflows == Spec => []HeaderFits
<1> QED BY ReserveFits, ReserveInvariant, PTL

\* If calls write fewer blocks than begin_op reserves for them, and two fewer when
\* the on-disk log (header included) is only LOGSIZE blocks as mkfs makes it, then
\* log_write never panics and never logs past the end of the on-disk log.
THEOREM ReservationIsEnough ==
  ASSUME OpBlocks < MAXOPBLOCKS, NLog > 0,
         LOGSIZE + OpBlocks + 2 <= NLog + MAXOPBLOCKS
  PROVE  Spec => []ReservationSuffices
<1>1. Init => ~panicked
  BY DEF Init
<1>2. ReserveInv /\ ~panicked /\ [Next]_vars => ~panicked'
  <2> SUFFICES ASSUME ReserveInv, ~panicked, [Next]_vars PROVE ~panicked'
    BY ZenonT(40)
  <2>1. ASSUME NEW p \in Procs, log_write_check(p) PROVE ~panicked'
    <3>1. p \in InOp
      BY <2>1 DEF log_write_check, InOp
    <3>2. Len(lh) + Cardinality(Budget) <= Cap
      BY <3>1, ZenonT(40) DEF ReserveInv, Reserved
    <3>3. Len(lh) \in Nat /\ Cardinality(Budget) \in Nat
      BY BudgetType DEF ReserveInv, CountInv, TypeOK
    <3>4. ~TooBig
      BY LogAssumption, <3>2, <3>3 DEF TooBig, Cap
    <3>5. outstanding >= 1
      BY <3>1, ProcSets DEF ReserveInv, CountInv, Counted, InOp
    <3>6. ~(outstanding < 1)
      BY <3>5 DEF ReserveInv, CountInv, TypeOK
    <3>7. UNCHANGED panicked
      BY <2>1, <3>4, <3>6, Zenon DEF log_write_check
    <3> QED BY <3>7
  <2>2. ASSUME NEW p \in Procs, end_op(p) PROVE ~panicked'
    <3>1. p \in InOp
      BY <2>2 DEF end_op, InOp
    <3>2. ~committing
      BY <3>1 DEF ReserveInv, CountInv, Exclusive
    <3>3. panicked' = committing
      BY <2>2 DEF end_op
    <3> QED BY <3>2, <3>3, Zenon
  <2> QED BY <2>1, <2>2, Zenon DEF Next, WriteStep, EndStep, Recovery, begin_op, Modify,
             log_write, write_log, write_head, install_trans, erase, finish,
             read_head, recover_install, recover_erase, bread, recycle, Crash, vars, sys
<1>3. ReserveInv /\ ~panicked => ReservationSuffices
  <2> SUFFICES ASSUME ReserveInv PROVE Len(lh) <= NLog - 1
    BY DEF ReservationSuffices
  <2>1. CASE lh = <<>>
    BY LogAssumption, <2>1
  <2>2. CASE lh # <<>>
    BY LogAssumption, <2>2, BudgetType DEF ReserveInv, CountInv, TypeOK, Reserved, Cap
  <2> QED BY <2>1, <2>2
<1> QED BY <1>1, <1>2, <1>3, ReserveInvariant, PTL DEF Spec
=============================================================================
