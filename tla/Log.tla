-------------------------------- MODULE Log ---------------------------------
(***************************************************************************)
(* The write-ahead log of kernel/log.c with the part of the buffer cache   *)
(* (kernel/bio.c) it depends on: file system calls bracketed by begin_op() *)
(* and end_op(), blocks modified in the cache and recorded by log_write(), *)
(* group commit by the last end_op(), a crash between any two disk writes, *)
(* and recovery at boot.                                                   *)
(*                                                                         *)
(* One disk write is one step.  A critical section of log.lock is one      *)
(* step; what the code does outside the lock (the checks of log_write, the *)
(* disk writes of commit) is split from it.  Log blocks and the header are *)
(* written through the cache synchronously, so only their disk copy is     *)
(* kept; home blocks have a disk copy and a cached copy.                   *)
(***************************************************************************)
EXTENDS Integers, Sequences, FiniteSets

CONSTANTS
  Procs,               \* processes that make file system calls
  Blocks,              \* home blocks
  Vals,                \* block contents
  NoBuf,               \* "not in the cache" / "no buffer held"
  LOGSIZE,             \* param.h: the length of logheader.block[]
  MAXOPBLOCKS,         \* param.h: what begin_op reserves for one call
  NLog,                \* sb.nlog: blocks of the on-disk log, header included
  OpBlocks,            \* how many distinct blocks one call really writes
  RefMod,              \* 2^32 in the code: buf.refcnt is a uint
  RecycleAfterReplay,  \* does the cache recycle buffers in a boot whose
                       \* recovery replayed a transaction?
  MaxCalls, MaxCrashes \* bounds on calls begun and on crashes

ASSUME LogAssumption ==
  /\ IsFiniteSet(Procs)
  /\ NoBuf \notin Blocks /\ NoBuf \notin Vals
  /\ LOGSIZE \in Nat /\ MAXOPBLOCKS \in Nat \ {0} /\ NLog \in Nat
  /\ OpBlocks \in 0 .. MAXOPBLOCKS
  /\ RefMod \in Nat /\ RefMod > 2
  /\ RecycleAfterReplay \in BOOLEAN
  /\ MaxCalls \in Nat /\ MaxCrashes \in Nat

VARIABLES
  disk,         \* home blocks on disk
  dlog,         \* log blocks on disk (index = position after the header;
                \* from NLog on the position is past the log area)
  dhead,        \* the on-disk header: the block numbers of a committed transaction
  cache,        \* buffer contents, NoBuf when the block is not cached
  refcnt,       \* buf.refcnt, modulo RefMod
  lh,           \* log.lh: block numbers of the transaction being built
  outstanding,  \* log.outstanding
  committing,   \* log.committing
  pc,           \* where each process is
  held,         \* the buffer a process has locked between bread and brelse
  wrote,        \* the blocks a call has written so far
  tail,         \* loop index of write_log() and install_trans()
  boot,         \* the recovery code, or "up"
  replayed,     \* did this boot's recovery replay a transaction?
  panicked,     \* the kernel has called panic()
  calls, crashes

logstate == <<lh, outstanding, committing>>
procstate == <<pc, held, wrote>>
ondisk == <<disk, dlog, dhead>>
bufs == <<cache, refcnt>>
sys == <<boot, replayed, panicked, crashes>>
vars == <<disk, dlog, dhead, cache, refcnt, lh, outstanding, committing, pc,
          held, wrote, tail, boot, replayed, panicked, calls, crashes>>

Entries(s) == {s[i] : i \in 1 .. Len(s)}
Running == boot = "up" /\ ~panicked
Cached(b) == IF cache[b] = NoBuf THEN disk[b] ELSE cache[b]
RefInc(n) == (n + 1) % RefMod
RefDec(n) == (n + RefMod - 1) % RefMod

InOp == {p \in Procs : pc[p] \in {"op", "buf", "append"}}
InCommit == {p \in Procs : pc[p] \in {"write_log", "install", "finish"}}

\* struct log, the on-disk header, the buffers and the processes in the logging
\* layer keep their types.
TypeOK ==
  /\ disk \in [Blocks -> Vals]
  /\ dlog \in [1 .. LOGSIZE -> Vals]
  /\ dhead \in Seq(Blocks)
  /\ cache \in [Blocks -> Vals \cup {NoBuf}]
  /\ refcnt \in [Blocks -> 0 .. RefMod - 1]
  /\ lh \in Seq(Blocks)
  /\ outstanding \in Nat
  /\ committing \in BOOLEAN
  /\ pc \in [Procs -> {"idle", "begin", "sleep", "op", "buf", "append",
                       "write_log", "install", "finish"}]
  /\ held \in [Procs -> Blocks \cup {NoBuf}]
  /\ wrote \in [Procs -> SUBSET Blocks]
  /\ tail \in Nat
  /\ boot \in {"read_head", "install", "up"}
  /\ replayed \in BOOLEAN
  /\ panicked \in BOOLEAN
  /\ calls \in Nat
  /\ crashes \in Nat

(***************************************************************************)
(* A formatted disk: mkfs leaves the log header empty.                     *)
(***************************************************************************)
Init ==
  /\ disk \in [Blocks -> Vals]
  /\ dlog \in {[i \in 1 .. LOGSIZE |-> v] : v \in Vals}
  /\ dhead = <<>>
  /\ cache = [b \in Blocks |-> NoBuf]
  /\ refcnt = [b \in Blocks |-> 0]
  /\ lh = <<>>
  /\ outstanding = 0
  /\ committing = FALSE
  /\ pc = [p \in Procs |-> "idle"]
  /\ held = [p \in Procs |-> NoBuf]
  /\ wrote = [p \in Procs |-> {}]
  /\ tail = 0
  /\ boot = "read_head"
  /\ replayed = FALSE
  /\ panicked = FALSE
  /\ calls = 0
  /\ crashes = 0

-----------------------------------------------------------------------------
(***************************************************************************)
(* begin_op(), log.c:126-141.  The loop body runs under log.lock; sleep()  *)
(* gives the lock up atomically, so a waiter is simply at "sleep" until a  *)
(* wakeup(&log) sends it back to the loop.                                 *)
(***************************************************************************)
OthersFit == ~committing /\ Len(lh) + outstanding * MAXOPBLOCKS <= LOGSIZE
HasRoomIgnoringCommit == Len(lh) + (outstanding + 1) * MAXOPBLOCKS <= LOGSIZE

HasRoom ==
  /\ ~committing
  /\ Len(lh) + (outstanding + 1) * MAXOPBLOCKS <= LOGSIZE

begin_op(p) ==
  /\ Running
  /\ \/ pc[p] = "idle" /\ calls < MaxCalls /\ calls' = calls + 1
     \/ pc[p] = "begin" /\ calls' = calls
  /\ \/ /\ HasRoom
        /\ outstanding' = outstanding + 1
        /\ pc' = [pc EXCEPT ![p] = "op"]
        /\ wrote' = [wrote EXCEPT ![p] = {}]
     \/ /\ ~HasRoom
        /\ pc' = [pc EXCEPT ![p] = "sleep"]
        /\ UNCHANGED <<outstanding, wrote>>
  /\ UNCHANGED <<ondisk, bufs, lh, committing, held, tail, sys>>

(***************************************************************************)
(* The body of a file system call: bread a block and change it, holding    *)
(* its buffer (fs.c:217-237 is one of many).  The contents are arbitrary;  *)
(* a call writes at most OpBlocks distinct blocks.                         *)
(***************************************************************************)
Modify(p, b, v) ==
  /\ Running
  /\ pc[p] = "op"
  /\ Cardinality(wrote[p] \cup {b}) <= OpBlocks
  /\ \A q \in Procs : held[q] # b
  /\ cache' = [cache EXCEPT ![b] = v]
  /\ refcnt' = [refcnt EXCEPT ![b] = RefInc(@)]
  /\ held' = [held EXCEPT ![p] = b]
  /\ pc' = [pc EXCEPT ![p] = "buf"]
  /\ UNCHANGED <<ondisk, logstate, wrote, tail, sys, calls>>

(***************************************************************************)
(* log_write(), log.c:214-234, up to the lock: the size checks read log.lh *)
(* without holding log.lock.                                               *)
(***************************************************************************)
TooBig == Len(lh) >= LOGSIZE \/ Len(lh) >= NLog - 1

log_write_check(p) ==
  /\ Running
  /\ pc[p] = "buf"
  /\ IF TooBig \/ outstanding < 1
       THEN panicked' = TRUE /\ UNCHANGED pc
       ELSE pc' = [pc EXCEPT ![p] = "append"] /\ UNCHANGED panicked
  /\ UNCHANGED <<ondisk, bufs, logstate, held, wrote, tail, boot, replayed,
                 calls, crashes>>

(***************************************************************************)
(* log_write() under the lock (absorb, or append and bpin), followed by    *)
(* the caller's brelse.                                                    *)
(***************************************************************************)
New(b) == b \notin Entries(lh)

PinsNothing(n, new) == RefDec(n)

RefAfterLogWrite(n, new) == IF new THEN RefDec(RefInc(n)) ELSE RefDec(n)

log_write(p) ==
  /\ Running
  /\ pc[p] = "append"
  /\ LET b == held[p]
         new == New(b)
     IN  /\ lh' = IF new THEN Append(lh, b) ELSE lh
         /\ refcnt' = [refcnt EXCEPT ![b] = RefAfterLogWrite(@, new)]
         /\ wrote' = [wrote EXCEPT ![p] = @ \cup {b}]
  /\ held' = [held EXCEPT ![p] = NoBuf]
  /\ pc' = [pc EXCEPT ![p] = "op"]
  /\ UNCHANGED <<ondisk, cache, outstanding, committing, tail, sys, calls>>

(***************************************************************************)
(* wakeup(&log): every process sleeping in begin_op runs its loop again.   *)
(***************************************************************************)
Unwoken(f) == f

Woken(f) == [p \in Procs |-> IF f[p] = "sleep" THEN "begin" ELSE f[p]]

(***************************************************************************)
(* end_op(), log.c:145-165, and the test of log.lh.n in commit().          *)
(***************************************************************************)
SkipsSmallCommit == IF Len(lh) <= 1 THEN "finish" ELSE "write_log"
InstallsFirst == IF lh = <<>> THEN "finish" ELSE "install"

CommitEntry == IF lh = <<>> THEN "finish" ELSE "write_log"

end_op(p) ==
  /\ Running
  /\ pc[p] = "op"
  /\ outstanding' = outstanding - 1
  /\ panicked' = committing          \* panic("log.committing")
  /\ \/ /\ outstanding = 1
        /\ committing' = TRUE
        /\ tail' = 0
        /\ pc' = [pc EXCEPT ![p] = CommitEntry]
     \/ /\ outstanding # 1
        /\ pc' = [Woken(pc) EXCEPT ![p] = "idle"]
        /\ UNCHANGED <<committing, tail>>
  /\ UNCHANGED <<ondisk, bufs, lh, held, wrote, boot, replayed, calls, crashes>>

-----------------------------------------------------------------------------
(***************************************************************************)
(* commit(), log.c:192-202, one disk write at a time.                      *)
(***************************************************************************)
write_log(p) ==
  /\ Running
  /\ pc[p] = "write_log" /\ tail < Len(lh)
  /\ LET b == lh[tail + 1]
     IN  /\ dlog' = [dlog EXCEPT ![tail + 1] = Cached(b)]
         /\ cache' = [cache EXCEPT ![b] = Cached(b)]
  /\ tail' = tail + 1
  /\ UNCHANGED <<disk, dhead, refcnt, logstate, procstate, sys, calls>>

\* The commit point: the header names the logged blocks.
write_head(p) ==
  /\ Running
  /\ pc[p] = "write_log" /\ tail = Len(lh)
  /\ dhead' = lh
  /\ tail' = 0
  /\ pc' = [pc EXCEPT ![p] = "install"]
  /\ UNCHANGED <<disk, dlog, bufs, logstate, held, wrote, sys, calls>>

\* One iteration of install_trans(), log.c:67-82: copy a log block home, unpin.
InstallBlock ==
  /\ tail < Len(lh)
  /\ LET b == lh[tail + 1]
     IN  /\ disk' = [disk EXCEPT ![b] = dlog[tail + 1]]
         /\ cache' = [cache EXCEPT ![b] = dlog[tail + 1]]
         /\ refcnt' = [refcnt EXCEPT ![b] = RefDec(@)]
  /\ tail' = tail + 1

install_trans(p) ==
  /\ Running
  /\ pc[p] = "install"
  /\ InstallBlock
  /\ UNCHANGED <<dlog, dhead, logstate, procstate, sys, calls>>

\* log.lh.n = 0; write_head().
EraseLog ==
  /\ tail = Len(lh)
  /\ lh' = <<>>
  /\ dhead' = <<>>
  /\ tail' = 0

erase(p) ==
  /\ Running
  /\ pc[p] = "install"
  /\ EraseLog
  /\ pc' = [pc EXCEPT ![p] = "finish"]
  /\ UNCHANGED <<disk, dlog, bufs, outstanding, committing, held, wrote, sys, calls>>

\* The tail of end_op(), log.c:165-173.
finish(p) ==
  /\ Running
  /\ pc[p] = "finish"
  /\ committing' = FALSE
  /\ pc' = [Woken(pc) EXCEPT ![p] = "idle"]
  /\ UNCHANGED <<ondisk, bufs, lh, outstanding, held, wrote, tail, sys, calls>>

-----------------------------------------------------------------------------
(***************************************************************************)
(* recover_from_log(), log.c:115-122.  It runs in the first process before *)
(* any file system call, and uses install_trans() as commit() does.        *)
(***************************************************************************)
read_head ==
  /\ boot = "read_head" /\ ~panicked
  /\ lh' = dhead
  /\ tail' = 0
  /\ replayed' = (dhead # <<>>)
  /\ boot' = "install"
  /\ UNCHANGED <<ondisk, bufs, outstanding, committing, procstate, panicked,
                 calls, crashes>>

recover_install ==
  /\ boot = "install"
  /\ InstallBlock
  /\ UNCHANGED <<dlog, dhead, logstate, procstate, sys, calls>>

recover_erase ==
  /\ boot = "install"
  /\ EraseLog
  /\ boot' = "up"
  /\ UNCHANGED <<disk, dlog, bufs, outstanding, committing, procstate,
                 replayed, panicked, calls, crashes>>

(***************************************************************************)
(* The buffer cache: a reader brings a block in (sys_read runs outside     *)
(* begin_op), and bget() recycles a buffer whose refcnt is 0 (bio.c:75-87). *)
(***************************************************************************)
bread(b) ==
  /\ Running
  /\ cache[b] = NoBuf
  /\ cache' = [cache EXCEPT ![b] = disk[b]]
  /\ UNCHANGED <<ondisk, refcnt, logstate, procstate, tail, sys, calls>>

recycle(b) ==
  /\ Running
  /\ replayed => RecycleAfterReplay
  /\ cache[b] # NoBuf
  /\ refcnt[b] = 0
  /\ cache' = [cache EXCEPT ![b] = NoBuf]
  /\ UNCHANGED <<ondisk, refcnt, logstate, procstate, tail, sys, calls>>

(***************************************************************************)
(* Power loss, or a reboot after panic(): memory is gone, the disk stays.  *)
(***************************************************************************)
Crash ==
  /\ crashes < MaxCrashes
  /\ crashes' = crashes + 1
  /\ cache' = [b \in Blocks |-> NoBuf]
  /\ refcnt' = [b \in Blocks |-> 0]
  /\ lh' = <<>> /\ outstanding' = 0 /\ committing' = FALSE
  /\ pc' = [p \in Procs |-> "idle"]
  /\ held' = [p \in Procs |-> NoBuf]
  /\ wrote' = [p \in Procs |-> {}]
  /\ tail' = 0
  /\ boot' = "read_head" /\ replayed' = FALSE /\ panicked' = FALSE
  /\ UNCHANGED <<ondisk, calls>>

EndStep(p) ==
  \/ end_op(p) \/ write_log(p) \/ write_head(p) \/ install_trans(p)
  \/ erase(p) \/ finish(p)
WriteStep(p) ==
  \/ log_write_check(p) \/ log_write(p)
Recovery == read_head \/ recover_install \/ recover_erase

Next ==
  \/ \E p \in Procs :
       \/ begin_op(p) \/ WriteStep(p) \/ EndStep(p)
       \/ \E b \in Blocks, v \in Vals : Modify(p, b, v)
  \/ \E b \in Blocks : bread(b) \/ recycle(b)
  \/ Recovery
  \/ Crash

Spec == Init /\ [][Next]_vars

(***************************************************************************)
(* A process inside a call keeps running (the scheduler is round robin and *)
(* disk operations complete) and makes finitely many writes before its     *)
(* end_op; starting a call, a crash and cache traffic are never forced.    *)
(***************************************************************************)
Fairness ==
  /\ \A p \in Procs :
       /\ WF_vars(pc[p] = "begin" /\ begin_op(p))
       /\ WF_vars(WriteStep(p)) /\ WF_vars(EndStep(p)) /\ SF_vars(end_op(p))
  /\ WF_vars(Recovery)
FairSpec == Spec /\ Fairness

-----------------------------------------------------------------------------
(***************************************************************************)
(* The refinement: "stable" is what recovery would make of the disk, and   *)
(* "mem" what a reader of the cache sees.                                  *)
(***************************************************************************)
PosOf(s, b) == CHOOSE i \in 1 .. Len(s) : s[i] = b
Stable == [b \in Blocks |-> IF b \in Entries(dhead) THEN dlog[PosOf(dhead, b)]
                                                    ELSE disk[b]]
Mem == IF boot = "up" THEN [b \in Blocks |-> Cached(b)] ELSE Stable

AD == INSTANCE AtomicDisk WITH stable <- Stable, mem <- Mem, open <- InOp

\* log.c:10-15: the log behaves as an atomic disk.  The durable state changes
\* only at a moment when no call is between begin_op and end_op, to exactly what
\* the calls wrote; a crash at any point, during recovery too, restores it.
AtomicCommit == AD!Spec

\* end_op returns only when its call is durable unless another call is open:
\* with no call open and no commit running, disk and cache agree.
Durable ==
  Running /\ outstanding = 0 /\ ~committing => Stable = Mem

\* log.c:205: a block recorded by log_write and not yet copied home stays in the
\* cache; the reference on it keeps bget from recycling the only copy.
LoggedStaysCached ==
  boot = "up" =>
    \A i \in 1 .. Len(lh) :
      i > tail \/ (\A p \in Procs : pc[p] # "install") =>
        cache[lh[i]] # NoBuf

\* begin_op's reservation bounds the header array: log.lh.n never passes LOGSIZE,
\* although log_write checks it without the lock.
HeaderFits == Len(lh) <= LOGSIZE

\* param.h:10 and log.c:133: an admitted call finds room in the on-disk log, so
\* log_write never panics and no block is logged past the log's last block.
ReservationSuffices == ~panicked /\ Len(lh) <= NLog - 1

\* The write-ahead rule: a home block is overwritten on disk only while the
\* on-disk header already names it.
WriteAhead == [][\A b \in Blocks : disk'[b] # disk[b] => b \in Entries(dhead)]_vars

\* A process waiting in begin_op is let in, or the system goes down: no wakeup
\* is lost and log space is always given back.
WaiterAdmitted == \A p \in Procs : pc[p] \in {"sleep", "begin"} ~> pc[p] = "op" \/ ~Running
=============================================================================
