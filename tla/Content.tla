------------------------------ MODULE Content ------------------------------
(***************************************************************************)
(* The content of inodes (kernel/fs.c:368-514) and the calls of file.c     *)
(* that read, write and truncate it: the free bitmap, the direct and       *)
(* indirect block numbers, and the file offset that processes share after  *)
(* fork or dup.                                                            *)
(*                                                                         *)
(* A block holds BSIZE cells.  A cell is a number: a byte of a file, or,   *)
(* in an indirect block, the number of a block.  Only the cached state is  *)
(* modelled; that a transaction reaches the disk as a whole is the subject *)
(* of Log, and the ghost variable "logged" counts what one transaction     *)
(* puts into the log.                                                      *)
(***************************************************************************)
EXTENDS Integers, FiniteSets, FiniteSetsExt, Sequences, TLC

CONSTANTS Procs, Files, Inodes,
          FileIp,        \* the inode that a struct file refers to (f->ip)
          NBlocks,       \* data blocks on the disk
          BSIZE, NDIRECT, NINDIRECT, MAXOPBLOCKS,
          UINT,          \* unsigned int counts modulo UINT
          Byte,          \* what the buffers of each process hold
          WriteSizes, ReadSizes, Truncates,
          CopyFails,     \* may a user address be bad?
          MaxCalls       \* calls that each process makes

ASSUME ContentAssumption ==
  /\ FileIp \in [Files -> Inodes]
  /\ {NBlocks, BSIZE, NDIRECT, NINDIRECT, MAXOPBLOCKS} \subseteq Nat \ {0}
  /\ NINDIRECT <= BSIZE
  /\ UINT \in Nat /\ UINT > 2 * (NDIRECT + NINDIRECT) * BSIZE
  /\ WriteSizes \subseteq Int /\ ReadSizes \subseteq Int
  /\ Byte \in [Procs -> Nat]

VARIABLES used,     \* the free bitmap: the blocks whose bit is set
          blk,      \* the cells of every block
          addrs,    \* ip->addrs[]; index NDIRECT is the indirect block
          size,     \* ip->size
          lock,     \* ip->lock: the process that holds it, or 0
          off,      \* f->off
          proc,     \* where each process is in its call
          panic,    \* the kernel has stopped
          text,     \* history: the bytes that each file should hold
          appended, \* history: bytes that writes to a file claim to have stored
          faulted   \* history: inodes that a write from a bad address has touched

history == <<text, appended, faulted>>
vars == <<used, blk, addrs, size, lock, off, proc, panic, history>>

Blocks == 1..NBlocks
MAXFILE == NDIRECT + NINDIRECT
Cells == 0..BSIZE - 1
Zeroed == [c \in Cells |-> 0]

(* The blocks other than data blocks that a transaction logs: numbers that *)
(* no data block has.                                                      *)
BitmapBlock == 0
InodeBlock == -1

Idle == [pc |-> "idle", f |-> 0, n |-> 0, i |-> 0, n1 |-> 0, tot |-> 0,
         b |-> 0, slot |-> 0, got |-> <<>>, write |-> FALSE, logged |-> {}, calls |-> 0]

Init ==
  /\ used = {}
  /\ blk = [b \in Blocks |-> Zeroed]
  /\ addrs = [i \in Inodes |-> [k \in 0..NDIRECT |-> 0]]
  /\ size = [i \in Inodes |-> 0]
  /\ lock = [i \in Inodes |-> 0]
  /\ off = [f \in Files |-> 0]
  /\ proc = [p \in Procs |-> Idle]
  /\ panic = FALSE
  /\ text = [i \in Inodes |-> <<>>]
  /\ appended = [f \in Files |-> 0]
  /\ faulted = {}

-----------------------------------------------------------------------------
At(p, pc) == ~panic /\ proc[p].pc = pc
Ip(p) == FileIp[proc[p].f]
Position(p) == off[proc[p].f] + proc[p].tot

(* The conversion of an int count to uint. *)
Uint(n) == n % UINT

Return(p) == proc' = [proc EXCEPT ![p] = [Idle EXCEPT !.calls = proc[p].calls]]

Step(p, fields) == proc' = [proc EXCEPT ![p] = fields @@ @]

-----------------------------------------------------------------------------
(***************************************************************************)
(* bmap and balloc.                                                        *)
(***************************************************************************)

(* The block number in place k of the inode: an element of addrs[], or an  *)
(* entry of the indirect block.                                            *)
Entry(i, k) == IF k < NDIRECT THEN addrs[i][k]
               ELSE IF addrs[i][NDIRECT] = 0 THEN 0
               ELSE blk[addrs[i][NDIRECT]][k - NDIRECT]

(* What bmap has to fill in next before it can return block bn: nothing,   *)
(* the indirect block (NDIRECT in addrs[]), or the entry itself.           *)
Missing(i, bn) ==
  IF bn >= NDIRECT /\ addrs[i][NDIRECT] = 0 THEN {"indirect"}
  ELSE IF Entry(i, bn) = 0 THEN {"entry"} ELSE {}

FirstFree == Min(Blocks \ used)

(* balloc marks the first free block under the lock of the bitmap's buffer *)
(* and zeroes it afterwards, when that lock has been released.             *)
balloc(p, bn) ==
  /\ At(p, "bmap") /\ proc[p].tot < proc[p].n1
  /\ bn = Position(p) \div BSIZE
  /\ \E what \in Missing(Ip(p), bn) :
       IF Blocks \subseteq used
       THEN /\ panic' = TRUE
            /\ UNCHANGED <<used, proc>>
       ELSE /\ used' = used \union {FirstFree}
            /\ Step(p, [pc |-> what, b |-> FirstFree, slot |-> bn,
                        logged |-> proc[p].logged \union {BitmapBlock}])
            /\ UNCHANGED panic
  /\ UNCHANGED <<blk, addrs, size, lock, off, history>>

BlockNotZeroed(b) == blk[b]
bzero(b) == Zeroed

(* bzero, and the assignment of balloc's result in bmap.  The indirect     *)
(* block is logged when an entry of it changes.                            *)
bmap_direct(p) ==
  /\ \/ At(p, "entry") /\ proc[p].slot < NDIRECT
     \/ At(p, "indirect")
  /\ LET b == proc[p].b
         k == IF proc[p].pc = "indirect" THEN NDIRECT ELSE proc[p].slot
     IN /\ blk' = [blk EXCEPT ![b] = bzero(b)]
        /\ addrs' = [addrs EXCEPT ![Ip(p)][k] = b]
        /\ Step(p, [pc |-> "bmap", b |-> 0,
                    logged |-> proc[p].logged \union {b}])
  /\ UNCHANGED <<used, size, lock, off, panic, history>>

bmap_indirect(p) ==
  /\ At(p, "entry") /\ proc[p].slot >= NDIRECT
  /\ LET b == proc[p].b
         ind == addrs[Ip(p)][NDIRECT]
     IN /\ blk' = [blk EXCEPT ![b] = bzero(b),
                              ![ind][proc[p].slot - NDIRECT] = b]
        /\ Step(p, [pc |-> "bmap", b |-> 0,
                    logged |-> proc[p].logged \union {b, ind}])
  /\ UNCHANGED <<used, addrs, size, lock, off, panic, history>>

-----------------------------------------------------------------------------
(***************************************************************************)
(* filewrite and writei.                                                   *)
(***************************************************************************)

filewrite(p) ==
  /\ At(p, "idle") /\ proc[p].calls < MaxCalls[p]
  /\ \E f \in Files, n \in WriteSizes :
       Step(p, [pc |-> "chunk", f |-> f, n |-> n, write |-> TRUE, calls |-> proc[p].calls + 1])
  /\ UNCHANGED <<used, blk, addrs, size, lock, off, panic, history>>

(* The chunk that one transaction of filewrite writes. *)
WholeWrite(n) == n
max == ((MAXOPBLOCKS - 1 - 1 - 2) \div 2) * BSIZE
Chunk(n) == IF n > max THEN max ELSE n

CanLockAny(i) == TRUE
CanLock(i) == lock[i] = 0

(* begin_op, ilock, and the tests at the start of writei. *)
writei(p) ==
  /\ At(p, "chunk")
  /\ proc[p].i < proc[p].n
  /\ CanLock(Ip(p))
  /\ LET i == Ip(p)
         o == off[proc[p].f]
         n1 == Chunk(proc[p].n - proc[p].i)
     IN IF o > size[i] \/ Uint(o + n1) < o \/ o + n1 > MAXFILE * BSIZE
        THEN /\ Return(p)
             /\ UNCHANGED lock
        ELSE /\ Step(p, [pc |-> "bmap", n1 |-> n1, tot |-> 0, logged |-> {}])
             /\ lock' = [lock EXCEPT ![i] = p]
  /\ UNCHANGED <<used, blk, addrs, size, off, panic, history>>

(* The bytes of this iteration that lie in the block at hand. *)
InBlock(p) ==
  LET rest == proc[p].n1 - proc[p].tot
      room == BSIZE - (Position(p) % BSIZE)
  IN IF rest < room THEN rest ELSE room

BlockReady(p) ==
  /\ At(p, "bmap")
  /\ proc[p].tot < proc[p].n1
  /\ Missing(Ip(p), Position(p) \div BSIZE) = {}

(* The cells of block b after k bytes have been copied into it. *)
Filled(p, b, k) ==
  LET first == Position(p) % BSIZE
  IN [c \in Cells |-> IF c \in first..first + k - 1 THEN Byte[p]
                      ELSE blk[b][c]]

(* either_copyin succeeds: the block is changed and logged. *)
write_block(p) ==
  /\ BlockReady(p) /\ proc[p].write
  /\ LET b == Entry(Ip(p), Position(p) \div BSIZE)
         m == InBlock(p)
     IN /\ blk' = [blk EXCEPT ![b] = Filled(p, b, m)]
        /\ Step(p, [tot |-> proc[p].tot + m, logged |-> proc[p].logged \union {b}])
  /\ UNCHANGED <<used, addrs, size, lock, off, panic, history>>

(* either_copyin fails: the pages before the bad one have already been     *)
(* copied into the cached block, which is not logged, and the loop ends.   *)
write_fault(p) ==
  /\ CopyFails
  /\ BlockReady(p) /\ proc[p].write
  /\ \E k \in 0..InBlock(p) - 1 :
       LET b == Entry(Ip(p), Position(p) \div BSIZE)
       IN blk' = [blk EXCEPT ![b] = Filled(p, b, k)]
  /\ Step(p, [pc |-> "written"])
  /\ faulted' = faulted \union {Ip(p)}
  /\ UNCHANGED <<used, addrs, size, lock, off, panic, text, appended>>

(* The text of a file in which the bytes from o on have been overwritten.  *)
Overwritten(s, o, n, byte) ==
  LET len == IF o + n > Len(s) THEN o + n ELSE Len(s)
  IN [k \in 1..len |-> IF k \in o + 1..o + n THEN byte
                       ELSE IF k <= Len(s) THEN s[k] ELSE 0]

SizeAfter(i, o) == IF o > size[i] THEN o ELSE size[i]

(* The end of writei, whose result is n1 whatever was copied, then         *)
(* f->off += r, iunlock and end_op.                                        *)
write_done(p) ==
  /\ proc[p].write
  /\ \/ At(p, "bmap") /\ proc[p].tot = proc[p].n1
     \/ At(p, "written")
  /\ LET f == proc[p].f
         i == Ip(p)
         n1 == proc[p].n1
     IN /\ size' = [size EXCEPT ![i] = SizeAfter(i, Position(p))]
        /\ off' = [off EXCEPT ![f] = @ + n1]
        /\ lock' = [lock EXCEPT ![i] = 0]
        /\ text' = [text EXCEPT ![i] =
                      Overwritten(@, off[f], proc[p].tot, Byte[p])]
        /\ appended' = [appended EXCEPT ![f] = @ + n1]
        /\ Step(p, [pc |-> "chunk", i |-> proc[p].i + n1,
                    logged |-> proc[p].logged \union {InodeBlock}])
  /\ UNCHANGED <<used, blk, addrs, panic, faulted>>

write_return(p) ==
  /\ At(p, "chunk")
  /\ proc[p].i >= proc[p].n
  /\ Return(p)
  /\ UNCHANGED <<used, blk, addrs, size, lock, off, panic, history>>

-----------------------------------------------------------------------------
(***************************************************************************)
(* fileread and readi.                                                     *)
(***************************************************************************)

(* The number of bytes that readi tries to read. *)
Readable(i, o, n) ==
  IF o > size[i] \/ Uint(o + Uint(n)) < o THEN 0
  ELSE IF o + Uint(n) > size[i] THEN size[i] - o ELSE Uint(n)

fileread(p) ==
  /\ At(p, "idle") /\ proc[p].calls < MaxCalls[p]
  /\ \E f \in Files, n \in ReadSizes :
       /\ CanLock(FileIp[f])
       /\ lock' = [lock EXCEPT ![FileIp[f]] = p]
       /\ Step(p, [pc |-> "bmap", f |-> f, n |-> n, n1 |-> Readable(FileIp[f], off[f], n),
                   calls |-> proc[p].calls + 1])
  /\ UNCHANGED <<used, blk, addrs, size, off, panic, history>>

read_block(p) ==
  /\ BlockReady(p) /\ ~proc[p].write
  /\ LET b == Entry(Ip(p), Position(p) \div BSIZE)
         m == InBlock(p)
         first == Position(p) % BSIZE
     IN Step(p, [tot |-> proc[p].tot + m,
                 got |-> proc[p].got \o
                         [k \in 1..m |-> blk[b][first + k - 1]]])
  /\ UNCHANGED <<used, blk, addrs, size, lock, off, panic, history>>

(* readi returns the bytes copied; a fault in either_copyout ends it. *)
read_done(p) ==
  /\ ~proc[p].write /\ At(p, "bmap")
  /\ proc[p].tot = proc[p].n1 \/ (CopyFails /\ BlockReady(p))
  /\ off' = [off EXCEPT ![proc[p].f] = @ + proc[p].tot]
  /\ lock' = [lock EXCEPT ![Ip(p)] = 0]
  /\ Return(p)
  /\ UNCHANGED <<used, blk, addrs, size, panic, history>>

-----------------------------------------------------------------------------
(***************************************************************************)
(* itrunc, called by open with O_TRUNC and by iput.                        *)
(***************************************************************************)

truncate(p) ==
  /\ At(p, "idle") /\ proc[p].calls < MaxCalls[p]
  /\ Truncates
  /\ \E f \in Files :
       /\ CanLock(FileIp[f])
       /\ lock' = [lock EXCEPT ![FileIp[f]] = p]
       /\ Step(p, [pc |-> "trunc", f |-> f, calls |-> proc[p].calls + 1])
  /\ UNCHANGED <<used, blk, addrs, size, off, panic, history>>

(* bfree: its panic, or the bit is cleared and the bitmap logged. *)
bfree(p, b) ==
  IF b \in used
  THEN /\ used' = used \ {b}
       /\ UNCHANGED panic
  ELSE /\ panic' = TRUE
       /\ UNCHANGED used

BitmapLogged(p) == proc[p].logged \union {BitmapBlock}

AddrAfterFree(b) == 0

(* One iteration of the loop over the direct blocks. *)
trunc_direct(p) ==
  /\ At(p, "trunc") /\ proc[p].slot < NDIRECT
  /\ LET i == Ip(p)
         k == proc[p].slot
     IN IF addrs[i][k] = 0
        THEN /\ Step(p, [slot |-> k + 1])
             /\ UNCHANGED <<used, panic, addrs>>
        ELSE /\ bfree(p, addrs[i][k])
             /\ addrs' = [addrs EXCEPT ![i][k] = AddrAfterFree(@)]
             /\ Step(p, [slot |-> k + 1, logged |-> BitmapLogged(p)])
  /\ UNCHANGED <<blk, size, lock, off, history>>

LastEntry == NDIRECT + NINDIRECT

(* One iteration of the loop over the entries of the indirect block. *)
trunc_entry(p) ==
  /\ At(p, "trunc")
  /\ LET i == Ip(p)
         k == proc[p].slot
     IN /\ addrs[i][NDIRECT] # 0
        /\ k >= NDIRECT /\ k < LastEntry
        /\ IF Entry(i, k) = 0
           THEN /\ Step(p, [slot |-> k + 1])
                /\ UNCHANGED <<used, panic>>
           ELSE /\ bfree(p, Entry(i, k))
                /\ Step(p, [slot |-> k + 1, logged |-> BitmapLogged(p)])
  /\ UNCHANGED <<blk, addrs, size, lock, off, history>>

trunc_indirect(p) ==
  /\ At(p, "trunc") /\ proc[p].slot = LastEntry
  /\ LET i == Ip(p)
     IN /\ addrs[i][NDIRECT] # 0
        /\ bfree(p, addrs[i][NDIRECT])
        /\ addrs' = [addrs EXCEPT ![i][NDIRECT] = 0]
  /\ Step(p, [logged |-> BitmapLogged(p)])
  /\ UNCHANGED <<blk, size, lock, off, history>>

(* size = 0, iupdate; then the caller releases the inode.  The offsets of  *)
(* the files that were open before stay what they are.                     *)
trunc_done(p) ==
  /\ At(p, "trunc") /\ proc[p].slot >= NDIRECT
  /\ addrs[Ip(p)][NDIRECT] = 0
  /\ size' = [size EXCEPT ![Ip(p)] = 0]
  /\ lock' = [lock EXCEPT ![Ip(p)] = 0]
  /\ text' = [text EXCEPT ![Ip(p)] = <<>>]
  /\ appended' = [f \in Files |-> IF FileIp[f] = Ip(p) THEN 0 ELSE appended[f]]
  /\ Return(p)
  /\ faulted' = faulted \ {Ip(p)}
  /\ UNCHANGED <<used, blk, addrs, off, panic>>

-----------------------------------------------------------------------------
Next ==
  \E p \in Procs :
    \/ \E bn \in 0..MAXFILE - 1 : balloc(p, bn)
    \/ bmap_direct(p) \/ bmap_indirect(p)
    \/ filewrite(p) \/ writei(p) \/ write_block(p) \/ write_fault(p)
    \/ write_done(p) \/ write_return(p)
    \/ fileread(p) \/ read_block(p) \/ read_done(p)
    \/ truncate(p) \/ trunc_direct(p) \/ trunc_entry(p)
    \/ trunc_indirect(p) \/ trunc_done(p)

Spec == Init /\ [][Next]_vars
-----------------------------------------------------------------------------
(***************************************************************************)
(* Properties.                                                             *)
(***************************************************************************)

(* The type of the state: file sizes stay within MAXFILE blocks, and block *)
(* numbers name blocks of the disk or are 0.                               *)
TypeOK ==
  /\ used \subseteq Blocks
  /\ blk \in [Blocks -> [Cells -> Nat]]
  /\ addrs \in [Inodes -> [0..NDIRECT -> 0..NBlocks]]
  /\ size \in [Inodes -> 0..MAXFILE * BSIZE]
  /\ lock \in [Inodes -> Procs \union {0}]
  /\ off \in [Files -> Nat]
  /\ panic \in BOOLEAN

(* The process that is truncating inode i has freed the indirect entries   *)
(* before its slot, although the indirect block still lists them.          *)
Freed(i, k) == /\ lock[i] # 0
               /\ proc[lock[i]].pc = "trunc"
               /\ k >= NDIRECT /\ k < proc[lock[i]].slot

(* The places that refer to block b: entries of inodes, their indirect     *)
(* blocks, and processes between the two steps of balloc.                  *)
Owners(b) ==
  {o \in {"entry"} \X Inodes \X (0..MAXFILE - 1) :
     Entry(o[2], o[3]) = b /\ ~Freed(o[2], o[3])}
    \union {o \in {"indirect"} \X Inodes : addrs[o[2]][NDIRECT] = b}
    \union {o \in {"process"} \X Procs :
              proc[o[2]].b = b /\ proc[o[2]].pc \in {"entry", "indirect"}}

(* A block is marked in the bitmap exactly while one place refers to it:   *)
(* files never share a block, none is lost, and none is freed in use, even *)
(* while balloc, bmap and itrunc of different inodes interleave.  bfree    *)
(* never finds a block that is already free, so that the only panic is     *)
(* balloc's on a full disk.                                                *)
BitmapExact ==
  /\ TypeOK
  /\ panic => Blocks \subseteq used
  /\ ~panic => \A b \in Blocks : Cardinality(Owners(b)) = IF b \in used THEN 1 ELSE 0

(* The bytes that the blocks of inode i hold; a missing block reads as 0. *)
ContentOf(i) ==
  [k \in 1..size[i] |->
     LET b == Entry(i, (k - 1) \div BSIZE)
     IN IF b = 0 THEN 0 ELSE blk[b][(k - 1) % BSIZE]]

(* One transaction of write logs fewer than MAXOPBLOCKS blocks, the number *)
(* that begin_op reserves, however the chunk is aligned and whether or not *)
(* it needs new blocks and the indirect block.                             *)
FitsReservation ==
  \A p \in Procs : Cardinality(proc[p].logged) < MAXOPBLOCKS

(* file.c:106-183, fs.c:373-413, 447-520: through direct and indirect      *)
(* blocks, chunks, and reuse of freed blocks, an unlocked file holds       *)
(* exactly the bytes that completed writes put there, each at the position *)
(* that the shared offset had given it, and read returns the bytes at the  *)
(* offset it started from.  A file that is written through one struct file *)
(* has the size of all complete writes together, whoever made them: the    *)
(* offset is read and advanced under the lock of the inode.  A write from  *)
(* a bad address is excepted: writei leaves what was copied before the     *)
(* fault in the cached block, until the file is truncated.                 *)
ContentIsText ==
  ~panic =>
    /\ \A i \in Inodes \ faulted : lock[i] = 0 => ContentOf(i) = text[i]
    /\ \A p \in Procs : At(p, "bmap") /\ ~proc[p].write /\ Ip(p) \notin faulted
         => proc[p].got = SubSeq(text[Ip(p)], off[proc[p].f] + 1, Position(p))
    /\ \A f \in Files :
         LET i == FileIp[f]
         IN (lock[i] = 0 /\ i \notin faulted /\ \A g \in Files \ {f} : FileIp[g] # i)
               => size[i] = appended[f]
=============================================================================
