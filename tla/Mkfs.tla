-------------------------------- MODULE Mkfs --------------------------------
(***************************************************************************)
(* mkfs/mkfs.c, which writes the file system that the kernel starts from.  *)
(* A sector holds BSIZE cells: a cell is a byte of a file, a block number  *)
(* in an indirect block, or a directory entry, of which the inode number   *)
(* is kept.  The files fit on the image: mkfs does not check that.         *)
(***************************************************************************)
EXTENDS Integers, FiniteSets, Sequences, SequencesExt, FiniteSetsExt

CONSTANTS BSIZE, NDIRECT, NINDIRECT, IPB,
          BPB,           \* bits of a bitmap block: BSIZE * 8
          Layouts,       \* FSSIZE, NINODES and LOGSIZE
          HostFiles      \* sequences of files to copy, a file being its cells

VARIABLES sb,            \* struct superblock
          din,           \* the inodes on the image
          sect,          \* its data blocks
          freeinode, freeblock, bitmap,
          argv, buf,     \* files still to copy, and the rest of the one that is open
          step,
          given          \* history: the files

mvars == <<sb, din, sect, freeinode, freeblock, bitmap, argv, buf, step, given>>

ROOTINO == 1
MAXFILE == NDIRECT + NINDIRECT
zeroes == [c \in 0 .. BSIZE - 1 |-> 0]

(***************************************************************************)
(* The layout: boot block, superblock, log, inodes, bitmap, data.          *)
(***************************************************************************)
ninodeblocks(l) == l.ninodes \div IPB + 1
nbitmap(l) == l.fssize \div BPB + 1
nmeta(l) == 2 + l.nlog + ninodeblocks(l) + nbitmap(l)
superblock(l) ==
  [size |-> l.fssize, nblocks |-> l.fssize - nmeta(l), ninodes |-> l.ninodes, nlog |-> l.nlog,
   logstart |-> 2, inodestart |-> 2 + l.nlog, bmapstart |-> 2 + l.nlog + ninodeblocks(l)]

MInit ==
  /\ \E l \in Layouts : sb = superblock(l) /\ freeblock = nmeta(l)
  /\ given \in HostFiles /\ argv = given /\ buf = <<>>
  /\ din = <<>> /\ freeinode = ROOTINO
  /\ sect = [b \in 0 .. sb.size - 1 |-> zeroes]
  /\ bitmap = {} /\ step = "root"

\* iappend, with the inodes and sectors in a record.  ok is FALSE after its assertion.
Image == [din |-> din, sect |-> sect, freeblock |-> freeblock, ok |-> TRUE]

NotCounted(img) == img.freeblock
AfterIndirect(img) == img.freeblock + 1

Direct(img, inum, fbn) ==
  IF img.din[inum].addrs[fbn] # 0 THEN img
  ELSE [img EXCEPT !.din[inum].addrs[fbn] = img.freeblock, !.freeblock = @ + 1]
Indirect(img, inum) ==
  IF img.din[inum].addrs[NDIRECT] # 0 THEN img
  ELSE [img EXCEPT !.din[inum].addrs[NDIRECT] = img.freeblock, !.freeblock = AfterIndirect(img)]
IndirectEntry(img, inum, k) ==
  LET x == img.din[inum].addrs[NDIRECT]
  IN  IF img.sect[x][k] # 0 THEN img
      ELSE [img EXCEPT !.sect[x][k] = img.freeblock, !.freeblock = @ + 1]
WithBlock(img, inum, fbn) ==
  IF fbn < NDIRECT THEN Direct(img, inum, fbn)
  ELSE IndirectEntry(Indirect(img, inum), inum, fbn - NDIRECT)
BlockOf(img, inum, fbn) ==
  IF fbn < NDIRECT THEN img.din[inum].addrs[fbn]
  ELSE IF img.din[inum].addrs[NDIRECT] = 0 THEN 0
  ELSE img.sect[img.din[inum].addrs[NDIRECT]][fbn - NDIRECT]

RECURSIVE iappend(_, _, _)
iappend(img, inum, p) ==
  LET off == img.din[inum].size
      fbn == off \div BSIZE
      at == off % BSIZE
      n1 == Min({Len(p), BSIZE - at})
      got == WithBlock(img, inum, fbn)
      x == BlockOf(got, inum, fbn)
  IN  IF p = <<>> THEN img
      ELSE IF fbn >= MAXFILE THEN [img EXCEPT !.ok = FALSE]
      ELSE iappend([got EXCEPT !.din[inum].size = off + n1,
                               !.sect[x] = [c \in 0 .. BSIZE - 1 |->
                                  IF c \in at .. at + n1 - 1 THEN p[c - at + 1] ELSE @[c]]],
                   inum, SubSeq(p, n1 + 1, Len(p)))

ialloc(img, type) ==
  [img EXCEPT !.din = Append(@, [type |-> type, nlink |-> 1, size |-> 0,
                                 addrs |-> [k \in 0 .. NDIRECT |-> 0]])]

Store(img) == din' = img.din /\ sect' = img.sect /\ freeblock' = img.freeblock

(***************************************************************************)
(* main: the root with "." and "..", each file and its entry, the size of  *)
(* the root, the bitmap.                                                   *)
(***************************************************************************)
mkroot ==
  /\ step = "root"
  /\ Store(iappend(ialloc(Image, "dir"), ROOTINO, <<ROOTINO, ROOTINO>>))
  /\ freeinode' = freeinode + 1
  /\ step' = "file"
  /\ UNCHANGED <<sb, bitmap, argv, buf, given>>

mkfile ==
  /\ step = "file" /\ argv # <<>>
  /\ LET img == iappend(ialloc(Image, "file"), ROOTINO, <<freeinode>>)
     IN  Store(img) /\ step' = IF img.ok THEN "copy" ELSE "abort"
  /\ freeinode' = freeinode + 1
  /\ buf' = Head(argv) /\ argv' = Tail(argv)
  /\ UNCHANGED <<sb, bitmap, given>>

copy ==
  /\ step = "copy"
  /\ LET cc == Min({BSIZE, Len(buf)})
         img == iappend(Image, freeinode - 1, SubSeq(buf, 1, cc))
     IN  /\ Store(img)
         /\ buf' = SubSeq(buf, cc + 1, Len(buf))
         /\ step' = IF ~img.ok THEN "abort" ELSE IF cc = 0 THEN "file" ELSE "copy"
  /\ UNCHANGED <<sb, freeinode, bitmap, argv, given>>

balloc(used) == 0 .. used - 1

finish ==
  /\ step = "file" /\ argv = <<>>
  /\ din' = [din EXCEPT ![ROOTINO].size = (@ \div BSIZE + 1) * BSIZE]
  /\ IF freeblock < BPB THEN bitmap' = balloc(freeblock) /\ step' = "done"
     ELSE step' = "abort" /\ UNCHANGED bitmap
  /\ UNCHANGED <<sb, sect, freeinode, freeblock, argv, buf, given>>

MNext == mkroot \/ mkfile \/ copy \/ finish

-----------------------------------------------------------------------------
\* What the kernel reads from inode i: zeroes where it has no block.
Read(i) ==
  [k \in 1 .. din[i].size |->
     LET x == BlockOf(Image, i, (k - 1) \div BSIZE)
     IN  IF x = 0 THEN 0 ELSE sect[x][(k - 1) % BSIZE]]
Places(i) == [k \in 0 .. MAXFILE |-> IF k = MAXFILE THEN din[i].addrs[NDIRECT] ELSE BlockOf(Image, i, k)]
Owners(x) == {<<i, k>> \in (DOMAIN din) \X (0 .. MAXFILE) : Places(i)[k] = x}

\* mkfs.c:66-196, 232-305, fs.h:38-56: the image is a file system for the kernel.  The log,
\* the blocks of all inodes and the bitmap of all blocks lie one behind the other, before
\* the data.  The root lists ".", ".." and the files, in order, and ends with empty
\* entries; each file has the content of the host's.  The blocks marked in the bitmap
\* are the metadata and those that exactly one place of one inode refers to.
ImageSound ==
  step = "done" =>
    /\ sb.inodestart = sb.logstart + sb.nlog
    /\ \A i \in 0 .. sb.ninodes : i \div IPB + sb.inodestart < sb.bmapstart
    /\ \A b \in 0 .. sb.size - 1 : b \div BPB + sb.bmapstart < sb.size - sb.nblocks
    /\ \A i \in 2 .. Len(din) : Read(i) = given[i - 1] /\ din[i].nlink = 1 /\ din[i].type = "file"
    /\ LET names == <<ROOTINO>> \o [i \in 1 .. Len(din) |-> i]
       IN  /\ IsPrefix(names, Read(ROOTINO)) /\ din[ROOTINO].type = "dir"
           /\ \A k \in Len(names) + 1 .. din[ROOTINO].size : Read(ROOTINO)[k] = 0
    /\ \A x \in 0 .. sb.size - 1 :
         Cardinality(Owners(x)) = IF x \in bitmap /\ x >= sb.size - sb.nblocks THEN 1
                                  ELSE IF x = 0 THEN Cardinality(Owners(0)) ELSE 0
=============================================================================
