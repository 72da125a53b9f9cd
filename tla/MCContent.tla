----------------------------- MODULE MCContent -----------------------------
(***************************************************************************)
(* Instances of Content, two processes, two inodes, BSIZE cells per block, *)
(* and of Mkfs, which share no variable: part says which of them moves.    *)
(***************************************************************************)
EXTENDS Content

VARIABLES part, sb, din, sect, freeinode, freeblock, bitmap, argv, buf, step, given

(* Files 1 and 2 are two opens of inode 1, file 3 is an open of inode 2. *)
FileIps == [f \in Files |-> IF f = 3 THEN 2 ELSE 1]

(* Each process writes its own number. *)
Numbers == [p \in Procs |-> p]

(* A count may be negative: readi takes it for a large unsigned number. *)
Counts == {-1, 3}

(* The first process makes two calls, the second one. *)
TwoAndOne == [p \in Procs |-> IF p = 1 THEN 2 ELSE 1]

(* Up to three files that end within a block, at its end, in the indirect  *)
(* block and beyond MAXFILE; inode blocks and log of several sizes.        *)
M == INSTANCE Mkfs WITH
       IPB <- 2, BPB <- 32,
       Layouts <- {[fssize |-> 25, ninodes |-> n, nlog |-> g] : n \in {5, 6}, g \in {1, 2}},
       HostFiles <- UNION {{[j \in 1 .. m |-> [k \in 1 .. lens[j] |-> 50 + 10 * j + k]] :
                              lens \in [1 .. m -> {0, 1, 2, 3, 5, 6, 7}]} : m \in 0 .. 3}
mvars == <<sb, din, sect, freeinode, freeblock, bitmap, argv, buf, step, given>>

MCInit ==
  /\ part \in {"Content", "Mkfs"} /\ Init /\ M!MInit
  /\ part = "Content" => given = <<>> /\ sb.ninodes = 5 /\ sb.nlog = 1

MCNext ==
  \/ part = "Content" /\ Next /\ UNCHANGED <<part, mvars>>
  \/ part = "Mkfs" /\ M!MNext /\ UNCHANGED <<part, vars>>

MCSpec == MCInit /\ [][MCNext]_<<part, vars, mvars>>

\* mkfs.c:66-305: the image is a file system: the regions that the kernel computes lie one
\* behind the other, files and root read back as they should, every block has one owner.
ImageSound == M!ImageSound
=============================================================================
