-------------------------------- MODULE MCVm --------------------------------
(***************************************************************************)
(* Instances for TLC of three modules about memory that share no variable: *)
(* Vm, a few processes with pages of two units; Exec, one call with pages  *)
(* of 16 bytes; and Umalloc, a heap of a few headers.  part says which of  *)
(* them moves.                                                             *)
(***************************************************************************)
EXTENDS Vm, Sequences

VARIABLES part,
          ptr, size, freep, brk, nunits, nbytes, used, core, asked,
          pc, call, prog, mem, pt, sz, i, argv, sp, ustack, nomem

(* sbrk by half a page up, a page and a half up, a page down, which may be *)
(* more than the process has.                                              *)
Changes == {1, 3, -2}

U == INSTANCE Umalloc WITH Bytes <- {0, 16, 40}, NAlloc <- 4, Gaps <- {1}, End <- 12
uvars == <<ptr, size, freep, brk, nunits, nbytes, used, core, asked>>

(* The caller has two pages, a guard page and a stack below its size, and  *)
(* the trapframe and the trampoline on top.  Its strings and its array lie *)
(* inside pages, across their borders, before the guard page, at the end   *)
(* of its memory and beyond; a pointer may lead to the guard page, out of  *)
(* its memory or out of the address space.  Two strings of 3 bytes and     *)
(* their pointers fill the stack page, and so does one of 11; three        *)
(* arguments are more than MAXARG allows.                                  *)
OldTable == [v \in 0 .. 6 |-> [pa |-> v + 1, u |-> v \in {0, 1, 3}]]
ExecCalls ==
  [lens : UNION {[1 .. n -> {0, 3, 4, 11, 12, 15, 16}] : n \in 0 .. 1}
            \union [1 .. 2 -> {0, 3, 4, 12}] \union [1 .. 3 -> {0, 3}],
   at : {1, 12, 28, 49, 60}, uargv : {0, 15, 23, 55, 90, 126}, wild : {0}]
    \union [lens : {<<1>>}, at : {12}, uargv : {20}, wild : {26, 40, 100, 127}]

(* Programs of one to three headers: data up to a page border, a segment   *)
(* with zeroes at its end, segments in falling order; and broken ones.     *)
Seg(vaddr, memsz, filesz, off) ==
  [type |-> "load", vaddr |-> vaddr, memsz |-> memsz, filesz |-> filesz, off |-> off]
ExecPrograms ==
  [magic : {TRUE}, len : {18},
   ph : {<<Seg(0, 22, 18, 0)>>, <<Seg(0, 3, 3, 2), [type |-> "other"], Seg(16, 2, 1, 0)>>,
         <<Seg(16, 16, 8, 1), Seg(0, 16, 6, 5)>>,
         <<Seg(0, 16, 8, 11)>>, <<Seg(0, 16, 17, 0)>>, <<Seg(8, 8, 8, 0)>>,
         <<Seg(0, 8, 8, 0), [type |-> "short"]>>, <<Seg(0, 0, 0, 0)>>, <<Seg(16, 120, 1, 0)>>, <<>>}]
    \union {[magic |-> FALSE, len |-> 18, ph |-> <<>>]}

E == INSTANCE Exec WITH PGSIZE <- 16, PTR <- 2, ALIGN <- 4, MAXARG <- 3, NV <- 7, WORD <- 128,
                        OldSz <- 64, Calls <- ExecCalls, Programs <- ExecPrograms
evars == <<pc, call, prog, mem, pt, sz, i, argv, sp, ustack, nomem>>

NoExec ==
  /\ pc = 0 /\ call = 0 /\ prog = 0 /\ mem = 0 /\ pt = 0 /\ sz = 0 /\ i = 0 /\ argv = 0
  /\ sp = 0 /\ ustack = 0 /\ nomem = 0

MCInit ==
  /\ Init /\ U!UInit
  /\ \/ part \in {"Vm", "Umalloc"} /\ NoExec
     \/ part = "Exec" /\ E!EInit

MCNext ==
  /\ UNCHANGED part
  /\ \/ part = "Vm" /\ Next /\ UNCHANGED <<uvars, evars>>
     \/ part = "Umalloc" /\ U!UNext /\ UNCHANGED <<vars, evars>>
     \/ part = "Exec" /\ E!ENext /\ UNCHANGED <<vars, uvars>>

MCSpec == MCInit /\ [][MCNext]_<<part, vars, uvars, evars>>

\* umalloc.c:25-90: malloc's blocks are disjoint and big enough, and what is free is
\* in order, joined and all there.
HeapSound == U!HeapSound

\* exec.c:42-103, sysfile.c:426-442, vm.c:354-442: exec starts a program with its image
\* and its arguments in place, or fails for a reason.
ProgramStarts == part = "Exec" => E!ProgramStarts
=============================================================================
