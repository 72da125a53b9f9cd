-------------------------------- MODULE Exec --------------------------------
(***************************************************************************)
(* What exec does with memory's contents: sys_exec reads the arguments out *)
(* of the caller's memory (kernel/sysfile.c, syscall.c), exec loads the    *)
(* program's segments and lays the arguments out on the new stack          *)
(* (exec.c), and all of it goes through walkaddr, copyin, copyout and      *)
(* copyinstr (vm.c), which translate one page at a time.  Which pages are  *)
(* allocated and freed is Vm's part; here an allocation succeeds or fails. *)
(*                                                                         *)
(* Addresses count bytes modulo WORD; a pointer takes PTR bytes (8), and   *)
(* the stack is aligned to ALIGN (16).                                     *)
(***************************************************************************)
EXTENDS Integers, Sequences, FiniteSetsExt

CONSTANTS
  PGSIZE, PTR, ALIGN, MAXARG,
  NV,          \* virtual pages: MAXVA is NV * PGSIZE
  WORD,
  OldTable,    \* the caller's page table: virtual page to [pa, u], pa = 0 if invalid
  OldSz,
  Calls,       \* arguments of exec: see Memory
  Programs     \* files: [magic, len, ph]; see load

VARIABLES
  pc,
  call,        \* the arguments of exec
  prog,        \* the file that its path names
  mem,         \* physical pages: [offset -> byte]
  pt, sz,      \* the new page table and its size
  i,           \* loop variable of sys_exec and of both loops of exec
  argv,        \* strings fetched so far
  sp, ustack,
  nomem        \* history: an allocation failed

evars == <<pc, call, prog, mem, pt, sz, i, argv, sp, ustack, nomem>>

MAXVA == NV * PGSIZE
Vpns == 0 .. NV - 1
Offsets == 0 .. PGSIZE - 1
NoPage == [pa |-> 0, u |-> FALSE]
Junk == 99                      \* what kfree leaves in a page
RoundUp(n, k) == k * ((n + k - 1) \div k)
RoundDown(n, k) == k * (n \div k)

(***************************************************************************)
(* The caller's memory: strings of the lengths c.lens, one after the other *)
(* from c.at, and at c.uargv their addresses, c.wild if not 0, and 0.      *)
(***************************************************************************)
Start(c, j) == c.at + FoldSet(LAMBDA k, n : n + c.lens[k] + 1, 0, 1 .. j - 1)
Char(j, k) == 20 * j + k
Pointers(c) == [j \in 1 .. Len(c.lens) |-> Start(c, j)] \o (IF c.wild = 0 THEN <<0>> ELSE <<c.wild, 0>>)
Bytes(a) == [k \in 1 .. PTR |-> IF a = 0 THEN 0 ELSE 2000 + 10 * a + k]
Word(b) == IF \E a \in 0 .. WORD - 1 : b = Bytes(a)
           THEN CHOOSE a \in 0 .. WORD - 1 : b = Bytes(a) ELSE WORD - 1
InArray(c, va) == va - c.uargv \in 0 .. Len(Pointers(c)) * PTR - 1
InString(c, va) == va - c.at \in 0 .. Start(c, Len(c.lens) + 1) - c.at - 1

Memory(c, va) ==
  IF InArray(c, va)
  THEN Bytes(Pointers(c)[1 + (va - c.uargv) \div PTR])[1 + ((va - c.uargv) % PTR)]
  ELSE IF InString(c, va)
  THEN LET j == Max({n \in 1 .. Len(c.lens) : Start(c, n) <= va})
           k == va - Start(c, j)
       IN  IF k = c.lens[j] THEN 0 ELSE Char(j, k)
  ELSE 7

OldPages == {OldTable[v].pa : v \in Vpns} \ {0}
Pages == OldPages \union (100 .. 100 + NV)       \* the new image's pages are 100 + vpn

NoFile == [magic |-> FALSE, len |-> 0, ph |-> <<>>]

EInit ==
  /\ pc = "fetch" /\ i = 0 /\ argv = <<>> /\ sp = 0 /\ ustack = <<>> /\ nomem = FALSE
  /\ call \in Calls /\ prog = NoFile
  /\ \A va \in 0 .. WORD - 1 : ~(InArray(call, va) /\ InString(call, va))
  /\ mem = [g \in Pages |-> [o \in Offsets |->
              IF g \in OldPages
              THEN Memory(call, (CHOOSE v \in Vpns : OldTable[v].pa = g) * PGSIZE + o)
              ELSE Junk]]
  /\ pt = [v \in Vpns |-> IF v >= NV - 2 THEN OldTable[v] ELSE NoPage] /\ sz = 0

-----------------------------------------------------------------------------
(***************************************************************************)
(* vm.c.  va is the address of a page.                                     *)
(***************************************************************************)
walkaddr(t, va) == IF va >= MAXVA \/ ~t[va \div PGSIZE].u THEN 0 ELSE t[va \div PGSIZE].pa

Fail == [ok |-> FALSE, s |-> <<>>]
Found(s) == [ok |-> TRUE, s |-> s]
\* The bytes of page g from the offset of va on, at most n.
Chunk(g, va, n) ==
  LET o == va % PGSIZE
  IN  [k \in 1 .. Min({PGSIZE - o, n}) |-> mem[g][o + k - 1]]
SameOffset(va) == (va + PGSIZE) % WORD
NextPage(va) == (RoundDown(va, PGSIZE) + PGSIZE) % WORD

RECURSIVE copyin(_, _, _)
copyin(t, srcva, len) ==
  IF len = 0 THEN Found(<<>>)
  ELSE LET g == walkaddr(t, RoundDown(srcva, PGSIZE))
           c == Chunk(g, srcva, len)
           rest == copyin(t, NextPage(srcva), len - Len(c))
       IN  IF g = 0 \/ ~rest.ok THEN Fail ELSE Found(c \o rest.s)

RECURSIVE copyinstr(_, _, _)
copyinstr(t, srcva, max) ==
  IF max = 0 THEN Fail
  ELSE LET g == walkaddr(t, RoundDown(srcva, PGSIZE))
           c == Chunk(g, srcva, max)
           nul == {k \in 1 .. Len(c) : c[k] = 0}
           rest == copyinstr(t, NextPage(srcva), max - Len(c))
       IN  IF g = 0 THEN Fail
           ELSE IF nul # {} THEN Found(SubSeq(c, 1, Min(nul) - 1))
           ELSE IF rest.ok THEN Found(c \o rest.s) ELSE Fail

\* The memory m with src copied to dstva; ok is FALSE when a page is missing.
RECURSIVE copyout(_, _, _, _)
copyout(t, m, dstva, src) ==
  IF src = <<>> THEN [ok |-> TRUE, m |-> m]
  ELSE LET g == walkaddr(t, RoundDown(dstva, PGSIZE))
           o == dstva % PGSIZE
           n == Min({PGSIZE - o, Len(src)})
           m1 == [m EXCEPT ![g] = [k \in Offsets |-> IF k - o \in 0 .. n - 1
                                                     THEN src[k - o + 1] ELSE @[k]]]
       IN  IF g = 0 THEN [ok |-> FALSE, m |-> m]
           ELSE copyout(t, m1, NextPage(dstva), SubSeq(src, n + 1, Len(src)))

(***************************************************************************)
(* sys_exec and syscall.c.                                                 *)
(***************************************************************************)
fetchaddr(addr) ==
  IF addr >= OldSz \/ (addr + PTR) % WORD > OldSz THEN Fail ELSE copyin(OldTable, addr, PTR)
fetchstr(addr) == copyinstr(OldTable, addr, PGSIZE)

bad == pc' = "bad" /\ UNCHANGED <<prog, mem, pt, sz, i, argv, sp, ustack>>

sys_exec ==
  /\ pc = "fetch"
  /\ LET uarg == fetchaddr((call.uargv + PTR * i) % WORD)
         s == fetchstr(Word(uarg.s))
     IN  \/ (i >= MAXARG \/ ~uarg.ok) /\ bad /\ UNCHANGED nomem
         \/ /\ i < MAXARG /\ uarg.ok
            /\ IF Word(uarg.s) = 0
               THEN /\ pc' = "load" /\ i' = 1 /\ prog' \in Programs
                    /\ UNCHANGED <<mem, pt, sz, argv, sp, ustack, nomem>>
               ELSE \/ bad /\ nomem' = TRUE                  \* kalloc fails
                    \/ ~s.ok /\ bad /\ UNCHANGED nomem
                    \/ /\ s.ok /\ argv' = Append(argv, s.s) /\ i' = i + 1
                       /\ UNCHANGED <<prog, pc, mem, pt, sz, sp, ustack, nomem>>
  /\ UNCHANGED call

(***************************************************************************)
(* exec.  uvmalloc's pages are zeroed and mapped for the user.             *)
(***************************************************************************)
NewPages(newsz) == RoundUp(sz, PGSIZE) \div PGSIZE .. RoundUp(newsz, PGSIZE) \div PGSIZE - 1
Mapped(newsz) == [v \in Vpns |-> IF v \in NewPages(newsz) THEN [pa |-> 100 + v, u |-> TRUE] ELSE pt[v]]
Zeroed(newsz) == [g \in Pages |-> IF g - 100 \in NewPages(newsz) THEN [o \in Offsets |-> 0] ELSE mem[g]]
uvmalloc(newsz) == IF newsz < sz THEN sz ELSE newsz

\* loadseg: the file's byte at offset o has the value 1000 + o.
FileByte(o) == 1000 + o
loadseg(t, m, va, off, n) == copyout(t, m, va, [k \in 1 .. n |-> FileByte(off + k - 1)])

\* The loop over the program headers.  A header that is not all in the file ends it.
BadHeader(ph) ==
  ph.type = "short" \/ ph.memsz < ph.filesz \/ (ph.vaddr + ph.memsz) % WORD < ph.vaddr

load ==
  /\ pc = "load"
  /\ LET ph == prog.ph[i]
         newsz == ph.vaddr + ph.memsz
         m == loadseg(Mapped(newsz), Zeroed(newsz), ph.vaddr, ph.off, ph.filesz)
     IN  IF ~prog.magic THEN bad /\ UNCHANGED nomem
         ELSE IF i > Len(prog.ph)
         THEN pc' = "stack" /\ UNCHANGED <<prog, mem, pt, sz, i, argv, sp, ustack, nomem>>
         ELSE IF ph.type = "other"
         THEN i' = i + 1 /\ UNCHANGED <<prog, pc, mem, pt, sz, argv, sp, ustack, nomem>>
         ELSE IF BadHeader(ph) \/ uvmalloc(newsz) = 0 \/ ph.vaddr % PGSIZE # 0
                 \/ prog.len < ph.off + ph.filesz
         THEN bad /\ UNCHANGED nomem
         ELSE \/ bad /\ nomem' = TRUE
              \/ /\ mem' = m.m /\ pt' = Mapped(newsz) /\ sz' = uvmalloc(newsz) /\ i' = i + 1
                 /\ UNCHANGED <<prog, pc, argv, sp, ustack, nomem>>
  /\ UNCHANGED call

\* Two pages: the lower one, which uvmclear takes from the user, guards the stack.
stack ==
  /\ pc = "stack"
  /\ LET top == RoundUp(sz, PGSIZE) + 2 * PGSIZE
     IN  \/ bad /\ nomem' = TRUE
         \/ /\ pt' = [Mapped(top) EXCEPT ![top \div PGSIZE - 2].u = FALSE]
            /\ mem' = Zeroed(top) /\ sz' = top /\ sp' = top
            /\ i' = 1 /\ pc' = "push"
            /\ UNCHANGED <<prog, argv, ustack, nomem>>
  /\ UNCHANGED call

Aligned(n) == RoundDown(n, ALIGN)
stackbase == sz - PGSIZE

\* The loop over argv, and after it the array of pointers.
push ==
  /\ pc = "push"
  /\ LET s == IF i <= Len(argv) THEN Append(argv[i], 0)
              ELSE [k \in 1 .. (i * PTR) |->
                      (IF (k - 1) \div PTR = i - 1 THEN Bytes(0)
                       ELSE Bytes(ustack[1 + (k - 1) \div PTR]))[1 + ((k - 1) % PTR)]]
         to == Aligned(sp - Len(s))
         out == copyout(pt, mem, to, s)
     IN  IF i > MAXARG + 1 \/ to < stackbase \/ ~out.ok THEN bad
         ELSE /\ mem' = out.m /\ sp' = to
              /\ ustack' = Append(ustack, to) /\ i' = i + 1
              /\ pc' = IF i > Len(argv) THEN "started" ELSE "push"
              /\ UNCHANGED <<prog, pt, sz, argv>>
  /\ UNCHANGED <<call, nomem>>

ENext == sys_exec \/ load \/ stack \/ push
ESpec == EInit /\ [][ENext]_evars

-----------------------------------------------------------------------------
\* What the user finds at va, byte by byte: the reference for the copies above.
Readable(t, va) == va < MAXVA /\ t[va \div PGSIZE].u
Byte(t, va) == mem[t[va \div PGSIZE].pa][va % PGSIZE]
ReadableWord(t, va) == \A k \in 0 .. PTR - 1 : Readable(t, va + k)
WordAt(t, va) == Word([k \in 1 .. PTR |-> Byte(t, va + k - 1)])
IsString(t, va, s) ==
  /\ \A k \in 0 .. Len(s) : Readable(t, va + k) /\ Byte(t, va + k) = (s \o <<0>>)[k + 1]
  /\ \A k \in 1 .. Len(s) : s[k] # 0

\* The caller's arguments can be read and fit: n of them.
Uargv(k) == call.uargv + PTR * k
Acceptable(n) ==
  /\ n < MAXARG
  /\ \A k \in 0 .. n : Uargv(k) + PTR <= OldSz /\ ReadableWord(OldTable, Uargv(k))
  /\ \A k \in 0 .. n : WordAt(OldTable, Uargv(k)) = 0 <=> k = n
  /\ \E lens \in [1 .. n -> 0 .. PGSIZE - 1] :
       /\ \A k \in 1 .. n : LET a == WordAt(OldTable, Uargv(k - 1))
                            IN  /\ \A o \in 0 .. lens[k] : Readable(OldTable, a + o)
                                /\ \A o \in 0 .. lens[k] : Byte(OldTable, a + o) = 0 <=> o = lens[k]
       /\ RoundUp((n + 1) * PTR, ALIGN)
            + FoldSet(LAMBDA k, t : t + RoundUp(lens[k] + 1, ALIGN), 0, 1 .. n) <= PGSIZE

GoodProgram ==
  /\ prog.magic
  /\ \A k \in 1 .. Len(prog.ph) : LET ph == prog.ph[k] IN
       ph.type # "other" => /\ ~BadHeader(ph) /\ ph.vaddr % PGSIZE = 0
                            /\ ph.off + ph.filesz <= prog.len /\ ph.vaddr + ph.memsz > 0

\* The byte of the program's image at va: the last segment that has one there.
Image(va) ==
  LET has == {k \in 1 .. Len(prog.ph) : /\ prog.ph[k].type = "load"
                                        /\ va - prog.ph[k].vaddr \in 0 .. prog.ph[k].filesz - 1}
      ph == prog.ph[Max(has)]
  IN  IF has = {} THEN 0 ELSE FileByte(ph.off + va - ph.vaddr)

\* vm.c:354-442, syscall.c:11-32, sysfile.c:426-442, exec.c:42-103: a program that
\* exec has started finds its segments and below them zeroes, a stack page above a
\* page that it cannot use, and at the aligned sp the addresses of strings on its stack
\* that are those the caller had; and exec fails only if memory runs out, the file is
\* no program, or the arguments cannot be read or do not fit.
ProgramStarts ==
  /\ pc = "started" =>
       LET n == Len(argv)
       IN  /\ sp % ALIGN = 0 /\ \A va \in sp .. sz - 1 : Readable(pt, va)
           /\ ~Readable(pt, stackbase - 1)
           /\ \A va \in 0 .. stackbase - PGSIZE - 1 : Readable(pt, va) /\ Byte(pt, va) = Image(va)
           /\ Acceptable(n) /\ GoodProgram
           /\ WordAt(pt, sp + PTR * n) = 0
           /\ \A k \in 1 .. n : /\ IsString(OldTable, WordAt(OldTable, Uargv(k - 1)), argv[k])
                                /\ IsString(pt, WordAt(pt, sp + PTR * (k - 1)), argv[k])
                                /\ WordAt(pt, sp + PTR * (k - 1)) >= sp
  /\ pc = "bad" => nomem \/ (prog # NoFile /\ ~GoodProgram) \/ \A n \in 0 .. MAXARG : ~Acceptable(n)
=============================================================================
