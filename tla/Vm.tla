--------------------------------- MODULE Vm ---------------------------------
(***************************************************************************)
(* Physical pages and user page tables: kernel/kalloc.c, vm.c, and the     *)
(* calls that use them, fork, exec, sbrk and the end of a process          *)
(* (proc.c, exec.c, sysproc.c, sysfile.c).                                 *)
(*                                                                         *)
(* A step allocates or frees at most one page, under kmem.lock; between    *)
(* two steps the other processes run, and every allocation may find the    *)
(* free list empty.  A page table has the trampoline and the trapframe in  *)
(* one leaf table at the top, and user memory, from address 0, in one leaf *)
(* table at the bottom; walk allocates the NDIR page-table pages that lead *)
(* to each of them (Sv39 has two levels below the root) when it first      *)
(* needs them.  Sizes are in units of which PGSIZE make a page.            *)
(***************************************************************************)
EXTENDS Integers, FiniteSets, FiniteSetsExt, TLC

CONSTANTS Procs, NPages, PGSIZE,
          NDIR,          \* page-table pages that a leaf mapping needs below the root
          MaxPages,      \* user pages of a process, the model's bound
          UINT,          \* growproc's size counts modulo UINT
          Deltas,        \* arguments of sbrk
          Segments,      \* sizes of the programs that exec loads
          MaxCalls
ASSUME VmAssumption ==
  /\ IsFiniteSet(Procs) /\ Procs # {} /\ Procs \subseteq Nat \ {0}
  /\ NPages \in Nat /\ MaxCalls \in Nat /\ PGSIZE \in Nat \ {0} /\ MaxPages \in Nat
  /\ NDIR \in Nat /\ NPages >= 3 + 2 * NDIR
  /\ UINT \in Nat /\ UINT > 2 * MaxPages * PGSIZE
  /\ Deltas \subseteq Int /\ Segments \subseteq Nat \ {0}

VARIABLES free,    \* kmem.freelist, whose order does not matter
          table,   \* the page tables, by their root page
          proc,    \* each process: its memory, and where it is in a call
          panic,
          calls    \* calls made so far

vars == <<free, table, proc, panic, calls>>

Pages == 1..NPages
Vpns == 0..MaxPages - 1
PGROUNDUP(n) == (n + PGSIZE - 1) \div PGSIZE     \* in pages

(* An empty root page: no page-table pages below it, no fixed mappings. *)
NoTable == [live |-> FALSE, top |-> {}, low |-> {}, fixed |-> FALSE,
            leaf |-> [v \in Vpns |-> 0]]

(* A slot of the process table: its trapframe page, its page table and     *)
(* size, and the locals of the call it is in: the table worked on (t), the *)
(* page in hand (mem), the range of a loop (lo, a, lim), the new size      *)
(* (nsz), the segment of exec (seg), the page of the argument string       *)
(* (argv), and where to go on.                                             *)
Unused == [pc |-> "unused", tf |-> 0, pt |-> 0, sz |-> 0, t |-> 0, mem |-> 0,
           lo |-> 0, a |-> 0, lim |-> 0, nsz |-> 0, argv |-> 0, child |-> 0,
           ok |-> "", bad |-> "", then |-> "", seg |-> 0]

First == Min(Procs)

(* userinit: one process with a page of memory.  The first pages are its   *)
(* trapframe, root, memory and page-table pages.                           *)
Init ==
  /\ free = Pages \ (1..3 + 2 * NDIR)
  /\ table = [g \in Pages |-> IF g = 2
                THEN [live |-> TRUE, top |-> 4..3 + NDIR, low |-> 4 + NDIR..3 + 2 * NDIR,
                      fixed |-> TRUE, leaf |-> [v \in Vpns |-> IF v = 0 THEN 3 ELSE 0]]
                ELSE NoTable]
  /\ proc = [p \in Procs |-> IF p = First
               THEN [Unused EXCEPT !.pc = "idle", !.tf = 1, !.pt = 2, !.sz = PGSIZE]
               ELSE Unused]
  /\ panic = FALSE
  /\ calls = 0

-----------------------------------------------------------------------------
At(p, pc) == ~panic /\ proc[p].pc = pc
Set(p, fields) == proc' = [proc EXCEPT ![p] = fields @@ @]

(* kalloc takes a page from the free list, kfree puts one back. *)
Page == Min(free)
kalloc == free' = free \ {Page}

kfree(g) == free' = free \union {g}

(* Locals that a finished call leaves behind. *)
Done(p) == [Unused EXCEPT !.pc = "idle", !.tf = proc[p].tf, !.pt = proc[p].pt,
                          !.sz = proc[p].sz]

-----------------------------------------------------------------------------
(***************************************************************************)
(* proc_pagetable: the root, then the mappings of trampoline and           *)
(* trapframe, which lie in the same leaf table.                            *)
(***************************************************************************)
MakeTable(ok, bad) == [pc |-> "create", ok |-> ok, bad |-> bad]

uvmcreate(p) ==
  /\ At(p, "create")
  /\ IF free = {}
     THEN /\ Set(p, [pc |-> proc[p].bad])
          /\ UNCHANGED <<free, table>>
     ELSE /\ kalloc
          /\ table' = [table EXCEPT ![Page] = [NoTable EXCEPT !.live = TRUE]]
          /\ Set(p, [pc |-> "top", t |-> Page])
  /\ UNCHANGED panic

(* walk for TRAMPOLINE: the page-table pages it needs; without them the    *)
(* part of the tree that exists is freed.                                  *)
top_walk(p) ==
  /\ At(p, "top") /\ Cardinality(table[proc[p].t].top) < NDIR
  /\ IF free = {}
     THEN /\ Set(p, [pc |-> "freewalk", ok |-> proc[p].bad])
          /\ UNCHANGED <<free, table>>
     ELSE /\ kalloc
          /\ table' = [table EXCEPT ![proc[p].t].top = @ \union {Page}]
          /\ UNCHANGED proc
  /\ UNCHANGED panic

top_map(p) ==
  /\ At(p, "top") /\ Cardinality(table[proc[p].t].top) = NDIR
  /\ table' = [table EXCEPT ![proc[p].t].fixed = TRUE]
  /\ Set(p, [pc |-> proc[p].ok])
  /\ UNCHANGED <<free, panic>>

-----------------------------------------------------------------------------
(***************************************************************************)
(* The loop of uvmalloc and of uvmcopy: a page, its mapping, the next.     *)
(***************************************************************************)
Populate(t, lo, lim, ok, bad) ==
  [pc |-> "loop", t |-> t, lo |-> lo, a |-> lo, lim |-> lim, ok |-> ok, bad |-> bad]

(* On failure the pages that the loop has mapped are unmapped. *)
Undo(p) == [pc |-> "unmap", lim |-> proc[p].a, a |-> proc[p].lo, then |-> proc[p].bad]

(* uvmcopy's panics: every page below the parent's size must be mapped. *)
NotPresent(p) == proc[p].ok = "fork_done" /\ table[proc[p].pt].leaf[proc[p].a] = 0

loop_kalloc(p) ==
  /\ At(p, "loop") /\ proc[p].a < proc[p].lim /\ proc[p].mem = 0
  /\ IF NotPresent(p)
     THEN panic' = TRUE /\ UNCHANGED <<free, proc>>
     ELSE /\ UNCHANGED panic
          /\ IF free = {}
             THEN Set(p, Undo(p)) /\ UNCHANGED free
             ELSE kalloc /\ Set(p, [mem |-> Page])
  /\ UNCHANGED table

(* walk in mappages; mem is freed when it fails. *)
MemKept(g) == free
MemFreed(g) == free \union {g}

loop_walk(p) ==
  /\ At(p, "loop") /\ proc[p].mem # 0
  /\ Cardinality(table[proc[p].t].low) < NDIR
  /\ IF free = {}
     THEN /\ free' = MemFreed(proc[p].mem)
          /\ Set(p, Undo(p) @@ [mem |-> 0])
          /\ UNCHANGED table
     ELSE /\ kalloc
          /\ table' = [table EXCEPT ![proc[p].t].low = @ \union {Page}]
          /\ UNCHANGED proc
  /\ UNCHANGED panic

(* mappages, with its panic("remap"). *)
loop_map(p) ==
  /\ At(p, "loop") /\ proc[p].mem # 0
  /\ Cardinality(table[proc[p].t].low) = NDIR
  /\ IF table[proc[p].t].leaf[proc[p].a] # 0
     THEN panic' = TRUE /\ UNCHANGED <<table, proc>>
     ELSE /\ table' = [table EXCEPT ![proc[p].t].leaf[proc[p].a] = proc[p].mem]
          /\ Set(p, [mem |-> 0, a |-> proc[p].a + 1])
          /\ UNCHANGED panic
  /\ UNCHANGED free

loop_done(p) ==
  /\ At(p, "loop") /\ proc[p].a >= proc[p].lim /\ proc[p].mem = 0
  /\ Set(p, [pc |-> proc[p].ok])
  /\ UNCHANGED <<free, table, panic>>

-----------------------------------------------------------------------------
(***************************************************************************)
(* uvmunmap with do_free, and freewalk.                                    *)
(***************************************************************************)
Unmap(t, lo, lim, then) == [pc |-> "unmap", t |-> t, a |-> lo, lim |-> lim, then |-> then]

uvmunmap(p) ==
  /\ At(p, "unmap")
  /\ LET t == proc[p].t
         a == proc[p].a
     IN IF a >= proc[p].lim
        THEN /\ Set(p, [pc |-> proc[p].then])
             /\ UNCHANGED <<free, table, panic>>
        ELSE IF table[t].leaf[a] = 0
        THEN /\ panic' = TRUE
             /\ UNCHANGED <<free, table, proc>>
        ELSE /\ kfree(table[t].leaf[a])
             /\ table' = [table EXCEPT ![t].leaf[a] = 0]
             /\ Set(p, [a |-> a + 1])
             /\ UNCHANGED panic

(* proc_freepagetable: the fixed mappings go first, then user memory, then *)
(* the tree.                                                               *)
proc_freepagetable(t, sz, ok) ==
  Unmap(t, 0, PGROUNDUP(sz), "freewalk") @@ [ok |-> ok]

fixed_unmap(t) == table' = [table EXCEPT ![t].fixed = FALSE]

(* freewalk frees the tables below the root one by one, then the root; a   *)
(* mapping that is left makes it panic.                                    *)
freewalk(p) ==
  /\ At(p, "freewalk")
  /\ LET t == proc[p].t
         below == table[t].top \union table[t].low
     IN IF table[t].fixed \/ \E v \in Vpns : table[t].leaf[v] # 0
        THEN /\ panic' = TRUE
             /\ UNCHANGED <<free, table, proc>>
        ELSE /\ UNCHANGED panic
             /\ IF below # {}
                THEN /\ kfree(Min(below))
                     /\ table' = [table EXCEPT ![t].top = @ \ {Min(below)},
                                               ![t].low = @ \ {Min(below)}]
                     /\ UNCHANGED proc
                ELSE /\ kfree(t)
                     /\ table' = [table EXCEPT ![t] = NoTable]
                     /\ Set(p, [pc |-> proc[p].ok, t |-> 0])

-----------------------------------------------------------------------------
(***************************************************************************)
(* fork: allocproc, with its page table, then uvmcopy.  freeproc undoes    *)
(* what there is of the child.                                             *)
(***************************************************************************)
fork(p) ==
  /\ At(p, "idle") /\ free # {}      \* otherwise allocproc fails at once
  /\ \E c \in Procs :
       /\ proc[c].pc = "unused"
       /\ kalloc
       /\ proc' = [proc EXCEPT ![c] = [Unused EXCEPT !.pc = "embryo", !.tf = Page],
                               ![p] = MakeTable("fork_copy", "fork_notable")
                                        @@ [Done(p) EXCEPT !.child = c]]
  /\ UNCHANGED <<table, panic>>

fork_copy(p) ==
  /\ At(p, "fork_copy")
  /\ proc' = [proc EXCEPT ![proc[p].child].pt = proc[p].t,
               ![p] = Populate(proc[p].t, 0, PGROUNDUP(proc[p].sz),
                               "fork_done", "fork_failed") @@ @]
  /\ UNCHANGED <<free, table, panic>>

fork_done(p) ==
  /\ At(p, "fork_done")
  /\ proc' = [proc EXCEPT ![proc[p].child].pc = "idle",
                          ![proc[p].child].sz = proc[p].sz, ![p] = Done(p)]
  /\ UNCHANGED <<free, table, panic>>

(* freeproc(np): the trapframe, then the page table, whose size is 0. *)
fork_failed(p) ==
  /\ At(p, "fork_failed")
  /\ kfree(proc[proc[p].child].tf)
  /\ fixed_unmap(proc[p].t)
  /\ proc' = [proc EXCEPT ![proc[p].child].tf = 0,
               ![p] = proc_freepagetable(proc[p].t, 0, "fork_end") @@ @]
  /\ UNCHANGED panic

fork_notable(p) ==
  /\ At(p, "fork_notable")
  /\ kfree(proc[proc[p].child].tf)
  /\ proc' = [proc EXCEPT ![proc[p].child].tf = 0, ![p].pc = "fork_end"]
  /\ UNCHANGED <<table, panic>>

fork_end(p) ==
  /\ At(p, "fork_end")
  /\ proc' = [proc EXCEPT ![proc[p].child] = Unused, ![p] = Done(p)]
  /\ UNCHANGED <<free, table, panic>>

-----------------------------------------------------------------------------
(***************************************************************************)
(* sbrk: growproc computes the new size in 32 bits, uvmalloc and           *)
(* uvmdealloc compare it with the old one.                                 *)
(***************************************************************************)
Uint(n) == n % UINT

growproc(p, n) ==
  /\ At(p, "idle")
  /\ LET sz == proc[p].sz
         newsz == Uint(sz + n)
     IN /\ n > 0 => PGROUNDUP(newsz) <= MaxPages
        /\ proc' = [proc EXCEPT ![p] =
             IF n > 0 /\ newsz >= sz
             THEN Populate(proc[p].pt, PGROUNDUP(sz), PGROUNDUP(newsz), "grow_ok", "grow_bad")
                    @@ [nsz |-> newsz] @@ Done(p)
             ELSE IF n < 0 /\ newsz < sz
             THEN Unmap(proc[p].pt, PGROUNDUP(newsz), PGROUNDUP(sz), "grow_ok")
                    @@ [nsz |-> newsz] @@ Done(p)
             ELSE [pc |-> "grow_ok", nsz |-> sz] @@ Done(p)]
  /\ UNCHANGED <<free, table, panic>>

grow_ok(p) ==
  /\ At(p, "grow_ok")
  /\ proc' = [proc EXCEPT ![p] = [Done(p) EXCEPT !.sz = proc[p].nsz]]
  /\ UNCHANGED <<free, table, panic>>

grow_bad(p) ==
  /\ At(p, "grow_bad")
  /\ proc' = [proc EXCEPT ![p] = Done(p)]
  /\ UNCHANGED <<free, table, panic>>

-----------------------------------------------------------------------------
(***************************************************************************)
(* exec: the page of an argument (sys_exec), a new table, the segment, two *)
(* pages of stack; the old table is freed after the new one is in place.   *)
(* A bad file or bad arguments can end the call at each of these points.   *)
(***************************************************************************)
exec(p) ==
  /\ At(p, "idle") /\ free # {}
  /\ kalloc
  /\ Set(p, MakeTable("exec_seg", "exec_argv") @@ [argv |-> Page])
  /\ UNCHANGED <<table, panic>>

exec_seg(p) ==
  /\ At(p, "exec_seg")
  /\ \/ \E n \in Segments :
          /\ PGROUNDUP(n) + 2 <= MaxPages
          /\ Set(p, Populate(proc[p].t, 0, PGROUNDUP(n), "exec_stack", "exec_bad")
                     @@ [nsz |-> 0, seg |-> n])
     \/ Set(p, [pc |-> "exec_bad", nsz |-> 0])
  /\ UNCHANGED <<free, table, panic>>

(* The segment is loaded, or loadseg fails; then the stack. *)
exec_stack(p) ==
  /\ At(p, "exec_stack")
  /\ LET n == PGROUNDUP(proc[p].seg)
     IN \/ Set(p, Populate(proc[p].t, n, n + 2, "exec_commit", "exec_bad")
                    @@ [nsz |-> n * PGSIZE])
        \/ Set(p, [pc |-> "exec_bad", nsz |-> proc[p].seg])
  /\ UNCHANGED <<free, table, panic>>

OneStackPage(p) == proc[p].nsz + PGSIZE
NewSize(p) == proc[p].nsz + 2 * PGSIZE
OldSize(p) == proc[p].sz

exec_commit(p) ==
  /\ At(p, "exec_commit")
  /\ \/ /\ fixed_unmap(proc[p].pt)
        /\ Set(p, proc_freepagetable(proc[p].pt, OldSize(p), "exec_argv")
                    @@ [pt |-> proc[p].t, sz |-> NewSize(p)])
     \/ /\ Set(p, [pc |-> "exec_bad", nsz |-> NewSize(p)])
        /\ UNCHANGED table
  /\ UNCHANGED <<free, panic>>

exec_bad(p) ==
  /\ At(p, "exec_bad")
  /\ fixed_unmap(proc[p].t)
  /\ Set(p, proc_freepagetable(proc[p].t, proc[p].nsz, "exec_argv"))
  /\ UNCHANGED <<free, panic>>

exec_argv(p) ==
  /\ At(p, "exec_argv")
  /\ kfree(proc[p].argv)
  /\ proc' = [proc EXCEPT ![p] = Done(p)]
  /\ UNCHANGED <<table, panic>>

-----------------------------------------------------------------------------
(* The end of a process: freeproc, which its parent runs in wait.  The     *)
(* parent has no other work meanwhile that concerns this table.            *)
freeproc(p) ==
  /\ At(p, "idle") /\ p # First
  /\ kfree(proc[p].tf)
  /\ fixed_unmap(proc[p].pt)
  /\ proc' = [proc EXCEPT ![p] = proc_freepagetable(proc[p].pt, proc[p].sz, "unused_slot")
                                   @@ [Done(p) EXCEPT !.tf = 0]]
  /\ UNCHANGED panic

freeproc_end(p) ==
  /\ At(p, "unused_slot")
  /\ proc' = [proc EXCEPT ![p] = Unused]
  /\ UNCHANGED <<free, table, panic>>

Step(p) ==
  \/ uvmcreate(p) \/ top_walk(p) \/ top_map(p)
  \/ loop_kalloc(p) \/ loop_walk(p) \/ loop_map(p) \/ loop_done(p)
  \/ uvmunmap(p) \/ freewalk(p)
  \/ fork_copy(p) \/ fork_done(p) \/ fork_failed(p) \/ fork_notable(p) \/ fork_end(p)
  \/ grow_ok(p) \/ grow_bad(p)
  \/ exec_seg(p) \/ exec_stack(p) \/ exec_commit(p) \/ exec_bad(p) \/ exec_argv(p)
  \/ freeproc_end(p)

Next ==
  \E p \in Procs :
    \/ Step(p) /\ UNCHANGED calls
    \/ /\ calls < MaxCalls /\ calls' = calls + 1
       /\ \/ fork(p) \/ exec(p) \/ freeproc(p)
          \/ \E n \in Deltas : growproc(p, n)

Spec == Init /\ [][Next]_vars

-----------------------------------------------------------------------------
(* The type of the state. *)
TypeOK ==
  /\ free \subseteq Pages
  /\ table \in [Pages -> [live : BOOLEAN, top : SUBSET Pages, low : SUBSET Pages,
                          fixed : BOOLEAN, leaf : [Vpns -> Pages \union {0}]]]
  /\ \A p \in Procs : /\ {proc[p].tf, proc[p].pt, proc[p].mem} \subseteq Pages \union {0}
                       /\ proc[p].sz \in 0..MaxPages * PGSIZE
  /\ panic \in BOOLEAN

(* What page g is used for. *)
Uses(g) ==
  {u \in {"free"} \X {0} : g \in free}
    \union {u \in {"root"} \X {g} : table[g].live}
    \union {u \in {"tree"} \X Pages : g \in table[u[2]].top \union table[u[2]].low}
    \union {u \in {"leaf"} \X Pages \X Vpns : table[u[2]].leaf[u[3]] = g}
    \union {u \in {"trapframe", "argument", "memory"} \X Procs :
              g = CASE u[1] = "trapframe" -> proc[u[2]].tf
                    [] u[1] = "argument"  -> proc[u[2]].argv
                    [] u[1] = "memory"    -> proc[u[2]].mem}

(* Every page is free or has exactly one use, at every moment of fork,     *)
(* exec, sbrk and freeproc and on each of their failure paths: no page is  *)
(* lost, none is freed twice or given to two users.  And nothing panics:   *)
(* mappages never finds a mapping, uvmunmap never misses one, freewalk     *)
(* never finds a leaf.                                                     *)
OneUse == TypeOK /\ ~panic /\ \A g \in Pages : Cardinality(Uses(g)) = 1

(* A process that is not in a call has exactly the pages below its size    *)
(* mapped, so that uvmcopy, uvmdealloc and freeproc find every page they   *)
(* expect and leave none behind.                                           *)
SizeIsMapped ==
  \A p \in Procs : proc[p].pc = "idle" =>
     \A v \in Vpns : (table[proc[p].pt].leaf[v] # 0) <=> v < PGROUNDUP(proc[p].sz)
=============================================================================
