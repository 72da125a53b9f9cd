------------------------------ MODULE Umalloc ------------------------------
(***************************************************************************)
(* malloc and free of user/umalloc.c over sbrk.  The unit of addresses and *)
(* sizes is a Header; the first header of a block holds its size and, on   *)
(* the free list, the next free block.  Requests are small enough for      *)
(* their size in bytes to be an int.                                       *)
(***************************************************************************)
EXTENDS Integers, FiniteSetsExt

CONSTANTS Bytes,     \* arguments given to malloc
          NAlloc,    \* the least that morecore asks for: 4096 in the code
          Gaps,      \* what the program takes with sbrk for itself
          End        \* bound: sbrk fails beyond

VARIABLES
  ptr, size,   \* the headers
  freep,
  brk,
  nunits,      \* the malloc that is going on, or 0
  nbytes,
  used,        \* history: blocks that the program holds, with the bytes asked for
  core,        \* history: what morecore got from sbrk
  asked        \* history: morecore was called by this malloc

uvars == <<ptr, size, freep, brk, nunits, nbytes, used, core, asked>>
SizeofHeader == 16

Null == 0
base == 1     \* static Header base: below the heap
Heap == 3 .. End - 1
Addrs == {base} \union Heap

UInit ==
  /\ ptr = [a \in Addrs |-> Null] /\ size = [a \in Addrs |-> 0]
  /\ freep = Null /\ brk = 3
  /\ nunits = 0 /\ nbytes = 0
  /\ used = {} /\ core = {} /\ asked = FALSE

\* The k-th block of the list after freep, and the length of the circle.
Walk == LET p[k \in 0 .. End] == IF k = 0 THEN freep ELSE ptr[p[k - 1]] IN p
Around == Min({k \in 1 .. End : Walk[k] = freep})

-----------------------------------------------------------------------------
(***************************************************************************)
(* free: find the free block p below bp, then join bp with its neighbours. *)
(***************************************************************************)
Below(p, bp) ==
  \/ bp > p /\ bp < ptr[p]
  \/ p >= ptr[p] /\ (bp > p \/ bp < ptr[p])

NeverMeets(p, n, bp) == FALSE
Meets(p, n, bp) == p + n = bp

\* A header that has become the inside of a block of n units is not read again: 0.
Clear(f, q, n) == IF n = 0 THEN f ELSE [f EXCEPT ![q] = 0]

\* bp->s.size is n.
Insert(bp, n) ==
  LET p == Walk[Min({k \in 0 .. Around : Below(Walk[k], bp)})]
      q == ptr[p]
      n1 == IF bp + n = q THEN n + size[q] ELSE n
      q1 == IF bp + n = q THEN ptr[q] ELSE q
  IN  /\ freep' = p
      /\ IF Meets(p, size[p], bp)
         THEN /\ size' = [Clear(size, q, n1 - n) EXCEPT ![bp] = 0, ![p] = @ + n1]
              /\ ptr' = [Clear(ptr, q, n1 - n) EXCEPT ![p] = q1]
         ELSE /\ size' = [Clear(size, q, n1 - n) EXCEPT ![bp] = n1]
              /\ ptr' = [Clear(ptr, q, n1 - n) EXCEPT ![bp] = q1, ![p] = bp]

free(b) ==
  /\ nunits = 0 /\ b \in used
  /\ Insert(b.at, size[b.at])
  /\ used' = used \ {b}
  /\ UNCHANGED <<brk, nunits, nbytes, core, asked>>

(***************************************************************************)
(* malloc, up to its loop; the first call makes the list.                  *)
(***************************************************************************)
malloc(n) ==
  /\ nunits = 0
  /\ nunits' = (n + SizeofHeader - 1) \div SizeofHeader + 1
  /\ nbytes' = n
  /\ IF freep = Null
     THEN freep' = base /\ ptr' = [ptr EXCEPT ![base] = base] /\ size' = [size EXCEPT ![base] = 0]
     ELSE UNCHANGED <<freep, ptr, size>>
  /\ asked' = FALSE
  /\ UNCHANGED <<brk, used, core>>

\* The places of the list, in the order of the loop, whose block is big enough.
Enough == {k \in 1 .. Around : size[Walk[k]] >= nunits}

\* The loop finds a block and takes it or its tail.
take ==
  /\ nunits # 0 /\ Enough # {}
  /\ LET prevp == Walk[Min(Enough) - 1]
         p == Walk[Min(Enough)]
         rest == size[p] - nunits
     IN  /\ IF rest = 0
            THEN ptr' = [ptr EXCEPT ![p] = 0, ![prevp] = ptr[p]] /\ UNCHANGED size
            ELSE size' = [size EXCEPT ![p] = rest, ![p + rest] = nunits] /\ UNCHANGED ptr
         /\ freep' = prevp
         /\ used' = used \union {[at |-> p + rest, units |-> nunits, bytes |-> nbytes]}
  /\ nunits' = 0 /\ nbytes' = 0
  /\ UNCHANGED <<brk, core, asked>>

\* The loop is back at freep: morecore, and on with the loop.  sbrk may fail.
morecore ==
  /\ nunits # 0 /\ Enough = {}
  /\ LET nu == Max({nunits, NAlloc})
     IN  \/ /\ brk + nu <= End
            /\ Insert(brk, nu)
            /\ core' = core \union (brk .. brk + nu - 1)
            /\ brk' = brk + nu
            /\ asked' = TRUE
            /\ UNCHANGED <<nunits, nbytes, used>>
         \/ /\ nunits' = 0 /\ nbytes' = 0
            /\ UNCHANGED <<ptr, size, freep, brk, used, core, asked>>

\* The program moves the break itself.
sbrk(g) ==
  /\ nunits = 0 /\ brk + g <= End
  /\ brk' = brk + g
  /\ UNCHANGED <<ptr, size, freep, nunits, nbytes, used, core, asked>>

UNext ==
  \/ take \/ morecore
  \/ \E n \in Bytes : malloc(n)
  \/ \E b \in used : free(b)
  \/ \E g \in Gaps : sbrk(g)

USpec == UInit /\ [][UNext]_uvars

-----------------------------------------------------------------------------
\* umalloc.c:25-90: the free list is a circle in the order of addresses with no two
\* free blocks side by side; the free blocks and those that the program holds are
\* disjoint and make up what sbrk gave; a held block has room for what was asked and
\* keeps the size that free reads; and malloc calls morecore at most once.
HeapSound ==
  LET list == {Walk[k] : k \in 0 .. End}
      blocks == {[at |-> p, units |-> size[p], bytes |-> 0] : p \in list \ {base}} \union used
  IN  freep # Null =>
        /\ base \in list /\ freep \in {ptr[p] : p \in list}
        /\ Cardinality({p \in list : ptr[p] <= p}) = 1
        /\ \A p \in list : p + size[p] \notin list \ {base}
        /\ \A b \in blocks :
             /\ size[b.at] = b.units /\ b.bytes <= (b.units - 1) * SizeofHeader
             /\ \A c \in blocks : b.at < c.at => b.at + b.units <= c.at
        /\ core = UNION {b.at .. b.at + b.units - 1 : b \in blocks}
        /\ asked /\ nunits # 0 => Enough # {}
=============================================================================
