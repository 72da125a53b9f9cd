------------------------------- MODULE Virtio --------------------------------
(***************************************************************************)
(* kernel/virtio_disk.c: the driver of the virtio disk, composed with the  *)
(* device.  A process reads or writes the one buffer whose sleep lock it   *)
(* holds, so processes, buffers and blocks are identified.                 *)
(*                                                                         *)
(* vdisk_lock is explicit: the device runs at any moment, in particular    *)
(* inside a critical section of the driver.                                *)
(***************************************************************************)
EXTENDS Integers, FiniteSets

CONSTANTS
  Procs, Vals, None,
  NUM,               \* virtio.h:48, the size of the queue
  IdxMod,            \* 2^16 in the code: avail[1] and used->id are uint16
  Served,            \* requests served before the ones that are modelled
  MaxReqs            \* bound on the requests made

VirtioAssumption ==
  /\ IsFiniteSet(Procs)
  /\ NUM \in Nat /\ NUM >= 3
  /\ IdxMod \in Nat /\ IdxMod > 0 /\ IdxMod % NUM = 0
  /\ Served \in Nat /\ MaxReqs \in Nat
  /\ None \notin Procs

Desc == 0 .. NUM - 1
Intr == "intr"   \* the interrupt handler, as a holder of vdisk_lock

VARIABLES
  lock,                       \* holder of disk.vdisk_lock
  free, desc, avail, availIdx, used, usedId,   \* shared with the device
  usedIdx, info,              \* the driver's own book-keeping
  bdisk,                      \* b->disk of each buffer
  pc, op, idx, data, reqs,    \* each process in virtio_disk_rw()
  ipc,                        \* the handler: "idle", "loop" or "ack"
  lastAvail, inflight, irq, disk,  \* the device
  unseen                      \* history: a request finished between the handler's
                              \* last look and its acknowledgement

drivervars == <<lock, free, desc, avail, availIdx, usedIdx, info, bdisk, pc, op, idx, ipc, reqs>>
devicevars == <<lastAvail, inflight, irq, disk, used, usedId, unseen>>
vars == <<drivervars, devicevars, data>>

NoDesc == [op |-> "none", buf |-> None, next |-> 0, more |-> FALSE]
DescType == [op : {"none", "read", "write", "status"}, buf : Procs \cup {None},
             next : Desc, more : BOOLEAN]

\* struct disk, the rings shared with the device and the callers keep their types.
TypeOK ==
  /\ lock \in Procs \cup {Intr, None}
  /\ free \subseteq Desc
  /\ desc \in [Desc -> DescType]
  /\ avail \in [Desc -> Desc] /\ used \in [Desc -> Desc]
  /\ availIdx \in 0 .. IdxMod - 1 /\ usedId \in 0 .. IdxMod - 1
  /\ lastAvail \in 0 .. IdxMod - 1
  /\ usedIdx \in Desc
  /\ info \in [Desc -> Procs \cup {None}]
  /\ bdisk \in [Procs -> BOOLEAN]
  /\ pc \in [Procs -> {"idle", "alloc", "nodesc", "format", "publish", "test",
                       "asleep", "free"}]
  /\ op \in [Procs -> {"read", "write"}]
  /\ idx \in [Procs -> [1 .. 3 -> Desc]]
  /\ data \in [Procs -> Vals] /\ disk \in [Procs -> Vals]
  /\ ipc \in {"idle", "loop", "ack"}
  /\ inflight \subseteq Desc
  /\ irq \in BOOLEAN /\ unseen \in BOOLEAN
  /\ reqs \in 0 .. MaxReqs

\* Descriptor i of a request by p with the three descriptors d,
\* virtio_disk.c:187-222.
Entry(i, d, o, p) ==
  CASE i = d[1] -> [op |-> o, buf |-> None, next |-> d[2], more |-> TRUE]
    [] i = d[2] -> [op |-> o, buf |-> p, next |-> d[3], more |-> TRUE]
    [] i = d[3] -> [op |-> "status", buf |-> None, next |-> 0, more |-> FALSE]

\* virtio_disk_init(), virtio_disk.c:49-113: a zeroed queue, every descriptor
\* free.  Served reads, made one at a time, have moved the indices and left the
\* first three descriptors filled.
Init ==
  /\ lock = None
  /\ free = Desc
  /\ desc = [i \in Desc |-> IF Served > 0 /\ i < 3
                            THEN Entry(i, <<0, 1, 2>>, "read", CHOOSE p \in Procs : TRUE)
                            ELSE NoDesc]
  /\ avail = [i \in Desc |-> 0] /\ used = [i \in Desc |-> 0]
  /\ availIdx = Served % IdxMod /\ usedId = availIdx /\ lastAvail = availIdx
  /\ usedIdx = Served % NUM
  /\ info = [i \in Desc |-> None]
  /\ bdisk = [p \in Procs |-> FALSE]
  /\ pc = [p \in Procs |-> "idle"]
  /\ op = [p \in Procs |-> "read"]
  /\ idx = [p \in Procs |-> [k \in 1 .. 3 |-> 0]]
  /\ \E v \in Vals : disk = [p \in Procs |-> v]
  /\ data = disk
  /\ ipc = "idle" /\ inflight = {} /\ irq = FALSE /\ unseen = FALSE /\ reqs = 0

-----------------------------------------------------------------------------
\* Processes that sleep on &disk.free[0], and a process that sleeps on its buffer.
NoneWoken == pc
WokenOnFree == [q \in Procs |-> IF pc[q] = "nodesc" THEN "alloc" ELSE pc[q]]

WokenOnBuf(p) == [pc EXCEPT ![p] = IF @ = "asleep" THEN "test" ELSE @]

\* The call virtio_disk_rw(b, write) and its acquire(), virtio_disk.c:168-173,
\* with a buffer that differs from its block, so that the transfer shows.
virtio_disk_rw(p, o, v) ==
  /\ pc[p] = "idle" /\ reqs < MaxReqs /\ v # disk[p]
  /\ reqs' = reqs + 1
  /\ pc' = [pc EXCEPT ![p] = "alloc"]
  /\ op' = [op EXCEPT ![p] = o]
  /\ data' = [data EXCEPT ![p] = v]   \* what the caller's buffer holds
  /\ UNCHANGED <<lock, free, desc, avail, availIdx, usedIdx, info, bdisk, idx, ipc, devicevars>>

\* The k-th descriptor that alloc_desc() finds: always the lowest free one.
Lowest(S) == CHOOSE i \in S : \A j \in S : i <= j

\* alloc3_desc() and the wait, virtio_disk.c:115-166 and 179-185.  A failed
\* attempt frees what it took, and free_desc() wakes the other waiters.
TakesThree(F) ==
  LET a == Lowest(F)  b == Lowest(F \ {a}) IN <<a, b, Lowest(F \ {a, b})>>

Enough(F) == Cardinality(F) >= 3

alloc3_desc(p) ==
  /\ pc[p] = "alloc" /\ lock = None
  /\ \/ /\ Enough(free)
        /\ idx' = [idx EXCEPT ![p] = TakesThree(free)]
        /\ free' = free \ {idx'[p][k] : k \in 1 .. 3}
        /\ pc' = [pc EXCEPT ![p] = "format"]
        /\ lock' = p
     \/ /\ ~Enough(free)
        /\ pc' = [(IF free = {} THEN pc ELSE WokenOnFree) EXCEPT ![p] = "nodesc"]
        /\ UNCHANGED <<idx, free, lock>>
  /\ UNCHANGED <<desc, avail, availIdx, usedIdx, info, bdisk, op, ipc, data, reqs, devicevars>>

\* The three descriptors, b->disk and info[], virtio_disk.c:187-226.
Formatted(p) ==
  [i \in Desc |-> IF \E k \in 1 .. 3 : i = idx[p][k] THEN Entry(i, idx[p], op[p], p)
                                                      ELSE desc[i]]

format(p) ==
  /\ pc[p] = "format"
  /\ desc' = Formatted(p)
  /\ bdisk' = [bdisk EXCEPT ![p] = TRUE]
  /\ info' = [info EXCEPT ![idx[p][1]] = p]
  /\ pc' = [pc EXCEPT ![p] = "publish"]
  /\ UNCHANGED <<lock, free, avail, availIdx, usedIdx, op, idx, ipc, data, reqs, devicevars>>

\* The available ring and the notification, virtio_disk.c:228-238, up to the
\* first test of b->disk.
Slot == availIdx % NUM
publish(p) ==
  /\ pc[p] = "publish"
  /\ avail' = [avail EXCEPT ![Slot] = idx[p][1]]
  /\ availIdx' = (availIdx + 1) % IdxMod
  /\ pc' = [pc EXCEPT ![p] = "test"]
  /\ lock' = None
  /\ UNCHANGED <<free, desc, usedIdx, info, bdisk, op, idx, ipc, data, reqs, devicevars>>

\* while(b->disk == 1) sleep(b, &disk.vdisk_lock), virtio_disk.c:240-243.
AssumesDone(p) == TRUE
Done(p) == ~bdisk[p]

wait_done(p) ==
  /\ pc[p] = "test" /\ lock = None
  /\ pc' = [pc EXCEPT ![p] = IF Done(p) THEN "free" ELSE "asleep"]
  /\ lock' = IF Done(p) THEN p ELSE None
  /\ UNCHANGED <<free, desc, avail, availIdx, usedIdx, info, bdisk, op, idx, ipc, data, reqs, devicevars>>

\* free_chain(), virtio_disk.c:128-152: follow next while the flag says so.
Chain(i) ==
  {i} \cup IF desc[i].more
           THEN LET j == desc[i].next IN {j} \cup IF desc[j].more THEN {desc[j].next} ELSE {}
           ELSE {}

free_chain(p) ==
  /\ pc[p] = "free"
  /\ info' = [info EXCEPT ![idx[p][1]] = None]
  /\ free' = free \cup Chain(idx[p][1])
  /\ pc' = [WokenOnFree EXCEPT ![p] = "idle"]
  /\ lock' = None
  /\ UNCHANGED <<desc, avail, availIdx, usedIdx, bdisk, op, idx, ipc, data, reqs, devicevars>>

(***************************************************************************)
(* virtio_disk_intr(), virtio_disk.c:251-270.                              *)
(***************************************************************************)
intr_enter ==
  /\ ipc = "idle" /\ irq /\ lock = None
  /\ ipc' = "loop" /\ lock' = Intr
  /\ UNCHANGED <<free, desc, avail, availIdx, usedIdx, info, bdisk, pc, op, idx, data, reqs, devicevars>>

NextUsed == (usedIdx + 1) % NUM

UsedHead == used[usedIdx]

intr_loop ==
  /\ ipc = "loop"
  /\ \/ /\ usedIdx # usedId % NUM
        /\ LET p == info[UsedHead]
           IN  p # None /\ bdisk' = [bdisk EXCEPT ![p] = FALSE] /\ pc' = WokenOnBuf(p)
        /\ usedIdx' = NextUsed
        /\ UNCHANGED ipc
     \/ /\ usedIdx = usedId % NUM
        /\ ipc' = "ack"
        /\ UNCHANGED <<usedIdx, bdisk, pc>>
  /\ UNCHANGED <<lock, free, desc, avail, availIdx, info, op, idx, data, reqs, devicevars>>

intr_ack ==
  /\ ipc = "ack"
  /\ ipc' = "idle" /\ irq' = FALSE /\ lock' = None
  /\ UNCHANGED <<free, desc, avail, availIdx, usedIdx, info, bdisk, pc, op, idx, data,
                 reqs, lastAvail, inflight, disk, used, usedId, unseen>>

(***************************************************************************)
(* The device: takes chains from the available ring in order, serves them  *)
(* in any order, and raises its interrupt with each completion.            *)
(***************************************************************************)
dev_fetch ==
  /\ lastAvail # availIdx
  /\ inflight' = inflight \cup {avail[lastAvail % NUM]}
  /\ lastAvail' = (lastAvail + 1) % IdxMod
  /\ UNCHANGED <<drivervars, irq, disk, used, usedId, unseen, data>>

dev_complete(h) ==
  /\ h \in inflight
  /\ LET b == desc[desc[h].next].buf
     IN  /\ b # None
         /\ \/ desc[h].op = "read" /\ data' = [data EXCEPT ![b] = disk[b]] /\ UNCHANGED disk
            \/ desc[h].op = "write" /\ disk' = [disk EXCEPT ![b] = data[b]] /\ UNCHANGED data
  /\ used' = [used EXCEPT ![usedId % NUM] = h]
  /\ usedId' = (usedId + 1) % IdxMod
  /\ inflight' = inflight \ {h}
  /\ irq' = TRUE
  /\ unseen' = (unseen \/ ipc = "ack")
  /\ UNCHANGED <<drivervars, lastAvail>>

Device == dev_fetch \/ \E h \in Desc : dev_complete(h)
Handler == intr_enter \/ intr_loop \/ intr_ack
Step(p) == alloc3_desc(p) \/ format(p) \/ publish(p) \/ wait_done(p) \/ free_chain(p)

Next ==
  \/ \E p \in Procs, o \in {"read", "write"}, v \in Vals : virtio_disk_rw(p, o, v)
  \/ \E p \in Procs : Step(p)
  \/ Handler
  \/ Device

Spec == Init /\ [][Next]_vars

\* The device goes on as long as it has requests, the handler of an asserted interrupt
\* runs, and a CPU that spins on vdisk_lock gets it.
Fairness ==
  /\ WF_vars(Device)
  /\ WF_vars(Handler)
  /\ \A p \in Procs : WF_vars(Step(p))
FairSpec == Spec /\ Fairness

-----------------------------------------------------------------------------
\* Chains of requests in progress: published, not yet freed.
Active == {p \in Procs : pc[p] \in {"test", "asleep", "free"}}

\* Every descriptor is free or in exactly one request's chain of three, from
\* alloc3_desc() to free_chain(), virtio_disk.c:143-193: none leaks, none is shared.
DescriptorsOwned ==
  /\ Desc \ free = UNION {{idx[p][k] : k \in 1 .. 3} :
                        p \in {q \in Procs : pc[q] \in {"format", "publish"}} \cup Active}
  /\ \A p \in Active :
       /\ Cardinality(Chain(idx[p][1])) = 3 /\ Chain(idx[p][1]) \cap free = {}
       /\ \A q \in Active \ {p} : Chain(idx[p][1]) \cap Chain(idx[q][1]) = {}

\* virtio_disk.c:143-273: descriptors are owned as above.  Whatever the device holds
\* or has put in the used ring, and virtio_disk_intr() has not consumed, names in
\* info[] a process that still waits for it: the handler never follows a null or
\* stale info[id].b.  And when virtio_disk_rw() finds b->disk clear, the transfer
\* it asked for has happened: a read filled the buffer, a write reached the disk.
CompletionsAreAwaited ==
  LET n == (usedId - usedIdx) % NUM
      toSee == {used[(usedIdx + k) % NUM] : k \in 0 .. n - 1}
  IN  /\ TypeOK /\ DescriptorsOwned
      /\ \A h \in inflight \cup toSee :
           \E p \in Active : info[h] = p /\ idx[p][1] = h /\ bdisk[p]
      /\ \A p \in Active : ~bdisk[p] => data[p] = disk[p]

\* virtio_disk.c:240: a request that p makes of virtio_disk_rw() finishes, also if it
\* first waits for descriptors, unless the device finished some request after the
\* handler's last look and before its acknowledgement.
Finishes(p) == pc[p] # "idle" ~> (pc[p] = "idle" \/ unseen)
=============================================================================
