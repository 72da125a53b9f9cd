------------------------------- MODULE MCBio --------------------------------
(***************************************************************************)
(* Instances of Bio, with fewer buffers than blocks, and of Virtio for     *)
(* TLC.  They share no variable: part says which of them moves.  The other *)
(* one stays in an initial state, where nothing is enabled that its        *)
(* fairness is about.                                                      *)
(***************************************************************************)
EXTENDS Bio

CONSTANTS Callers, NUM, IdxMod, Served, MaxReqs
VARIABLES
  part, lock, free, desc, avail, availIdx, used, usedId, usedIdx, info, bdisk,
  rwpc, op, idx, buf, reqs, ipc, lastAvail, inflight, irq, platter, unseen

V == INSTANCE Virtio WITH Procs <- Callers, pc <- rwpc, data <- buf, disk <- platter
dvars == <<lock, free, desc, avail, availIdx, used, usedId, usedIdx, info, bdisk, rwpc, op, idx,
           buf, reqs, ipc, lastAvail, inflight, irq, platter, unseen>>

ASSUME DriverAssumption == V!VirtioAssumption

\* The values are interchangeable: v names the one that memory holds at first, and Bio's
\* disk holds another, so that a buffer that is not filled is noticed.
MCInit ==
  /\ part \in {"Bio", "Virtio"} /\ Init /\ V!Init
  /\ LET v == CHOOSE x \in Vals : TRUE
     IN  /\ Range(data) = {v} /\ Range(buf) = {v}
         /\ Range(disk) = IF part = "Virtio" THEN {v} ELSE {CHOOSE x \in Vals : x # v}

MCNext ==
  /\ UNCHANGED part
  /\ \/ part = "Bio" /\ Next /\ UNCHANGED dvars
     \/ part = "Virtio" /\ V!Next /\ UNCHANGED vars

\* Fairness and V!Fairness, each about the part that moves.
MCFairness ==
  /\ \A p \in Procs : WF_vars(part = "Bio" /\ Step(p)) /\ SF_vars(part = "Bio" /\ releasesleep(p))
  /\ WF_dvars(part = "Virtio" /\ V!Device) /\ WF_dvars(part = "Virtio" /\ V!Handler)
  /\ \A p \in Callers : WF_dvars(part = "Virtio" /\ V!Step(p))

MCSpec == MCInit /\ [][MCNext]_<<part, vars, dvars>> /\ MCFairness

\* virtio_disk.c:143-273: every descriptor is free or in one request; the handler consumes
\* only completions that a process still waits for, after the transfer has happened.
CompletionsAreAwaited == V!CompletionsAreAwaited

\* virtio_disk.c:240: every request made of virtio_disk_rw() finishes, unless the device
\* finished one after the handler's last look and before its acknowledgement.  One caller
\* is as good as another.
RequestsFinish == V!Finishes(CHOOSE p \in Callers : TRUE)
=============================================================================
