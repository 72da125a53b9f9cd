-------------------------------- MODULE File --------------------------------
(***************************************************************************)
(* The table of open files (kernel/file.c), the descriptors of processes   *)
(* (kernel/sysfile.c, proc.c) and what the files refer to: the ends of     *)
(* pipes (kernel/pipe.c) and references to inodes.                         *)
(*                                                                         *)
(* A step is a section that holds ftable.lock or the lock of a pipe;       *)
(* between two of them other processes run.  A process's descriptors are   *)
(* its own.  The inode is one object that counts its references, the rest  *)
(* of it is in FileSystem and Content; data in pipes is in Pipe.           *)
(***************************************************************************)
EXTENDS Integers, FiniteSets, FiniteSetsExt, Sequences, TLC

CONSTANTS Procs, NFILE, NOFILE,
          Pages      \* what kalloc can give pipealloc
ASSUME FileAssumption ==
  /\ IsFiniteSet(Procs)
  /\ NFILE \in Nat \ {0} /\ NOFILE \in Nat \ {0}
  /\ Pages \subseteq Nat \ {0}

VARIABLES file,    \* ftable.file[]
          pipe,    \* struct pipe, by the page it lies in
          iref,    \* references that files and open calls hold to the inode
          proc,    \* each process: its descriptors, and where it is
          panic

vars == <<file, pipe, iref, proc, panic>>

Files == 1..NFILE
Fds == 0..NOFILE - 1
FreePipe == [alloc |-> FALSE, readopen |-> FALSE, writeopen |-> FALSE]
FreeFile == [ref |-> 0, type |-> "none", writable |-> FALSE, obj |-> 0]
NoFds == [fd \in Fds |-> 0]
Idle == [pc |-> "idle", ofile |-> NoFds, rf |-> 0, wf |-> 0, todo |-> <<>>,
         ff |-> FreeFile, child |-> 0, fd |-> 0]
Dead == [Idle EXCEPT !.pc = "dead"]
First == CHOOSE p \in Procs : \A q \in Procs : p <= q

Init ==
  /\ file = [f \in Files |-> FreeFile]
  /\ pipe = [g \in Pages |-> FreePipe]
  /\ iref = 0
  /\ proc = [p \in Procs |-> IF p = First THEN Idle ELSE Dead]
  /\ panic = FALSE

-----------------------------------------------------------------------------
(* A process closes the files in todo, and what the last one referred to,  *)
(* before it goes on.                                                      *)
At(p, pc) == /\ ~panic /\ proc[p].pc = pc
             /\ proc[p].todo = <<>> /\ proc[p].ff = FreeFile

Step(p, fields) == proc' = [proc EXCEPT ![p] = fields @@ @]

FreeFiles == {f \in Files : file[f].ref = 0}

(* filealloc takes the first file that no one refers to and sets nothing   *)
(* but its reference count.                                                *)
filealloc == [file EXCEPT ![Min(FreeFiles)].ref = 1]

(* fdalloc: the first free descriptors. *)
FreeFds(p) == {fd \in Fds : proc[p].ofile[fd] = 0}
FirstFd(p) == Min(FreeFds(p))
SecondFd(p) == Min(FreeFds(p) \ {FirstFd(p)})

-----------------------------------------------------------------------------
(***************************************************************************)
(* open: the inode is locked and referenced, then the file is allocated.   *)
(***************************************************************************)
sys_open(p) ==
  /\ At(p, "idle")
  /\ FreeFiles # {}        \* otherwise the reference is put at once
  /\ iref' = iref + 1
  /\ file' = filealloc
  /\ Step(p, [pc |-> "open", rf |-> Min(FreeFiles)])
  /\ UNCHANGED <<pipe, panic>>

(* fdalloc fails: the file is closed and the inode put.  Otherwise the     *)
(* fields are filled in; nobody else can reach the file yet.  The access   *)
(* mode is kept for pipes only.                                            *)
open_fd(p) ==
  /\ At(p, "open")
  /\ LET f == proc[p].rf
     IN \/ /\ FreeFds(p) = {}
           /\ Step(p, [pc |-> "open_bad", rf |-> 0, todo |-> <<f>>])
           /\ UNCHANGED file
        \/ /\ FreeFds(p) # {}
           /\ file' = [file EXCEPT ![f] = [ref |-> file[f].ref, type |-> "inode",
                                           writable |-> FALSE, obj |-> 0]]
           /\ Step(p, [pc |-> "idle", rf |-> 0,
                       ofile |-> [proc[p].ofile EXCEPT ![FirstFd(p)] = f]])
  /\ UNCHANGED <<pipe, iref, panic>>

open_bad(p) ==
  /\ At(p, "open_bad")
  /\ iref' = iref - 1
  /\ Step(p, [pc |-> "idle"])
  /\ UNCHANGED <<file, pipe, panic>>

-----------------------------------------------------------------------------
(***************************************************************************)
(* pipe: pipealloc, then two descriptors, then copyout.                    *)
(***************************************************************************)
sys_pipe(p) ==
  /\ At(p, "idle")
  /\ FreeFiles # {}
  /\ file' = filealloc
  /\ Step(p, [pc |-> "pipealloc", rf |-> Min(FreeFiles)])
  /\ UNCHANGED <<pipe, iref, panic>>

pipealloc_second(p) ==
  /\ At(p, "pipealloc")
  /\ \/ /\ FreeFiles # {}
        /\ file' = filealloc
        /\ Step(p, [pc |-> "pipe", wf |-> Min(FreeFiles)])
     \/ /\ FreeFiles = {}
        /\ Step(p, [pc |-> "idle", rf |-> 0, todo |-> <<proc[p].rf>>])
        /\ UNCHANGED file
  /\ UNCHANGED <<pipe, iref, panic>>

PipeEnd(w, g) == [ref |-> 1, type |-> "pipe", writable |-> w, obj |-> g]

FilesDropped(p) == <<proc[p].rf>>
FilesInHand(p) == <<proc[p].rf, proc[p].wf>>

(* kalloc finds no page: both files are closed before they have a type. *)
pipealloc_fails(p) ==
  /\ At(p, "pipe")
  /\ \A g \in Pages : pipe[g].alloc
  /\ Step(p, [pc |-> "idle", rf |-> 0, wf |-> 0,
              todo |-> FilesInHand(p)])
  /\ UNCHANGED <<file, pipe, iref, panic>>

(* The descriptors after sys_pipe: two more, or as before when there are   *)
(* not enough or copyout fails.                                            *)
pipealloc(p, copied) ==
  /\ At(p, "pipe")
  /\ \E g \in Pages :
       /\ ~pipe[g].alloc
       /\ pipe' = [pipe EXCEPT ![g] = [alloc |-> TRUE, readopen |-> TRUE,
                                       writeopen |-> TRUE]]
       /\ file' = [file EXCEPT ![proc[p].rf] = PipeEnd(FALSE, g),
                               ![proc[p].wf] = PipeEnd(TRUE, g)]
  /\ IF copied /\ Cardinality(FreeFds(p)) >= 2
     THEN Step(p, [pc |-> "idle", rf |-> 0, wf |-> 0,
                   ofile |-> [proc[p].ofile EXCEPT ![FirstFd(p)] = proc[p].rf,
                                                   ![SecondFd(p)] = proc[p].wf]])
     ELSE Step(p, [pc |-> "idle", rf |-> 0, wf |-> 0,
                   todo |-> FilesInHand(p)])
  /\ UNCHANGED <<iref, panic>>

-----------------------------------------------------------------------------
(* filedup: one more reference, or a panic. *)
filedup(f) == [file[f] EXCEPT !.ref = @ + 1]

sys_dup(p) ==
  /\ At(p, "idle")
  /\ \E fd \in Fds :
       LET f == proc[p].ofile[fd]
       IN /\ f # 0 /\ FreeFds(p) # {}
          /\ IF file[f].ref < 1
             THEN panic' = TRUE /\ UNCHANGED <<file, proc>>
             ELSE /\ file' = [file EXCEPT ![f] = filedup(f)]
                  /\ Step(p, [ofile |-> [proc[p].ofile EXCEPT ![FirstFd(p)] = f]])
                  /\ UNCHANGED panic
  /\ UNCHANGED <<pipe, iref>>

-----------------------------------------------------------------------------
(***************************************************************************)
(* fileclose: under ftable.lock the count drops; the last one copies the   *)
(* file, frees the entry, and closes what it referred to afterwards.       *)
(***************************************************************************)
TypeAfterClose(f) == "none"

LastRef(f) == file[f].ref = 1

fileclose(p) ==
  /\ ~panic /\ proc[p].todo # <<>> /\ proc[p].ff = FreeFile
  /\ LET f == Head(proc[p].todo)
     IN IF file[f].ref < 1
        THEN panic' = TRUE /\ UNCHANGED <<file, proc>>
        ELSE /\ IF LastRef(f)
                THEN /\ file' = [file EXCEPT ![f].ref = 0,
                                             ![f].type = TypeAfterClose(f)]
                     /\ Step(p, [todo |-> Tail(proc[p].todo),
                                 ff |-> IF file[f].type = "none" THEN FreeFile
                                        ELSE file[f]])
                ELSE /\ file' = [file EXCEPT ![f].ref = @ - 1]
                     /\ Step(p, [todo |-> Tail(proc[p].todo)])
             /\ UNCHANGED panic
  /\ UNCHANGED <<pipe, iref>>

BothClosed(e) == ~e.readopen /\ ~e.writeopen

(* pipeclose, with the copy ff of the file: the end is closed, and the     *)
(* second of the two frees the page.                                       *)
pipeclose(p) ==
  /\ ~panic /\ proc[p].ff.type = "pipe"
  /\ LET g == proc[p].ff.obj
         e == IF proc[p].ff.writable THEN [pipe[g] EXCEPT !.writeopen = FALSE]
              ELSE [pipe[g] EXCEPT !.readopen = FALSE]
     IN pipe' = [pipe EXCEPT ![g] = IF BothClosed(e) THEN FreePipe ELSE e]
  /\ Step(p, [ff |-> FreeFile])
  /\ UNCHANGED <<file, iref, panic>>

inode_put(p) ==
  /\ ~panic /\ proc[p].ff.type = "inode"
  /\ iref' = iref - 1
  /\ Step(p, [ff |-> FreeFile])
  /\ UNCHANGED <<file, pipe, panic>>

sys_close(p) ==
  /\ At(p, "idle")
  /\ \E fd \in Fds :
       /\ proc[p].ofile[fd] # 0
       /\ Step(p, [ofile |-> [proc[p].ofile EXCEPT ![fd] = 0],
                   todo |-> <<proc[p].ofile[fd]>>])
  /\ UNCHANGED <<file, pipe, iref, panic>>

-----------------------------------------------------------------------------
(***************************************************************************)
(* fork copies the descriptors one by one; exit closes them one by one.    *)
(***************************************************************************)
fork(p) ==
  /\ At(p, "idle")
  /\ \E c \in Procs :
       /\ proc[c].pc = "dead"
       /\ proc' = [proc EXCEPT ![p].pc = "fork", ![p].child = c, ![p].fd = 0,
                               ![c].pc = "embryo"]
  /\ UNCHANGED <<file, pipe, iref, panic>>

fork_dup(p) ==
  /\ At(p, "fork") /\ proc[p].fd < NOFILE
  /\ LET f == proc[p].ofile[proc[p].fd]
     IN IF f # 0 /\ file[f].ref < 1
        THEN panic' = TRUE /\ UNCHANGED <<file, proc>>
        ELSE /\ file' = IF f = 0 THEN file ELSE [file EXCEPT ![f] = filedup(f)]
             /\ proc' = [proc EXCEPT ![p].fd = @ + 1,
                                     ![proc[p].child].ofile[proc[p].fd] = f]
             /\ UNCHANGED panic
  /\ UNCHANGED <<pipe, iref>>

fork_done(p) ==
  /\ At(p, "fork") /\ proc[p].fd = NOFILE
  /\ proc' = [proc EXCEPT ![p].pc = "idle", ![p].child = 0, ![p].fd = 0,
                          ![proc[p].child].pc = "idle"]
  /\ UNCHANGED <<file, pipe, iref, panic>>

exit(p) ==
  /\ At(p, "idle") /\ p # First
  /\ Step(p, [pc |-> "exit"])
  /\ UNCHANGED <<file, pipe, iref, panic>>

(* The code clears the descriptor after fileclose; nobody else reads it. *)
exit_close(p) ==
  /\ At(p, "exit") /\ proc[p].fd < NOFILE
  /\ LET f == proc[p].ofile[proc[p].fd]
     IN Step(p, [fd |-> proc[p].fd + 1,
                 ofile |-> [proc[p].ofile EXCEPT ![proc[p].fd] = 0],
                 todo |-> IF f = 0 THEN <<>> ELSE <<f>>])
  /\ UNCHANGED <<file, pipe, iref, panic>>

exit_done(p) ==
  /\ At(p, "exit") /\ proc[p].fd = NOFILE
  /\ proc' = [proc EXCEPT ![p] = Dead]
  /\ UNCHANGED <<file, pipe, iref, panic>>

-----------------------------------------------------------------------------
Next ==
  \E p \in Procs :
    \/ sys_open(p) \/ open_fd(p) \/ open_bad(p)
    \/ sys_pipe(p) \/ pipealloc_second(p) \/ pipealloc_fails(p)
    \/ \E copied \in BOOLEAN : pipealloc(p, copied)
    \/ sys_dup(p) \/ sys_close(p) \/ fileclose(p) \/ pipeclose(p) \/ inode_put(p)
    \/ fork(p) \/ fork_dup(p) \/ fork_done(p)
    \/ exit(p) \/ exit_close(p) \/ exit_done(p)

Spec == Init /\ [][Next]_vars

-----------------------------------------------------------------------------
(* The type of the state. *)
TypeOK ==
  /\ file \in [Files -> [ref : Nat, type : {"none", "inode", "pipe"},
                         writable : BOOLEAN, obj : Pages \union {0}]]
  /\ pipe \in [Pages -> [alloc : BOOLEAN, readopen : BOOLEAN, writeopen : BOOLEAN]]
  /\ iref \in Nat
  /\ \A p \in Procs : proc[p].ofile \in [Fds -> Files \union {0}]
  /\ panic \in BOOLEAN

(* The references to file f: descriptors, and files that a call of open,   *)
(* pipe, close or exit has in hand.                                        *)
Holders(f) ==
  {h \in {"fd"} \X Procs \X Fds : proc[h[2]].ofile[h[3]] = f}
    \union {h \in {"rf"} \X Procs : proc[h[2]].rf = f}
    \union {h \in {"wf"} \X Procs : proc[h[2]].wf = f}
    \union {h \in {"todo"} \X Procs \X (1..2) :
              h[3] \in DOMAIN proc[h[2]].todo /\ proc[h[2]].todo[h[3]] = f}

(* The files that are end w of pipe g, and the copies that fileclose works *)
(* on after it has released ftable.lock.                                   *)
EndHolders(g, w) ==
  {h \in {"file"} \X Files : file[h[2]].ref > 0 /\ file[h[2]].type = "pipe"
                             /\ file[h[2]].obj = g /\ file[h[2]].writable = w}
    \union {h \in {"ff"} \X Procs : proc[h[2]].ff.type = "pipe"
                             /\ proc[h[2]].ff.obj = g /\ proc[h[2]].ff.writable = w}

(* A file's reference count is the number of its holders at every moment,  *)
(* while fork copies descriptors, exit closes them and calls that fail     *)
(* give back what they have allocated: no file leaks, and filedup and      *)
(* fileclose never panic.  A descriptor names a file that has a type, so   *)
(* that fileread and filewrite never panic.  The inode has one reference   *)
(* for every file that is open on it and every open call in progress: iput *)
(* runs once for each, although filealloc leaves the type that the file's  *)
(* last user has set.  An end of a pipe is open exactly while one struct   *)
(* file stands for it, so that the other side sees end of file when, and   *)
(* only when, the last descriptor is closed; and the page is in use while  *)
(* an end is open (file.c:58-91, pipe.c:58-74).                            *)
RefsCounted ==
  /\ TypeOK /\ ~panic
  /\ \A f \in Files : file[f].ref = Cardinality(Holders(f))
  /\ \A p \in Procs, fd \in Fds :
       proc[p].ofile[fd] # 0 => file[proc[p].ofile[fd]].type # "none"
  /\ iref = Cardinality({f \in Files : file[f].ref > 0 /\ file[f].type = "inode"})
            + Cardinality({p \in Procs : proc[p].pc \in {"open", "open_bad"}})
            + Cardinality({p \in Procs : proc[p].ff.type = "inode"})
  /\ \A g \in Pages :
       /\ Cardinality(EndHolders(g, FALSE)) = IF pipe[g].readopen THEN 1 ELSE 0
       /\ Cardinality(EndHolders(g, TRUE)) = IF pipe[g].writeopen THEN 1 ELSE 0
       /\ pipe[g].alloc <=> (pipe[g].readopen \/ pipe[g].writeopen)
=============================================================================
