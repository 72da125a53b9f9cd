----------------------------- MODULE FileSystem -----------------------------
(***************************************************************************)
(* The inode cache, the inode allocator, directories, path lookup and the  *)
(* system calls on names: kernel/fs.c:105-366 and 516-671, and             *)
(* kernel/sysfile.c:118-413.                                               *)
(*                                                                         *)
(* A step is one critical section of an inode's sleep-lock, or of          *)
(* icache.lock.  A lock that is released before the process waits again is *)
(* not held between steps; unlocks and iputs after that are steps of their *)
(* own, kept in todo.  Each call is one transaction: the log makes the     *)
(* state of the disk durable when the last outstanding call ends, and a    *)
(* crash goes back to it.                                                  *)
(***************************************************************************)
EXTENDS Integers, FiniteSets, Sequences, FiniteSetsExt

CONSTANTS
  Procs, None,
  Names,         \* names of entries other than "." and ".."
  NINODES,       \* inodes on disk, sb.ninodes - 1; inode 1 is the root
  NINODE,        \* entries of the inode cache
  Calls,         \* the system calls made: op, path, and for link new
  MaxCalls, MaxCrashes

\* iget()'s panic at a full cache is out of reach: an inode has one entry.
ASSUME FileSystemAssumption ==
  /\ NINODES \in Nat \ {0} /\ NINODE \in Nat /\ NINODE >= NINODES
  /\ MaxCalls \in Nat /\ MaxCrashes \in Nat
  /\ None \notin Procs /\ ".." \notin Names

Inums == 1 .. NINODES
Slots == 1 .. NINODE
ROOTINO == 1
Elems == Names \cup {".."}

VARIABLES
  dinode,        \* on disk: type and nlink of each inode
  ents,          \* on disk: the entries of each directory; 0: none
  stable,        \* what a crash leaves of these two
  inode,         \* icache: inum, ref, valid, type, nlink, holder of the lock
  proc,          \* each process: place, call, path left, cache entries in hand
                 \* (ip, dp, keep), unlocks and iputs to do, cwd and open file
  ncalls, crashes, panicked,
  adrift         \* history: since boot, ".." of a removed directory has been followed

disk == <<dinode, ents>>
vars == <<disk, stable, inode, proc, ncalls, crashes, panicked, adrift>>

\* A device with a driver is opened like a file; "nodev" is one that has none.
Types == {"free", "file", "dir", "nodev"}
Nlinks == 0 .. NINODES + MaxCalls

\* The on-disk inodes and entries, the inode cache, the log and the processes keep
\* their types.
TypeOK ==
  /\ dinode \in [Inums -> [type : Types, nlink : Nlinks]]
  /\ ents \in [Inums -> [Elems -> {0} \cup Inums]]
  /\ inode \in [Slots -> [inum : Inums, ref : 0 .. 4 * Cardinality(Procs), valid : BOOLEAN,
                          type : Types, nlink : Nlinks, lock : Procs \cup {None}]]
  /\ \A p \in Procs :
       /\ proc[p].call \in Calls \cup {None}
       /\ proc[p].cwd \in Slots
       /\ {proc[p].ip, proc[p].dp, proc[p].keep, proc[p].file} \subseteq Slots \cup {0}
  /\ ncalls \in 0 .. MaxCalls /\ crashes \in 0 .. MaxCrashes
  /\ panicked \in {"no", "no type", "no inodes", "nlink < 1", "sleeping in iput"}
  /\ adrift \in BOOLEAN

-----------------------------------------------------------------------------
NoEnts == [n \in Elems |-> 0]
FreeSlot == [inum |-> ROOTINO, ref |-> 0, valid |-> FALSE, type |-> "free", nlink |-> 0,
             lock |-> None]

\* After boot: every process in the root directory, nothing open.
BootCache ==
  [s \in Slots |-> IF s = 1 THEN [FreeSlot EXCEPT !.ref = Cardinality(Procs)] ELSE FreeSlot]
BootProc ==
  [pc |-> "idle", call |-> None, path |-> <<>>, ip |-> 0, dp |-> 0, keep |-> 0, inum |-> 0,
   todo |-> <<>>, cwd |-> 1, file |-> 0]

\* mkfs makes the root directory, whose ".." is itself.
Init ==
  /\ dinode = [i \in Inums |-> IF i = ROOTINO THEN [type |-> "dir", nlink |-> 1]
                                              ELSE [type |-> "free", nlink |-> 0]]
  /\ ents = [i \in Inums |-> IF i = ROOTINO THEN [NoEnts EXCEPT ![".."] = ROOTINO] ELSE NoEnts]
  /\ stable = <<dinode, ents>>
  /\ inode = BootCache
  /\ proc = [p \in Procs |-> BootProc]
  /\ ncalls = 0 /\ crashes = 0 /\ panicked = "no" /\ adrift = FALSE

-----------------------------------------------------------------------------
(***************************************************************************)
(* iget() and idup(), fs.c:239-284, on the cache I; ilock() and the copy   *)
(* it reads from the disk, fs.c:286-313.  While valid is 0 nothing else of *)
(* an entry is read.                                                       *)
(***************************************************************************)
Cached(I, n) == {s \in Slots : I[s].ref > 0 /\ I[s].inum = n}
SlotFor(I, n) ==
  Min(IF Cached(I, n) # {} THEN Cached(I, n) ELSE {s \in Slots : I[s].ref = 0})
iget(I, n) ==
  [I EXCEPT ![SlotFor(I, n)] =
     IF Cached(I, n) # {} THEN [@ EXCEPT !.ref = @ + 1] ELSE [FreeSlot EXCEPT !.inum = n, !.ref = 1]]
NotCounted(I, s) == I
idup(I, s) == [I EXCEPT ![s].ref = @ + 1]

Loaded(s) ==
  IF inode[s].valid THEN inode[s]
  ELSE [inode[s] EXCEPT !.valid = TRUE, !.type = dinode[inode[s].inum].type,
                        !.nlink = dinode[inode[s].inum].nlink]
Locked(s, p) == [Loaded(s) EXCEPT !.lock = p]
NoType(s) == ~inode[s].valid /\ dinode[inode[s].inum].type = "free"

Running(p) == panicked = "no" /\ proc[p].todo = <<>>
At(p, l) == Running(p) /\ proc[p].pc = l
\* The entry that the process's next step locks.
Target(p) ==
  CASE proc[p].pc = "namex" /\ proc[p].path # <<>> -> proc[p].ip
    [] proc[p].pc \in {"open", "chdir", "link", "create_found", "create_new", "unlink_entry"}
         -> proc[p].ip
    [] proc[p].pc \in {"unlink", "create", "link_new"} -> proc[p].dp
    [] proc[p].pc = "link_bad" -> proc[p].keep
    [] OTHER -> 0
AtLock(p, l) == At(p, l) /\ Target(p) # 0 /\ inode[Target(p)].lock = None

\* panic("ilock: no type"), fs.c:310.
ilock_panics(p) ==
  Running(p) /\ Target(p) # 0 /\ inode[Target(p)].lock = None /\ NoType(Target(p))

\* Rmdir'd: no entry leads to directory i.  Its ".." stays, and does not count as a link.
Removed(i) == i # ROOTINO /\ \A d \in Inums, n \in Names : ents[d][n] # i
DotDot(p) ==
  /\ proc[p].pc = "namex" /\ proc[p].path # <<>> /\ proc[p].todo = <<>>
  /\ Head(proc[p].path) = ".." /\ Removed(inode[proc[p].ip].inum)

\* A step of p that changes the cache and p's own state, and nothing else.
Do(p, I, r) ==
  /\ inode' = I
  /\ proc' = [proc EXCEPT ![p] = r]
  /\ UNCHANGED <<stable, ncalls, crashes, panicked>>

put(s) == <<"put", s>>
StaysLocked(s) == <<put(s)>>
iunlockput(s) == << <<"unlock", s>>, put(s) >>
\* The call is over, but for the references in todo.
Ends(r, todo) == [r EXCEPT !.pc = "end", !.todo = todo, !.ip = 0, !.dp = 0, !.keep = 0]

-----------------------------------------------------------------------------
(***************************************************************************)
(* iunlock(), fs.c:315-323, and iput(), 325-358.  Truncating and freeing   *)
(* is done without icache.lock.                                            *)
(***************************************************************************)
LastRef(s) == inode[s].ref = 1
Unlinked(s) == inode[s].valid /\ inode[s].nlink = 0
ValidKept(s) == inode[s].valid
ValidAfterFree(s) == FALSE

iunlock(p, s) ==
  /\ Do(p, [inode EXCEPT ![s].lock = None], [proc[p] EXCEPT !.todo = Tail(@)])
  /\ UNCHANGED disk

iput(p, s) ==
  /\ ~(LastRef(s) /\ Unlinked(s))
  /\ Do(p, [inode EXCEPT ![s].ref = @ - 1], [proc[p] EXCEPT !.todo = Tail(@)])
  /\ UNCHANGED disk

\* The acquiresleep() must not sleep: icache.lock is held.
iput_last(p, s) ==
  /\ LastRef(s) /\ Unlinked(s)
  /\ IF inode[s].lock = None
     THEN Do(p, [inode EXCEPT ![s].lock = p],
             [proc[p] EXCEPT !.todo = << <<"trunc", s>>, <<"inval", s>>, <<"dec", s>> >> \o Tail(@)])
     ELSE panicked' = "sleeping in iput" /\ UNCHANGED <<stable, inode, proc, ncalls, crashes>>
  /\ UNCHANGED disk

\* itrunc(), type = 0 and iupdate().
iput_free(p, s) ==
  /\ Do(p, [inode EXCEPT ![s].type = "free"], [proc[p] EXCEPT !.todo = Tail(@)])
  /\ dinode' = [dinode EXCEPT ![inode[s].inum].type = "free"]
  /\ ents' = [ents EXCEPT ![inode[s].inum] = NoEnts]

iput_unlock(p, s) ==
  /\ Do(p, [inode EXCEPT ![s].valid = ValidAfterFree(s), ![s].lock = None],
        [proc[p] EXCEPT !.todo = Tail(@)])
  /\ UNCHANGED disk

iput_dec(p, s) ==
  /\ Do(p, [inode EXCEPT ![s].ref = @ - 1], [proc[p] EXCEPT !.todo = Tail(@)])
  /\ UNCHANGED disk

do_todo(p) ==
  /\ panicked = "no" /\ proc[p].todo # <<>>
  /\ LET what == Head(proc[p].todo)[1]
         s == Head(proc[p].todo)[2]
     IN  \/ what = "unlock" /\ iunlock(p, s)
         \/ what = "put" /\ (iput(p, s) \/ iput_last(p, s))
         \/ what = "trunc" /\ iput_free(p, s)
         \/ what = "inval" /\ iput_unlock(p, s)
         \/ what = "dec" /\ iput_dec(p, s)

(***************************************************************************)
(* namex(), fs.c:621-658.                                                  *)
(***************************************************************************)
\* The lookup of a link's new path is the second one.
LinksNew(p) == proc[p].call.op = "link" /\ proc[p].keep # 0
nameiparent(p) == proc[p].call.op \in {"create", "mkdir", "mknod", "unlink"} \/ LinksNew(p)
AfterNamex(p) ==
  CASE proc[p].call.op \in {"mkdir", "mknod"} -> "create"
    [] proc[p].call.op = "openw" -> "open"
    [] LinksNew(p) -> "link_new"
    [] OTHER -> proc[p].call.op
NotFound(p, todo) ==
  IF LinksNew(p) THEN [proc[p] EXCEPT !.pc = "link_bad", !.todo = todo, !.ip = 0]
                 ELSE Ends(proc[p], todo)

\* Where a walk of path q starts.
Start(q, p) == IF q.abs THEN SlotFor(inode, ROOTINO) ELSE proc[p].cwd
Started(q, p, I) == IF q.abs THEN iget(I, ROOTINO) ELSE idup(I, proc[p].cwd)

lookup(d, n) == ents[inode[d].inum][n]
name(p) == Head(proc[p].path)

namex(p) ==
  /\ AtLock(p, "namex") /\ proc[p].path # <<>>
  /\ LET s == proc[p].ip
         I == [inode EXCEPT ![s] = Loaded(s)]
     IN  \/ /\ I[s].type # "dir"
            /\ Do(p, I, NotFound(p, <<put(s)>>))
         \/ /\ I[s].type = "dir" /\ nameiparent(p) /\ Len(proc[p].path) = 1
            /\ Do(p, I, [proc[p] EXCEPT !.pc = AfterNamex(p), !.dp = s, !.ip = 0])
         \/ /\ I[s].type = "dir" /\ ~(nameiparent(p) /\ Len(proc[p].path) = 1)
            /\ lookup(s, name(p)) = 0
            /\ Do(p, I, NotFound(p, <<put(s)>>))
         \/ /\ I[s].type = "dir" /\ ~(nameiparent(p) /\ Len(proc[p].path) = 1)
            /\ lookup(s, name(p)) # 0
            /\ Do(p, iget(I, lookup(s, name(p))),
                  [proc[p] EXCEPT !.ip = SlotFor(I, lookup(s, name(p))), !.path = Tail(@),
                                  !.todo = <<put(s)>>])
  /\ UNCHANGED disk

namex_end(p) ==
  /\ At(p, "namex") /\ proc[p].path = <<>>
  /\ Do(p, inode, IF nameiparent(p) THEN NotFound(p, <<put(proc[p].ip)>>)
                                    ELSE [proc[p] EXCEPT !.pc = AfterNamex(p)])
  /\ UNCHANGED disk

(***************************************************************************)
(* The calls.  begin_op() and the start of the lookup; fileclose(),        *)
(* file.c:58-83, of the last descriptor of an open inode.                  *)
(***************************************************************************)
begin(p, c) ==
  /\ At(p, "idle") /\ ncalls < MaxCalls
  /\ ncalls' = ncalls + 1
  /\ inode' = Started(c.path, p, inode)
  /\ proc' = [proc EXCEPT ![p].pc = "namex", ![p].call = c, ![p].path = c.path.elems,
                          ![p].ip = Start(c.path, p)]
  /\ UNCHANGED <<disk, stable, crashes, panicked>>

fileclose(p) ==
  /\ At(p, "idle") /\ proc[p].file # 0
  /\ Do(p, inode, [Ends(proc[p], <<put(proc[p].file)>>) EXCEPT !.file = 0])
  /\ UNCHANGED disk

\* end_op(), log.c:143-174: the last outstanding call commits.
end(p) ==
  /\ At(p, "end")
  /\ proc' = [proc EXCEPT ![p] = [BootProc EXCEPT !.cwd = proc[p].cwd, !.file = proc[p].file]]
  /\ stable' = IF \A q \in Procs \ {p} : proc[q].pc = "idle" THEN disk ELSE stable
  /\ UNCHANGED <<disk, inode, ncalls, crashes, panicked>>

\* The end of sys_open(), sysfile.c:319-351, with s locked: a process has one
\* descriptor, and filealloc() or fdalloc() fails when it is in use; a device without a
\* driver is not opened.
Opened(p, s) ==
  IF proc[p].file = 0 /\ Loaded(s).type # "nodev"
  THEN [Ends(proc[p], <<>>) EXCEPT !.file = s] ELSE Ends(proc[p], <<put(s)>>)

sys_open(p) ==
  /\ AtLock(p, "open")
  /\ LET s == proc[p].ip
     IN  Do(p, [inode EXCEPT ![s] = Loaded(s)],
            IF Loaded(s).type = "dir" /\ proc[p].call.op = "openw" THEN Ends(proc[p], <<put(s)>>)
            ELSE Opened(p, s))
  /\ UNCHANGED disk

sys_chdir(p) ==
  /\ AtLock(p, "chdir")
  /\ LET s == proc[p].ip
     IN  Do(p, [inode EXCEPT ![s] = Loaded(s)],
            IF Loaded(s).type # "dir" THEN Ends(proc[p], <<put(s)>>)
            ELSE [Ends(proc[p], <<put(proc[p].cwd)>>) EXCEPT !.cwd = s])
  /\ UNCHANGED disk

\* iupdate(), fs.c:217-237: entry s of cache I, to the inodes D on disk.
iupdate(D, I, s) == [D EXCEPT ![I[s].inum] = [type |-> I[s].type, nlink |-> I[s].nlink]]

(***************************************************************************)
(* sys_unlink(), sysfile.c:184-239, with the parent dp locked from here to *)
(* the removal of the entry, and ip until its link count is written.       *)
(***************************************************************************)
isdirempty(s) == \A n \in Names : lookup(s, n) = 0
EntryLeft(i) == i
EntryAfterUnlink(i) == 0

sys_unlink(p) ==
  /\ AtLock(p, "unlink")
  /\ LET d == proc[p].dp
         n == lookup(d, name(p))
         I == [inode EXCEPT ![d] = Locked(d, p)]
     IN  \/ /\ n = 0 \/ name(p) = ".."
            /\ Do(p, [inode EXCEPT ![d] = Loaded(d)], Ends(proc[p], <<put(d)>>))
         \/ /\ n # 0 /\ name(p) # ".."
            /\ Do(p, iget(I, n), [proc[p] EXCEPT !.pc = "unlink_entry", !.ip = SlotFor(I, n)])
  /\ UNCHANGED disk

unlink_entry(p) ==
  /\ AtLock(p, "unlink_entry")
  /\ LET s == proc[p].ip
         d == proc[p].dp
         isdir == Loaded(s).type = "dir"
         I == [inode EXCEPT ![s] = Locked(s, p), ![d].nlink = IF isdir THEN @ - 1 ELSE @]
     IN  IF Loaded(s).nlink < 1
         THEN panicked' = "nlink < 1" /\ UNCHANGED <<disk, stable, inode, proc, ncalls, crashes>>
         ELSE \/ /\ isdir /\ ~isdirempty(s)
                 /\ Do(p, [inode EXCEPT ![s] = Loaded(s)], Ends(proc[p], <<put(s)>> \o iunlockput(d)))
                 /\ UNCHANGED disk
              \/ /\ isdir => isdirempty(s)
                 /\ ents' = [ents EXCEPT ![inode[d].inum][name(p)] = EntryAfterUnlink(@)]
                 /\ dinode' = IF isdir THEN iupdate(dinode, I, d) ELSE dinode
                 /\ Do(p, I, [proc[p] EXCEPT !.pc = "unlink_done", !.dp = 0,
                                             !.todo = iunlockput(d)])

unlink_done(p) ==
  /\ At(p, "unlink_done")
  /\ LET s == proc[p].ip
         I == [inode EXCEPT ![s].nlink = @ - 1]
     IN  /\ Do(p, I, Ends(proc[p], iunlockput(s)))
         /\ dinode' = iupdate(dinode, I, s)
  /\ UNCHANGED ents

(***************************************************************************)
(* create(), sysfile.c:241-284, for sys_open(), sys_mkdir() and            *)
(* sys_mknod(), with ialloc(), fs.c:192-215, which marks the inode on disk *)
(* before iget().                                                          *)
(***************************************************************************)
create(p) ==
  /\ AtLock(p, "create")
  /\ LET d == proc[p].dp
         n == lookup(d, name(p))
         I == [inode EXCEPT ![d] = Loaded(d)]
     IN  \/ /\ n # 0
            /\ Do(p, iget(I, n), [proc[p] EXCEPT !.pc = "create_found", !.ip = SlotFor(I, n), !.dp = 0,
                                                 !.todo = <<put(d)>>])
         \/ /\ n = 0
            /\ Do(p, [inode EXCEPT ![d] = Locked(d, p)], [proc[p] EXCEPT !.pc = "ialloc"])
  /\ UNCHANGED disk

create_found(p) ==
  /\ AtLock(p, "create_found")
  /\ LET s == proc[p].ip
     IN  Do(p, [inode EXCEPT ![s] = Loaded(s)],
            IF proc[p].call.op = "create" /\ Loaded(s).type \in {"file", "nodev"} THEN Opened(p, s)
            ELSE Ends(proc[p], <<put(s)>>))
  /\ UNCHANGED disk

ialloc(p) ==
  /\ At(p, "ialloc")
  /\ LET free == {i \in Inums : dinode[i].type = "free"}
         type == CASE proc[p].call.op = "mkdir" -> "dir" [] proc[p].call.op = "mknod" -> "nodev"
                  [] OTHER -> "file"
     IN  IF free = {}
         THEN panicked' = "no inodes" /\ UNCHANGED <<dinode, stable, inode, proc, ncalls, crashes>>
         ELSE /\ dinode' = [dinode EXCEPT ![Min(free)] = [type |-> type, nlink |-> 0]]
              /\ Do(p, inode, [proc[p] EXCEPT !.pc = "ialloc_get", !.inum = Min(free)])
  /\ UNCHANGED ents

ialloc_get(p) ==
  /\ At(p, "ialloc_get")
  /\ Do(p, iget(inode, proc[p].inum),
        [proc[p] EXCEPT !.pc = "create_new", !.ip = SlotFor(inode, proc[p].inum)])
  /\ UNCHANGED disk

ParentLinks(d) == inode[d].nlink + 1   \* for ".."

create_new(p) ==
  /\ AtLock(p, "create_new")
  /\ LET s == proc[p].ip
         d == proc[p].dp
         isdir == proc[p].call.op = "mkdir"
         I == [inode EXCEPT ![s] = [Locked(s, p) EXCEPT !.nlink = 1],
                            ![d].nlink = IF isdir THEN ParentLinks(d) ELSE @]
         E == IF isdir THEN [ents EXCEPT ![inode[s].inum][".."] = inode[d].inum] ELSE ents
     IN  /\ dinode' = iupdate(iupdate(dinode, I, s), I, d)
         /\ ents' = [E EXCEPT ![inode[d].inum][name(p)] = inode[s].inum]
         /\ Do(p, I, [proc[p] EXCEPT !.pc = "created", !.dp = 0, !.todo = iunlockput(d)])

created(p) ==
  /\ At(p, "created")
  /\ LET s == proc[p].ip
     IN  Do(p, [inode EXCEPT ![s].lock = None],
            IF proc[p].call.op = "create" THEN Opened(p, s) ELSE Ends(proc[p], <<put(s)>>))
  /\ UNCHANGED disk

(***************************************************************************)
(* sys_link(), sysfile.c:118-166.                                          *)
(***************************************************************************)
sys_link(p) ==
  /\ AtLock(p, "link")
  /\ LET s == proc[p].ip
         I == [inode EXCEPT ![s] = [Loaded(s) EXCEPT !.nlink = @ + 1]]
         q == proc[p].call.new
     IN  IF Loaded(s).type = "dir"
         THEN Do(p, [inode EXCEPT ![s] = Loaded(s)], Ends(proc[p], <<put(s)>>)) /\ UNCHANGED dinode
         ELSE /\ dinode' = iupdate(dinode, I, s)
              /\ Do(p, Started(q, p, I),
                    [proc[p] EXCEPT !.pc = "namex", !.keep = s, !.ip = Start(q, p), !.path = q.elems])
  /\ UNCHANGED ents

\* dirlink(), fs.c:552-580.
link_new(p) ==
  /\ AtLock(p, "link_new")
  /\ LET d == proc[p].dp
         n == lookup(d, name(p))
         I == [inode EXCEPT ![d] = Locked(d, p)]
     IN  \/ /\ n # 0
            /\ Do(p, iget(I, n), [proc[p] EXCEPT !.pc = "link_bad", !.dp = 0,
                                     !.todo = <<put(SlotFor(I, n))>> \o iunlockput(d)])
            /\ UNCHANGED ents
         \/ /\ n = 0
            /\ ents' = [ents EXCEPT ![inode[d].inum][name(p)] = inode[proc[p].keep].inum]
            /\ Do(p, [inode EXCEPT ![d] = Loaded(d)], Ends(proc[p], <<put(d), put(proc[p].keep)>>))
  /\ UNCHANGED dinode

link_bad(p) ==
  /\ AtLock(p, "link_bad")
  /\ LET s == proc[p].keep
         I == [inode EXCEPT ![s] = [Loaded(s) EXCEPT !.nlink = @ - 1]]
     IN  /\ Do(p, I, Ends(proc[p], <<put(s)>>))
         /\ dinode' = iupdate(dinode, I, s)
  /\ UNCHANGED ents

\* Power failure and reboot: memory is gone, the log recovers the last commit.
Crash ==
  /\ panicked = "no" /\ crashes < MaxCrashes
  /\ crashes' = crashes + 1
  /\ dinode' = stable[1] /\ ents' = stable[2]
  /\ inode' = BootCache
  /\ proc' = [p \in Procs |-> BootProc]
  /\ adrift' = FALSE
  /\ UNCHANGED <<stable, ncalls, panicked>>

Step(p) ==
  IF ilock_panics(p)
  THEN panicked' = "no type" /\ UNCHANGED <<disk, stable, inode, proc, ncalls, crashes>>
  ELSE \/ do_todo(p) \/ namex(p) \/ namex_end(p) \/ end(p) \/ sys_open(p) \/ sys_chdir(p)
       \/ sys_unlink(p) \/ unlink_entry(p) \/ unlink_done(p)
       \/ create(p) \/ create_found(p) \/ ialloc(p) \/ ialloc_get(p) \/ create_new(p)
       \/ created(p) \/ sys_link(p) \/ link_new(p) \/ link_bad(p)

Next ==
  \/ \E p \in Procs :
       \/ Step(p) /\ adrift' = (adrift \/ DotDot(p))
       \/ (fileclose(p) \/ \E c \in Calls : begin(p, c)) /\ UNCHANGED adrift
  \/ Crash

Spec == Init /\ [][Next]_vars

-----------------------------------------------------------------------------
\* The references to s that processes have, those they are about to drop included.
Using(s) == {u \in Procs \X {"ip", "dp", "keep", "cwd", "file"} : proc[u[1]][u[2]] = s}
Dropping(s) ==
  {u \in UNION {{p} \X DOMAIN proc[p].todo : p \in Procs} :
     LET t == proc[u[1]].todo[u[2]] IN t[2] = s /\ t[1] \in {"put", "dec"}}

\* fs.c:130: ref is the number of pointers to the entry, on every path through
\* the calls, the failing ones included; and an inode has one entry, so that its
\* lock and its copy are unique.
RefsCounted ==
  /\ TypeOK
  /\ \A s \in Slots : inode[s].ref = Cardinality(Using(s)) + Cardinality(Dropping(s))
  /\ \A s, t \in Slots :
       inode[s].ref > 0 /\ inode[t].ref > 0 /\ inode[s].inum = inode[t].inum => s = t

\* fs.c:218: the cache is write-through.  An unlocked valid entry agrees with the
\* disk, also when the inode was freed and allocated again under the entry.
WriteThrough ==
  \A s \in Slots :
    inode[s].ref > 0 /\ inode[s].valid /\ inode[s].lock = None =>
      dinode[inode[s].inum] = [type |-> inode[s].type, nlink |-> inode[s].nlink]

\* The names of inode i, and the subdirectories whose ".." names it.
Entries(E, D, i) ==
  {e \in Inums \X Names : D[e[1]].type = "dir" /\ E[e[1]][e[2]] = i}
Children(E, D, i) ==
  {e \in Inums \X Names : e[1] = i /\ E[i][e[2]] # 0 /\ D[E[i][e[2]]].type = "dir"}
\* What recovery can find on the disk, whenever link, unlink, create and iput are
\* cut off: named entries lead to allocated inodes that count them, and a
\* directory is entered once, in its "..".
TreeOnDisk ==
  LET D == stable[1]
      E == stable[2]
  IN  \A i \in Inums \ {ROOTINO} :
        /\ D[i].nlink >= Cardinality(Entries(E, D, i) \cup Children(E, D, i))
        /\ Entries(E, D, i) # {} => D[i].type # "free"
        /\ D[i].type = "dir" => \A e \in Entries(E, D, i) : E[i][".."] = e[1]

\* fs.c:310, 340: ilock() never meets a freed inode and iput() never sleeps with
\* icache.lock; sysfile.c:211: what unlink finds has a link.  What is open, or
\* somebody's current directory, stays allocated however often it is unlinked.  But the
\* parent of a removed directory does not: after a walk through the ".." of one
\* (fs.c:644), ilock() may panic with "no type".
\* Nor does anybody wait for ever: a process leaves every call without an inode lock, and
\* the locks that namex(), create(), unlink() and iput() take never close a cycle, being
\* taken from the root downwards.
NeverStuck ==
  LET Holder(p) == IF Running(p) /\ Target(p) # 0 THEN inode[Target(p)].lock ELSE None
  IN  /\ panicked \in {"no", "no inodes"} \/ (panicked = "no type" /\ adrift)
      /\ \A p \in Procs :
           /\ dinode[inode[proc[p].cwd].inum].type = "dir"
           /\ proc[p].file # 0 => dinode[inode[proc[p].file].inum].type # "free"
      /\ \A s \in Slots : inode[s].lock # None => proc[inode[s].lock].pc # "idle"
      /\ \A S \in SUBSET Procs \ {{}} : \E p \in S : Holder(p) \notin S
=============================================================================
