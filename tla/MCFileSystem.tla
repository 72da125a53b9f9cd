---------------------------- MODULE MCFileSystem ----------------------------
(***************************************************************************)
(* Instances of FileSystem for TLC.  Part "tree" starts from an empty      *)
(* disk; part "removed" from one with the directories /a and /a/b: the     *)
(* state after two mkdirs and a reboot, as Spec reaches it.                *)
(***************************************************************************)
EXTENDS FileSystem, TLC

Sym == Permutations(Procs)

Abs(e) == [abs |-> TRUE, elems |-> e]
Rel(e) == [abs |-> FALSE, elems |-> e]
On(op, q) == [op |-> op, path |-> q, new |-> q]
Link(q, r) == [op |-> "link", path |-> q, new |-> r]

\* A directory /a, files in it and in the root, and links.
TreeCalls ==
  {On("mkdir", Abs(<<"a">>)), On("create", Abs(<<"a", "b">>)), On("create", Rel(<<"b">>)),
   On("unlink", Abs(<<"a">>)), On("unlink", Abs(<<"b">>)),
   Link(Abs(<<"b">>), Abs(<<"a", "b">>)), On("chdir", Rel(<<"a">>)), On("open", Rel(<<"b">>))}
\* Calls that fail in every state.
FailingCalls ==
  {Link(Abs(<<>>), Abs(<<"b">>)), On("chdir", Rel(<<"b">>)), On("unlink", Rel(<<"..">>)),
   On("openw", Abs(<<>>))}

\* Directories that are removed under a process, and what their ".." leads to then.
RemovedCalls ==
  {On("chdir", Abs(<<"a", "b">>)), On("unlink", Abs(<<"a", "b">>)), On("unlink", Abs(<<"a">>)),
   On("mkdir", Abs(<<"b">>)), On("mknod", Abs(<<"b">>)), On("create", Rel(<<"..", "b">>)),
   On("chdir", Rel(<<"..">>))}

AllCalls == TreeCalls \union FailingCalls \union RemovedCalls

CONSTANT TreeMax      \* calls in part "tree", a crash counted as one
VARIABLE part

Dir(n) == [type |-> "dir", nlink |-> n]
TwoDirs ==
  /\ dinode = (ROOTINO :> Dir(2) @@ 2 :> Dir(2) @@ 3 :> Dir(1))
  /\ ents = (ROOTINO :> [NoEnts EXCEPT ![".."] = ROOTINO, !["a"] = 2]
             @@ 2 :> [NoEnts EXCEPT ![".."] = ROOTINO, !["b"] = 3]
             @@ 3 :> [NoEnts EXCEPT ![".."] = 2])
  /\ stable = <<dinode, ents>>
  /\ inode = BootCache
  /\ proc = [p \in Procs |-> BootProc]
  /\ ncalls = 2 /\ crashes = 1 /\ panicked = "no" /\ adrift = FALSE

MCInit == \/ part = "tree" /\ Init
          \/ part = "removed" /\ TwoDirs

MCNext ==
  /\ UNCHANGED part
  /\ Next
  /\ part = "tree" =>
       /\ ncalls' <= TreeMax - crashes'
       /\ \A p \in Procs : \/ proc'[p].call \in TreeCalls \union {None}
                           \/ proc'[p].call \in FailingCalls /\ ncalls' < TreeMax
  /\ part = "removed" => \A p \in Procs : proc'[p].call \in RemovedCalls \union {None}

MCSpec == MCInit /\ [][MCNext]_<<part, vars>>
=============================================================================
