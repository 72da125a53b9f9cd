------------------------------- MODULE MCLog --------------------------------
(***************************************************************************)
(* An instance of Log for TLC.  Its behaviours are some of those of Log:   *)
(* "few" are about two blocks and FewCalls calls, with crashes; "many"     *)
(* about all blocks, numbered in the order of their first use, of one      *)
(* content, without crashes and other readers.  These are more blocks than *)
(* the log holds when begin_op admits a call that it should not.           *)
(***************************************************************************)
EXTENDS Log, TLC

CONSTANTS Parts, FewBlocks, FewCalls
VARIABLE part

Sym == Permutations(Procs) \cup Permutations(Vals)

Value == CHOOSE v \in Vals : TRUE

MCInit ==
  /\ part \in Parts
  /\ Init
  /\ \A b \in Blocks : part = "many" \/ b \notin FewBlocks => disk[b] = Value
  /\ part = "many" => \A k \in 1 .. LOGSIZE : dlog[k] = Value

MCNext ==
  /\ Next
  /\ UNCHANGED part
  /\ part = "few" => calls' <= FewCalls /\ \A b \in Blocks \ FewBlocks : cache'[b] = NoBuf
  /\ part = "many" =>
       /\ crashes' = 0
       /\ \A b \in Blocks : cache'[b] # cache[b] => cache'[b] = Value /\ refcnt'[b] # refcnt[b]
       /\ \A b \in Blocks : cache'[b] # NoBuf => \A a \in 1 .. b : cache'[a] # NoBuf

MCSpec == MCInit /\ [][MCNext]_<<vars, part>>
MCFairSpec == MCSpec /\ Fairness
=============================================================================
