------------------------------- MODULE MCPipe --------------------------------
(* An instance of Pipe for TLC. *)
EXTENDS Pipe, TLC

Sym == Permutations(Writers) \cup Permutations(Readers)
=============================================================================
