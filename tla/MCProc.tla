------------------------------- MODULE MCProc --------------------------------
(***************************************************************************)
(* Instances for TLC, which share no variable: Proc, and the parser of the *)
(* shell on every line of up to MaxLine tokens.  part says which of them   *)
(* moves.                                                                  *)
(***************************************************************************)
EXTENDS Proc, Sequences

CONSTANTS MaxLine, Tokens,
          ZeroPids    \* pids given out when there is a process that has called kill(0)
VARIABLES part, line

Short == INSTANCE Parser WITH MAXARGS <- 3

MCInit == part \in {"Proc", "Parser"} /\ Init /\ line = <<>>

MCNext ==
  /\ UNCHANGED part
  /\ \/ /\ part = "Proc" /\ Next /\ UNCHANGED line
        /\ nextpid' <= ZeroPids + 1 \/ \A p \in Slots : arg'[p] # 0
     \/ /\ part = "Parser" /\ UNCHANGED vars
        /\ IF Len(line) = MaxLine THEN line' = <<>> ELSE \E t \in Tokens : line' = Append(line, t)

MCSpec == MCInit /\ [][MCNext]_<<part, vars, line>>

\* sh.c:265-446: the parser accepts exactly the lines of the grammar, and returns the
\* only tree they have.
ParsesGrammar == part = "Parser" => Short!ParsesGrammar(line)
=============================================================================
