------------------------------- MODULE Parser -------------------------------
(***************************************************************************)
(* The parser of user/sh.c, over the tokens that gettoken finds in a line: *)
(* symbols, and words.  Each function returns the command it has built and *)
(* what is left of the line, as the code does through its result and ps;   *)
(* ok is FALSE after panic.                                                *)
(***************************************************************************)
EXTENDS Integers, Sequences, SequencesExt

CONSTANTS MAXARGS

Redirections == {"<", ">", ">>"}
Symbols == Redirections \union {"|", "&", ";", "(", ")"}

execcmd(argv) == [type |-> "EXEC", argv |-> argv]
redircmd(cmd, op, file) == [type |-> "REDIR", cmd |-> cmd, file |-> file, mode |-> op,
                            fd |-> IF op = "<" THEN 0 ELSE 1]
pipecmd(left, right) == [type |-> "PIPE", left |-> left, right |-> right]
listcmd(left, right) == [type |-> "LIST", left |-> left, right |-> right]
backcmd(cmd) == [type |-> "BACK", cmd |-> cmd]

Parsed(cmd, s) == [ok |-> TRUE, cmd |-> cmd, s |-> s]
Panic == [ok |-> FALSE, cmd |-> execcmd(<<>>), s |-> <<>>]
peek(s, toks) == s # <<>> /\ s[1] \in toks

RECURSIVE parseredirs(_)
parseredirs(r) ==
  IF ~r.ok \/ ~peek(r.s, Redirections) THEN r
  ELSE IF Len(r.s) < 2 \/ peek(Tail(r.s), Symbols) THEN Panic
  ELSE parseredirs(Parsed(redircmd(r.cmd, r.s[1], r.s[2]), SubSeq(r.s, 3, Len(r.s))))

\* cmd->argv[argc] = q: cmd is the execcmd inside the redirections.
RECURSIVE AddArg(_, _)
AddArg(c, q) == IF c.type = "REDIR" THEN [c EXCEPT !.cmd = AddArg(@, q)]
                ELSE [c EXCEPT !.argv = Append(@, q)]
RECURSIVE argc(_)
argc(c) == IF c.type = "REDIR" THEN argc(c.cmd) ELSE Len(c.argv)

\* The loop of parseexec.
RECURSIVE Args(_)
Args(r) ==
  IF ~r.ok \/ r.s = <<>> \/ peek(r.s, {"|", ")", "&", ";"}) THEN r
  ELSE IF peek(r.s, Symbols) \/ argc(r.cmd) + 1 >= MAXARGS THEN Panic
  ELSE Args(parseredirs(Parsed(AddArg(r.cmd, r.s[1]), Tail(r.s))))

\* The loop over "&" in parseline.
RECURSIVE Backs(_)
Backs(r) == IF r.ok /\ peek(r.s, {"&"}) THEN Backs(Parsed(backcmd(r.cmd), Tail(r.s))) ELSE r

RECURSIVE parseline(_)
parseblock(s) ==
  LET r == parseline(Tail(s))
  IN  IF r.ok /\ peek(r.s, {")"}) THEN parseredirs(Parsed(r.cmd, Tail(r.s))) ELSE Panic

parseexec(s) ==
  IF peek(s, {"("}) THEN parseblock(s) ELSE Args(parseredirs(Parsed(execcmd(<<>>), s)))

RECURSIVE parsepipe(_)
parsepipe(s) ==
  LET l == parseexec(s)
      r == parsepipe(Tail(l.s))
  IN  IF ~l.ok \/ ~peek(l.s, {"|"}) THEN l
      ELSE [r EXCEPT !.cmd = pipecmd(l.cmd, @)]

parseline(s) ==
  LET l == Backs(parsepipe(s))
      r == parseline(Tail(l.s))
  IN  IF ~l.ok \/ ~peek(l.s, {";"}) THEN l
      ELSE [r EXCEPT !.cmd = listcmd(l.cmd, @)]

NoLeftovers(s) == FALSE
Leftovers(s) == s # <<>>

parsecmd(s) ==
  LET r == parseline(s)
  IN  IF r.ok /\ Leftovers(r.s) THEN Panic ELSE r

-----------------------------------------------------------------------------
(***************************************************************************)
(* The grammar that the functions are written after, as sets of trees:     *)
(*   line ::= back | back ; line      pipe ::= exec | exec "|" pipe        *)
(*   back ::= pipe | back &           exec ::= simple | ( line ) redirs    *)
(* simple being words and redirections in any order.                       *)
(***************************************************************************)
Upto(s, k) == SubSeq(s, 1, k)
After(s, k) == SubSeq(s, k + 1, Len(s))
IsFile(s, k) == k > 1 /\ s[k - 1] \in Redirections

\* The redirections among the tokens s around cmd: the last one outermost.
RECURSIVE Redirected(_, _)
Redirected(cmd, s) ==
  LET ks == {k \in DOMAIN s : s[k] \in Redirections}
      k == CHOOSE k \in ks : \A j \in ks : j <= k
  IN  IF ks = {} THEN cmd ELSE redircmd(Redirected(cmd, Upto(s, k - 1)), s[k], s[k + 1])

IsSimple(s) ==
  /\ \A k \in DOMAIN s : s[k] \notin Symbols \ Redirections
  /\ \A k \in DOMAIN s : s[k] \in Redirections => k < Len(s) /\ s[k + 1] \notin Symbols
Argv(s) ==
  LET ks == SetToSortSeq({k \in DOMAIN s : s[k] \notin Symbols /\ ~IsFile(s, k)}, <)
  IN  [n \in DOMAIN ks |-> s[ks[n]]]
SimpleTrees(s) ==
  {Redirected(execcmd(Argv(t)), t) : t \in {t \in {s} : IsSimple(t) /\ Len(Argv(t)) < MAXARGS}}

RECURSIVE LineTrees(_)
ExecTrees(s) ==
  SimpleTrees(s) \union
  UNION {{Redirected(c, After(s, k)) : c \in LineTrees(SubSeq(s, 2, k - 1))} :
         k \in {k \in DOMAIN s : /\ k > 1 /\ s[1] = "(" /\ s[k] = ")"
                                 /\ IsSimple(After(s, k)) /\ Argv(After(s, k)) = <<>>}}
RECURSIVE PipeTrees(_)
PipeTrees(s) ==
  ExecTrees(s) \union
  UNION {{pipecmd(l, r) : l \in ExecTrees(Upto(s, k - 1)), r \in PipeTrees(After(s, k))} :
         k \in {k \in DOMAIN s : s[k] = "|"}}
RECURSIVE BackTrees(_)
BackTrees(s) ==
  PipeTrees(s) \union
  (IF s # <<>> /\ Last(s) = "&" THEN {backcmd(c) : c \in BackTrees(Front(s))} ELSE {})
LineTrees(s) ==
  BackTrees(s) \union
  UNION {{listcmd(l, r) : l \in BackTrees(Upto(s, k - 1)), r \in LineTrees(After(s, k))} :
         k \in {k \in DOMAIN s : s[k] = ";"}}

\* sh.c:327-446: the parser accepts exactly the lines of the grammar, whose words are
\* fewer than MAXARGS in each command, and returns the only tree they have.
ParsesGrammar(line) ==
  LET r == parsecmd(line) IN LineTrees(line) = IF r.ok THEN {r.cmd} ELSE {}
=============================================================================
