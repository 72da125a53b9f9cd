------------------------------- MODULE MCFile -------------------------------
(***************************************************************************)
(* Instances for TLC, which share no variable: File, small enough that     *)
(* both tables run full, and Userland on a few sessions.  part says which  *)
(* of them moves.                                                          *)
(***************************************************************************)
EXTENDS File, Sequences

VARIABLES part, session, procs, queue, files, off, console, typed, nofork

Sh == INSTANCE Userland WITH MAXARGS <- 10, NPROC <- 7, NOFILE <- 8, PIPESIZE <- 2, MaxPrime <- 5,
        proc <- procs, file <- files,
        Sessions <-
          {[slots |-> 7, lines |-> lines] : lines \in {
             <<>>,
             <<<<"primes">>>>, <<<<"pingpong">>, <<"echo", "x", "|", "cat">>>>,
             <<<<"(", "echo", "x", ";", "echo", "y", ")", ">", "f", ">", "g">>,
               <<"cat", "f", "g", "none", "f">>, <<"echo", "z", ">>", "f">>, <<"cat", "<", "f">>>>,
             <<<<"echo", "x", "|", "cat", "|", "cat">>>>,
             <<<<"echo", "x", "|", "(", "cat", ";", "cat", ";", "echo", "y", ")">>>>,
             <<<<"(", "echo", "x", "&", ")", "|", "cat">>, <<"echo", "y">>>>,
             <<<<"echo", "x", ">", "f", "&">>, <<"echo", "y", "&", ";", "cat", "<", "none">>, <<>>>>,
             <<<<"cd", "d">>, <<"echo", "x", ">", "f">>, <<"cd", "d">>, <<"cd", "/">>, <<"cat", "f">>>>,
             <<<<"echo", "x", "|", "none">>, <<"none", "|", "cat">>, <<"echo", "x", "|">>>>,
             <<<<"echo", "x", "|", "xargs", "echo", "w">>>>,
             <<<<"(", "echo", "x", ";", "echo", "z", ")", ">", "f">>, <<"xargs", "echo", "w", "<", "f">>>>}}
          \union
          {[slots |-> 4, lines |-> <<<<"echo", "x", "|", "cat", "&">>, <<"echo", "y">>, <<"echo", "z">>>>],
           [slots |-> 6, lines |-> <<<<"echo", "x", "|", "cat", "|", "cat">>>>],
           [slots |-> 5, lines |-> <<<<"primes">>, <<"pingpong">>>>],
           [slots |-> 3, lines |-> <<<<"pingpong">>, <<"echo", "x", "|", "xargs", "echo">>>>]}
svars == <<session, procs, queue, files, off, console, typed, nofork>>

MCInit ==
  /\ part \in {"File", "Userland"}
  /\ Init /\ Sh!SInit /\ (part # "Userland" => typed = <<>>)

Run == part = "Userland" /\ Sh!SNext /\ UNCHANGED <<part, vars>>
Waits == part = "Userland" /\ UNCHANGED <<part, vars, svars>>

MCNext ==
  \/ part = "File" /\ Next /\ UNCHANGED <<part, svars>>
  \/ Run \/ Waits

MCSpec == MCInit /\ [][MCNext]_<<part, vars, svars>> /\ WF_svars(Run)

\* sh.c:57-131 and the programs: at the end of a session the console and the files hold
\* what its commands mean, however the processes interleave.
OutputIsMeaning == part = "Userland" => Sh!OutputIsMeaning

\* sh.c:57-172, init.c:14-54: every session ends with the shell at its prompt.
CommandsEnd == part = "Userland" => Sh!CommandsEnd
=============================================================================
