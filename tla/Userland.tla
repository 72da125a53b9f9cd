------------------------------ MODULE Userland ------------------------------
(***************************************************************************)
(* init, the shell (sh.c) and programs that it runs: echo, cat, primes,    *)
(* pingpong and xargs.  Each is written as the system calls that it makes. *)
(* The calls act on what the other modules promise of the kernel: a table  *)
(* of processes, descriptors that fork and dup share, pipes as bounded     *)
(* queues (Fifo), files with offsets.                                      *)
(*                                                                         *)
(* What is read and written are items: a word, a blank, a newline, a       *)
(* number.  Prompts and messages about errors are left out, and nothing    *)
(* but the shell reads the console.                                        *)
(***************************************************************************)
EXTENDS Parser, FiniteSets, TLC

CONSTANTS
  NPROC, NOFILE, PIPESIZE,
  Sessions,      \* what is typed at the shell: lines, a line being tokens, and how many
                 \* slots of the process table other processes leave
  MaxPrime       \* primes sieves the numbers up to it: 35 in the code

VARIABLES
  session,       \* the lines not read yet, each with what parsecmd makes of it
  proc,          \* the process table
  queue,         \* content of each pipe
  file,          \* content of each file: directory and name to items
  off,           \* offsets of open files
  console,       \* what has been written to the console
  typed,         \* history: the lines of the session
  nofork         \* history: a fork failed

svars == <<session, proc, queue, file, off, console, typed, nofork>>

Slots == 1 .. NPROC
Fds == 0 .. NOFILE - 1
Ids == 1 .. NPROC + 1
Root == "/"
Dirs == {Root, "d"}

(***************************************************************************)
(* System calls, as instructions of a process.  A descriptor is given as a *)
(* number, or by where the program keeps it: <<"p", 1>> is p[0], and       *)
(* <<"fd", 1>> the result of open.  The last field of fork and write says  *)
(* whether the program ends or goes on when they fail.                     *)
(***************************************************************************)
number(n) == <<"number", n>>
stdin == number(0)
stdout == number(1)
close(fd) == <<"close", fd>>
dup(fd) == <<"dup", fd>>
pipe(var) == <<"pipe", var>>
open(name, mode) == <<"open", name, mode>>
write(fd, x, fails) == <<"write", fd, x, fails>>
fork(child, fails) == <<"fork", child, fails>>
wait == <<"wait">>
exit == <<"exit">>
exec(argv) == <<"exec", argv>>
printf(x) == write(stdout, x, "go on")

-----------------------------------------------------------------------------
(***************************************************************************)
(* sh.c: runcmd, and the loop of main.                                     *)
(***************************************************************************)
run(cmd) == <<"runcmd", cmd>>
fork1(child) == fork(child, "exit")

WrongEnd == <<close(stdout), dup(<<"p", 1>>), close(<<"p", 1>>), close(<<"p", 2>>)>>
LeftEnd == <<close(stdout), dup(<<"p", 2>>), close(<<"p", 1>>), close(<<"p", 2>>)>>
KeepsWriteEnd == <<close(stdin), dup(<<"p", 1>>), close(<<"p", 1>>)>>
RightEnd == <<close(stdin), dup(<<"p", 1>>), close(<<"p", 1>>), close(<<"p", 2>>)>>

runcmd(cmd) ==
  CASE cmd.type = "EXEC" -> IF cmd.argv = <<>> THEN <<exit>> ELSE <<exec(cmd.argv), exit>>
    [] cmd.type = "REDIR" -> <<close(number(cmd.fd)), open(cmd.file, cmd.mode), run(cmd.cmd)>>
    [] cmd.type = "LIST" -> <<fork1(<<run(cmd.left)>>), wait, run(cmd.right)>>
    [] cmd.type = "PIPE" ->
         <<pipe("p"), fork1(Append(LeftEnd, run(cmd.left))), fork1(Append(RightEnd, run(cmd.right))),
           close(<<"p", 1>>), close(<<"p", 2>>), wait, wait, exit>>
    [] cmd.type = "BACK" -> <<fork1(<<run(cmd.cmd)>>), exit>>

\* main opens the console until descriptor 3 is reached, and closes that; then it
\* reads lines.
main == <<<<"console">>, <<"getcmd">>>>

(***************************************************************************)
(* init.c: opens the console as descriptors 0, 1 and 2, starts a shell     *)
(* and waits, for ever.                                                    *)
(***************************************************************************)
init == <<open("console", "device"), dup(stdin), dup(stdin), <<"start">>>>

(***************************************************************************)
(* echo, cat, primes, pingpong, xargs.                                     *)
(***************************************************************************)
RECURSIVE Echo(_)
Echo(args) ==
  IF args = <<>> THEN <<exit>>
  ELSE <<printf(args[1]), printf(IF Len(args) > 1 THEN " " ELSE "\n")>> \o Echo(Tail(args))

RECURSIVE Cat(_)
Cat(names) ==
  IF names = <<>> THEN <<exit>>
  ELSE <<open(names[1], "<"), <<"cat", <<"fd", 1>>>>, close(<<"fd", 1>>)>> \o Cat(Tail(names))

Stop == -1
traversal == <<close(<<"p", 2>>), <<"traversal">>>>
primes ==
  <<pipe("p"), fork(<<close(<<"p", 2>>)>> \o traversal, "go on"), close(<<"p", 1>>)>>
    \o [n \in 1 .. MaxPrime - 1 |-> write(<<"p", 2>>, n + 1, "go on")]
    \o <<write(<<"p", 2>>, Stop, "go on"), wait, exit>>
\* traversal after its first read; the child's p is its parent's pout.
Traversal(prime) ==
  <<printf(ToString(prime)), pipe("q"),
    fork(<<close(<<"p", 1>>), close(<<"q", 2>>), <<"p = pout">>>> \o traversal, "go on"),
    close(<<"q", 1>>), <<"sieve", prime>>, write(<<"q", 2>>, Stop, "go on"), wait, exit>>

pingpong ==
  <<pipe("p"), pipe("q"),
    fork(<<close(<<"p", 2>>), close(<<"q", 1>>), <<"receive", <<"p", 1>>, "ping">>,
           close(<<"p", 1>>), write(<<"q", 2>>, "1", "go on"), exit>>, "go on"),
    close(<<"p", 1>>), close(<<"q", 2>>), write(<<"p", 2>>, "1", "go on"),
    <<"receive", <<"q", 1>>, "pong">>, close(<<"q", 1>>), exit>>

Xargs(argv, words, last) == <<"xargs", argv, words, last>>
RunLine(argv, words) == fork(<<exec(argv \o words), exit>>, "go on")

\* The code of a program; <<>> if there is none of that name.
Program(argv) ==
  CASE argv[1] = "echo" -> Echo(Tail(argv))
    [] argv[1] = "cat" -> IF Len(argv) = 1 THEN <<<<"cat", stdin>>, exit>> ELSE Cat(Tail(argv))
    [] argv[1] = "primes" -> primes
    [] argv[1] = "pingpong" -> pingpong
    [] argv[1] = "xargs" -> <<Xargs(Tail(argv), <<>>, ""), <<"wait all">>, exit>>
    [] OTHER -> <<>>

-----------------------------------------------------------------------------
(***************************************************************************)
(* The kernel.                                                             *)
(***************************************************************************)
Object(type, name, id) == [type |-> type, name |-> name, id |-> id]
Closed == Object("closed", "", 0)
Console == Object("console", "", 0)
NoFds == [d \in Fds |-> Closed]
Unused == [state |-> "unused", parent |-> 0, orig |-> 0, code |-> <<>>, ofile |-> NoFds, cwd |-> Root,
           p |-> <<0, 0>>, q |-> <<0, 0>>, fd |-> <<0>>]

SInit ==
  /\ \E given \in Sessions :
       /\ typed = given.lines
       /\ proc = [s \in Slots |-> IF s = 1 THEN [Unused EXCEPT !.state = "run", !.code = init]
                                 ELSE IF s <= given.slots THEN Unused
                                 ELSE [Unused EXCEPT !.state = "other"]]
  /\ session = [n \in DOMAIN typed |-> [text |-> typed[n], parsed |-> parsecmd(typed[n])]]
  /\ queue = [k \in Ids |-> <<>>] /\ off = [k \in Ids |-> 0]
  /\ file = <<>> /\ console = <<>> /\ nofork = FALSE

Held == {proc[s].ofile[d] : s \in Slots, d \in Fds}
FreshId(types) == CHOOSE k \in Ids : \A o \in Held : o.type \in types => o.id # k
Op(s, op) == proc[s].state = "run" /\ proc[s].code[1][1] = op
Arg(s, n) == proc[s].code[1][n]
Rest(s) == Tail(proc[s].code)
Fd(s, x) == IF x[1] = "number" THEN x[2] ELSE proc[s][x[1]][x[2]]
Lowest(of) == CHOOSE d \in Fds : of[d] = Closed /\ \A e \in Fds : of[e] = Closed => d <= e
Set(s, fields) == proc' = [proc EXCEPT ![s] = fields @@ @]
Continue(s, code) == Set(s, [code |-> code])

Close(s) ==
  /\ Op(s, "close")
  /\ Set(s, [code |-> Rest(s), ofile |-> [proc[s].ofile EXCEPT ![Fd(s, Arg(s, 2))] = Closed]])
  /\ UNCHANGED <<session, queue, file, off, console, nofork>>

Dup(s) ==
  /\ Op(s, "dup")
  /\ LET of == proc[s].ofile
     IN  Set(s, [code |-> Rest(s), ofile |-> [of EXCEPT ![Lowest(of)] = of[Fd(s, Arg(s, 2))]]])
  /\ UNCHANGED <<session, queue, file, off, console, nofork>>

Pipe(s) ==
  /\ Op(s, "pipe")
  /\ LET k == FreshId({"read", "write"})
         of == proc[s].ofile
         of1 == [of EXCEPT ![Lowest(of)] = Object("read", "", k)]
     IN  /\ Set(s, (Arg(s, 2) :> <<Lowest(of), Lowest(of1)>>) @@
                   [code |-> Rest(s), ofile |-> [of1 EXCEPT ![Lowest(of1)] = Object("write", "", k)]])
         /\ queue' = [queue EXCEPT ![k] = <<>>]
  /\ UNCHANGED <<session, file, off, console, nofork>>

\* The program gives up when there is no such file to read.
Open(s) ==
  /\ Op(s, "open")
  /\ LET name == <<proc[s].cwd, Arg(s, 2)>>
         mode == Arg(s, 3)
         k == FreshId({"file"})
         d == Lowest(proc[s].ofile)
     IN  IF mode = "device"
         THEN /\ Set(s, [code |-> Rest(s), ofile |-> [proc[s].ofile EXCEPT ![d] = Console]])
              /\ UNCHANGED <<file, off>>
         ELSE IF mode = "<" /\ name \notin DOMAIN file
         THEN Continue(s, <<exit>>) /\ UNCHANGED <<file, off>>
         ELSE /\ Set(s, [code |-> Rest(s), fd |-> <<d>>,
                         ofile |-> [proc[s].ofile EXCEPT ![d] = Object("file", name, k)]])
              /\ off' = [off EXCEPT ![k] = 0]
              /\ file' = IF mode = ">" \/ name \notin DOMAIN file
                         THEN (name :> <<>>) @@ file ELSE file
  /\ UNCHANGED <<session, queue, console, nofork>>

\* The items overwrite those at the offset, also of a file opened with >>.
WriteAt(old, n, x) == [k \in 1 .. (IF Len(old) > n THEN Len(old) ELSE n + 1) |->
                         IF k = n + 1 THEN x ELSE old[k]]

\* Into a pipe: pipewrite looks at the read end only when there is no room.
Write(s) ==
  /\ Op(s, "write")
  /\ LET o == proc[s].ofile[Fd(s, Arg(s, 2))]
         x == Arg(s, 3)
     IN  \/ /\ o.type = "console" /\ console' = Append(console, x)
            /\ Continue(s, Rest(s)) /\ UNCHANGED <<queue, file, off>>
         \/ /\ o.type = "file"
            /\ file' = [file EXCEPT ![o.name] = WriteAt(@, off[o.id], x)]
            /\ off' = [off EXCEPT ![o.id] = @ + 1]
            /\ Continue(s, Rest(s)) /\ UNCHANGED <<queue, console>>
         \/ /\ o.type = "write" /\ Len(queue[o.id]) < PIPESIZE
            /\ queue' = [queue EXCEPT ![o.id] = Append(@, x)]
            /\ Continue(s, Rest(s)) /\ UNCHANGED <<file, off, console>>
         \/ /\ \/ o.type \in {"closed", "read"}
               \/ /\ o.type = "write" /\ Len(queue[o.id]) = PIPESIZE
                  /\ Object("read", "", o.id) \notin Held
            /\ Continue(s, IF Arg(s, 4) = "exit" THEN <<exit>> ELSE Rest(s))
            /\ UNCHANGED <<queue, file, off, console>>
  /\ UNCHANGED <<session, nofork>>

\* read of at most n items from object o by s: what it returns, and the new state.
Content(o) == CASE o.type = "read" -> queue[o.id]
                [] o.type = "file" -> SubSeq(file[o.name], off[o.id] + 1, Len(file[o.name]))
                [] OTHER -> <<>>
CanRead(o) == /\ o.type # "console"
              /\ o.type = "read" => queue[o.id] # <<>> \/ Object("write", "", o.id) \notin Held
Take(o, n) ==
  /\ queue' = IF o.type = "read" THEN [queue EXCEPT ![o.id] = SubSeq(@, n + 1, Len(@))] ELSE queue
  /\ off' = IF o.type = "file" THEN [off EXCEPT ![o.id] = @ + n] ELSE off

Reads(s, op) ==
  /\ Op(s, op) /\ CanRead(proc[s].ofile[Fd(s, Arg(s, 2))])
  /\ UNCHANGED <<session, file, console, nofork>>

\* cat: all there is, and writes of it.
CatStep(s) ==
  /\ Reads(s, "cat")
  /\ LET o == proc[s].ofile[Fd(s, Arg(s, 2))]
         buf == Content(o)
     IN  /\ Take(o, Len(buf))
         /\ Continue(s, IF buf = <<>> THEN Rest(s)
                        ELSE [k \in DOMAIN buf |-> write(stdout, buf[k], "exit")] \o proc[s].code)

\* primes: the first number of a pipe, and one round of the loop that filters the rest.
\* The first read always finds a number: prime would be uninitialized otherwise.
TraversalStep(s) ==
  /\ Op(s, "traversal")
  /\ LET o == proc[s].ofile[proc[s].p[1]]
         x == Head(queue[o.id])
     IN  /\ queue[o.id] # <<>>
         /\ Take(o, 1)
         /\ Continue(s, IF x = Stop THEN <<exit>> ELSE Traversal(x))
  /\ UNCHANGED <<session, file, console, nofork>>

SieveStep(s) ==
  /\ Op(s, "sieve")
  /\ LET o == proc[s].ofile[proc[s].p[1]]
         x == Head(queue[o.id])
     IN  /\ CanRead(o)
         /\ Take(o, IF queue[o.id] = <<>> THEN 0 ELSE 1)
         /\ Continue(s, IF queue[o.id] = <<>> \/ x = Stop THEN Rest(s)
                        ELSE IF x % Arg(s, 2) = 0 THEN proc[s].code
                        ELSE <<write(<<"q", 2>>, x, "go on")>> \o proc[s].code)
  /\ UNCHANGED <<session, file, console, nofork>>

MovePout(s) ==
  /\ Op(s, "p = pout")
  /\ Set(s, [code |-> Rest(s), p |-> proc[s].q])
  /\ UNCHANGED <<session, queue, file, off, console, nofork>>

\* pingpong: one byte, or the end.
Receive(s) ==
  /\ Reads(s, "receive")
  /\ LET o == proc[s].ofile[Fd(s, Arg(s, 2))]
     IN  IF Content(o) = <<>>
         THEN Continue(s, <<printf("read error"), exit>>) /\ UNCHANGED <<queue, off>>
         ELSE Take(o, 1) /\ Continue(s, <<printf(Arg(s, 3))>> \o Rest(s))

\* xargs: the next item of its input.  The last word of an unfinished line is not kept.
XargsStep(s) ==
  /\ Op(s, "xargs") /\ CanRead(proc[s].ofile[0])
  /\ LET o == proc[s].ofile[0]
         argv == Arg(s, 2)
         words == Arg(s, 3)
         last == Arg(s, 4)
         x == Head(Content(o))
     IN  IF Content(o) = <<>>
         THEN /\ Continue(s, (IF words = <<>> THEN <<>> ELSE <<RunLine(argv, words)>>) \o Rest(s))
              /\ UNCHANGED <<queue, off>>
         ELSE /\ Take(o, 1)
              /\ Continue(s, (CASE x = " " -> <<Xargs(argv, Append(words, last), "")>>
                                [] x = "\n" -> <<RunLine(argv, Append(words, last)), Xargs(argv, <<>>, "")>>
                                [] OTHER -> <<Xargs(argv, words, last \o x)>>) \o Rest(s))
  /\ UNCHANGED <<session, file, console, nofork>>

NoSlot == \A c \in Slots : proc[c].state # "unused"
Slot == CHOOSE c \in Slots : proc[c].state = "unused" /\ \A d \in 1 .. c - 1 : proc[d].state # "unused"
Child(s, code) == [proc[s] EXCEPT !.parent = s, !.code = code]

Fork(s) ==
  /\ Op(s, "fork")
  /\ IF NoSlot
     THEN /\ nofork' = TRUE
          /\ Continue(s, IF Arg(s, 3) = "exit" THEN <<exit>> ELSE Rest(s))
     ELSE /\ proc' = [proc EXCEPT ![s].code = Rest(s), ![Slot] = Child(s, Arg(s, 2))]
          /\ UNCHANGED nofork
  /\ UNCHANGED <<session, queue, file, off, console>>

Children(s) == {c \in Slots : proc[c].state # "unused" /\ proc[c].parent = s}

Wait(s) ==
  /\ Op(s, "wait") \/ Op(s, "wait all")
  /\ \/ \E c \in Children(s) :
          /\ proc[c].state = "zombie"
          /\ proc' = [proc EXCEPT ![c] = Unused,
                                  ![s].code = IF Op(s, "wait") THEN Rest(s) ELSE @]
     \/ Children(s) = {} /\ Continue(s, Rest(s))
  /\ UNCHANGED <<session, queue, file, off, console, nofork>>

\* exit: the descriptors, the wakeup of init, and a look at the parent.
Awake(P) == [P EXCEPT ![1].state = IF @ = "sleep" THEN "run" ELSE @]

Exit(s) ==
  /\ Op(s, "exit")
  /\ proc' = Awake([proc EXCEPT ![s] = [Unused EXCEPT !.state = "run", !.parent = proc[s].parent,
                                          !.orig = proc[s].parent, !.code = <<<<"reparent">>>>]])
  /\ UNCHANGED <<session, queue, file, off, console, nofork>>

\* Then its children go to init, and it wakes up the parent that it saw.
Reparent(s) ==
  /\ Op(s, "reparent")
  /\ LET P == [c \in Slots |->
                 IF c = s THEN [proc[s] EXCEPT !.state = "zombie", !.code = <<>>]
                 ELSE IF c \in Children(s) THEN [proc[c] EXCEPT !.parent = 1]
                 ELSE proc[c]]
     IN  proc' = IF proc[s].orig = 1 THEN Awake(P) ELSE P
  /\ UNCHANGED <<session, queue, file, off, console, nofork>>

\* The programs are in the root directory, and their names have no slash.
Exec(s) ==
  /\ Op(s, "exec")
  /\ LET code == IF proc[s].cwd = Root THEN Program(Arg(s, 2)) ELSE <<>>
     IN  Continue(s, IF code = <<>> THEN Rest(s) ELSE code)
  /\ UNCHANGED <<session, queue, file, off, console, nofork>>

(***************************************************************************)
(* Steps of the shell that are no system calls, and those of its main.     *)
(***************************************************************************)
Runcmd(s) ==
  /\ Op(s, "runcmd")
  /\ Continue(s, runcmd(Arg(s, 2)))
  /\ UNCHANGED <<session, queue, file, off, console, nofork>>

Parsecmd(s) ==
  /\ Op(s, "parsecmd")
  /\ LET r == Arg(s, 2).parsed IN Continue(s, IF r.ok THEN runcmd(r.cmd) ELSE <<exit>>)
  /\ UNCHANGED <<session, queue, file, off, console, nofork>>

OpenConsole(s) ==
  /\ Op(s, "console")
  /\ LET d == Lowest(proc[s].ofile)
     IN  IF d >= 3 THEN Continue(s, Rest(s))
         ELSE Set(s, [ofile |-> [proc[s].ofile EXCEPT ![d] = Console]])
  /\ UNCHANGED <<session, queue, file, off, console, nofork>>

\* The rest of the line is the path; the only directory besides the root is in the root.
IsCd(line) == Len(line) > 1 /\ line[1] = "cd"
chdir(cwd, line) == IF line[2] = Root \/ (line[2] \in Dirs /\ cwd = Root) THEN line[2] ELSE cwd

Getcmd(s) ==
  /\ Op(s, "getcmd") /\ session # <<>>
  /\ session' = Tail(session)
  /\ IF IsCd(Head(session).text)
     THEN Set(s, [cwd |-> chdir(proc[s].cwd, Head(session).text)])
     ELSE Continue(s, <<fork1(<<<<"parsecmd", Head(session)>>>>), wait>> \o proc[s].code)
  /\ UNCHANGED <<queue, file, off, console, nofork>>

(***************************************************************************)
(* The loops of init's main.                                               *)
(***************************************************************************)
StartShell(s) ==
  /\ Op(s, "start")
  /\ IF NoSlot THEN Continue(s, <<exit>>) /\ nofork' = TRUE
     ELSE /\ proc' = [proc EXCEPT ![s].code = <<<<"reap", Slot>>>>, ![Slot] = Child(s, main)]
          /\ UNCHANGED nofork
  /\ UNCHANGED <<session, queue, file, off, console>>

\* wait: a zombie, or sleep until somebody's exit.
Zombies(s) == {c \in Children(s) : proc[c].state = "zombie"}

Reap(s) ==
  /\ Op(s, "reap")
  /\ \/ \E c \in Zombies(s) :
          proc' = [proc EXCEPT ![c] = Unused,
                               ![s].code = IF c = Arg(s, 2) THEN <<<<"start">>>> ELSE @]
     \/ Zombies(s) = {} /\ Set(s, [state |-> "sleep"])
  /\ UNCHANGED <<session, queue, file, off, console, nofork>>

\* exit panics when init calls it.
InitExits == Op(1, "exit")

\* A zombie that came to init after the wakeup, which waits for the next one.
Late(c) == proc[c].state = "zombie" /\ proc[c].parent = 1 /\ proc[c].orig # 1

\* The shell waits for a line that does not come, and no other program is left.
Finished ==
  /\ session = <<>>
  /\ \E s \in Slots : /\ Op(s, "getcmd")
                      /\ \A c \in Slots \ {1, s} : proc[c].state \in {"unused", "other"} \/ Late(c)

Step(s) ==
  \/ Close(s) \/ Dup(s) \/ Pipe(s) \/ Open(s) \/ Write(s) \/ CatStep(s) \/ TraversalStep(s)
  \/ SieveStep(s) \/ MovePout(s) \/ Receive(s) \/ XargsStep(s) \/ Fork(s) \/ Wait(s) \/ Exit(s) \/ Reparent(s)
  \/ Exec(s) \/ Runcmd(s) \/ Parsecmd(s) \/ OpenConsole(s) \/ Getcmd(s)
  \/ StartShell(s) \/ Reap(s)

SNext == \E s \in Slots : ~InitExits /\ Step(s) /\ UNCHANGED typed

SSpec == SInit /\ [][SNext]_svars /\ WF_svars(SNext)

-----------------------------------------------------------------------------
(***************************************************************************)
(* What a command means: the items that it writes to its output, what it   *)
(* leaves of its input, and the files that it changes.                     *)
(***************************************************************************)
Result(out, in, files) == [out |-> out, in |-> in, files |-> files]

RECURSIVE Words(_)
Words(args) == IF args = <<>> THEN <<>>
               ELSE <<args[1], IF Len(args) > 1 THEN " " ELSE "\n">> \o Words(Tail(args))
RECURSIVE Contents(_, _)
Contents(names, files) == IF names = <<>> \/ names[1] \notin DOMAIN files THEN <<>>
                          ELSE files[names[1]] \o Contents(Tail(names), files)
Primes == {n \in 2 .. MaxPrime : \A d \in 2 .. n - 1 : n % d # 0}

\* The words of in up to its k-th item, in which every second item is a separator.
LineEnds(in) == SelectSeq([k \in DOMAIN in |-> k], LAMBDA k : in[k] = "\n")
WordsOf(in, k, l) == [n \in 1 .. (l - k) \div 2 |-> in[k + 2 * n - 1]]

RECURSIVE ExecOut(_, _, _, _)
ExecOut(argv, in, files, dir) ==
  CASE argv = <<>> \/ dir # Root -> <<>>
    [] argv[1] = "echo" -> Words(Tail(argv))
    [] argv[1] = "cat" -> IF Len(argv) = 1 THEN in
                          ELSE Contents([n \in 1 .. Len(argv) - 1 |-> <<dir, argv[n + 1]>>], files)
    [] argv[1] = "primes" -> LET ns == SetToSortSeq(Primes, <) IN [n \in DOMAIN ns |-> ToString(ns[n])]
    [] argv[1] = "pingpong" -> <<"ping", "pong">>
    [] argv[1] = "xargs" ->
         LET ends == LineEnds(in)
         IN  FlattenSeq([n \in DOMAIN ends |->
               ExecOut(Tail(argv) \o WordsOf(in, IF n = 1 THEN 0 ELSE ends[n - 1], ends[n]),
                       <<>>, files, dir)])
    [] OTHER -> <<>>
ReadsAll(argv) == argv = <<"cat">> \/ (argv # <<>> /\ argv[1] = "xargs")

\* out written over old from its start.
Over(old, out) == out \o SubSeq(old, Len(out) + 1, Len(old))
Old(files, name) == IF name \in DOMAIN files THEN files[name] ELSE <<>>

RECURSIVE Meaning(_, _, _, _)
Meaning(cmd, in, files, dir) ==
  CASE cmd.type = "EXEC" ->
         Result(ExecOut(cmd.argv, in, files, dir),
                IF dir = Root /\ ReadsAll(cmd.argv) THEN <<>> ELSE in, files)
    [] cmd.type = "REDIR" /\ cmd.mode = "<" ->
         IF <<dir, cmd.file>> \notin DOMAIN files THEN Result(<<>>, in, files)
         ELSE [Meaning(cmd.cmd, files[<<dir, cmd.file>>], files, dir) EXCEPT !.in = in]
    [] cmd.type = "REDIR" /\ cmd.mode # "<" ->
         LET name == <<dir, cmd.file>>
             old == IF cmd.mode = ">" THEN <<>> ELSE Old(files, name)
             r == Meaning(cmd.cmd, in, (name :> old) @@ files, dir)
         IN  Result(<<>>, r.in, (name :> Over(old, r.out)) @@ r.files)
    [] cmd.type = "LIST" ->
         LET l == Meaning(cmd.left, in, files, dir)
             r == Meaning(cmd.right, l.in, l.files, dir)
         IN  [r EXCEPT !.out = l.out \o @]
    [] cmd.type = "PIPE" ->
         LET l == Meaning(cmd.left, in, files, dir)
             r == Meaning(cmd.right, l.out, l.files, dir)
         IN  [r EXCEPT !.in = l.in]
    [] cmd.type = "BACK" -> Meaning(cmd.cmd, in, files, dir)

\* The same for the lines of a session, from directory dir.
RECURSIVE SessionMeaning(_, _, _)
SessionMeaning(lines, files, dir) ==
  IF lines = <<>> THEN Result(<<>>, <<>>, files)
  ELSE LET line == Head(lines)
           p == parsecmd(line)
           l == IF p.ok /\ ~IsCd(line) THEN Meaning(p.cmd, <<>>, files, dir) ELSE Result(<<>>, <<>>, files)
           r == SessionMeaning(Tail(lines), l.files, IF IsCd(line) THEN chdir(dir, line) ELSE dir)
       IN  [r EXCEPT !.out = l.out \o @]

\* Commands in the background, and those that xargs starts, write in any order.
Unordered == \E n \in DOMAIN typed : \E k \in DOMAIN typed[n] : typed[n][k] \in {"&", "xargs"}
Count(s) == [x \in Range(s) |-> Cardinality({k \in DOMAIN s : s[k] = x})]

\* sh.c:57-131, echo.c, cat.c, primes.c, pingpong.c, xargs.c: however the processes of a
\* session interleave, once it is over the console and the files hold what its commands
\* mean, unless a fork failed.  Every pipe end is where it belongs, no item is lost, and
\* the commands of a list run in order.
OutputIsMeaning ==
  Finished /\ ~nofork =>
    LET r == SessionMeaning(typed, <<>>, Root)
    IN  /\ file = r.files
        /\ IF Unordered THEN Count(console) = Count(r.out) ELSE console = r.out

\* sh.c:57-131, 144-172, init.c: every session ends, with the shell back at its prompt and
\* no other process running: no reader waits for the end of a pipe that somebody forgot to
\* close, no parent waits for a child that is not there, and a failing fork hangs nobody.
\* What a session leaves in the process table is at most a zombie that exit() gave to init
\* after it had woken init (proc.c:360, 380); it keeps its slot until the next exit().
\* Only init may give up, when others have taken the slot of the shell that it restarts.
CommandsEnd == <>[](Finished \/ InitExits)
=============================================================================
