------------------------------- MODULE Console -------------------------------
(***************************************************************************)
(* The console: input by kernel/console.c, composed with the output side   *)
(* and the device of Uart.tla, with which it shares cons.lock, the handler *)
(* and the holding register (for the echo).  The handler edits and stores  *)
(* typed characters in a ring with three indices; consoleread() takes      *)
(* finished lines out, one step per character.                             *)
(***************************************************************************)
EXTENDS Uart

CONSTANTS
  Readers, Chars,
  Keys,        \* what is typed
  MaxRead,     \* largest count given to consoleread()
  INPUT_BUF,
  CtrMod,      \* 2^32 in the code: r, w and e are uint
  Before       \* empty lines typed and read before what is modelled

ASSUME ConsoleAssumption ==
  /\ INPUT_BUF \in Nat \ {0} /\ MaxRead \in Nat /\ Before \in Nat
  /\ CtrMod \in Nat /\ CtrMod % INPUT_BUF = 0 /\ CtrMod > INPUT_BUF
  /\ None \notin Readers \cup Keys
  /\ Readers \cap Actors = {}     \* a process is in one call at a time
  /\ Keys \subseteq Chars \cup {"nl", "eof", "cr", "nul", "bs", "kill", "dump"}

\* \n and C('D') are stored; \r, C('H') or \x7f, and C('U') are not; 0 does nothing, and
\* C('P') prints the process table with printf().
NotInput == {"nul", "dump"}
Stored == Chars \cup {"nl", "eof"}

VARIABLES
  buf, r, w, e,               \* struct cons, with lock
  rpc, n, got, killed,        \* readers in consoleread(): n left, n < target
  key                         \* the handler's c, in consoleintr()

consvars == <<buf, r, w, e>>
readvars == <<rpc, n, got, killed>>
vars == <<uartvars, consvars, readvars, key>>

Index == 0 .. CtrMod - 1

\* struct cons and the locals of consoleread() keep their types; what is stored is
\* never one of the editing characters consoleintr() consumes itself.
TypeOK ==
  /\ UartTypeOK
  /\ lock \in Actors \cup Readers \cup {None} /\ rhr \in Keys \cup {None}
  /\ buf \in [0 .. INPUT_BUF - 1 -> Stored]
  /\ r \in Index /\ w \in Index /\ e \in Index
  /\ rpc \in [Readers -> {"idle", "acquire", "test", "sleep", "asleep", "take"}]
  /\ n \in [Readers -> 0 .. MaxRead]
  /\ got \in [Readers -> BOOLEAN] /\ killed \in [Readers -> BOOLEAN]
  /\ key \in Keys \cup {None}

\* After consoleinit(), console.c:183-194, and Before empty lines.
Init ==
  /\ UartInit
  /\ buf = [k \in 0 .. INPUT_BUF - 1 |-> "nl"]
  /\ r = Before % CtrMod /\ w = r /\ e = r
  /\ rpc = [p \in Readers |-> "idle"]
  /\ n = [p \in Readers |-> 0]
  /\ got = [p \in Readers |-> FALSE] /\ killed = [p \in Readers |-> FALSE]
  /\ key = None

Plus(k, d) == (k + d) % CtrMod
Slot(k) == k % INPUT_BUF
RGoto(p, l) == rpc' = [rpc EXCEPT ![p] = l]

-----------------------------------------------------------------------------
(***************************************************************************)
(* consoleintr(), console.c:131-181, in the handler: acquire(&cons.lock),  *)
(* the echo (one uartputc_sync() stands for all the bytes of it), then the *)
(* change of struct cons, which nobody sees before the release().          *)
(***************************************************************************)
Woken == [p \in Readers |-> IF rpc[p] = "asleep" THEN "acquire" ELSE rpc[p]]

\* C('U'): back to w, or to the newline before e.
Killed ==
  LET back == CHOOSE d \in 0 .. (e - w) % CtrMod :
                /\ \A k \in 1 .. d : buf[Slot(Plus(e, -k))] # "nl"
                /\ Plus(e, -d) = w \/ buf[Slot(Plus(e, -d - 1))] = "nl"
  IN  Plus(e, -back)

ErasesAny == e # r
CanErase == e # w

Room == (e - r) % CtrMod < INPUT_BUF

Echoes(c) ==
  CASE c = "kill" -> Killed # e
    [] c = "bs" -> CanErase
    [] OTHER -> c \notin NotInput /\ Room

ConsFree == lock = None

consoleintr(c) ==
  /\ At(Handler, "rx") /\ rhr = c /\ ConsFree
  /\ lock' = Handler
  /\ rhr' = None
  /\ key' = c
  /\ Goto(Handler, IF Echoes(c) THEN "wait" ELSE "edit")
  /\ UNCHANGED <<ringvars, txlock, thr, irq, overrun, ch, left, counts, panicked, consvars,
                 readvars>>

LineOnly(c) == c \in {"nl", "eof"}
Commits(c) == c \in {"nl", "eof"} \/ Plus(e, 1) = Plus(r, INPUT_BUF)

store(typed_c) ==
  LET c == IF typed_c = "cr" THEN "nl" ELSE typed_c
  IN  IF typed_c \notin NotInput /\ Room
      THEN /\ buf' = [buf EXCEPT ![Slot(e)] = c]
           /\ e' = Plus(e, 1)
           /\ IF Commits(c) THEN w' = e' /\ rpc' = Woken ELSE UNCHANGED <<w, rpc>>
      ELSE UNCHANGED <<buf, e, w, rpc>>

consoleintr_edit ==
  /\ At(Handler, "edit")
  /\ \/ key = "kill" /\ e' = Killed /\ UNCHANGED <<buf, w, rpc>>
     \/ key = "bs" /\ e' = (IF CanErase THEN Plus(e, -1) ELSE e) /\ UNCHANGED <<buf, w, rpc>>
     \/ key \notin {"kill", "bs"} /\ store(key)
  /\ key' = None
  /\ lock' = None
  /\ Goto(Handler, "rx")
  /\ UNCHANGED <<ringvars, txlock, thr, rhr, irq, overrun, ch, left, counts, panicked, r, n,
                 got, killed>>

(***************************************************************************)
(* consoleread(), console.c:75-129.                                        *)
(***************************************************************************)
RAt(p, l) == ~panicked /\ rpc[p] = l
uartrest == <<ringvars, txlock, thr, rhr, irq, overrun, pc, ch, left, counts, panicked>>

consoleread(p, k) ==
  /\ RAt(p, "idle")
  /\ n' = [n EXCEPT ![p] = k]
  /\ RGoto(p, "acquire")
  /\ UNCHANGED <<uartrest, lock, consvars, got, killed, key>>

\* release(&cons.lock) and return.  A killed process exits; another one takes its
\* place as a reader.
return(p) ==
  /\ lock' = None
  /\ n' = [n EXCEPT ![p] = 0]
  /\ got' = [got EXCEPT ![p] = FALSE] /\ killed' = [killed EXCEPT ![p] = FALSE]
  /\ RGoto(p, "idle")

\* acquire(&cons.lock), at the start or after sleep(), and the loop conditions.
read_test(p) ==
  /\ (RAt(p, "acquire") /\ lock = None) \/ RAt(p, "test")
  /\ \/ /\ n[p] = 0 \/ (r = w /\ killed[p])     \* done, or return -1
        /\ return(p)
     \/ /\ n[p] > 0 /\ r = w /\ ~killed[p]
        /\ lock' = p
        /\ RGoto(p, "sleep")
        /\ UNCHANGED <<n, got, killed>>
     \/ /\ n[p] > 0 /\ r # w
        /\ lock' = p
        /\ RGoto(p, "take")
        /\ UNCHANGED <<n, got, killed>>
  /\ UNCHANGED <<uartrest, consvars, key>>

\* sleep(&cons.r, &cons.lock).
read_sleep(p) ==
  /\ RAt(p, "sleep")
  /\ lock' = None
  /\ RGoto(p, "asleep")
  /\ UNCHANGED <<uartrest, consvars, n, got, killed, key>>

read_take(p) ==
  /\ RAt(p, "take")
  /\ LET c == buf[Slot(r)]
     IN  \/ /\ c = "eof"       \* end of file; saved for the next read if this has bytes
            /\ r' = IF got[p] THEN r ELSE Plus(r, 1)
            /\ return(p)
         \/ /\ c # "eof"
            /\ r' = Plus(r, 1)
            /\ IF c = "nl" THEN return(p)
               ELSE /\ n' = [n EXCEPT ![p] = @ - 1] /\ got' = [got EXCEPT ![p] = TRUE]
                    /\ RGoto(p, "test")
                    /\ UNCHANGED <<lock, killed>>
         \/ /\ c # "eof"       \* either_copyout() fails: the character is gone
            /\ r' = Plus(r, 1)
            /\ return(p)
  /\ UNCHANGED <<uartrest, buf, w, e, key>>

\* kill(), proc.c:614-636.
kill(p) ==
  /\ ~panicked /\ rpc[p] # "idle" /\ ~killed[p]
  /\ killed' = [killed EXCEPT ![p] = TRUE]
  /\ rpc' = [rpc EXCEPT ![p] = IF @ = "asleep" THEN "acquire" ELSE @]
  /\ UNCHANGED <<uartrest, lock, consvars, n, got, key>>

ReadStep(p) == read_test(p) \/ read_sleep(p) \/ read_take(p)
InputStep == consoleintr_edit \/ \E c \in Keys : consoleintr(c)

Next ==
  \/ UartNext /\ UNCHANGED <<consvars, readvars, key>>
  \/ InputStep
  \/ \E c \in Keys : receive(c) /\ UNCHANGED <<consvars, readvars, key>>
  \/ \E p \in Readers : ReadStep(p) \/ kill(p) \/ \E k \in 0 .. MaxRead : consoleread(p, k)

Spec == Init /\ [][Next]_vars

-----------------------------------------------------------------------------
Span(from, to) == [k \in 1 .. (to - from) % CtrMod |-> buf[Slot(Plus(from, k - 1))]]

T == INSTANCE Tty WITH Ends <- {"nl", "eof"}, Capacity <- INPUT_BUF,
                       line <- Span(w, e), q <- Span(r, w)
\* The ring with its three wrapping indices is an editable line and a queue of
\* finished ones, and every step of consoleread() and consoleintr() is a step on
\* them: editing never reaches a finished line, a finished line is read once and
\* in order, a full buffer loses only what is typed on top.
IsTty == T!Spec

\* Whenever cons.lock is free, whoever sleeps in consoleread() has nothing to read,
\* and a full buffer is readable: it never holds INPUT_BUF characters of an
\* unfinished line, which nobody could read or extend.
NoLostInput ==
  /\ TypeOK
  /\ lock = None /\ (\E p \in Readers : rpc[p] = "asleep") => r = w
  /\ ~Room => r # w

\* uart.c:80-187, console.c:68: no byte and no character is forgotten.  A typed character
\* that waits has its interrupt pending or the handler on its way to uartgetc().  Bytes
\* wait in the transmit ring only while somebody is about to run uartstart(), or an
\* interrupt that will run it is pending or will follow the byte in the holding register:
\* when uartstart() gives up, the ring is not stuck.  No byte is written over another in
\* the holding register: cons.lock keeps the echo away from writers, uart_tx_lock keeps
\* the handler away from them.  And sched() panics only under consolewrite() with a full
\* ring, when the device is still taking bytes and a wait would have been short.
NothingForgotten ==
  LET toRx == pc[Handler] \in {"rx", "wait", "sync", "edit"}
  IN  /\ rhr # None => irq \/ toRx
      /\ ~Empty => \/ irq \/ toRx \/ thr
                   \/ \E a \in Actors : pc[a] \in {"start", "put"}
      /\ ~overrun
      /\ panicked => Full /\ lock \in Writers /\ txlock = lock
=============================================================================
