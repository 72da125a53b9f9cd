-------------------------------- MODULE Uart ---------------------------------
(***************************************************************************)
(* kernel/uart.c: the transmit ring, the handler that drains it and takes  *)
(* typed characters in, and the synchronous path as the echo uses it; and  *)
(* consolewrite() of kernel/console.c, which feeds the ring.  printf() is  *)
(* not modelled: it takes neither lock, and may write over anybody's byte. *)
(* Console.tla adds console input and the next-state relation of both.     *)
(*                                                                         *)
(* uartstart() and uartputc_sync() look at the line status and write the   *)
(* holding register in two steps: the device and other CPUs run in between.*)
(***************************************************************************)
EXTENDS Integers, Sequences, FiniteSets

CONSTANTS
  Writers,     \* processes in write() on the console
  Bytes, None,
  UART_TX_BUF_SIZE,
  MaxN,        \* largest count given to consolewrite()
  MaxTyped, MaxWrites   \* bounds on the keys typed and the writes

Handler == "intr"   \* uartintr(); the PLIC gives the interrupt to one CPU at a time
Actors == Writers \cup {Handler}

ASSUME UartAssumption ==
  /\ UART_TX_BUF_SIZE \in Nat /\ UART_TX_BUF_SIZE >= 2 /\ MaxN \in Nat
  /\ MaxTyped \in Nat /\ MaxWrites \in Nat
  /\ None \notin Actors \cup Bytes /\ Handler \notin Writers

VARIABLES
  txbuf, txw, txr,     \* uart_tx_buf, uart_tx_w, uart_tx_r
  txlock, lock,        \* holders of uart_tx_lock and cons.lock
  thr, rhr, irq,       \* the device: is the transmit register full, the received
                       \* character, the interrupt
  overrun,             \* a byte was written over another
  pc, ch, left,        \* actors: place, byte in hand, bytes left to write
  typed, writes, panicked

ringvars == <<txbuf, txw, txr>>
counts == <<typed, writes>>
uartvars == <<ringvars, txlock, lock, thr, rhr, irq, overrun, pc, ch, left, counts, panicked>>

Slots == 0 .. UART_TX_BUF_SIZE - 1

\* The transmit ring, the device and the callers of uart.c keep their types.
UartTypeOK ==
  /\ txbuf \in [Slots -> Bytes] /\ txw \in Slots /\ txr \in Slots
  /\ txlock \in Actors \cup {None}
  /\ thr \in BOOLEAN /\ irq \in BOOLEAN /\ overrun \in BOOLEAN
  /\ pc \in [Actors -> {"idle", "next", "putc", "start", "put", "wait", "sync", "rx", "edit"}]
  /\ ch \in [Writers -> Bytes \cup {None}]
  /\ left \in [Writers -> 0 .. MaxN]
  /\ typed \in 0 .. MaxTyped /\ writes \in 0 .. MaxWrites
  /\ panicked \in BOOLEAN

\* After uartinit(), uart.c:52-78.
UartInit ==
  /\ \E b \in Bytes : txbuf = [k \in Slots |-> b]
  /\ txw = 0 /\ txr = 0
  /\ txlock = None /\ lock = None
  /\ thr = FALSE /\ rhr = None /\ irq = FALSE /\ overrun = FALSE
  /\ pc = [a \in Actors |-> "idle"]
  /\ ch = [p \in Writers |-> None] /\ left = [p \in Writers |-> 0]
  /\ typed = 0 /\ writes = 0
  /\ panicked = FALSE

At(a, l) == ~panicked /\ pc[a] = l
Goto(a, l) == pc' = [pc EXCEPT ![a] = l]

NextSlot(k) == (k + 1) % UART_TX_BUF_SIZE

NeverFull == FALSE
Full == NextSlot(txw) = txr
Empty == txw = txr
-----------------------------------------------------------------------------
(***************************************************************************)
(* consolewrite(), console.c:55-73.                                        *)
(***************************************************************************)
consolewrite(p, k) ==
  /\ At(p, "idle") /\ lock = None /\ writes < MaxWrites
  /\ lock' = p
  /\ left' = [left EXCEPT ![p] = k]
  /\ writes' = writes + 1
  /\ Goto(p, "next")
  /\ UNCHANGED <<ringvars, txlock, thr, rhr, irq, overrun, ch, typed, panicked>>

\* The next byte and acquire(&uart_tx_lock), or the end of the loop (also when
\* either_copyin() fails).
consolewrite_next(p) ==
  /\ At(p, "next")
  /\ \/ /\ left[p] > 0 /\ txlock = None
        /\ txlock' = p
        /\ \E b \in Bytes : ch' = [ch EXCEPT ![p] = b]
        /\ Goto(p, "putc")
        /\ UNCHANGED <<lock, left>>
     \/ /\ lock' = None
        /\ left' = [left EXCEPT ![p] = 0]
        /\ Goto(p, "idle")
        /\ UNCHANGED <<txlock, ch>>
  /\ UNCHANGED <<ringvars, thr, rhr, irq, overrun, counts, panicked>>

\* uartputc(), uart.c:80-109.  sleep() releases uart_tx_lock, but consolewrite()
\* still holds cons.lock: noff is 2 in sched(), which panics (proc.c:508).
uartputc(p) ==
  /\ At(p, "putc")
  /\ IF Full
     THEN /\ panicked' = TRUE
          /\ UNCHANGED <<txbuf, txw, pc, ch, left>>
     ELSE /\ txbuf' = [txbuf EXCEPT ![txw] = ch[p]]
          /\ txw' = NextSlot(txw)
          /\ ch' = [ch EXCEPT ![p] = None]
          /\ left' = [left EXCEPT ![p] = @ - 1]
          /\ Goto(p, "start")
          /\ UNCHANGED panicked
  /\ UNCHANGED <<txr, txlock, lock, thr, rhr, irq, overrun, counts>>

(***************************************************************************)
(* uartstart(), uart.c:133-161, for a writer or the handler.               *)
(***************************************************************************)
HoldingEmpty == ~thr

uartstart(a) ==
  /\ At(a, "start")
  /\ \/ /\ ~Empty /\ HoldingEmpty
        /\ txr' = NextSlot(txr)
        /\ Goto(a, "put")
        /\ UNCHANGED txlock
     \/ /\ Empty \/ ~HoldingEmpty      \* return, and release(&uart_tx_lock)
        /\ txlock' = None
        /\ Goto(a, IF a = Handler THEN "idle" ELSE "next")
        /\ UNCHANGED txr
  /\ UNCHANGED <<txbuf, txw, lock, thr, rhr, irq, overrun, ch, left, counts, panicked>>

\* WriteReg(THR, c).
WriteTHR ==
  /\ thr' = TRUE
  /\ overrun' = (overrun \/ thr)

uartstart_put(a) ==
  /\ At(a, "put")
  /\ WriteTHR
  /\ Goto(a, "start")
  /\ UNCHANGED <<ringvars, txlock, lock, rhr, irq, ch, left, counts, panicked>>

(***************************************************************************)
(* uartputc_sync(), uart.c:111-131, by the handler for the echo: poll the  *)
(* line status, then write.                                                *)
(***************************************************************************)
sync_poll ==
  /\ At(Handler, "wait") /\ HoldingEmpty
  /\ Goto(Handler, "sync")
  /\ UNCHANGED <<ringvars, txlock, lock, thr, rhr, irq, overrun, ch, left, counts, panicked>>

sync_put ==
  /\ At(Handler, "sync")
  /\ WriteTHR
  /\ Goto(Handler, "edit")
  /\ UNCHANGED <<ringvars, txlock, lock, rhr, irq, ch, left, counts, panicked>>

(***************************************************************************)
(* uartintr(), uart.c:176-194: characters first, then the ring.            *)
(***************************************************************************)
uartintr ==
  /\ At(Handler, "idle") /\ irq
  /\ irq' = FALSE
  /\ Goto(Handler, "rx")
  /\ UNCHANGED <<ringvars, txlock, lock, thr, rhr, overrun, ch, left, counts, panicked>>

uartintr_send ==
  /\ At(Handler, "rx") /\ rhr = None /\ txlock = None
  /\ txlock' = Handler
  /\ Goto(Handler, "start")
  /\ UNCHANGED <<ringvars, lock, thr, rhr, irq, overrun, ch, left, counts, panicked>>

\* The device sends the byte and interrupts: ready for the next one.
NoInterrupt == irq
Interrupt == TRUE   \* IER_TX_ENABLE, uart.c:75

transmit ==
  /\ thr
  /\ thr' = FALSE
  /\ irq' = Interrupt
  /\ UNCHANGED <<ringvars, txlock, lock, rhr, overrun, pc, ch, left, counts, panicked>>

\* Somebody types: the device holds the character and interrupts.
receive(c) ==
  /\ rhr = None /\ typed < MaxTyped
  /\ typed' = typed + 1
  /\ rhr' = c
  /\ irq' = TRUE
  /\ UNCHANGED <<ringvars, txlock, lock, thr, overrun, pc, ch, left, writes, panicked>>

WriterStep(p) ==
  consolewrite_next(p) \/ uartputc(p) \/ uartstart(p) \/ uartstart_put(p)
HandlerStep ==
  \/ uartintr \/ uartintr_send \/ uartstart(Handler) \/ uartstart_put(Handler)
  \/ sync_poll \/ sync_put

UartNext ==
  \/ \E p \in Writers : WriterStep(p) \/ \E k \in 1 .. MaxN : consolewrite(p, k)
  \/ HandlerStep
  \/ transmit

-----------------------------------------------------------------------------
\* The bytes waiting in the ring, oldest first.
Contents ==
  [k \in 1 .. (txw - txr) % UART_TX_BUF_SIZE |-> txbuf[(txr + k - 1) % UART_TX_BUF_SIZE]]

F == INSTANCE Fifo WITH Capacity <- UART_TX_BUF_SIZE - 1, q <- Contents
\* The transmit ring is a queue of UART_TX_BUF_SIZE - 1 bytes: every step of
\* uartputc() and uartstart(), whoever runs it, puts one byte, takes one byte, or
\* leaves the queue alone.
IsFifo == F!Spec
=============================================================================
