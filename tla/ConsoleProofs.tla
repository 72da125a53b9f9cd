---------------------------- MODULE ConsoleProofs ----------------------------
(***************************************************************************)
(* Proofs about Console and Uart for every number of readers and writers,  *)
(* every size of the two rings, and every multiple of INPUT_BUF at which   *)
(* the indices wrap.                                                       *)
(***************************************************************************)
EXTENDS Console, RingLemmas, TLAPS

(***************************************************************************)
(* The inductive invariant, in parts.                                      *)
(***************************************************************************)
\* cons.lock is held in consolewrite(), in consoleintr() and in the loop of consoleread(),
\* uart_tx_lock from uartputc(), or the handler's last step, to the end of uartstart().
LocksHeld ==
  /\ \A p \in Writers : /\ pc[p] \in {"idle", "next", "putc", "start", "put"}
                        /\ pc[p] # "idle" <=> lock = p
                        /\ pc[p] \in {"putc", "start", "put"} <=> txlock = p
                        /\ pc[p] = "putc" => ch[p] \in Bytes /\ left[p] > 0
  /\ pc[Handler] \in {"idle", "rx", "wait", "sync", "edit", "start", "put"}
  /\ pc[Handler] \in {"wait", "sync", "edit"} <=> lock = Handler
  /\ pc[Handler] \in {"wait", "sync", "edit"} <=> key # None
  /\ pc[Handler] \in {"start", "put"} <=> txlock = Handler
  /\ \A p \in Readers : rpc[p] \in {"test", "sleep", "take"} <=> lock = p

\* Who has seen the holding register empty and is about to write it still finds it empty.
RegisterFree ==
  (pc[Handler] = "sync" \/ \E a \in Actors : pc[a] = "put") => ~thr

\* consoleread() sleeps only while there is nothing to read, and takes only what there is.
ReadersRight ==
  \A p \in Readers : /\ rpc[p] \in {"sleep", "asleep"} => r = w
                     /\ rpc[p] = "take" => r # w /\ n[p] > 0

\* How far index a is ahead of b.
Ahead(a, b) == (a - b) % CtrMod

\* The finished and the unfinished characters fit the buffer, which is full only with finished
\* ones; a newline finishes its line.
InputFits ==
  /\ Ahead(w, r) + Ahead(e, w) <= INPUT_BUF
  /\ Ahead(w, r) + Ahead(e, w) = INPUT_BUF => e = w
  /\ \A k \in 1 .. Ahead(e, w) : Span(w, e)[k] # "nl"

ConsInv ==
  TypeOK /\ LocksHeld /\ RegisterFree /\ ReadersRight /\ InputFits /\ NothingForgotten

-----------------------------------------------------------------------------
\* The three kinds of actors are different, and None is neither of them nor a key or a byte.
LEMMA ActorFacts ==
  /\ \A x : x \in Actors <=> x \in Writers \/ x = Handler
  /\ Handler \notin Writers /\ Handler \notin Readers
  /\ \A x : ~(x \in Writers /\ x \in Readers)
  /\ None \notin Writers /\ None \notin Readers /\ None # Handler
  /\ None \notin Keys /\ None \notin Bytes
<1>1. \A x : x \in Actors <=> x \in Writers \/ x = Handler
  BY DEF Actors
<1> QED BY <1>1, UartAssumption, ConsoleAssumption

\* The sizes of the rings and of the indices.
LEMMA ConsSizes ==
  /\ INPUT_BUF \in Nat \ {0} /\ CtrMod \in Nat \ {0} /\ INPUT_BUF < CtrMod
  /\ CtrMod % INPUT_BUF = 0 /\ MaxRead \in Nat
  /\ UART_TX_BUF_SIZE \in Nat \ {0} /\ UART_TX_BUF_SIZE >= 2 /\ Slots = 0 .. UART_TX_BUF_SIZE - 1
  /\ MaxN \in Nat /\ MaxTyped \in Nat /\ MaxWrites \in Nat
BY UartAssumption, ConsoleAssumption DEF Slots

\* A step that leaves struct cons alone, and the places of readers, keeps what is said of them.
LEMMA InputFrame ==
  ASSUME UNCHANGED consvars
  PROVE  InputFits => InputFits'
BY Zenon DEF consvars, InputFits, Ahead, Span

LEMMA ReadFrame ==
  ASSUME UNCHANGED <<consvars, readvars>>
  PROVE  ReadersRight => ReadersRight'
BY DEF consvars, readvars, ReadersRight

\* The next place in the transmit ring.
LEMMA SlotTypes ==
  ASSUME NEW k \in Slots
  PROVE  NextSlot(k) \in Slots
BY ConsSizes DEF NextSlot

\* TypeOK in small parts: the transmit ring, the device, the actors of uart.c and their locals,
\* the counters, struct cons, the readers.
Places == {"idle", "next", "putc", "start", "put", "wait", "sync", "rx", "edit"}
RPlaces == {"idle", "acquire", "test", "sleep", "asleep", "take"}
RingT == txbuf \in [Slots -> Bytes] /\ txw \in Slots /\ txr \in Slots
TxLockT == txlock \in Actors \cup {None}
LockT == lock \in Actors \cup Readers \cup {None}
DeviceT == thr \in BOOLEAN /\ irq \in BOOLEAN /\ overrun \in BOOLEAN /\ rhr \in Keys \cup {None}
PlacesT == pc \in [Actors -> Places]
LocalsT == ch \in [Writers -> Bytes \cup {None}] /\ left \in [Writers -> 0 .. MaxN]
CountsT == typed \in 0 .. MaxTyped /\ writes \in 0 .. MaxWrites /\ panicked \in BOOLEAN
ConsT == buf \in [0 .. INPUT_BUF - 1 -> Stored] /\ r \in Index /\ w \in Index /\ e \in Index
KeyT == key \in Keys \cup {None}
RPlacesT == rpc \in [Readers -> RPlaces]
ReadersT ==
  /\ n \in [Readers -> 0 .. MaxRead]
  /\ got \in [Readers -> BOOLEAN] /\ killed \in [Readers -> BOOLEAN]
Typed == /\ RingT /\ TxLockT /\ LockT /\ DeviceT /\ PlacesT /\ LocalsT /\ CountsT
         /\ ConsT /\ KeyT /\ RPlacesT /\ ReadersT

LEMMA TypeParts == (TypeOK <=> Typed) /\ (TypeOK' <=> Typed')
BY DEF TypeOK, UartTypeOK, Typed, RingT, TxLockT, LockT, DeviceT, PlacesT, LocalsT, CountsT,
       ConsT, KeyT, RPlacesT, ReadersT, Places, RPlaces

\* What a step leaves alone keeps its type.
LEMMA TypeFrame ==
  ASSUME Typed
  PROVE  /\ UNCHANGED ringvars => RingT'
         /\ UNCHANGED <<thr, irq, overrun, rhr>> => DeviceT'
         /\ UNCHANGED <<ch, left>> => LocalsT'
         /\ UNCHANGED <<typed, writes, panicked>> => CountsT'
         /\ UNCHANGED consvars => ConsT'
         /\ UNCHANGED <<n, got, killed>> => ReadersT'
BY DEF Typed, ringvars, consvars, RingT, DeviceT, LocalsT, CountsT, ConsT, ReadersT

\* consolewrite() takes cons.lock.
LEMMA WriteStep ==
  ASSUME ConsInv, NEW p \in Writers, NEW k \in 1 .. MaxN, consolewrite(p, k), UNCHANGED <<consvars, readvars, key>>
  PROVE  ConsInv'
<1> USE ActorFacts DEF ConsInv, consolewrite, At, Goto
<1>1. TypeOK'
  <2>0. Typed
    BY TypeParts, Zenon
  <2>1. LockT'
    BY DEF LockT
  <2>2. PlacesT'
    BY <2>0 DEF Typed, PlacesT, Places
  <2>3. LocalsT'
    BY <2>0, ConsSizes DEF Typed, LocalsT
  <2>4. CountsT'
    BY <2>0, ConsSizes DEF Typed, CountsT
  <2>5. RingT' /\ TxLockT' /\ DeviceT' /\ ConsT' /\ KeyT' /\ RPlacesT' /\ ReadersT'
    BY <2>0, TypeFrame, Zenon DEF Typed, TxLockT, KeyT, RPlacesT, readvars, counts
  <2> QED BY <2>1, <2>2, <2>3, <2>4, <2>5, TypeParts, Zenon DEF Typed
<1>2. LocksHeld'
  BY DEF TypeOK, UartTypeOK, LocksHeld, readvars
<1>3. RegisterFree'
  BY DEF TypeOK, UartTypeOK, LocksHeld, RegisterFree
<1>4. NothingForgotten'
  BY DEF TypeOK, UartTypeOK, LocksHeld, RegisterFree, NothingForgotten, Empty, Full, ringvars
<1>5. ReadersRight' /\ InputFits'
  BY InputFrame, ReadFrame, Zenon
<1> QED BY <1>1, <1>2, <1>3, <1>4, <1>5

\* Its loop takes uart_tx_lock for the next byte, or ends.
LEMMA WriteNextStep ==
  ASSUME ConsInv, NEW p \in Writers, consolewrite_next(p), UNCHANGED <<consvars, readvars, key>>
  PROVE  ConsInv'
<1> USE ActorFacts DEF ConsInv, consolewrite_next, At, Goto
<1>1. TypeOK'
  <2>0. Typed
    BY TypeParts, Zenon
  <2>1. TxLockT'
    BY <2>0 DEF Typed, TxLockT
  <2>2. LockT'
    BY <2>0 DEF Typed, LockT
  <2>3. PlacesT'
    BY <2>0 DEF Typed, PlacesT, Places
  <2>4. LocalsT'
    BY <2>0, ConsSizes DEF Typed, LocalsT
  <2>5. RingT' /\ DeviceT' /\ CountsT' /\ ConsT' /\ KeyT' /\ RPlacesT' /\ ReadersT'
    BY <2>0, TypeFrame, Zenon DEF Typed, KeyT, RPlacesT, readvars, counts
  <2> QED BY <2>1, <2>2, <2>3, <2>4, <2>5, TypeParts, Zenon DEF Typed
<1>2. LocksHeld'
  BY DEF TypeOK, UartTypeOK, LocksHeld, readvars
<1>3. RegisterFree'
  BY DEF TypeOK, UartTypeOK, LocksHeld, RegisterFree
<1>4. NothingForgotten'
  BY DEF TypeOK, UartTypeOK, LocksHeld, RegisterFree, NothingForgotten, Empty, Full, ringvars
<1>5. ReadersRight' /\ InputFits'
  BY InputFrame, ReadFrame, Zenon
<1> QED BY <1>1, <1>2, <1>3, <1>4, <1>5

\* uartputc() puts the byte into the ring, or panics.
LEMMA PutcStep ==
  ASSUME ConsInv, NEW p \in Writers, uartputc(p), UNCHANGED <<consvars, readvars, key>>
  PROVE  ConsInv'
<1> USE ActorFacts DEF ConsInv, uartputc, At, Goto
<1>1. TypeOK'
  <2>0. Typed
    BY TypeParts, Zenon
  <2>1. RingT'
    BY <2>0, SlotTypes DEF Typed, RingT, LocksHeld
  <2>2. PlacesT'
    BY <2>0 DEF Typed, PlacesT, Places
  <2>3. LocalsT'
    <3>1. left[p] - 1 \in 0 .. MaxN
      BY <2>0, ConsSizes DEF Typed, LocalsT, LocksHeld
    <3>2. ch' \in [Writers -> Bytes \cup {None}]
      BY <2>0, Zenon DEF Typed, LocalsT
    <3>3. left' = left \/ left' = [left EXCEPT ![p] = left[p] - 1]
      OBVIOUS
    <3>4. left' \in [Writers -> 0 .. MaxN]
      BY ONLY <2>0, <3>1, <3>3 DEF Typed, LocalsT
    <3> QED BY <3>2, <3>4 DEF LocalsT
  <2>4. CountsT'
    BY <2>0, Zenon DEF Typed, CountsT, counts
  <2>5. TxLockT' /\ LockT' /\ DeviceT' /\ ConsT' /\ KeyT' /\ RPlacesT' /\ ReadersT'
    BY <2>0, TypeFrame, Zenon DEF Typed, TxLockT, LockT, KeyT, RPlacesT, readvars, counts
  <2> QED BY <2>1, <2>2, <2>3, <2>4, <2>5, TypeParts, Zenon DEF Typed
<1>2. LocksHeld'
  BY DEF TypeOK, UartTypeOK, LocksHeld, readvars
<1>3. RegisterFree'
  BY DEF TypeOK, UartTypeOK, LocksHeld, RegisterFree
<1>4. NothingForgotten'
  BY DEF TypeOK, UartTypeOK, LocksHeld, RegisterFree, NothingForgotten, Empty, Full, ringvars
<1>5. ReadersRight' /\ InputFits'
  BY InputFrame, ReadFrame, Zenon
<1> QED BY <1>1, <1>2, <1>3, <1>4, <1>5

\* uartstart() takes a byte, or gives up.
LEMMA StartStep ==
  ASSUME ConsInv, NEW a \in Actors, uartstart(a), UNCHANGED <<consvars, readvars, key>>
  PROVE  ConsInv'
<1> USE ActorFacts DEF ConsInv, uartstart, At, Goto, HoldingEmpty
<1>1. TypeOK'
  <2>0. Typed
    BY TypeParts, Zenon
  <2>1. RingT'
    BY <2>0, SlotTypes DEF Typed, RingT
  <2>2. TxLockT'
    BY <2>0 DEF Typed, TxLockT
  <2>3. PlacesT'
    BY <2>0 DEF Typed, PlacesT, Places
  <2>4. LockT' /\ DeviceT' /\ LocalsT' /\ CountsT' /\ ConsT' /\ KeyT' /\ RPlacesT' /\ ReadersT'
    BY <2>0, TypeFrame, Zenon DEF Typed, LockT, KeyT, RPlacesT, readvars, counts
  <2> QED BY <2>1, <2>2, <2>3, <2>4, TypeParts, Zenon DEF Typed
<1>2. LocksHeld'
  BY DEF TypeOK, UartTypeOK, LocksHeld, readvars
<1>3. RegisterFree'
  BY DEF TypeOK, UartTypeOK, LocksHeld, RegisterFree
<1>4. NothingForgotten'
  BY DEF TypeOK, UartTypeOK, LocksHeld, RegisterFree, NothingForgotten, Empty, Full, ringvars
<1>5. ReadersRight' /\ InputFits'
  BY InputFrame, ReadFrame, Zenon
<1> QED BY <1>1, <1>2, <1>3, <1>4, <1>5

\* It writes the holding register.
LEMMA PutStep ==
  ASSUME ConsInv, NEW a \in Actors, uartstart_put(a), UNCHANGED <<consvars, readvars, key>>
  PROVE  ConsInv'
<1> USE ActorFacts DEF ConsInv, uartstart_put, At, Goto, WriteTHR
<1>1. TypeOK'
  <2>0. Typed
    BY TypeParts, Zenon
  <2>1. DeviceT'
    BY <2>0, Zenon DEF Typed, DeviceT
  <2>2. PlacesT'
    BY <2>0 DEF Typed, PlacesT, Places
  <2>3. /\ RingT' /\ TxLockT' /\ LockT' /\ LocalsT'
        /\ CountsT' /\ ConsT' /\ KeyT' /\ RPlacesT' /\ ReadersT'
    BY <2>0, TypeFrame, Zenon DEF Typed, TxLockT, LockT, KeyT, RPlacesT, readvars, counts
  <2> QED BY <2>1, <2>2, <2>3, TypeParts, Zenon DEF Typed
<1>2. LocksHeld'
  BY DEF TypeOK, UartTypeOK, LocksHeld, readvars
<1>3. RegisterFree'
  BY DEF TypeOK, UartTypeOK, LocksHeld, RegisterFree
<1>4. NothingForgotten'
  BY DEF TypeOK, UartTypeOK, LocksHeld, RegisterFree, NothingForgotten, Empty, Full, ringvars
<1>5. ReadersRight' /\ InputFits'
  BY InputFrame, ReadFrame, Zenon
<1> QED BY <1>1, <1>2, <1>3, <1>4, <1>5

\* The echo waits for the holding register, and writes it.
LEMMA SyncStep ==
  ASSUME ConsInv, sync_poll \/ sync_put, UNCHANGED <<consvars, readvars, key>>
  PROVE  ConsInv'
<1> USE ActorFacts DEF ConsInv, sync_poll, sync_put, At, Goto, HoldingEmpty, WriteTHR
<1>1. TypeOK'
  <2>0. Typed
    BY TypeParts, Zenon
  <2>1. DeviceT'
    BY <2>0, Zenon DEF Typed, DeviceT
  <2>2. PlacesT'
    BY <2>0 DEF Typed, PlacesT, Places
  <2>3. /\ RingT' /\ TxLockT' /\ LockT' /\ LocalsT'
        /\ CountsT' /\ ConsT' /\ KeyT' /\ RPlacesT' /\ ReadersT'
    BY <2>0, TypeFrame, Zenon DEF Typed, TxLockT, LockT, KeyT, RPlacesT, readvars, counts
  <2> QED BY <2>1, <2>2, <2>3, TypeParts, Zenon DEF Typed
<1>2. LocksHeld'
  BY DEF TypeOK, UartTypeOK, LocksHeld, readvars
<1>3. RegisterFree'
  BY DEF TypeOK, UartTypeOK, LocksHeld, RegisterFree
<1>4. NothingForgotten'
  BY DEF TypeOK, UartTypeOK, LocksHeld, RegisterFree, NothingForgotten, Empty, Full, ringvars
<1>5. ReadersRight' /\ InputFits'
  BY InputFrame, ReadFrame, Zenon
<1> QED BY <1>1, <1>2, <1>3, <1>4, <1>5

\* uartintr() begins, and goes on to the ring.
LEMMA IntrStep ==
  ASSUME ConsInv, uartintr \/ uartintr_send, UNCHANGED <<consvars, readvars, key>>
  PROVE  ConsInv'
<1> USE ActorFacts DEF ConsInv, uartintr, uartintr_send, At, Goto
<1>1. TypeOK'
  <2>0. Typed
    BY TypeParts, Zenon
  <2>1. TxLockT'
    BY <2>0 DEF Typed, TxLockT
  <2>2. DeviceT'
    BY <2>0, Zenon DEF Typed, DeviceT
  <2>3. PlacesT'
    BY <2>0 DEF Typed, PlacesT, Places
  <2>4. RingT' /\ LockT' /\ LocalsT' /\ CountsT' /\ ConsT' /\ KeyT' /\ RPlacesT' /\ ReadersT'
    BY <2>0, TypeFrame, Zenon DEF Typed, LockT, KeyT, RPlacesT, readvars, counts
  <2> QED BY <2>1, <2>2, <2>3, <2>4, TypeParts, Zenon DEF Typed
<1>2. LocksHeld'
  BY DEF TypeOK, UartTypeOK, LocksHeld, readvars
<1>3. RegisterFree'
  BY DEF TypeOK, UartTypeOK, LocksHeld, RegisterFree
<1>4. NothingForgotten'
  BY DEF TypeOK, UartTypeOK, LocksHeld, RegisterFree, NothingForgotten, Empty, Full, ringvars
<1>5. ReadersRight' /\ InputFits'
  BY InputFrame, ReadFrame, Zenon
<1> QED BY <1>1, <1>2, <1>3, <1>4, <1>5

\* The device sends a byte, or receives one.
LEMMA DeviceStep ==
  ASSUME ConsInv, transmit \/ \E c \in Keys : receive(c), UNCHANGED <<consvars, readvars, key>>
  PROVE  ConsInv'
<1> USE ActorFacts DEF ConsInv, transmit, receive, Interrupt
<1>1. TypeOK'
  <2>0. Typed
    BY TypeParts, Zenon
  <2>1. DeviceT'
    BY <2>0, Zenon DEF Typed, DeviceT
  <2>2. CountsT'
    BY <2>0, ConsSizes DEF Typed, CountsT, counts
  <2>3. /\ RingT' /\ TxLockT' /\ LockT' /\ PlacesT'
        /\ LocalsT' /\ ConsT' /\ KeyT' /\ RPlacesT' /\ ReadersT'
    BY <2>0, TypeFrame, Zenon DEF Typed, TxLockT, LockT, PlacesT, KeyT, RPlacesT, readvars, counts
  <2> QED BY <2>1, <2>2, <2>3, TypeParts, Zenon DEF Typed
<1>2. LocksHeld'
  BY DEF TypeOK, UartTypeOK, LocksHeld, readvars
<1>3. RegisterFree'
  BY DEF TypeOK, UartTypeOK, LocksHeld, RegisterFree
<1>4. NothingForgotten'
  BY DEF TypeOK, UartTypeOK, LocksHeld, RegisterFree, NothingForgotten, Empty, Full, ringvars
<1>5. ReadersRight' /\ InputFits'
  BY InputFrame, ReadFrame, Zenon
<1> QED BY <1>1, <1>2, <1>3, <1>4, <1>5

\* consoleread() begins.
LEMMA ReadBeginsStep ==
  ASSUME ConsInv, NEW p \in Readers, NEW k \in 0 .. MaxRead, consoleread(p, k)
  PROVE  ConsInv'
<1> USE ActorFacts DEF ConsInv, consoleread, RAt, RGoto
<1>1. TypeOK'
  <2>0. Typed
    BY TypeParts, Zenon
  <2>1. RPlacesT'
    BY <2>0 DEF Typed, RPlacesT, RPlaces
  <2>2. ReadersT'
    BY <2>0 DEF Typed, ReadersT
  <2>3. /\ RingT' /\ TxLockT' /\ LockT' /\ DeviceT'
        /\ PlacesT' /\ LocalsT' /\ CountsT' /\ ConsT' /\ KeyT'
    BY <2>0, TypeFrame, Zenon DEF Typed, TxLockT, LockT, PlacesT, KeyT, uartrest, counts
  <2> QED BY <2>1, <2>2, <2>3, TypeParts, Zenon DEF Typed
<1>2. LocksHeld'
  BY DEF TypeOK, UartTypeOK, LocksHeld, uartrest
<1>3. RegisterFree'
  BY Zenon DEF RegisterFree, uartrest
<1>4. NothingForgotten'
  BY DEF TypeOK, UartTypeOK, LocksHeld, NothingForgotten, Empty, Full, uartrest, ringvars
<1>5. ReadersRight'
  BY DEF TypeOK, UartTypeOK, LocksHeld, ReadersRight, consvars
<1>6. InputFits'
  BY InputFrame
<1> QED BY <1>1, <1>2, <1>3, <1>4, <1>5, <1>6

\* It has its lock and looks.
LEMMA ReadTestStep ==
  ASSUME ConsInv, NEW p \in Readers, read_test(p)
  PROVE  ConsInv'
<1> USE ActorFacts DEF ConsInv, read_test, return, RAt, RGoto
<1>1. TypeOK'
  <2>0. Typed
    BY TypeParts, Zenon
  <2>1. LockT'
    BY <2>0 DEF Typed, LockT
  <2>2. RPlacesT'
    BY <2>0 DEF Typed, RPlacesT, RPlaces
  <2>3. ReadersT'
    <3>0. n' = n \/ n' = [n EXCEPT ![p] = 0]
      OBVIOUS
    <3>1. n' \in [Readers -> 0 .. MaxRead]
      BY ONLY <2>0, <3>0, ConsSizes DEF Typed, ReadersT
    <3>2. got' \in [Readers -> BOOLEAN] /\ killed' \in [Readers -> BOOLEAN]
      BY <2>0, Zenon DEF Typed, ReadersT
    <3> QED BY <3>1, <3>2 DEF ReadersT
  <2>4. RingT' /\ TxLockT' /\ DeviceT' /\ PlacesT' /\ LocalsT' /\ CountsT' /\ ConsT' /\ KeyT'
    BY <2>0, TypeFrame, Zenon DEF Typed, TxLockT, PlacesT, KeyT, uartrest, counts
  <2> QED BY <2>1, <2>2, <2>3, <2>4, TypeParts, Zenon DEF Typed
<1>2. LocksHeld'
  BY DEF TypeOK, UartTypeOK, LocksHeld, uartrest
<1>3. RegisterFree'
  BY Zenon DEF RegisterFree, uartrest
<1>4. NothingForgotten'
  BY DEF TypeOK, UartTypeOK, LocksHeld, NothingForgotten, Empty, Full, uartrest, ringvars
<1>5. ReadersRight'
  BY DEF TypeOK, UartTypeOK, LocksHeld, ReadersRight, consvars
<1>6. InputFits'
  BY InputFrame
<1> QED BY <1>1, <1>2, <1>3, <1>4, <1>5, <1>6

\* It goes to sleep.
LEMMA ReadSleepStep ==
  ASSUME ConsInv, NEW p \in Readers, read_sleep(p)
  PROVE  ConsInv'
<1> USE ActorFacts DEF ConsInv, read_sleep, RAt, RGoto
<1>1. TypeOK'
  <2>0. Typed
    BY TypeParts, Zenon
  <2>1. LockT'
    BY <2>0 DEF Typed, LockT
  <2>2. RPlacesT'
    BY <2>0 DEF Typed, RPlacesT, RPlaces
  <2>3. /\ RingT' /\ TxLockT' /\ DeviceT' /\ PlacesT'
        /\ LocalsT' /\ CountsT' /\ ConsT' /\ KeyT' /\ ReadersT'
    BY <2>0, TypeFrame, Zenon DEF Typed, TxLockT, PlacesT, KeyT, uartrest, counts
  <2> QED BY <2>1, <2>2, <2>3, TypeParts, Zenon DEF Typed
<1>2. LocksHeld'
  BY DEF TypeOK, UartTypeOK, LocksHeld, uartrest
<1>3. RegisterFree'
  BY Zenon DEF RegisterFree, uartrest
<1>4. NothingForgotten'
  BY DEF TypeOK, UartTypeOK, LocksHeld, NothingForgotten, Empty, Full, uartrest, ringvars
<1>5. ReadersRight'
  BY DEF TypeOK, UartTypeOK, LocksHeld, ReadersRight, consvars
<1>6. InputFits'
  BY InputFrame
<1> QED BY <1>1, <1>2, <1>3, <1>4, <1>5, <1>6

\* kill() wakes it.
LEMMA KillStep ==
  ASSUME ConsInv, NEW p \in Readers, kill(p)
  PROVE  ConsInv'
<1> USE ActorFacts DEF ConsInv, kill
<1>1. TypeOK'
  <2>0. Typed
    BY TypeParts, Zenon
  <2>1. RPlacesT'
    BY <2>0 DEF Typed, RPlacesT, RPlaces
  <2>2. ReadersT'
    BY <2>0 DEF Typed, ReadersT
  <2>3. /\ RingT' /\ TxLockT' /\ LockT' /\ DeviceT'
        /\ PlacesT' /\ LocalsT' /\ CountsT' /\ ConsT' /\ KeyT'
    BY <2>0, TypeFrame, Zenon DEF Typed, TxLockT, LockT, PlacesT, KeyT, uartrest, counts
  <2> QED BY <2>1, <2>2, <2>3, TypeParts, Zenon DEF Typed
<1>2. LocksHeld'
  BY DEF TypeOK, UartTypeOK, LocksHeld, uartrest
<1>3. RegisterFree'
  BY Zenon DEF RegisterFree, uartrest
<1>4. NothingForgotten'
  BY DEF TypeOK, UartTypeOK, LocksHeld, NothingForgotten, Empty, Full, uartrest, ringvars
<1>5. ReadersRight'
  BY DEF TypeOK, UartTypeOK, LocksHeld, ReadersRight, consvars
<1>6. InputFits'
  BY InputFrame
<1> QED BY <1>1, <1>2, <1>3, <1>4, <1>5, <1>6

\* consoleintr() takes cons.lock and the character.
LEMMA ConsoleintrStep ==
  ASSUME ConsInv, NEW c \in Keys, consoleintr(c)
  PROVE  ConsInv'
<1> DEFINE l == IF Echoes(c) THEN "wait" ELSE "edit"
<1>0. l \in {"wait", "edit"} /\ pc' = [pc EXCEPT ![Handler] = l]
  BY DEF consoleintr, Goto
<1> HIDE DEF l
<1> USE ActorFacts, <1>0 DEF ConsInv, consoleintr, At, ConsFree
<1>1. TypeOK'
  <2>0. Typed
    BY TypeParts, Zenon
  <2>1. PlacesT'
    BY <2>0 DEF Typed, PlacesT, Places
  <2>2. LockT' /\ KeyT' /\ DeviceT'
    BY <2>0, Zenon DEF Typed, LockT, KeyT, DeviceT
  <2>3. RingT' /\ TxLockT' /\ LocalsT' /\ CountsT' /\ ConsT' /\ RPlacesT' /\ ReadersT'
    BY <2>0, TypeFrame, Zenon DEF Typed, TxLockT, RPlacesT, readvars, counts
  <2> QED BY <2>1, <2>2, <2>3, TypeParts, Zenon DEF Typed
<1>2. LocksHeld'
  BY DEF TypeOK, UartTypeOK, LocksHeld, readvars
<1>3. RegisterFree'
  BY DEF TypeOK, UartTypeOK, LocksHeld, RegisterFree
<1>4. NothingForgotten'
  BY DEF TypeOK, UartTypeOK, LocksHeld, NothingForgotten, Empty, Full, ringvars
<1>5. ReadersRight' /\ InputFits'
  BY InputFrame, ReadFrame, Zenon
<1> QED BY <1>1, <1>2, <1>3, <1>4, <1>5

-----------------------------------------------------------------------------
(***************************************************************************)
(* The indices r, w and e, without modulus, and the two pieces of the ring *)
(* between them.                                                           *)
(***************************************************************************)
LEMMA Indices ==
  ASSUME NEW a \in Index, NEW b \in Index
  PROVE  /\ Ahead(a, b) \in 0 .. CtrMod - 1 /\ Ahead(a, b) \in Nat
         /\ Ahead(a, b) = IF b <= a THEN a - b ELSE a - b + CtrMod
         /\ Plus(a, 1) \in Index
         /\ Plus(a, 1) = IF a + 1 < CtrMod THEN a + 1 ELSE a + 1 - CtrMod
         /\ Plus(a, INPUT_BUF) = IF a + INPUT_BUF < CtrMod THEN a + INPUT_BUF
                                 ELSE a + INPUT_BUF - CtrMod
<1>1. CtrMod \in Nat \ {0} /\ 1 \in 0 .. CtrMod /\ INPUT_BUF \in 0 .. CtrMod
  BY ConsSizes
<1>2. a \in 0 .. CtrMod - 1 /\ b \in 0 .. CtrMod - 1
  BY DEF Index
<1>3. Ahead(a, b) = IF b <= a THEN a - b ELSE a - b + CtrMod
  BY <1>1, <1>2, RingDistance DEF Ahead
<1>4. Plus(a, 1) = IF a + 1 < CtrMod THEN a + 1 ELSE a + 1 - CtrMod
  BY <1>1, <1>2, RingPlus, Zenon DEF Plus
<1>5. Plus(a, INPUT_BUF) = IF a + INPUT_BUF < CtrMod THEN a + INPUT_BUF
                           ELSE a + INPUT_BUF - CtrMod
  BY <1>1, <1>2, RingPlus, Zenon DEF Plus
<1> QED BY <1>1, <1>2, <1>3, <1>4, <1>5 DEF Index

\* An index is not ahead of itself.
LEMMA SameIndex ==
  ASSUME NEW a \in Index
  PROVE  Ahead(a, a) = 0
<1>1. Ahead(a, a) = IF a <= a THEN a - a ELSE a - a + CtrMod
  BY Indices, Zenon
<1> QED BY <1>1, ConsSizes DEF Index

\* An index that goes back by k.
LEMMA Back ==
  ASSUME NEW a \in Index, NEW k \in Index
  PROVE  /\ Plus(a, -k) \in Index
         /\ Plus(a, -k) = IF k <= a THEN a - k ELSE a - k + CtrMod
<1>1. CtrMod \in Nat \ {0} /\ a \in 0 .. CtrMod - 1 /\ k \in 0 .. CtrMod - 1
  BY ConsSizes DEF Index
<1>2. (a - k) % CtrMod = IF k <= a THEN a - k ELSE a - k + CtrMod
  BY <1>1, RingDistance
<1>3. a + (-k) = a - k
  BY <1>1
<1> QED BY <1>1, <1>2, <1>3 DEF Plus, Index

\* The place of an index in the buffer does not depend on its wrapping.
LEMMA SlotOf ==
  ASSUME NEW a \in Int, NEW k \in Int
  PROVE  Slot(Plus(a, k)) = (a + k) % INPUT_BUF
<1>1. a + k \in Int
  OBVIOUS
<1> QED BY <1>1, ConsSizes, ModMod, Zenon DEF Slot, Plus

\* A piece of the buffer is one of a ring.
LEMMA SpanRing ==
  ASSUME NEW d, NEW f \in Index, NEW t \in Index
  PROVE  [k \in 1 .. (t - f) % CtrMod |-> d[Slot(Plus(f, k - 1))]]
           = Ring(d, f, Ahead(t, f), INPUT_BUF)
<1>1. ASSUME NEW k \in 1 .. Ahead(t, f) PROVE Slot(Plus(f, k - 1)) = (f + k - 1) % INPUT_BUF
  <2>1. f \in Int /\ k - 1 \in Int /\ f + (k - 1) = f + k - 1
    BY Indices, ConsSizes DEF Index
  <2> QED BY <2>1, SlotOf
<1> QED BY <1>1 DEF Ring, Ahead

\* It may be counted from another index.
LEMMA RingFrom ==
  ASSUME NEW d, NEW f \in Index, NEW t \in Index, NEW len \in Nat
  PROVE  Ring(d, t, len, INPUT_BUF) = Ring(d, f + Ahead(t, f), len, INPUT_BUF)
<1>0. Ahead(t, f) = IF f <= t THEN t - f ELSE t - f + CtrMod
  BY Indices
<1>1. f + Ahead(t, f) = t \/ f + Ahead(t, f) = t + CtrMod
  BY ONLY <1>0, ConsSizes, f \in Index, t \in Index DEF Index
<1>2. t \in Int /\ CtrMod \in Int
  BY ConsSizes DEF Index
<1>3. Ring(d, t + CtrMod, len, INPUT_BUF) = Ring(d, t, len, INPUT_BUF)
  BY <1>2, ConsSizes, RingMultiple, Zenon
<1> QED BY <1>1, <1>3

\* Who types and who reads agree on what there is: the unread lines, then the line being typed.
LEMMA TwoPieces ==
  ASSUME TypeOK, InputFits
  PROVE  /\ Ahead(w, r) \in Nat /\ Ahead(e, w) \in Nat
         /\ Ahead(e, r) = Ahead(w, r) + Ahead(e, w)
         /\ Slot(e) = (r + (Ahead(w, r) + Ahead(e, w))) % INPUT_BUF
         /\ Slot(e) = (w + Ahead(e, w)) % INPUT_BUF
         /\ Span(r, w) = Ring(buf, r, Ahead(w, r), INPUT_BUF)
         /\ Span(w, e) = Ring(buf, w, Ahead(e, w), INPUT_BUF)
<1>1. r \in Index /\ w \in Index /\ e \in Index
  BY DEF TypeOK
<1>2. /\ Ahead(w, r) \in Nat /\ Ahead(w, r) = IF r <= w THEN w - r ELSE w - r + CtrMod
      /\ Ahead(e, w) \in Nat /\ Ahead(e, w) = IF w <= e THEN e - w ELSE e - w + CtrMod
      /\ Ahead(e, r) = IF r <= e THEN e - r ELSE e - r + CtrMod
  BY <1>1, Indices, Zenon
<1>3. Ahead(e, r) = Ahead(w, r) + Ahead(e, w)
  BY <1>1, <1>2, ConsSizes DEF Index, InputFits
<1>4. ASSUME NEW a \in Index PROVE Slot(e) = (a + Ahead(e, a)) % INPUT_BUF
  <2>1. Ahead(e, a) = IF a <= e THEN e - a ELSE e - a + CtrMod
    BY <1>1, Indices
  <2>2. a + Ahead(e, a) = e \/ a + Ahead(e, a) = e + CtrMod
    BY ONLY <1>1, <1>4, <2>1, ConsSizes DEF Index
  <2>3. (e + CtrMod) % INPUT_BUF = e % INPUT_BUF
    <3>1. e \in Int /\ CtrMod \in Int
      BY <1>1, ConsSizes DEF Index
    <3> QED BY <3>1, ConsSizes, ModMultiple, Zenon
  <2> QED BY <2>2, <2>3 DEF Slot
<1>5. /\ Span(r, w) = Ring(buf, r, Ahead(w, r), INPUT_BUF)
      /\ Span(w, e) = Ring(buf, w, Ahead(e, w), INPUT_BUF)
  BY <1>1, SpanRing, Zenon DEF Span
<1> QED BY <1>1, <1>2, <1>3, <1>4, <1>5

\* The test for room (console.c:156), and the one for a buffer that the next character fills
\* (console.c:168), are right.
LEMMA RoomTests ==
  ASSUME TypeOK, InputFits
  PROVE  /\ Room <=> Ahead(w, r) + Ahead(e, w) < INPUT_BUF
         /\ Room => /\ Ahead(Plus(e, 1), w) = Ahead(e, w) + 1
                    /\ Ahead(Plus(e, 1), r) = Ahead(w, r) + Ahead(e, w) + 1
                    /\ Plus(e, 1) = Plus(r, INPUT_BUF)
                         <=> Ahead(w, r) + Ahead(e, w) + 1 = INPUT_BUF
<1>1. r \in Index /\ w \in Index /\ e \in Index
  BY DEF TypeOK
<1>2. Ahead(e, r) = Ahead(w, r) + Ahead(e, w) /\ Ahead(w, r) \in Nat /\ Ahead(e, w) \in Nat
  BY TwoPieces
<1>3. Room <=> Ahead(w, r) + Ahead(e, w) < INPUT_BUF
  BY <1>2 DEF Room, Ahead
<1>4. ASSUME NEW a \in Index, Ahead(e, a) < INPUT_BUF
      PROVE  Ahead(Plus(e, 1), a) = Ahead(e, a) + 1
  <2>1. /\ Ahead(e, a) = IF a <= e THEN e - a ELSE e - a + CtrMod
        /\ Plus(e, 1) = IF e + 1 < CtrMod THEN e + 1 ELSE e + 1 - CtrMod
        /\ Plus(e, 1) \in Index
    BY <1>1, Indices
  <2>2. Ahead(Plus(e, 1), a) = IF a <= Plus(e, 1) THEN Plus(e, 1) - a ELSE Plus(e, 1) - a + CtrMod
    BY <2>1, Indices
  <2> QED BY ONLY <1>1, <1>4, <2>1, <2>2, ConsSizes DEF Index
<1>5. Room => /\ Ahead(Plus(e, 1), w) = Ahead(e, w) + 1
              /\ Ahead(Plus(e, 1), r) = Ahead(w, r) + Ahead(e, w) + 1
  BY <1>1, <1>2, <1>3, <1>4, ConsSizes
<1>6. Room => (Plus(e, 1) = Plus(r, INPUT_BUF) <=> Ahead(w, r) + Ahead(e, w) + 1 = INPUT_BUF)
  <2>1. /\ Plus(e, 1) = IF e + 1 < CtrMod THEN e + 1 ELSE e + 1 - CtrMod
        /\ Plus(r, INPUT_BUF) = IF r + INPUT_BUF < CtrMod THEN r + INPUT_BUF
                                ELSE r + INPUT_BUF - CtrMod
        /\ Ahead(e, r) = IF r <= e THEN e - r ELSE e - r + CtrMod
    BY <1>1, Indices
  <2>2. ASSUME Ahead(e, r) < INPUT_BUF
        PROVE  Plus(e, 1) = Plus(r, INPUT_BUF) <=> Ahead(e, r) + 1 = INPUT_BUF
    BY ONLY <1>1, <2>1, <2>2, ConsSizes DEF Index
  <2> QED BY <1>2, <1>3, <2>2
<1> QED BY <1>3, <1>5, <1>6

\* A character that is stored (console.c:162) comes behind the others and overwrites none.
LEMMA Stores ==
  ASSUME TypeOK, InputFits, Room, NEW c \in Stored, NEW d, d = [buf EXCEPT ![Slot(e)] = c]
  PROVE  LET lq == Ahead(w, r)
             ll == Ahead(e, w)
         IN  /\ d \in [0 .. INPUT_BUF - 1 -> Stored]
             /\ Ring(d, r, lq, INPUT_BUF) = Ring(buf, r, lq, INPUT_BUF)
             /\ Ring(d, w, ll + 1, INPUT_BUF) = Append(Ring(buf, w, ll, INPUT_BUF), c)
             /\ Ring(d, r, lq + ll + 1, INPUT_BUF)
                  = Ring(buf, r, lq, INPUT_BUF) \o Append(Ring(buf, w, ll, INPUT_BUF), c)
<1> DEFINE lq == Ahead(w, r)
           ll == Ahead(e, w)
           N == INPUT_BUF
<1>1. /\ r \in Int /\ w \in Int /\ r \in Index /\ w \in Index
      /\ buf \in [0 .. N - 1 -> Stored] /\ N \in Nat \ {0}
  BY ConsSizes DEF TypeOK, Index
<1>2. /\ lq \in Nat /\ ll \in Nat /\ lq + ll < N
      /\ Slot(e) = (r + (lq + ll)) % N /\ Slot(e) = (w + ll) % N
  BY TwoPieces, RoomTests
<1> HIDE DEF lq, ll, N
<1>3. Slot(e) \in 0 .. N - 1
  <2>1. w + ll \in Int
    BY <1>1, <1>2
  <2> QED BY <1>1, <1>2, <2>1, DivMod
<1>4. d \in [0 .. N - 1 -> Stored]
  BY <1>1, <1>3
<1>5. Ring(d, r, lq, N) = Ring(buf, r, lq, N)
  <2>1. RingStore(d, buf, r + (lq + ll), N, c)
    BY <1>2, Zenon DEF RingStore
  <2>2. lq + ll \in lq .. N - 1
    BY <1>1, <1>2
  <2>3. N \in Nat \ {0} /\ buf \in [0 .. N - 1 -> Stored] /\ r \in Int /\ lq \in Nat
    BY <1>1, <1>2
  <2>4. SameRing(d, buf, r, lq, N)
    BY <1>4, <2>1, <2>2, <2>3, RingKept, Zenon
  <2> QED BY <2>4, Zenon DEF SameRing
<1>6. Ring(d, w, ll + 1, N) = Append(Ring(buf, w, ll, N), c)
  <2>1. RingStore(d, buf, w + ll, N, c)
    BY <1>2, Zenon DEF RingStore
  <2>2. ll \in 0 .. N - 1
    BY <1>1, <1>2
  <2>3. Longer(d, buf, w, ll, N, c)
    BY <1>1, <1>4, <2>1, <2>2, RingPut, Zenon
  <2> QED BY <2>3, Zenon DEF Longer
<1>7. Ring(d, r, lq + ll + 1, N) = Ring(d, r, lq, N) \o Ring(d, w, ll + 1, N)
  <2>1. ll + 1 \in Nat /\ lq + ll + 1 = lq + (ll + 1)
    BY <1>2
  <2>2. Ring(d, r, lq + (ll + 1), N) = Ring(d, r, lq, N) \o Ring(d, r + lq, ll + 1, N)
    <3>1. N \in Nat \ {0} /\ r \in Int /\ lq \in Nat
      BY <1>1, <1>2
    <3>2. \A b \in Nat : Ring(d, r, lq + b, N) = Ring(d, r, lq, N) \o Ring(d, r + lq, b, N)
      BY ONLY <3>1, <1>4, RingCat, Zenon
    <3> QED BY <2>1, <3>2, Zenon
  <2>3. Ring(d, w, ll + 1, N) = Ring(d, r + lq, ll + 1, N)
    BY <1>1, <2>1, RingFrom DEF lq, N
  <2> QED BY <2>1, <2>2, <2>3, Zenon
<1>8. Ring(d, r, lq + ll + 1, N) = Ring(buf, r, lq, N) \o Append(Ring(buf, w, ll, N), c)
  BY <1>5, <1>6, <1>7, Zenon
<1> QED BY <1>4, <1>5, <1>6, <1>8, Zenon DEF lq, ll, N

\* C('U') goes back to w, because there is no newline behind it (console.c:142-147).
LEMMA KilledIsW ==
  ASSUME TypeOK, InputFits
  PROVE  Killed = w
<1> DEFINE ll == Ahead(e, w)
           P(d) == /\ \A k \in 1 .. d : buf[Slot(Plus(e, -k))] # "nl"
                   /\ Plus(e, -d) = w \/ buf[Slot(Plus(e, -d - 1))] = "nl"
<1>1. w \in Index /\ e \in Index /\ Index \subseteq Int
  BY ConsSizes DEF TypeOK, Index
<1>2. /\ ll \in Nat /\ ll \in Index /\ ll = IF w <= e THEN e - w ELSE e - w + CtrMod
      /\ \A k \in 1 .. ll : Span(w, e)[k] # "nl"
  BY <1>1, Indices DEF InputFits, Index
<1>3. ASSUME NEW k \in 1 .. ll PROVE buf[Slot(Plus(e, -k))] # "nl"
  <2>1. ll - k + 1 \in 1 .. ll /\ ll - k \in Int /\ -k \in Int
    BY <1>2
  <2>2. Span(w, e)[ll - k + 1] = buf[Slot(Plus(w, (ll - k + 1) - 1))]
    BY <2>1 DEF Span, Ahead
  <2>3. (ll - k + 1) - 1 = ll - k
    BY <1>2
  <2>4. Slot(Plus(w, ll - k)) = (w + (ll - k)) % INPUT_BUF
    BY <1>1, <2>1, SlotOf
  <2>5. Slot(Plus(e, -k)) = (e + (-k)) % INPUT_BUF
    BY <1>1, <2>1, SlotOf
  <2>6. w + (ll - k) = e + (-k) \/ w + (ll - k) = (e + (-k)) + CtrMod
    BY <1>1, <1>2, ConsSizes DEF Index
  <2>7. ((e + (-k)) + CtrMod) % INPUT_BUF = (e + (-k)) % INPUT_BUF
    <3>1. e + (-k) \in Int /\ CtrMod \in Int
      BY <1>1, <2>1, ConsSizes
    <3> QED BY <3>1, ConsSizes, ModMultiple, Zenon
  <2>8. Slot(Plus(w, ll - k)) = Slot(Plus(e, -k))
    BY <2>4, <2>5, <2>6, <2>7
  <2> QED BY <1>2, <2>1, <2>2, <2>3, <2>8
<1>4. Plus(e, -ll) = w
  <2>1. Plus(e, -ll) = IF ll <= e THEN e - ll ELSE e - ll + CtrMod
    BY <1>1, <1>2, Back
  <2> QED BY <1>1, <1>2, <2>1, ConsSizes DEF Index
<1>5. P(ll) /\ ll \in 0 .. ll
  BY <1>2, <1>3, <1>4
<1>6. ASSUME NEW d \in 0 .. ll, P(d) PROVE d = ll
  <2> SUFFICES ASSUME d < ll PROVE FALSE
    BY <1>2
  <2>1. d \in Index /\ d + 1 \in 1 .. ll /\ -d - 1 = -(d + 1)
    BY <1>2, ConsSizes DEF Index
  <2>2. buf[Slot(Plus(e, -d - 1))] # "nl"
    BY <1>3, <2>1
  <2>3. Plus(e, -d) = IF d <= e THEN e - d ELSE e - d + CtrMod
    BY <1>1, <2>1, Back
  <2>4. Plus(e, -d) # w
    BY <1>1, <1>2, <2>1, <2>3, ConsSizes DEF Index
  <2> QED BY <1>6, <2>2, <2>4
<1>7. (CHOOSE d \in 0 .. ll : P(d)) = ll
  <2> HIDE DEF P, ll
  <2> QED BY <1>5, <1>6
<1>8. Killed = Plus(e, -(CHOOSE d \in 0 .. ll : P(d)))
  BY DEF Killed, Ahead
<1> QED BY <1>4, <1>7, <1>8, Zenon

-----------------------------------------------------------------------------
(***************************************************************************)
(* What is typed, erased and read is a step of Tty.                        *)
(***************************************************************************)
LEMMA Pieces ==
  ASSUME TypeOK, InputFits
  PROVE  /\ Span(r, w) \in Seq(Stored) /\ Len(Span(r, w)) = Ahead(w, r)
         /\ Span(w, e) \in Seq(Stored) /\ Len(Span(w, e)) = Ahead(e, w)
<1>1. r \in Int /\ w \in Int /\ buf \in [0 .. INPUT_BUF - 1 -> Stored] /\ INPUT_BUF \in Nat \ {0}
  BY ConsSizes DEF TypeOK, Index
<1>2. \A i \in Int, m \in Nat : Ring(buf, i, m, INPUT_BUF) \in Seq(Stored)
                                /\ Len(Ring(buf, i, m, INPUT_BUF)) = m
  BY <1>1, RingSeq, Zenon
<1> QED BY <1>1, <1>2, TwoPieces

\* The two pieces after a step.
LEMMA SpanNext ==
  ASSUME r' \in Index, w' \in Index, e' \in Index
  PROVE  /\ Span(r, w)' = Ring(buf', r', Ahead(w', r'), INPUT_BUF)
         /\ Span(w, e)' = Ring(buf', w', Ahead(e', w'), INPUT_BUF)
         /\ Ahead(w, r)' = Ahead(w', r') /\ Ahead(e, w)' = Ahead(e', w')
<1>1. /\ Span(r, w)' = [k \in 1 .. (w' - r') % CtrMod |-> buf'[Slot(Plus(r', k - 1))]]
      /\ Span(w, e)' = [k \in 1 .. (e' - w') % CtrMod |-> buf'[Slot(Plus(w', k - 1))]]
  BY DEF Span, Slot, Plus
<1>2. Ahead(w, r)' = Ahead(w', r') /\ Ahead(e, w)' = Ahead(e', w')
  BY DEF Ahead
<1> QED BY <1>1, <1>2, SpanRing, Zenon

\* No elements are none.
LEMMA NoPiece ==
  ASSUME NEW d, NEW i \in Int
  PROVE  Ring(d, i, 0, INPUT_BUF) = <<>>
BY DEF Ring

\* Backspace takes the last character of the line, if it has one (console.c:148-153).
LEMMA Erases ==
  ASSUME TypeOK, InputFits, e' = IF CanErase THEN Plus(e, -1) ELSE e, UNCHANGED <<buf, r, w>>
  PROVE  e' \in Index /\ InputFits' /\ [T!Next]_<<Span(w, e), Span(r, w)>>
<1>1. /\ r \in Index /\ w \in Index /\ e \in Index /\ w \in Int /\ 1 \in Index
      /\ buf \in [0 .. INPUT_BUF - 1 -> Stored] /\ INPUT_BUF \in Nat \ {0}
  BY ConsSizes DEF TypeOK, Index
<1>2. CASE ~CanErase
  <2>1. e' = e
    BY <1>2
  <2> QED BY <1>1, <2>1, InputFrame, Zenon DEF consvars, Span
<1>3. CASE CanErase
  <2>1. /\ Ahead(e, w) = IF w <= e THEN e - w ELSE e - w + CtrMod
        /\ Plus(e, -1) = IF 1 <= e THEN e - 1 ELSE e - 1 + CtrMod
        /\ Plus(e, -1) \in Index
    BY <1>1, Indices, Back, Zenon
  <2>2. Ahead(Plus(e, -1), w) = IF w <= Plus(e, -1) THEN Plus(e, -1) - w
                                ELSE Plus(e, -1) - w + CtrMod
    BY <1>1, <2>1, Indices, Zenon
  <2>3. e # w
    BY <1>3 DEF CanErase
  <2>4. Ahead(e, w) \in Nat \ {0} /\ Ahead(Plus(e, -1), w) = Ahead(e, w) - 1
    BY ONLY <1>1, <2>1, <2>2, <2>3, ConsSizes DEF Index
  <2>5. e' = Plus(e, -1) /\ e' \in Index /\ r' \in Index /\ w' \in Index
    BY <1>1, <1>3, <2>1
  <2>6. /\ Span(r, w)' = Ring(buf, r, Ahead(w, r), INPUT_BUF)
        /\ Span(w, e)' = Ring(buf, w, Ahead(e, w) - 1, INPUT_BUF)
        /\ Ahead(w, r)' = Ahead(w, r) /\ Ahead(e, w)' = Ahead(e, w) - 1
    BY <2>4, <2>5, SpanNext, Zenon
  <2>7. Span(w, e) = Ring(buf, w, Ahead(e, w), INPUT_BUF) /\ Span(r, w)' = Span(r, w)
    BY <2>6, TwoPieces, Zenon
  <2>8. Span(w, e)' = SubSeq(Span(w, e), 1, Len(Span(w, e)) - 1)
    <3>1. \A m \in Nat \ {0} : Ring(buf, w, m - 1, INPUT_BUF)
            = SubSeq(Ring(buf, w, m, INPUT_BUF), 1, Len(Ring(buf, w, m, INPUT_BUF)) - 1)
      BY <1>1, RingFront, Zenon
    <3> QED BY <2>4, <2>6, <2>7, <3>1, Zenon
  <2>9. Span(w, e) # <<>>
    BY <2>4, Pieces
  <2>10. T!Erase
    BY <2>7, <2>8, <2>9, Zenon DEF T!Erase
  <2>11. InputFits'
    <3>0. \A m \in Nat : \A k \in 1 .. m :
            Ring(buf, w, m, INPUT_BUF)[k] = buf[(w + k - 1) % INPUT_BUF]
      BY DEF Ring
    <3>1. ASSUME NEW k \in 1 .. Ahead(e, w) - 1 PROVE Span(w, e)'[k] = Span(w, e)[k]
      <4>1. k \in 1 .. Ahead(e, w) /\ Ahead(e, w) - 1 \in Nat /\ Ahead(e, w) \in Nat
        BY <2>4
      <4> QED BY <2>6, <2>7, <3>0, <3>1, <4>1, Zenon
    <3>2. /\ Ahead(w, r) \in Nat /\ Ahead(w, r) + Ahead(e, w) <= INPUT_BUF
          /\ \A k \in 1 .. Ahead(e, w) : Span(w, e)[k] # "nl"
      BY TwoPieces DEF InputFits
    <3>3. \A k \in 1 .. Ahead(e, w) - 1 : Span(w, e)'[k] # "nl"
      BY <2>4, <3>1, <3>2
    <3>4. /\ Ahead(w, r) + (Ahead(e, w) - 1) <= INPUT_BUF
          /\ Ahead(w, r) + (Ahead(e, w) - 1) # INPUT_BUF
      BY <1>1, <2>4, <3>2
    <3> QED BY <2>6, <3>3, <3>4 DEF InputFits
  <2> QED BY <2>5, <2>10, <2>11, Zenon DEF T!Next
<1> QED BY <1>2, <1>3

\* C('U') takes the whole line.
LEMMA Kills ==
  ASSUME TypeOK, InputFits, e' = Killed, UNCHANGED <<buf, r, w>>
  PROVE  e' \in Index /\ InputFits' /\ [T!Next]_<<Span(w, e), Span(r, w)>>
<1>1. r \in Index /\ w \in Index /\ w \in Int /\ INPUT_BUF \in Nat \ {0}
  BY ConsSizes DEF TypeOK, Index
<1>2. e' = w /\ e' \in Index /\ r' \in Index /\ w' \in Index
  BY <1>1, KilledIsW
<1>3. Ahead(w, w) = 0
  BY <1>1, SameIndex
<1>4. /\ Span(r, w)' = Ring(buf, r, Ahead(w, r), INPUT_BUF)
      /\ Span(w, e)' = Ring(buf, w, 0, INPUT_BUF)
      /\ Ahead(w, r)' = Ahead(w, r) /\ Ahead(e, w)' = 0
  BY <1>2, <1>3, SpanNext, Zenon
<1>5. Span(r, w)' = Span(r, w) /\ Span(w, e)' = <<>>
  BY <1>1, <1>4, TwoPieces, NoPiece, Zenon
<1>6. T!KillLine
  BY <1>5 DEF T!KillLine
<1>7. InputFits'
  <2>1. /\ Ahead(w, r) \in Nat /\ Ahead(e, w) \in Nat /\ Ahead(w, r) + Ahead(e, w) <= INPUT_BUF
    BY TwoPieces DEF InputFits
  <2>2. Ahead(w, r) + 0 <= INPUT_BUF
    BY <1>1, <2>1
  <2> QED BY <1>2, <1>4, <2>2 DEF InputFits
<1> QED BY <1>2, <1>6, <1>7, Zenon DEF T!Next

\* Any other character goes behind the line, if there is room; a newline, an end of file and a
\* full buffer finish it (console.c:154-173).
LEMMA Types ==
  ASSUME TypeOK, InputFits, NEW t \in Keys, t \notin {"kill", "bs"}, store(t), r' = r
  PROVE  ConsT' /\ InputFits' /\ [T!Next]_<<Span(w, e), Span(r, w)>>
<1> DEFINE c == IF t = "cr" THEN "nl" ELSE t
           lq == Ahead(w, r)
           ll == Ahead(e, w)
<1>1. /\ r \in Index /\ w \in Index /\ e \in Index /\ r \in Int /\ w \in Int
      /\ buf \in [0 .. INPUT_BUF - 1 -> Stored] /\ INPUT_BUF \in Nat \ {0}
  BY ConsSizes DEF TypeOK, Index
<1>2. CASE t \in NotInput \/ ~Room
  <2>1. UNCHANGED <<buf, r, w, e>>
    BY <1>2 DEF store
  <2> QED BY <1>1, <2>1, InputFrame, Zenon DEF consvars, Span, ConsT
<1>3. CASE t \notin NotInput /\ Room
  <2>1. c \in Stored
    BY <1>3, ConsoleAssumption DEF Stored, NotInput
  <2> HIDE DEF c
  <2>2. /\ buf' = [buf EXCEPT ![Slot(e)] = c] /\ e' = Plus(e, 1)
        /\ IF Commits(c) THEN w' = e' ELSE w' = w
    BY <1>3 DEF store, c
  <2>3. /\ buf' \in [0 .. INPUT_BUF - 1 -> Stored]
        /\ Ring(buf', r, lq, INPUT_BUF) = Ring(buf, r, lq, INPUT_BUF)
        /\ Ring(buf', w, ll + 1, INPUT_BUF) = Append(Ring(buf, w, ll, INPUT_BUF), c)
        /\ Ring(buf', r, lq + ll + 1, INPUT_BUF)
             = Ring(buf, r, lq, INPUT_BUF) \o Append(Ring(buf, w, ll, INPUT_BUF), c)
    BY <1>3, <2>1, <2>2, Stores, Zenon
  <2>4. /\ lq \in Nat /\ ll \in Nat /\ lq + ll < INPUT_BUF
        /\ Span(r, w) = Ring(buf, r, lq, INPUT_BUF) /\ Len(Span(r, w)) = lq
        /\ Span(w, e) = Ring(buf, w, ll, INPUT_BUF) /\ Len(Span(w, e)) = ll
        /\ Span(w, e) \in Seq(Stored)
    BY <1>3, TwoPieces, RoomTests, Pieces
  <2>5. /\ e' \in Index /\ Ahead(e', w) = ll + 1 /\ Ahead(e', r) = lq + ll + 1
        /\ Commits(c) <=> c \in {"nl", "eof"} \/ lq + ll + 1 = INPUT_BUF
    BY <1>1, <1>3, <2>2, RoomTests, Indices DEF Commits
  <2>6. Len(Append(Span(w, e), c)) = ll + 1
    BY <2>1, <2>4
  <2> HIDE DEF lq, ll
  <2>7. CASE Commits(c)
    <3>1. w' = e' /\ r' \in Index /\ w' \in Index
      BY <1>1, <2>2, <2>5, <2>7
    <3>2. Ahead(e', e') = 0 /\ e' \in Int
      BY <2>5, SameIndex, ConsSizes DEF Index
    <3>3. /\ Span(r, w)' = Ring(buf', r, lq + ll + 1, INPUT_BUF)
          /\ Span(w, e)' = Ring(buf', w', 0, INPUT_BUF)
          /\ Ahead(w, r)' = lq + ll + 1 /\ Ahead(e, w)' = 0
      BY <2>5, <3>1, <3>2, SpanNext, Zenon
    <3>4. Span(r, w)' = Span(r, w) \o Append(Span(w, e), c) /\ Span(w, e)' = <<>>
      BY <2>3, <2>4, <3>1, <3>2, <3>3, NoPiece, Zenon
    <3>5. T!Type(c)
      <4>1. Len(Span(r, w)) + Len(Span(w, e)) < INPUT_BUF
        BY <2>4
      <4>2. c \in {"nl", "eof"} \/ Len(Span(r, w)) + Len(Append(Span(w, e), c)) = INPUT_BUF
        BY <2>4, <2>5, <2>6, <2>7
      <4> QED BY <3>4, <4>1, <4>2, Zenon DEF T!Type
    <3>6. InputFits'
      <4>1. lq + ll + 1 + 0 <= INPUT_BUF /\ 1 .. 0 = {}
        BY <1>1, <2>4
      <4> QED BY <3>1, <3>3, <4>1 DEF InputFits
    <3>7. ConsT'
      BY <2>3, <2>5, <3>1, Zenon DEF ConsT
    <3> QED BY <2>1, <3>5, <3>6, <3>7, Zenon DEF T!Next
  <2>8. CASE ~Commits(c)
    <3>1. w' = w /\ r' \in Index /\ w' \in Index
      BY <1>1, <2>2, <2>8
    <3>2. /\ Span(r, w)' = Ring(buf', r, lq, INPUT_BUF)
          /\ Span(w, e)' = Ring(buf', w, ll + 1, INPUT_BUF)
          /\ Ahead(w, r)' = lq /\ Ahead(e, w)' = ll + 1
      BY <2>5, <3>1, SpanNext, Zenon DEF lq
    <3>3. Span(r, w)' = Span(r, w) /\ Span(w, e)' = Append(Span(w, e), c)
      BY <2>3, <2>4, <3>2, Zenon
    <3>4. T!Type(c)
      <4>1. Len(Span(r, w)) + Len(Span(w, e)) < INPUT_BUF
        BY <2>4
      <4>2. ~(c \in {"nl", "eof"} \/ Len(Span(r, w)) + Len(Append(Span(w, e), c)) = INPUT_BUF)
        BY <2>4, <2>5, <2>6, <2>8
      <4> QED BY <3>3, <4>1, <4>2, Zenon DEF T!Type
    <3>5. InputFits'
      <4>1. lq + (ll + 1) <= INPUT_BUF /\ lq + (ll + 1) # INPUT_BUF
        BY <1>1, <2>4, <2>5, <2>8
      <4>2. \A k \in 1 .. ll : Span(w, e)[k] # "nl"
        BY DEF InputFits, ll
      <4>3. ASSUME NEW k \in 1 .. ll + 1 PROVE Append(Span(w, e), c)[k] # "nl"
        <5>1. c # "nl"
          BY <2>5, <2>8
        <5>2. CASE k = ll + 1
          BY <2>1, <2>4, <5>1, <5>2
        <5>3. CASE k # ll + 1
          <6>1. k \in 1 .. ll
            BY <2>4, <5>3
          <6> QED BY <2>1, <2>4, <4>2, <6>1
        <5> QED BY <5>2, <5>3, Zenon
      <4> QED BY <3>2, <3>3, <4>1, <4>3, Zenon DEF InputFits
    <3>6. ConsT'
      BY <2>3, <2>5, <3>1, Zenon DEF ConsT
    <3> QED BY <2>1, <3>4, <3>5, <3>6, Zenon DEF T!Next
  <2> QED BY <2>7, <2>8
<1> QED BY <1>2, <1>3

\* consoleread() takes the oldest character (console.c:95).
LEMMA Gets ==
  ASSUME TypeOK, InputFits, r # w, r' = Plus(r, 1), UNCHANGED <<buf, w, e>>
  PROVE  r' \in Index /\ InputFits' /\ T!Get
<1>1. /\ r \in Index /\ w \in Index /\ e \in Index /\ r \in Int
      /\ buf \in [0 .. INPUT_BUF - 1 -> Stored] /\ INPUT_BUF \in Nat \ {0}
  BY ConsSizes DEF TypeOK, Index
<1>2. /\ Ahead(w, r) = IF r <= w THEN w - r ELSE w - r + CtrMod
      /\ Plus(r, 1) = IF r + 1 < CtrMod THEN r + 1 ELSE r + 1 - CtrMod
      /\ Plus(r, 1) \in Index
  BY <1>1, Indices, Zenon
<1>3. /\ Ahead(w, Plus(r, 1)) = IF Plus(r, 1) <= w THEN w - Plus(r, 1)
                                ELSE w - Plus(r, 1) + CtrMod
      /\ Ahead(Plus(r, 1), r) = IF r <= Plus(r, 1) THEN Plus(r, 1) - r
                                ELSE Plus(r, 1) - r + CtrMod
  BY <1>1, <1>2, Indices, Zenon
<1>4. /\ Ahead(w, r) \in Nat \ {0} /\ Ahead(w, Plus(r, 1)) = Ahead(w, r) - 1
      /\ Ahead(w, r) - 1 \in Nat /\ Ahead(Plus(r, 1), r) = 1
  <2>1. CtrMod \in Nat /\ CtrMod > 1 /\ r \in 0 .. CtrMod - 1 /\ w \in 0 .. CtrMod - 1
    BY <1>1, ConsSizes DEF Index
  <2>2. Ahead(w, r) \in Nat \ {0} /\ Ahead(w, r) - 1 \in Nat
    BY ONLY <1>2, <2>1, r # w
  <2>3. Ahead(w, Plus(r, 1)) = Ahead(w, r) - 1
    BY ONLY <1>2, <1>3, <2>1, r # w
  <2>4. Ahead(Plus(r, 1), r) = 1
    BY ONLY <1>2, <1>3, <2>1
  <2> QED BY <2>2, <2>3, <2>4
<1>5. r' \in Index /\ w' \in Index /\ e' \in Index
  BY <1>1, <1>2
<1>6. /\ Span(r, w)' = Ring(buf, Plus(r, 1), Ahead(w, r) - 1, INPUT_BUF)
      /\ Span(w, e)' = Ring(buf, w, Ahead(e, w), INPUT_BUF)
      /\ Ahead(w, r)' = Ahead(w, r) - 1 /\ Ahead(e, w)' = Ahead(e, w)
  BY <1>4, <1>5, SpanNext, Zenon
<1>7. Ring(buf, Plus(r, 1), Ahead(w, r) - 1, INPUT_BUF) = Ring(buf, r + 1, Ahead(w, r) - 1, INPUT_BUF)
  <2>1. Ring(buf, Plus(r, 1), Ahead(w, r) - 1, INPUT_BUF)
          = Ring(buf, r + Ahead(Plus(r, 1), r), Ahead(w, r) - 1, INPUT_BUF)
    BY <1>1, <1>2, <1>4, RingFrom, Zenon
  <2> QED BY <1>4, <2>1, Zenon
<1>8. Span(r, w)' = Tail(Span(r, w)) /\ Span(w, e)' = Span(w, e)
  <2>1. \A m \in Nat \ {0} : Ring(buf, r + 1, m - 1, INPUT_BUF) = Tail(Ring(buf, r, m, INPUT_BUF))
    BY <1>1, RingGet, Zenon
  <2>2. /\ Span(r, w) = Ring(buf, r, Ahead(w, r), INPUT_BUF)
        /\ Span(w, e) = Ring(buf, w, Ahead(e, w), INPUT_BUF)
    BY TwoPieces
  <2> QED BY <1>4, <1>6, <1>7, <2>1, <2>2, Zenon
<1>9. Span(r, w) # <<>>
  BY <1>4, Pieces
<1>10. InputFits'
  <2>1. /\ Ahead(e, w) \in Nat /\ Ahead(w, r) + Ahead(e, w) <= INPUT_BUF
        /\ \A k \in 1 .. Ahead(e, w) : Span(w, e)[k] # "nl"
    BY TwoPieces DEF InputFits
  <2>2. /\ Ahead(w, r) - 1 + Ahead(e, w) <= INPUT_BUF
        /\ Ahead(w, r) - 1 + Ahead(e, w) # INPUT_BUF
    BY <1>1, <1>4, <2>1
  <2> QED BY <1>6, <1>8, <2>1, <2>2 DEF InputFits
<1> QED BY <1>5, <1>8, <1>9, <1>10, Zenon DEF T!Get

-----------------------------------------------------------------------------
\* consoleintr() changes the line, wakes the readers when it is finished, and releases cons.lock.
LEMMA EditStep ==
  ASSUME ConsInv, consoleintr_edit
  PROVE  ConsInv' /\ [T!Next]_<<Span(w, e), Span(r, w)>>
<1> USE ActorFacts DEF ConsInv
<1>0. Typed
  BY TypeParts, Zenon
<1>k. key \in Keys
  BY <1>0 DEF consoleintr_edit, At, LocksHeld, Typed, KeyT
<1>1. ConsT' /\ InputFits' /\ [T!Next]_<<Span(w, e), Span(r, w)>>
  <2>1. CASE key = "kill" /\ e' = Killed /\ UNCHANGED <<buf, w, rpc>>
    BY <1>0, <2>1, Kills, Zenon DEF consoleintr_edit, Typed, ConsT
  <2>2. CASE key = "bs" /\ e' = (IF CanErase THEN Plus(e, -1) ELSE e) /\ UNCHANGED <<buf, w, rpc>>
    BY <1>0, <2>2, Erases, Zenon DEF consoleintr_edit, Typed, ConsT
  <2>3. CASE key \notin {"kill", "bs"} /\ store(key)
    BY <1>k, <2>3, Types, Zenon DEF consoleintr_edit
  <2> QED BY <2>1, <2>2, <2>3 DEF consoleintr_edit
<1>2. (rpc' = rpc /\ w' = w) \/ rpc' = Woken
  BY DEF consoleintr_edit, store
<1>3. /\ At(Handler, "edit") /\ key' = None /\ lock' = None
      /\ pc' = [pc EXCEPT ![Handler] = "rx"]
      /\ UNCHANGED <<ringvars, txlock, thr, rhr, irq, overrun, ch, left, counts, panicked, r, n,
                     got, killed>>
  BY DEF consoleintr_edit, Goto
<1>4. TypeOK'
  <2>1. PlacesT'
    BY <1>0, <1>3 DEF Typed, PlacesT, Places
  <2>2. RPlacesT'
    BY <1>0, <1>2 DEF Typed, RPlacesT, RPlaces, Woken
  <2>3. LockT' /\ KeyT'
    BY <1>3, Zenon DEF LockT, KeyT
  <2>4. RingT' /\ TxLockT' /\ DeviceT' /\ LocalsT' /\ CountsT' /\ ReadersT'
    BY <1>0, <1>3, TypeFrame, Zenon DEF Typed, TxLockT, counts
  <2> QED BY <1>1, <2>1, <2>2, <2>3, <2>4, TypeParts, Zenon DEF Typed
<1>5. LocksHeld'
  <2>1. \A p \in Readers : rpc'[p] \in {"test", "sleep", "take"} <=> rpc[p] \in {"test", "sleep", "take"}
    BY <1>2 DEF Woken
  <2> QED BY <1>3, <2>1, ZenonT(30) DEF TypeOK, UartTypeOK, LocksHeld, At
<1>6. RegisterFree'
  BY <1>3, SMTT(20) DEF TypeOK, UartTypeOK, LocksHeld, RegisterFree, At
<1>7. NothingForgotten'
  BY <1>3 DEF TypeOK, UartTypeOK, LocksHeld, NothingForgotten, Empty, Full, ringvars, At
<1>8. ReadersRight'
  <2>1. \A p \in Readers : rpc[p] \notin {"test", "sleep", "take"}
    BY <1>3 DEF LocksHeld, At
  <2>2. CASE rpc' = rpc /\ w' = w
    BY <1>3, <2>1, <2>2, ZenonT(30) DEF ReadersRight
  <2>3. CASE rpc' = Woken
    BY <1>3, <2>1, <2>3 DEF ReadersRight, Woken
  <2> QED BY <1>2, <2>2, <2>3
<1> QED BY <1>1, <1>4, <1>5, <1>6, <1>7, <1>8

\* consoleread() takes a character, and goes on or returns.
LEMMA ReadTakeStep ==
  ASSUME ConsInv, NEW p \in Readers, read_take(p)
  PROVE  ConsInv' /\ [T!Next]_<<Span(w, e), Span(r, w)>>
<1> USE ActorFacts DEF ConsInv
<1>0. Typed
  BY TypeParts, Zenon
<1>1. r # w /\ n[p] > 0 /\ lock = p /\ ~panicked
  BY DEF read_take, RAt, ReadersRight, LocksHeld
<1>2. r' = r \/ r' = Plus(r, 1)
  BY DEF read_take
<1>3. UNCHANGED <<buf, w, e, key>> /\ UNCHANGED uartrest
  BY DEF read_take
<1>4. ConsT' /\ InputFits' /\ [T!Next]_<<Span(w, e), Span(r, w)>>
  <2>1. CASE r' = r
    <3>1. UNCHANGED consvars
      BY <1>3, <2>1 DEF consvars
    <3> QED BY <1>0, <3>1, InputFrame, TypeFrame, Zenon DEF consvars, Span
  <2>2. CASE r' = Plus(r, 1)
    BY <1>0, <1>1, <1>3, <2>2, Gets, Zenon DEF Typed, ConsT, T!Next
  <2> QED BY <1>2, <2>1, <2>2
<1>5. \/ return(p)
      \/ /\ n' = [n EXCEPT ![p] = @ - 1] /\ got' = [got EXCEPT ![p] = TRUE]
         /\ rpc' = [rpc EXCEPT ![p] = "test"] /\ UNCHANGED <<lock, killed>>
  BY DEF read_take, RGoto
<1>6. \/ lock' = None /\ rpc' = [rpc EXCEPT ![p] = "idle"]
      \/ lock' = lock /\ rpc' = [rpc EXCEPT ![p] = "test"]
  BY <1>5 DEF return, RGoto
<1>7. TypeOK'
  <2>1. RPlacesT'
    BY <1>0, <1>6 DEF Typed, RPlacesT, RPlaces
  <2>2. LockT'
    BY <1>0, <1>6 DEF Typed, LockT
  <2>3. ReadersT'
    <3>1. n' = [n EXCEPT ![p] = 0] \/ n' = [n EXCEPT ![p] = n[p] - 1]
      BY <1>5 DEF return
    <3>2. n' \in [Readers -> 0 .. MaxRead]
      BY ONLY <1>0, <1>1, <3>1, ConsSizes DEF Typed, ReadersT
    <3>3. got' \in [Readers -> BOOLEAN] /\ killed' \in [Readers -> BOOLEAN]
      BY <1>0, <1>5, Zenon DEF return, Typed, ReadersT
    <3> QED BY <3>2, <3>3 DEF ReadersT
  <2>4. RingT' /\ TxLockT' /\ DeviceT' /\ PlacesT' /\ LocalsT' /\ CountsT' /\ KeyT'
    BY <1>0, <1>3, TypeFrame, Zenon DEF Typed, TxLockT, PlacesT, KeyT, uartrest, counts
  <2> QED BY <1>4, <2>1, <2>2, <2>3, <2>4, TypeParts, Zenon DEF Typed
<1>8. LocksHeld'
  BY <1>1, <1>3, <1>6 DEF TypeOK, UartTypeOK, LocksHeld, uartrest
<1>9. RegisterFree'
  BY <1>3, Zenon DEF RegisterFree, uartrest
<1>10. NothingForgotten'
  BY <1>1, <1>3 DEF NothingForgotten, Empty, Full, uartrest, ringvars
<1>11. ReadersRight'
  <2>1. \A q \in Readers : rpc[q] \notin {"sleep", "asleep"} /\ (q # p => rpc[q] # "take")
    BY <1>1 DEF ReadersRight, LocksHeld
  <2>2. \A q \in Readers : rpc'[q] \notin {"sleep", "asleep", "take"}
    BY <1>0, <1>6, <2>1 DEF Typed, RPlacesT
  <2> QED BY <2>2 DEF ReadersRight
<1> QED BY <1>4, <1>7, <1>8, <1>9, <1>10, <1>11

-----------------------------------------------------------------------------
\* The console that consoleinit() and uartinit() leave satisfies the invariant.
LEMMA ConsInit == Init => ConsInv
<1> SUFFICES ASSUME Init PROVE ConsInv
  OBVIOUS
<1>1. Before % CtrMod \in Index /\ r \in Index /\ w = r /\ e = r
  BY ConsSizes, ConsoleAssumption DEF Init, Index
<1>2. TypeOK
  <2>1. RingT
    <3>1. 0 \in Slots
      BY ConsSizes
    <3> QED BY <3>1 DEF Init, UartInit, RingT
  <2>2. TxLockT /\ LockT /\ DeviceT /\ KeyT
    BY Zenon DEF Init, UartInit, TxLockT, LockT, DeviceT, KeyT
  <2>2a. PlacesT /\ LocalsT
    BY ConsSizes DEF Init, UartInit, PlacesT, LocalsT, Places
  <2>2b. CountsT
    <3>1. panicked \in BOOLEAN
      BY Zenon DEF Init, UartInit
    <3>2. typed = 0 /\ writes = 0
      BY Zenon DEF Init, UartInit
    <3> QED BY <3>1, <3>2, ConsSizes DEF CountsT
  <2>3. RPlacesT /\ ReadersT
    BY ConsSizes DEF Init, RPlacesT, ReadersT, RPlaces
  <2>4. ConsT
    BY <1>1 DEF Init, ConsT, Stored
  <2> QED BY <2>1, <2>2, <2>2a, <2>2b, <2>3, <2>4, TypeParts, Zenon DEF Typed
<1>3. LocksHeld /\ RegisterFree /\ ReadersRight /\ NothingForgotten
  BY ActorFacts DEF Init, UartInit, LocksHeld, RegisterFree, ReadersRight, NothingForgotten, Empty
<1>4. InputFits
  <2>1. Ahead(w, r) = 0 /\ Ahead(e, w) = 0
    BY <1>1, SameIndex
  <2> QED BY <1>1, <2>1, ConsSizes DEF InputFits
<1> QED BY <1>2, <1>3, <1>4 DEF ConsInv

\* Every step of the handler, of readers and writers, and of the device preserves it, and is a step
\* of Tty or none.
LEMMA ConsStep ==
  ConsInv /\ [Next]_vars => ConsInv' /\ [T!Next]_<<Span(w, e), Span(r, w)>>
<1> SUFFICES ASSUME ConsInv, [Next]_vars
             PROVE  ConsInv' /\ [T!Next]_<<Span(w, e), Span(r, w)>>
  OBVIOUS
<1>0. UNCHANGED consvars => UNCHANGED <<Span(w, e), Span(r, w)>>
  BY Zenon DEF consvars, Span
<1>1. ASSUME UartNext, UNCHANGED <<consvars, readvars, key>>
      PROVE  ConsInv'
  <2>1. ASSUME NEW p \in Writers, WriterStep(p) PROVE ConsInv'
    <3>1. p \in Actors
      BY ActorFacts
    <3> QED BY <1>1, <2>1, <3>1, WriteNextStep, PutcStep, StartStep, PutStep, Zenon DEF WriterStep
  <2>2. ASSUME NEW p \in Writers, NEW k \in 1 .. MaxN, consolewrite(p, k) PROVE ConsInv'
    BY <1>1, <2>2, WriteStep, Zenon
  <2>3. ASSUME HandlerStep PROVE ConsInv'
    <3>1. Handler \in Actors
      BY ActorFacts
    <3> QED BY <1>1, <2>3, <3>1, IntrStep, StartStep, PutStep, SyncStep, Zenon DEF HandlerStep
  <2>4. ASSUME transmit PROVE ConsInv'
    BY <1>1, <2>4, DeviceStep, Zenon
  <2> QED BY <1>1, <2>1, <2>2, <2>3, <2>4, Zenon DEF UartNext
<1>2. ASSUME NEW c \in Keys, receive(c), UNCHANGED <<consvars, readvars, key>>
      PROVE  ConsInv'
  BY <1>2, DeviceStep, Zenon
<1>3. ASSUME NEW c \in Keys, consoleintr(c)
      PROVE  ConsInv' /\ UNCHANGED consvars
  BY <1>3, ConsoleintrStep, Zenon DEF consoleintr
<1>4. ASSUME NEW p \in Readers,
             read_test(p) \/ read_sleep(p) \/ kill(p) \/ \E k \in 0 .. MaxRead : consoleread(p, k)
      PROVE  ConsInv' /\ UNCHANGED consvars
  BY <1>4, ReadTestStep, ReadSleepStep, KillStep, ReadBeginsStep, Zenon
  DEF read_test, read_sleep, kill, consoleread
<1>5. CASE UNCHANGED vars
  <2>1. UNCHANGED <<uartvars, consvars, readvars, key>>
    BY <1>5 DEF vars
  <2>2. TypeOK'
    BY <2>1, Zenon DEF ConsInv, TypeOK, UartTypeOK, uartvars, consvars, readvars, ringvars, counts
  <2>3. LocksHeld' /\ RegisterFree' /\ NothingForgotten'
    BY <2>1, Zenon DEF ConsInv, LocksHeld, RegisterFree, NothingForgotten, Empty, Full, uartvars,
                       readvars, ringvars, counts
  <2>4. ReadersRight' /\ InputFits'
    BY <2>1, InputFrame, ReadFrame, Zenon DEF ConsInv
  <2> QED BY <1>0, <2>1, <2>2, <2>3, <2>4, Zenon DEF ConsInv
<1> QED
  BY <1>0, <1>1, <1>2, <1>3, <1>4, <1>5, EditStep, ReadTakeStep, Zenon
  DEF Next, InputStep, ReadStep

\* cons.lock and uart_tx_lock are held where the code holds them, the holding register is free
\* for who is about to write it, readers sleep only while there is nothing to read, and the
\* three indices of the input buffer keep their order (console.c:75-181, uart.c:80-194).
THEOREM ConsInvariant == Spec => []ConsInv
BY ConsInit, ConsStep, PTL DEF Spec

\* Whoever sleeps in consoleread() has nothing to read, however typing, reading and killing
\* interleave, and a full input buffer is readable (console.c:85-91, 156-173).
THEOREM InputIsNotLost == Spec => []NoLostInput
<1>1. ConsInv => NoLostInput
  <2> SUFFICES ASSUME ConsInv PROVE NoLostInput
    OBVIOUS
  <2> USE DEF ConsInv
  <2>1. ASSUME ~Room PROVE r # w
    <3>1. /\ Ahead(w, r) \in Nat /\ Ahead(e, w) \in Nat
          /\ Ahead(w, r) + Ahead(e, w) >= INPUT_BUF
      BY <2>1, TwoPieces, RoomTests, ConsSizes
    <3>2. e = w /\ w \in Index
      BY <3>1, ConsSizes DEF InputFits, TypeOK
    <3>3. Ahead(w, w) = 0
      BY <3>2, SameIndex
    <3> QED BY <3>1, <3>2, <3>3, ConsSizes
  <2> QED BY <2>1, Zenon DEF NoLostInput, ReadersRight
<1> QED BY <1>1, ConsInvariant, PTL

\* No byte and no typed character is forgotten, none is written over another in the holding
\* register, and sched() panics only under consolewrite() with a full ring (uart.c:80-187).
THEOREM NothingIsForgotten == Spec => []NothingForgotten
<1>1. ConsInv => NothingForgotten
  BY DEF ConsInv
<1> QED BY <1>1, ConsInvariant, PTL

\* The input buffer with its three wrapping indices (console.c:75-181) is an editable line and a
\* queue of finished ones: for every size, and however often the indices wrap.
THEOREM ConsoleIsTty == Spec => IsTty
<1>1. Init => T!Init
  <2> SUFFICES ASSUME Init PROVE Span(w, e) = <<>> /\ Span(r, w) = <<>>
    BY DEF T!Init
  <2>1. ConsInv
    BY ConsInit
  <2>2. r \in Index /\ w = r /\ e = r
    BY <2>1 DEF Init, ConsInv, TypeOK
  <2>3. Ahead(r, r) = 0
    BY <2>2, SameIndex
  <2>4. Len(Span(w, e)) = 0 /\ Len(Span(r, w)) = 0 /\ Span(w, e) \in Seq(Stored)
          /\ Span(r, w) \in Seq(Stored)
    BY <2>1, <2>2, <2>3, Pieces DEF ConsInv
  <2> QED BY <2>4
<1>2. ConsInv /\ [Next]_vars => [T!Next]_(T!tty)
  BY ConsStep DEF T!tty
<1> QED BY <1>1, <1>2, ConsInvariant, PTL DEF Spec, IsTty, T!Spec

-----------------------------------------------------------------------------
(***************************************************************************)
(* The transmit ring is a queue of one byte less than it has places.       *)
(***************************************************************************)
Waiting == (txw - txr) % UART_TX_BUF_SIZE

\* The ring's indices without modulus, and its content as a sequence.
LEMMA TxRing ==
  ASSUME TypeOK
  PROVE  /\ Waiting \in 0 .. UART_TX_BUF_SIZE - 1
         /\ Waiting = IF txr <= txw THEN txw - txr ELSE txw - txr + UART_TX_BUF_SIZE
         /\ NextSlot(txw) = IF txw + 1 < UART_TX_BUF_SIZE THEN txw + 1 ELSE 0
         /\ NextSlot(txr) = IF txr + 1 < UART_TX_BUF_SIZE THEN txr + 1 ELSE 0
         /\ Contents = Ring(txbuf, txr, Waiting, UART_TX_BUF_SIZE)
         /\ Contents \in Seq(Bytes) /\ Len(Contents) = Waiting
         /\ (txr + Waiting) % UART_TX_BUF_SIZE = txw
<1> DEFINE N == UART_TX_BUF_SIZE
<1>1. /\ N \in Nat \ {0} /\ N >= 2 /\ txw \in 0 .. N - 1 /\ txr \in 0 .. N - 1 /\ txr \in Int
      /\ txbuf \in [0 .. N - 1 -> Bytes] /\ 1 \in 0 .. N
  BY ConsSizes DEF TypeOK, UartTypeOK
<1> HIDE DEF N
<1>2. Waiting = IF txr <= txw THEN txw - txr ELSE txw - txr + N
  BY <1>1, RingDistance, Zenon DEF Waiting, N
<1>3. /\ (txw + 1) % N = IF txw + 1 < N THEN txw + 1 ELSE txw + 1 - N
      /\ (txr + 1) % N = IF txr + 1 < N THEN txr + 1 ELSE txr + 1 - N
  BY <1>1, RingPlus, Zenon
<1>4. /\ NextSlot(txw) = IF txw + 1 < N THEN txw + 1 ELSE 0
      /\ NextSlot(txr) = IF txr + 1 < N THEN txr + 1 ELSE 0
  BY <1>1, <1>3 DEF NextSlot, N
<1>5. Waiting \in 0 .. N - 1 /\ Waiting \in Nat
  BY ONLY <1>1, <1>2
<1>6. Contents = Ring(txbuf, txr, Waiting, N)
  BY DEF Contents, Ring, Waiting, N
<1>7. Contents \in Seq(Bytes) /\ Len(Contents) = Waiting
  <2>1. \A m \in Nat : Ring(txbuf, txr, m, N) \in Seq(Bytes) /\ Len(Ring(txbuf, txr, m, N)) = m
    BY <1>1, RingSeq, Zenon
  <2> QED BY <1>5, <1>6, <2>1, Zenon
<1>8. (txr + Waiting) % N = txw
  <2>1. Waiting \in 0 .. N
    BY <1>1, <1>5
  <2>2. (txr + Waiting) % N = IF txr + Waiting < N THEN txr + Waiting ELSE txr + Waiting - N
    BY <1>1, <2>1, RingPlus, Zenon
  <2> QED BY ONLY <1>1, <1>2, <2>2
<1> QED BY <1>2, <1>4, <1>5, <1>6, <1>7, <1>8, Zenon DEF N

\* uartputc() appends, if the ring is not full (uart.c:101-103).
LEMMA TxPuts ==
  ASSUME ConsInv, TypeOK', NEW p \in Writers, uartputc(p), ~Full
  PROVE  F!Put(ch[p]) /\ ch[p] \in Bytes
<1> DEFINE N == UART_TX_BUF_SIZE
<1>1. /\ N \in Nat \ {0} /\ N >= 2 /\ txw \in 0 .. N - 1 /\ txr \in 0 .. N - 1 /\ txr \in Int
      /\ txbuf \in [0 .. N - 1 -> Bytes] /\ ch[p] \in Bytes
      /\ txbuf' \in [0 .. N - 1 -> Bytes] /\ txw' \in 0 .. N - 1
  <2>1. N \in Nat \ {0} /\ N >= 2
    BY ConsSizes
  <2>2. Typed /\ Typed'
    BY TypeParts, Zenon DEF ConsInv
  <2>3. ch[p] \in Bytes
    BY Zenon DEF ConsInv, LocksHeld, uartputc, At
  <2>4. txbuf \in [0 .. N - 1 -> Bytes] /\ txbuf' \in [0 .. N - 1 -> Bytes]
    BY <2>2, Zenon DEF Typed, RingT, Slots
  <2>5. txw \in 0 .. N - 1 /\ txr \in 0 .. N - 1 /\ txw' \in 0 .. N - 1
    BY <2>2, Zenon DEF Typed, RingT, Slots
  <2> QED BY ONLY <2>1, <2>3, <2>4, <2>5
<1>2. /\ Waiting \in 0 .. N - 1 /\ Waiting = IF txr <= txw THEN txw - txr ELSE txw - txr + N
      /\ NextSlot(txw) = IF txw + 1 < N THEN txw + 1 ELSE 0
      /\ Contents = Ring(txbuf, txr, Waiting, N) /\ Len(Contents) = Waiting
      /\ (txr + Waiting) % N = txw
  BY TxRing DEF ConsInv
<1>3. txbuf' = [txbuf EXCEPT ![txw] = ch[p]] /\ txw' = NextSlot(txw) /\ txr' = txr
  BY DEF uartputc
<1>4. NextSlot(txw) # txr
  BY DEF Full
<1>5. Waiting' = IF txr' <= txw' THEN txw' - txr' ELSE txw' - txr' + N
  <2>1. txr' \in 0 .. N - 1 /\ txw' \in 0 .. N - 1
    BY <1>1, <1>3
  <2> QED BY <1>1, <2>1, RingDistance, Zenon DEF Waiting
<1> HIDE DEF N
<1>6. Waiting' = Waiting + 1 /\ Waiting + 1 < N
  BY ONLY <1>1, <1>2, <1>3, <1>4, <1>5
<1>7. Ring(txbuf', txr, Waiting + 1, N) = Append(Ring(txbuf, txr, Waiting, N), ch[p])
  <2>1. RingStore(txbuf', txbuf, txr + Waiting, N, ch[p])
    BY <1>2, <1>3, Zenon DEF RingStore
  <2>2. Longer(txbuf', txbuf, txr, Waiting, N, ch[p])
    BY <1>1, <1>2, <2>1, RingPut, Zenon
  <2> QED BY <2>2, Zenon DEF Longer
<1>8. Contents' = Ring(txbuf', txr', Waiting', N)
  BY DEF Contents, Ring, Waiting, N
<1>9. Contents' = Append(Contents, ch[p])
  BY <1>2, <1>3, <1>6, <1>7, <1>8, Zenon
<1>10. Len(Contents) < N - 1
  BY <1>1, <1>2, <1>6
<1> QED BY <1>1, <1>9, <1>10, Zenon DEF F!Put, N

\* uartstart() takes the oldest byte (uart.c:151-152).
LEMMA TxGets ==
  ASSUME ConsInv, txw # txr, txr' = NextSlot(txr), UNCHANGED <<txbuf, txw>>
  PROVE  F!Get
<1> DEFINE N == UART_TX_BUF_SIZE
<1>1. /\ N \in Nat \ {0} /\ N >= 2 /\ txw \in 0 .. N - 1 /\ txr \in 0 .. N - 1 /\ txr \in Int
      /\ txbuf \in [0 .. N - 1 -> Bytes]
  BY ConsSizes DEF ConsInv, TypeOK, UartTypeOK
<1>2. /\ Waiting \in 0 .. N - 1 /\ Waiting = IF txr <= txw THEN txw - txr ELSE txw - txr + N
      /\ NextSlot(txr) = IF txr + 1 < N THEN txr + 1 ELSE 0
      /\ Contents = Ring(txbuf, txr, Waiting, N) /\ Len(Contents) = Waiting
      /\ Contents \in Seq(Bytes)
  BY TxRing DEF ConsInv
<1>3. Waiting' = IF txr' <= txw' THEN txw' - txr' ELSE txw' - txr' + N
  <2>1. txr' \in 0 .. N - 1 /\ txw' \in 0 .. N - 1
    BY <1>1, <1>2
  <2> QED BY <1>1, <2>1, RingDistance, Zenon DEF Waiting
<1> HIDE DEF N
<1>4. txr' = NextSlot(txr) /\ txw' = txw /\ txw # txr
  OBVIOUS
<1>5. Waiting' = Waiting - 1 /\ Waiting \in Nat \ {0} /\ Waiting - 1 \in Nat
  BY ONLY <1>1, <1>2, <1>3, <1>4
<1>6. Ring(txbuf, txr', Waiting - 1, N) = Ring(txbuf, txr + 1, Waiting - 1, N)
  <2>1. CASE txr + 1 < N
    BY <1>2, <1>4, <2>1
  <2>2. CASE txr + 1 >= N
    <3>1. txr' = 0 /\ txr + 1 = 0 + N
      BY <1>1, <1>2, <1>4, <2>2
    <3>2. N % N = 0 /\ N \in Int /\ 0 \in Int
      <4>1. N = N * 1 + 0 /\ 1 \in Int /\ 0 \in 0 .. N - 1
        BY <1>1
      <4>2. (N * 1 + 0) % N = 0
        BY <1>1, <4>1, ModUnique, Zenon
      <4> QED BY <1>1, <4>1, <4>2
    <3>3. Ring(txbuf, 0 + N, Waiting - 1, N) = Ring(txbuf, 0, Waiting - 1, N)
      <4>1. N \in Nat \ {0}
        BY <1>1
      <4>2. \A k \in Nat : Ring(txbuf, 0 + N, k, N) = Ring(txbuf, 0, k, N)
        BY <4>1, <3>2, RingMultiple, Zenon
      <4> QED BY <1>5, <4>2, Zenon
    <3> QED BY <3>1, <3>3, Zenon
  <2> QED BY <1>1, <2>1, <2>2
<1>7. Ring(txbuf, txr + 1, Waiting - 1, N) = Tail(Ring(txbuf, txr, Waiting, N))
  <2>1. \A m \in Nat \ {0} : Ring(txbuf, txr + 1, m - 1, N) = Tail(Ring(txbuf, txr, m, N))
    BY <1>1, RingGet, Zenon
  <2> QED BY <1>5, <2>1, Zenon
<1>8. Contents' = Ring(txbuf, txr', Waiting', N)
  BY DEF Contents, Ring, Waiting, N
<1>9. Contents' = Tail(Contents)
  BY <1>2, <1>5, <1>6, <1>7, <1>8, Zenon
<1>10. Contents # <<>>
  BY <1>2, <1>5
<1> QED BY <1>9, <1>10 DEF F!Get

\* The transmit ring is a bounded queue (Fifo): with any number of writers, whoever runs
\* uartstart(), each step puts one byte behind the others, takes the oldest or leaves it alone
\* (uart.c:80-161).
THEOREM UartIsFifo == Spec => IsFifo
<1>1. Init => F!Init
  <2> SUFFICES ASSUME Init PROVE Contents = <<>>
    BY DEF F!Init
  <2>1. TypeOK /\ txw = 0 /\ txr = 0
    BY ConsInit DEF ConsInv, Init, UartInit
  <2>2. Waiting = 0
    BY <2>1, TxRing
  <2> QED BY <2>1, <2>2, TxRing
<1>2. ConsInv /\ ConsInv' /\ [Next]_vars => [F!Next]_Contents
  <2> SUFFICES ASSUME ConsInv, ConsInv', [Next]_vars PROVE [F!Next]_Contents
    OBVIOUS
  <2>1. UNCHANGED ringvars => UNCHANGED Contents
    BY Zenon DEF ringvars, Contents
  <2>2. ASSUME NEW p \in Writers, uartputc(p) PROVE [F!Next]_Contents
    <3>1. CASE Full
      BY <2>1, <2>2, <3>1 DEF uartputc, ringvars
    <3>2. CASE ~Full
      BY <2>2, <3>2, TxPuts, Zenon DEF F!Next, ConsInv
    <3> QED BY <3>1, <3>2
  <2>3. ASSUME NEW a \in Actors, uartstart(a) PROVE [F!Next]_Contents
    <3>1. CASE txr' = txr
      BY <2>1, <2>3, <3>1 DEF uartstart, ringvars
    <3>2. CASE ~Empty /\ txr' = NextSlot(txr)
      BY <2>3, <3>2, TxGets, Zenon DEF uartstart, Empty, F!Next
    <3> QED BY <2>3, <3>1, <3>2 DEF uartstart
  <2>4. ASSUME UartNext PROVE [F!Next]_Contents
    BY <2>1, <2>2, <2>3, <2>4, ActorFacts, Zenon
    DEF UartNext, WriterStep, HandlerStep, consolewrite, consolewrite_next, uartstart_put, sync_poll,
        sync_put, uartintr, uartintr_send, transmit
  <2> QED
    BY <2>1, <2>4, Zenon
    DEF Next, InputStep, ReadStep, receive, consoleintr, consoleintr_edit, consoleread, read_test,
        read_sleep, read_take, kill, uartrest, vars, uartvars
<1> QED BY <1>1, <1>2, ConsInvariant, PTL DEF Spec, IsFifo, F!Spec
=============================================================================
