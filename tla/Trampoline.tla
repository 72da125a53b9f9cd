----------------------------- MODULE Trampoline -----------------------------
(***************************************************************************)
(* How a hart gets from user to kernel code and back: kernel/trampoline.S, *)
(* kernelvec.S and swtch.S, with usertrap, usertrapret, kerneltrap and     *)
(* devintr (trap.c), and the way from reset to the scheduler (entry.S,     *)
(* start.c, main.c).                                                       *)
(*                                                                         *)
(* A hart has its control registers and three general ones: a0, which is   *)
(* swapped with sscratch; tp, which holds the hart's number in the kernel; *)
(* and sp, which stands for all the others.  Locks and the choice of a     *)
(* process are those of Sched: here a switch is one step.  A step is a     *)
(* stretch of code in which nothing can interrupt the hart, or whose parts *)
(* are told apart only by the hart itself.  A register whose content no    *)
(* later code reads becomes Unset.                                         *)
(***************************************************************************)
EXTENDS Integers, TLC

CONSTANTS Harts,    \* hart numbers, 0 included
          Users,    \* processes, positive numbers
          Vals      \* contents of user registers

VARIABLES
  hart,      \* registers of each hart, the place of its code, and struct cpu's proc
  tf,        \* p->trapframe
  thread,    \* a kernel thread that is not running: its context and place
  frame,     \* what kernelvec has pushed on the stack of a kernel thread
  started,
  want,      \* history: the user registers that a process left or is to find
  fault      \* a panic, or a use of the wrong page table

tvars == <<hart, tf, thread, frame, started, want, fault>>

(***************************************************************************)
(* Values of registers.  A user register holds any value; the kernel's are *)
(* a hart number, a kernel stack (a process's, or a scheduler's), or the   *)
(* address TRAPFRAME.  A kernel program counter is a place.                *)
(***************************************************************************)
User(r, p, v) == <<r, p, v>>
Hart(h) == <<"hart", h>>
Stack(t) == <<"stack", t>>
TRAPFRAME == <<"trapframe", 0>>
Place(l) == <<"place", l>>
Kernel == <<"kernel", 0>>           \* the kernel's page table
PageTable(p) == <<"pagetable", p>>
Scheduler0(h) == -1 - h             \* the thread that runs scheduler() on h

UserRegs(p, v) == [a0 |-> User("a0", p, v), tp |-> User("tp", p, v), sp |-> User("sp", p, v),
                   pc |-> User("pc", p, v)]
Unset == <<"unset", "nowhere">>
NoFrame == [pushed |-> FALSE]
\* The context of a running thread, which swtch overwrites, of one that has exited, and of
\* a new process.
Running == [sp |-> Unset, ie |-> FALSE, at |-> "running", ready |-> FALSE]
Exited == [Running EXCEPT !.at = "zombie"]
New(p) == [sp |-> Stack(p), ie |-> TRUE, at |-> "usertrapret", ready |-> TRUE]
Threads == Users \union {Scheduler0(h) : h \in Harts}

\* Reset: machine mode, interrupts off.  Processes come from userinit and fork, and
\* start in forkret, with interrupts as the scheduler had them.
TInit ==
  /\ hart = [h \in Harts |->
       [at |-> "reset", run |-> 0, a0 |-> Unset, tp |-> Unset, sp |-> Unset, pc |-> Unset,
        sscratch |-> Unset, sepc |-> Unset, cause |-> "none", spp |-> "U", spie |-> FALSE, sie |-> FALSE,
        stvec |-> "none", satp |-> Kernel]]
  /\ tf = [p \in Users |-> [regs |-> UserRegs(p, 0), hartid |-> Hart(0), kstack |-> Stack(0)]]
  /\ thread = [t \in Threads |-> Running]
  /\ frame = [t \in Threads |-> NoFrame]
  /\ started = FALSE
  /\ want = [p \in Users |-> UserRegs(p, 0)]
  /\ fault = FALSE

At(h, l) == ~fault /\ hart[h].at = l
Set(h, f) == hart' = [hart EXCEPT ![h] = f @@ @]
\* cpuid(), myproc(): struct cpu is found by tp.
cpuid(h) == hart[h].tp[2]
myproc(h) == hart[cpuid(h)].run
\* The kernel thread on h, by its stack.
Me(h) == hart[h].sp[2]

-----------------------------------------------------------------------------
(***************************************************************************)
(* entry.S and start: a stack of its own, tp, no paging, the timer.        *)
(***************************************************************************)
start(h) ==
  /\ At(h, "reset")
  /\ Set(h, [at |-> "main", tp |-> Hart(h), sp |-> Stack(Scheduler0(h)), satp |-> Kernel])
  /\ UNCHANGED <<tf, thread, frame, started, want, fault>>

\* main: hart 0 makes the kernel and the first process; the others wait for it.
\* Then kvminithart and trapinithart.
main(h) ==
  /\ At(h, "main")
  /\ cpuid(h) = 0 \/ started
  /\ Set(h, [at |-> "scheduler", satp |-> Kernel, stvec |-> "kernelvec"])
  /\ started' = TRUE
  /\ thread' = IF cpuid(h) = 0
               THEN [p \in Users |-> New(p)] @@ thread ELSE thread
  /\ UNCHANGED <<tf, frame, want, fault>>

(***************************************************************************)
(* scheduler: intr_on, then swtch to a process, which goes on where it     *)
(* called sched and restores its interrupt state with release.  swtch      *)
(* changes neither tp nor the trap registers.                              *)
(***************************************************************************)
scheduler(h) ==
  /\ At(h, "scheduler")
  /\ \/ /\ ~hart[h].sie
        /\ Set(h, [sie |-> TRUE])
        /\ UNCHANGED <<thread, fault>>
     \/ \E p \in Users :
          /\ hart[h].sie /\ thread[p].ready
          /\ thread' = [thread EXCEPT ![p] = Running, ![Me(h)].sp = hart[h].sp]
          /\ hart' = [hart EXCEPT ![h].at = thread[p].at, ![h].sp = thread[p].sp,
                                  ![h].sie = thread[p].ie, ![cpuid(h)].run = p]
          /\ UNCHANGED fault
  /\ UNCHANGED <<tf, frame, started, want>>

\* sched and swtch back to the scheduler of this hart, which leaves context c.
sched(h, c) ==
  /\ thread' = [thread EXCEPT ![Me(h)] = c]
  /\ hart' = [hart EXCEPT ![h].at = "scheduler", ![cpuid(h)].run = 0, ![h].cause = "none",
                          ![h].sp = thread[Scheduler0(cpuid(h))].sp]
  /\ UNCHANGED <<tf, frame, started, want, fault>>
\* The process goes on at l.
Switch(h, l) == sched(h, [sp |-> hart[h].sp, ie |-> hart[h].sie, at |-> l, ready |-> TRUE])

-----------------------------------------------------------------------------
(***************************************************************************)
(* User code, and the hardware's side of traps (external).                 *)
(***************************************************************************)
user(h, v) ==
  /\ At(h, "user")
  /\ Set(h, UserRegs(hart[h].run, v))
  /\ want' = [want EXCEPT ![hart[h].run] = UserRegs(@.pc[2], v)]
  /\ UNCHANGED <<tf, thread, frame, started, fault>>

TakeTrap(h, cause) ==
  LET from == IF hart[h].at = "user" THEN "U" ELSE "S"
  IN  Set(h, [at |-> hart[h].stvec, cause |-> cause, spp |-> from, spie |-> hart[h].sie,
              sie |-> FALSE, pc |-> Unset,
              sepc |-> IF from = "U" THEN hart[h].pc ELSE Place(hart[h].at)])

sret(h, f) ==
  LET g == f @@ hart[h]
  IN  Set(h, [sie |-> g.spie, spie |-> TRUE, spp |-> "U",
              at |-> IF g.spp = "U" THEN "user" ELSE g.sepc[2],
              pc |-> IF g.spp = "U" THEN g.sepc ELSE Unset,
              sepc |-> Unset, cause |-> "none"] @@ f)

\* ecall, a fault of user code, or an interrupt: in user mode always, in the kernel when enabled.  A
\* software interrupt is what timervec makes of the timer's: it runs in machine mode
\* between any two instructions, and restores the registers that it uses.
trap(h, cause) ==
  /\ ~fault
  /\ CASE cause = "ecall" -> hart[h].at = "user" /\ hart[h].pc[3] \in Vals
       [] cause = "fault" -> hart[h].at = "user"
       [] OTHER -> hart[h].at = "user" \/ hart[h].sie
  /\ TakeTrap(h, cause)
  /\ UNCHANGED <<tf, thread, frame, started, want, fault>>

-----------------------------------------------------------------------------
(***************************************************************************)
(* uservec: a0 and sscratch change places; the registers go to the         *)
(* trapframe that the page table in satp maps at TRAPFRAME.                *)
(***************************************************************************)
uservec(h) ==
  /\ At(h, "uservec")
  /\ LET p == hart[h].satp[2]
     IN  IF hart[h].sscratch # TRAPFRAME \/ hart[h].satp = Kernel
         THEN fault' = TRUE /\ UNCHANGED <<hart, tf>>
         ELSE /\ tf' = [tf EXCEPT ![p].regs =
                          [@ EXCEPT !.a0 = hart[h].a0, !.tp = hart[h].tp, !.sp = hart[h].sp]]
              /\ Set(h, [at |-> "usertrap", a0 |-> TRAPFRAME, sscratch |-> Unset,
                         sp |-> tf[p].kstack, tp |-> tf[p].hartid, satp |-> Kernel])
              /\ UNCHANGED fault
  /\ UNCHANGED <<thread, frame, started, want>>

(***************************************************************************)
(* usertrap.  A system call enables interrupts when it is done with the    *)
(* trap registers; it may sleep, and ends with its result in a0.           *)
(***************************************************************************)
AfterEcall(pc) == User("pc", pc[2], pc[3] + 1)

usertrap(h) ==
  /\ At(h, "usertrap")
  /\ LET p == myproc(h)
     IN  IF hart[h].spp # "U"
         THEN fault' = TRUE /\ UNCHANGED <<hart, tf, want>>
         ELSE /\ UNCHANGED fault
              /\ IF hart[h].cause = "ecall"
                 THEN /\ tf' = [tf EXCEPT ![p].regs.pc = AfterEcall(hart[h].sepc)]
                      /\ want' = [want EXCEPT ![p].pc = User("pc", p, @[3] + 1)]
                      /\ Set(h, [at |-> "syscall", stvec |-> "kernelvec", sie |-> TRUE, sepc |-> Unset,
                                 cause |-> "none"])
                 ELSE /\ tf' = [tf EXCEPT ![p].regs.pc = hart[h].sepc]
                      /\ Set(h, [at |-> IF hart[h].cause = "fault" THEN "exit" ELSE "devintr",
                                 stvec |-> "kernelvec", sepc |-> Unset])
                      /\ UNCHANGED want
  /\ UNCHANGED <<thread, frame, started>>

syscall(h, v) ==
  /\ At(h, "syscall")
  /\ tf' = [tf EXCEPT ![myproc(h)].regs.a0 = User("a0", Me(h), v)]
  /\ want' = [want EXCEPT ![Me(h)].a0 = User("a0", Me(h), v)]
  /\ Set(h, [at |-> "usertrapret"])
  /\ UNCHANGED <<thread, frame, started, fault>>

sleep(h) == At(h, "syscall") /\ Switch(h, "syscall")

\* exit, after a fault, in a system call, or because the process is killed.
exit(h) ==
  /\ At(h, "exit") \/ At(h, "syscall") \/ (At(h, "devintr") /\ myproc(h) # 0 /\ ~frame[Me(h)].pushed)
  /\ sched(h, Exited)

(***************************************************************************)
(* kernelvec and kerneltrap: the registers and, as locals, sepc and        *)
(* sstatus go to the stack.                                                *)
(***************************************************************************)
kernelvec(h) ==
  /\ At(h, "kernelvec")
  /\ LET t == Me(h)
     IN  IF hart[h].spp # "S" \/ hart[h].sie
         THEN fault' = TRUE /\ UNCHANGED <<hart, frame>>
         ELSE /\ frame' = [frame EXCEPT ![t] =
                   [pushed |-> TRUE, a0 |-> hart[h].a0, tp |-> hart[h].tp, sp |-> hart[h].sp,
                    sepc |-> hart[h].sepc, spp |-> hart[h].spp, spie |-> hart[h].spie]]
              /\ Set(h, [at |-> "devintr", sepc |-> Unset])
              /\ UNCHANGED fault
  /\ UNCHANGED <<tf, thread, started, want>>

\* Back in usertrap or kerneltrap: a timer interrupt makes a process yield.
AfterDevintr(h, which_dev) ==
  IF which_dev = 2 /\ myproc(h) # 0 THEN "yield"
  ELSE IF frame[Me(h)].pushed THEN "kernelret" ELSE "usertrapret"

\* clockintr, or the handler of the device that plic_claim names.
devintr(h) ==
  /\ At(h, "devintr")
  /\ Set(h, [at |-> AfterDevintr(h, IF hart[h].cause = "soft" THEN 2 ELSE 1), cause |-> "none"])
  /\ UNCHANGED <<tf, thread, frame, started, want, fault>>

yield(h) ==
  /\ At(h, "yield")
  /\ Switch(h, IF frame[Me(h)].pushed THEN "kernelret" ELSE "usertrapret")

\* The end of kerneltrap and of kernelvec: all but tp come from the stack.
PushedTp(h, f) == f.tp
RestoredTp(h, f) == hart[h].tp

kernelret(h) ==
  /\ At(h, "kernelret")
  /\ LET f == frame[Me(h)]
     IN  sret(h, [sepc |-> f.sepc, spp |-> f.spp, spie |-> f.spie, a0 |-> f.a0, sp |-> f.sp,
                  tp |-> RestoredTp(h, f)])
  /\ frame' = [frame EXCEPT ![Me(h)] = NoFrame]
  /\ UNCHANGED <<tf, thread, started, want, fault>>

(***************************************************************************)
(* usertrapret and userret.                                                *)
(***************************************************************************)
usertrapret(h) ==
  /\ At(h, "usertrapret")
  /\ LET p == myproc(h)
     IN  /\ tf' = [tf EXCEPT ![p].kstack = Stack(p), ![p].hartid = hart[h].tp]
         /\ Set(h, [at |-> "userret", sie |-> FALSE, stvec |-> "uservec", spp |-> "U",
                    spie |-> TRUE, sepc |-> tf[p].regs.pc, a0 |-> TRAPFRAME])
  /\ UNCHANGED <<thread, frame, started, want, fault>>

userret(h) ==
  /\ At(h, "userret")
  /\ LET p == hart[h].run
         r == tf[p].regs
     IN  sret(h, [satp |-> PageTable(p), tp |-> r.tp, sp |-> r.sp, a0 |-> r.a0,
                  sscratch |-> hart[h].a0])
  /\ UNCHANGED <<tf, thread, frame, started, want, fault>>

TNext ==
  \E h \in Harts :
       \/ start(h) \/ main(h) \/ scheduler(h)
       \/ uservec(h) \/ usertrap(h) \/ sleep(h) \/ yield(h) \/ exit(h)
       \/ kernelvec(h) \/ devintr(h) \/ kernelret(h)
       \/ usertrapret(h) \/ userret(h)
       \/ \E v \in Vals : user(h, v) \/ syscall(h, v)
       \/ \E c \in {"ecall", "fault", "soft", "external"} : trap(h, c)

TSpec == TInit /\ [][TNext]_tvars

-----------------------------------------------------------------------------
InKernel == {"scheduler", "usertrap", "syscall", "devintr", "yield", "kernelret", "usertrapret", "exit"}
Places == InKernel \union {"reset", "main", "user", "uservec", "kernelvec", "userret"}

\* trampoline.S, kernelvec.S, start.c:43, trap.c: a process finds in user mode the
\* registers and the program counter that it left, but for a system call's result and the
\* next instruction, whatever ran on its hart meanwhile and on whatever hart it goes on;
\* an interrupted kernel thread finds its stack, and in tp the hart that it is on now.
\* While kernel code can be interrupted, traps go to kernelvec, and in user mode to
\* uservec, so that neither usertrap nor kerneltrap panics.
RegistersKept ==
  /\ ~fault
  /\ \A h \in Harts :
       /\ hart[h].at \in Places
       /\ hart[h].at = "user" =>
            /\ [r \in {"a0", "tp", "sp", "pc"} |-> hart[h][r]] = want[hart[h].run]
            /\ hart[h].satp = PageTable(hart[h].run)
            /\ hart[h].stvec = "uservec" /\ hart[h].sscratch = TRAPFRAME
       /\ hart[h].at \in InKernel =>
            /\ hart[h].sp = Stack(IF hart[h].run = 0 THEN Scheduler0(h) ELSE hart[h].run)
            /\ hart[h].tp = Hart(h) /\ hart[h].satp = Kernel
       /\ hart[h].sie /\ hart[h].at # "user" => hart[h].stvec = "kernelvec"
=============================================================================
