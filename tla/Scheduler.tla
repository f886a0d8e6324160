------------------------------ MODULE Scheduler ------------------------------
(***************************************************************************)
(* The process table and the scheduler of kernel/process.c, with the parts *)
(* of drivers/timer.c, cpu/isr.c, kernel/syscall.c and kernel/usermode.c   *)
(* that enter it.  One CPU executes the code of the current process; the   *)
(* timer interrupt may fire between any two of its steps while the         *)
(* interrupt flag is set.  Its handler runs with interrupts off (every IDT *)
(* gate is an interrupt gate), on the stack it interrupted (ist = 0) or,   *)
(* from ring 3, on the shared one, and leaves that stack only with iretq:  *)
(* Tick is the entry and process_schedule, IrqReturn the way back.         *)
(*                                                                         *)
(* process_create and process_exit run with interrupts on (process_exit    *)
(* with interrupts off when it is reached through SYS_EXIT), so each of    *)
(* their stores that the scheduler can observe is a step of its own.       *)
(* kmalloc and kfree are atomic here: the inside of the heap is module     *)
(* Heap.  timer_ticks and the framebuffer are left out.                    *)
(***************************************************************************)
EXTENDS Integers, FiniteSets

CONSTANTS
    MAX_PROCESSES,            \* slots of the process table (64 in the code)
    MAX_ALLOCATIONS_PER_PROC, \* page records per process (128 in the code)
    Stacks,                   \* the blocks kmalloc(PROC_STACK_SIZE) can return
    MaxPid                    \* bound: no process is created once next_pid reaches it

NoStack     == "none"         \* stack_base = 0
BootStack   == "boot"         \* the stack Limine gave to kmain, process 0
SharedStack == "shared"       \* TSS.rsp0 = syscall_kernel_stack, one for all
UserStack   == "user"         \* a ring 3 stack

ASSUME MaxProcessesAssumption == MAX_PROCESSES \in Nat \ {0}
ASSUME MaxAllocationsAssumption == MAX_ALLOCATIONS_PER_PROC \in Nat
ASSUME MaxPidAssumption == MaxPid \in Nat
ASSUME StacksAssumption ==
    Stacks \cap {NoStack, BootStack, SharedStack, UserStack} = {}

VARIABLES
    state, pid, stack_base, alloc_count, context, \* fields of processes[]
    current_process_index,
    next_pid,
    free,       \* stack-sized heap blocks that are free
    cpu,        \* the registers of the CPU; during an interrupt, the frame
                \* that iretq will load
    irq_stack   \* the stack of the interrupt handler, NoStack outside one

vars == <<state, pid, stack_base, alloc_count, context,
          current_process_index, next_pid, free, cpu, irq_stack>>

Slots == 0..(MAX_PROCESSES - 1)
State == {"DEAD", "READY", "RUNNING", "SLEEPING"}

(***************************************************************************)
(* A register image (cpu_state_t).  pc is the program point, rsp the stack *)
(* it runs on, iflag RFLAGS.IF, i and new_stack the locals of        *)
(* process_create and process_exit.                                        *)
(***************************************************************************)
CreatePoints == {"shell", "reserve", "kmalloc", "stack", "registers", "publish"}
ThreadPoints == {"thread", "user", "syscall", "exit", "die", "wait", "halt", "returned"}
Registers == [pc : CreatePoints \cup ThreadPoints \cup {"zero"},
              rsp : Stacks \cup {NoStack, BootStack, SharedStack, UserStack},
              iflag : BOOLEAN,
              i : Slots,
              new_stack : Stacks \cup {NoStack}]

\* A register image, field by field.
Regs(pc, rsp, iflag, i, new_stack) ==
    [pc |-> pc, rsp |-> rsp, iflag |-> iflag, i |-> i, new_stack |-> new_stack]

\* The image memset leaves: a null rip, a null rsp, interrupts off.
ZeroRegisters == Regs("zero", NoStack, FALSE, 0, NoStack)

\* The image process_create prepares: the entry point on a fresh stack.
EntryRegisters(stk) == Regs("thread", stk, TRUE, 0, NoStack)

TypeOK == /\ state \in [Slots -> State]
          /\ pid \in [Slots -> Nat]
          /\ stack_base \in [Slots -> Stacks \cup {NoStack}]
          /\ alloc_count \in [Slots -> 0..MAX_ALLOCATIONS_PER_PROC]
          /\ context \in [Slots -> Registers]
          /\ current_process_index \in Slots
          /\ next_pid \in Nat
          /\ free \subseteq Stacks
          /\ cpu \in Registers
          /\ irq_stack \in Stacks \cup {NoStack, BootStack, SharedStack}

\* process_init, then the shell: the boot context is process 0.
Init == /\ state = [s \in Slots |-> IF s = 0 THEN "RUNNING" ELSE "DEAD"]
        /\ pid = [s \in Slots |-> 0]
        /\ stack_base = [s \in Slots |-> NoStack]
        /\ alloc_count = [s \in Slots |-> 0]
        /\ context = [s \in Slots |-> ZeroRegisters]
        /\ current_process_index = 0
        /\ next_pid = 1
        /\ free = Stacks
        /\ cpu = Regs("shell", BootStack, TRUE, 0, NoStack)
        /\ irq_stack = NoStack

-----------------------------------------------------------------------------
(* process_create, called by process 0 only (kmain and the shell).         *)

Goto(p) == cpu' = [cpu EXCEPT !.pc = p]

\* Mutant: next_pid is not incremented, so two processes share a pid.
CreatePickSamePid(i) ==
    /\ cpu.pc = "shell" /\ next_pid < MaxPid
    /\ i # 0 /\ state[i] = "DEAD"
    /\ \A s \in Slots \ {0} : s < i => state[s] # "DEAD"
    /\ pid' = [pid EXCEPT ![i] = next_pid]
    /\ cpu' = Regs("reserve", cpu.rsp, cpu.iflag, i, NoStack)
    /\ UNCHANGED <<state, stack_base, alloc_count, context,
                   current_process_index, free, next_pid>>

\* The scan for the first DEAD slot; the pid is written while it is DEAD.
CreatePick(i) ==
    /\ cpu.pc = "shell" /\ next_pid < MaxPid
    /\ i # 0 /\ state[i] = "DEAD"
    /\ \A s \in Slots \ {0} : s < i => state[s] # "DEAD"
    /\ pid' = [pid EXCEPT ![i] = next_pid]
    /\ next_pid' = next_pid + 1
    /\ cpu' = Regs("reserve", cpu.rsp, cpu.iflag, i, NoStack)
    /\ UNCHANGED <<state, stack_base, alloc_count, context,
                   current_process_index, free>>

\* Mutant: the slot is made READY before its registers are filled.
ReservedStateReady == "READY"
ReservedState == "SLEEPING"

\* The slot is reserved as SLEEPING so that the scheduler cannot pick it.
CreateReserve ==
    /\ cpu.pc = "reserve"
    /\ state' = [state EXCEPT ![cpu.i] = ReservedState]
    /\ alloc_count' = [alloc_count EXCEPT ![cpu.i] = 0]
    /\ Goto("kmalloc")
    /\ UNCHANGED <<pid, stack_base, context, current_process_index, next_pid, free>>

\* kmalloc(PROC_STACK_SIZE) succeeds.
CreateKmalloc ==
    /\ cpu.pc = "kmalloc"
    /\ \E stk \in free :
          /\ free' = free \ {stk}
          /\ cpu' = Regs("stack", cpu.rsp, cpu.iflag, cpu.i, stk)
    /\ UNCHANGED <<state, pid, stack_base, alloc_count, context,
                   current_process_index, next_pid>>

\* Mutant: the reservation is not undone when kmalloc fails.
KeepReservation(st, i) == st
UndoReservation(st, i) == [st EXCEPT ![i] = "DEAD"]

\* kmalloc fails (the rest of the kernel may hold the memory): give up.
CreateKmallocFails ==
    /\ cpu.pc = "kmalloc"
    /\ state' = UndoReservation(state, cpu.i)
    /\ Goto("shell")
    /\ UNCHANGED <<pid, stack_base, alloc_count, context, current_process_index,
                   next_pid, free>>

CreateStack ==
    /\ cpu.pc = "stack"
    /\ stack_base' = [stack_base EXCEPT ![cpu.i] = cpu.new_stack]
    /\ cpu' = Regs("registers", cpu.rsp, cpu.iflag, cpu.i, NoStack)
    /\ UNCHANGED <<state, pid, alloc_count, context, current_process_index,
                   next_pid, free>>

\* memset and the five stores of the initial registers.
CreateRegisters ==
    /\ cpu.pc = "registers"
    /\ context' = [context EXCEPT ![cpu.i] = EntryRegisters(stack_base[cpu.i])]
    /\ Goto("publish")
    /\ UNCHANGED <<state, pid, stack_base, alloc_count, current_process_index,
                   next_pid, free>>

CreatePublish ==
    /\ cpu.pc = "publish"
    /\ state' = [state EXCEPT ![cpu.i] = "READY"]
    /\ Goto("shell")
    /\ UNCHANGED <<pid, stack_base, alloc_count, context, current_process_index,
                   next_pid, free>>

-----------------------------------------------------------------------------
(* The other processes: kernel threads that may enter ring 3 or exit.      *)

\* The slot process_exit and process_track_allocation find for a pid.
HasPid(p, s) == pid[s] = p /\ state[s] # "DEAD"
SlotOfPid(p, s) == HasPid(p, s) /\ \A t \in Slots : t < s => ~HasPid(p, t)

\* process_track_allocation(process_get_current_pid(), phys).
TrackAllocation ==
    /\ cpu.pc = "thread"
    /\ \E s \in Slots :
          /\ SlotOfPid(pid[current_process_index], s)
          /\ alloc_count[s] < MAX_ALLOCATIONS_PER_PROC
          /\ alloc_count' = [alloc_count EXCEPT ![s] = @ + 1]
    /\ UNCHANGED <<state, pid, stack_base, context, current_process_index,
                   next_pid, free, cpu>>

\* usermode_enter: iretq to ring 3, leaving the kernel stack of the process.
EnterUser ==
    /\ cpu.pc = "thread"
    /\ cpu' = Regs("user", UserStack, cpu.iflag, cpu.i, cpu.new_stack)
    /\ UNCHANGED <<state, pid, stack_base, alloc_count, context,
                   current_process_index, next_pid, free>>

\* Mutant: SFMASK leaves IF set.
InterruptsKept == TRUE
InterruptsMasked == FALSE

\* syscall_entry: SFMASK clears IF, and the one shared kernel stack is taken.
SyscallEnter ==
    /\ cpu.pc = "user"
    /\ cpu' = Regs("syscall", SharedStack, InterruptsMasked, cpu.i, cpu.new_stack)
    /\ UNCHANGED <<state, pid, stack_base, alloc_count, context,
                   current_process_index, next_pid, free>>

\* SYS_WRITE, SYS_BRK and unknown numbers return to ring 3 with sysret.
SyscallReturn ==
    /\ cpu.pc = "syscall"
    /\ cpu' = Regs("user", UserStack, TRUE, cpu.i, cpu.new_stack)
    /\ UNCHANGED <<state, pid, stack_base, alloc_count, context,
                   current_process_index, next_pid, free>>

\* process_exit(process_get_current_pid()), from SYS_EXIT or a kernel thread.
ExitCall ==
    /\ cpu.pc \in {"syscall", "thread"}
    /\ Goto("exit")
    /\ UNCHANGED <<state, pid, stack_base, alloc_count, context,
                   current_process_index, next_pid, free>>

\* The lookup and the loop of pmm_free_page over the recorded allocations.
ExitFreeAllocations ==
    /\ cpu.pc = "exit"
    /\ \E s \in Slots :
          /\ SlotOfPid(pid[current_process_index], s)
          /\ alloc_count' = [alloc_count EXCEPT ![s] = 0]
          /\ cpu' = Regs("die", cpu.rsp, cpu.iflag, s, cpu.new_stack)
    /\ UNCHANGED <<state, pid, stack_base, context, current_process_index,
                   next_pid, free>>

ExitDie ==
    /\ cpu.pc = "die"
    /\ state' = [state EXCEPT ![cpu.i] = "DEAD"]
    /\ Goto("wait")
    /\ UNCHANGED <<pid, stack_base, alloc_count, context, current_process_index,
                   next_pid, free>>

\* "sti" before "hlt", also when SYS_EXIT came in with interrupts off.
HaltFlag == TRUE

\* "sti; hlt" for ever when the process ended itself; otherwise a return.
ExitWait ==
    /\ cpu.pc = "wait"
    /\ cpu' = IF current_process_index = cpu.i
              THEN Regs("halt", cpu.rsp, HaltFlag, cpu.i, cpu.new_stack)
              ELSE Regs("returned", cpu.rsp, cpu.iflag, cpu.i, cpu.new_stack)
    /\ UNCHANGED <<state, pid, stack_base, alloc_count, context,
                   current_process_index, next_pid, free>>

-----------------------------------------------------------------------------
(* The timer interrupt: timer_irq_handler, process_schedule.               *)

\* The running process goes back to READY; a DEAD one stays DEAD.
Yielded == [state EXCEPT ![current_process_index] =
                IF @ = "RUNNING" THEN "READY" ELSE @]

\* How many slots the search starting after the current one skips before s.
CircularDistance(s) == (s - current_process_index - 1) % MAX_PROCESSES

\* Mutant: the search restarts at the current slot instead of the next one.
SearchFromCurrent(st, n) ==
    IF \E s \in Slots : st[s] = "READY"
    THEN /\ st[n] = "READY"
         /\ \A s \in Slots : st[s] = "READY" =>
               (n - current_process_index) % MAX_PROCESSES
                  <= (s - current_process_index) % MAX_PROCESSES
    ELSE n = 0

\* Mutant: the search starts at slot 0.
LowestFirst(st, n) ==
    IF \E s \in Slots : st[s] = "READY"
    THEN st[n] = "READY" /\ \A s \in Slots : st[s] = "READY" => n <= s
    ELSE n = 0

\* n is the slot the round-robin loop ends on.
Chosen(st, n) ==
    IF \E s \in Slots : st[s] = "READY"
    THEN /\ st[n] = "READY"
         /\ \A s \in Slots : st[s] = "READY" => CircularDistance(n) <= CircularDistance(s)
    ELSE n = 0

\* Mutant: nothing is reaped.
ReapableNone(n) == {}
\* The slots whose stack the last loop of process_schedule gives back.
Reapable(n) == {s \in Slots \ {0} :
                   s # n /\ state[s] = "DEAD" /\ stack_base[s] # NoStack}

\* process_schedule: save, choose, switch, reap.
Schedule(n) ==
    /\ Chosen(Yielded, n)
    /\ state' = [Yielded EXCEPT ![n] = "RUNNING"]
    /\ context' = [context EXCEPT ![current_process_index] = cpu]
    /\ cpu' = context'[n]
    /\ current_process_index' = n
    /\ free' = free \cup {stack_base[s] : s \in Reapable(n)}
    /\ stack_base' = [s \in Slots |-> IF s \in Reapable(n) THEN NoStack ELSE stack_base[s]]
    /\ UNCHANGED <<pid, alloc_count, next_pid>>

\* Mutant: a trap gate, so that the handler can be interrupted itself.
TrapGate == TRUE
\* An interrupt gate: nothing else runs until the handler has returned.
HandlerReturned == irq_stack = NoStack

\* The stack the CPU pushes the interrupt frame on: the one in use, or that of
\* the TSS when ring 3 was interrupted.
InterruptStack == IF cpu.rsp = UserStack THEN SharedStack ELSE cpu.rsp

\* IRQ 0 up to the end of process_schedule, on the interrupted stack.
Tick == /\ HandlerReturned /\ cpu.iflag
        /\ \E n \in Slots : Schedule(n)
        /\ irq_stack' = InterruptStack

\* The end of interrupt and iretq: only now is that stack left.
IrqReturn ==
    /\ irq_stack # NoStack
    /\ irq_stack' = NoStack
    /\ UNCHANGED <<state, pid, stack_base, alloc_count, context,
                   current_process_index, next_pid, free, cpu>>

-----------------------------------------------------------------------------
\* process_create after its slot has been picked.
CreateProgress == /\ HandlerReturned /\ UNCHANGED irq_stack
                  /\ \/ CreateReserve \/ CreateKmalloc \/ CreateKmallocFails
                     \/ CreateStack \/ CreateRegisters \/ CreatePublish

CreateStart == /\ HandlerReturned /\ UNCHANGED irq_stack
               /\ \E i \in Slots : CreatePick(i)

ThreadStep == /\ HandlerReturned /\ UNCHANGED irq_stack
              /\ \/ TrackAllocation \/ EnterUser \/ SyscallEnter \/ SyscallReturn
                 \/ ExitCall \/ ExitFreeAllocations \/ ExitDie \/ ExitWait

Next == CreateStart \/ CreateProgress \/ ThreadStep \/ Tick \/ IrqReturn

Spec == Init /\ [][Next]_vars
-----------------------------------------------------------------------------
(* Safety.                                                                  *)

\* The image that process s would continue from if it got the CPU now.
Image(s) == IF s = current_process_index THEN cpu ELSE context[s]

\* A slot that may still execute: it holds the CPU or can be chosen for it.
Resumable(s) == s = current_process_index \/ state[s] = "READY"

\* Only the slot that holds the CPU is RUNNING; it can only have left that
\* state by dying in process_exit (process.c:91-93, 113, 169).
OneRunner ==
    /\ state[current_process_index] \in {"RUNNING", "DEAD"}
    /\ \A s \in Slots : state[s] = "RUNNING" => s = current_process_index

\* Whatever the timer interrupts in process_create, the scheduler never picks
\* a slot whose registers are not filled in: a process that can execute has a
\* real program point and a stack, slot 0 the shell's and the others a
\* thread's (process.c:45-48).
RunsInitialised ==
    \A s \in Slots : Resumable(s) =>
        /\ Image(s).rsp # NoStack
        /\ Image(s).pc \in (IF s = 0 THEN CreatePoints ELSE ThreadPoints)

\* No process executes on a stack that was given back to the heap or that
\* another process uses: a kernel-stack image is on the stack of its own slot.
\* The handler of an interrupt stays on the stack it interrupted until iretq,
\* also when that is the stack of a process that died on it and process_schedule
\* frees it under the handler: until the return it is either still its
\* process's own or free, and nobody else has got it (process.c:118-129).
RunsOnOwnStack ==
    /\ \A s \in Slots : Resumable(s) /\ Image(s).rsp \in Stacks =>
          Image(s).rsp = stack_base[s] /\ stack_base[s] \notin free
    /\ irq_stack \in Stacks =>
          /\ Image(0).new_stack # irq_stack
          /\ \/ irq_stack \in free
             \/ \E s \in Slots : stack_base[s] = irq_stack /\ context[s].rsp = irq_stack

\* What the comment says of the clean-up, that it comes after the stack has
\* been left.  TLC refutes it: a kernel thread that called process_exit takes
\* the timer interrupt on its own stack, and process_schedule frees that stack
\* while the frame iretq needs is still on it (process.c:118-120, 125).
HandlerStackLive == irq_stack \in Stacks => irq_stack \notin free

\* Two slots never have the same stack, and a stack is never both free and
\* owned, so the reaper never frees a block twice (process.c:59, 121-128).
StacksDisjoint ==
    \A s, t \in Slots : stack_base[s] # NoStack =>
        /\ stack_base[s] \notin free
        /\ s # t => stack_base[s] # stack_base[t]

\* No stack is lost: each one is free, recorded in a slot, or held in the
\* local variable of the process_create under way.  In particular reusing a
\* DEAD slot never overwrites a stack that was not reaped (process.c:43, 59).
NoStackLost ==
    \A stk \in Stacks : \/ stk \in free
                        \/ \E s \in Slots : stack_base[s] = stk
                        \/ Image(0).new_stack = stk

\* The kernel stack that all syscalls and ring 3 interrupts share carries the
\* frame of at most one process that will continue: nobody is switched out
\* while on it unless it is DEAD (syscall.c:53-57).
SharedStackExclusive ==
    \A s \in Slots : state[s] = "READY" => context[s].rsp # SharedStack

\* process_exit never returns to its caller: the pid lookup finds the calling
\* process itself (process.c:162, 176-178).
ExitNeverReturns == \A s \in Slots : Resumable(s) => Image(s).pc # "returned"

\* A slot that is not in use records no pages, so its next process does not
\* give back the pages of an earlier one (process.c:50, 168).
DeadHoldsNoPages == \A s \in Slots : state[s] = "DEAD" => alloc_count[s] = 0

-----------------------------------------------------------------------------
(* What the scheduler implements, and liveness.                            *)

\* Refinement: the process table is a round-robin dispatcher of its READY and
\* RUNNING slots.
D == INSTANCE Dispatcher WITH
        N <- MAX_PROCESSES,
        runnable <- {s \in Slots : state[s] \in {"READY", "RUNNING"}},
        running <- current_process_index

\* Steps of a process that runs with interrupts off.
MaskedStep == ~cpu.iflag /\ ThreadStep

(***************************************************************************)
(* The PIT raises IRQ0 100 times a second and the PIC keeps it pending     *)
(* while interrupts are off, so it is taken once they are on again, also   *)
(* by a program that only makes system calls: Tick is strongly fair.  Code *)
(* that runs with interrupts off keeps the CPU: weak fairness.  A quantum  *)
(* is long against the steps of process_create, so process 0, which gets   *)
(* the CPU again and again, gets through it: strong fairness.  A handler   *)
(* has no loop that waits for anything, so it returns: weak fairness.      *)
(***************************************************************************)
FairSpec == /\ Spec
            /\ SF_vars(Tick) /\ WF_vars(IrqReturn)
            /\ WF_vars(MaskedStep) /\ SF_vars(CreateProgress)

\* The safety part and the fairness of the dispatcher (process.c:95-113).
ImplementsDispatcher == D!DSpec

\* Every READY process gets the CPU (process.c:95-105).
NoStarvation ==
    \A s \in Slots : state[s] = "READY" ~> state[s] = "RUNNING"

\* The stack of every process that died is given back (process.c:118-129).
DeadStackReaped ==
    \A s \in Slots : state[s] = "DEAD" /\ stack_base[s] # NoStack
                        ~> stack_base[s] = NoStack

\* A reserved slot does not stay reserved: its process becomes READY or the
\* reservation is undone (process.c:49-56, 72).
CreateCompletes ==
    \A s \in Slots : state[s] = "SLEEPING" ~> state[s] # "SLEEPING"
=============================================================================
