---------------------------- MODULE SchedulerInv ----------------------------
(***************************************************************************)
(* The inductive invariant behind the safety properties of Scheduler.  TLC *)
(* checks it as an invariant of the runs; SchedulerProofs proves it.       *)
(***************************************************************************)
EXTENDS Scheduler

\* The program points of process_create between the reservation and READY.
Reserved == {"kmalloc", "stack", "registers", "publish"}

\* Slot 0 is the shell: it always can run, on the boot stack, and it is
\* never interrupted with interrupts off.
ShellInv ==
    /\ state[0] \in {"READY", "RUNNING"}
    /\ stack_base[0] = NoStack
    /\ pid[0] = 0
    /\ Image(0).pc \in CreatePoints
    /\ Image(0).rsp = BootStack
    /\ Image(0).iflag

\* process_create owns the slot i it works on, from the scan to READY.
CreateInv ==
    LET c == Image(0) IN
    /\ c.pc = "reserve" => /\ c.i # 0 /\ state[c.i] = "DEAD"
                           /\ c.i # current_process_index
                           /\ pid[c.i] # 0
    /\ c.pc \in Reserved => /\ c.i # 0 /\ state[c.i] = "SLEEPING"
                            /\ alloc_count[c.i] = 0
    /\ c.pc \in {"kmalloc", "stack"} => stack_base[c.i] = NoStack
    /\ c.pc \in {"registers", "publish"} => stack_base[c.i] # NoStack
    /\ c.pc = "publish" => context[c.i] = EntryRegisters(stack_base[c.i])
    /\ c.pc = "stack" <=> c.new_stack # NoStack
    /\ \A s \in Slots : state[s] = "SLEEPING" => c.pc \in Reserved /\ c.i = s

\* Where a process other than the shell can be, and on which stack.
ThreadInv ==
    \A s \in Slots \ {0} : Resumable(s) =>
        LET c == Image(s) IN
        /\ stack_base[s] # NoStack
        /\ c.pc \in ThreadPoints \ {"returned"}
        /\ state[s] = "DEAD" <=> c.pc \in {"wait", "halt"}
        /\ c.pc = "thread" => c.rsp = stack_base[s] /\ c.iflag
        /\ c.pc = "user" => c.rsp = UserStack /\ c.iflag
        /\ c.pc = "syscall" => c.rsp = SharedStack /\ ~c.iflag
        /\ c.pc \in {"exit", "die", "wait"} =>
              \/ c.rsp = stack_base[s] /\ c.iflag
              \/ c.rsp = SharedStack /\ ~c.iflag
        /\ c.pc = "halt" => c.rsp \in {stack_base[s], SharedStack} /\ c.iflag
        /\ c.pc \in {"die", "wait"} => c.i = s /\ alloc_count[s] = 0
        /\ state[s] = "READY" => c.iflag

\* A DEAD slot has a stack only until the interrupt that switches away from it.
DeadInv ==
    \A s \in Slots : state[s] = "DEAD" =>
        /\ alloc_count[s] = 0
        /\ s # current_process_index => stack_base[s] = NoStack

\* Pids are never reused, and only the boot process and unused slots have 0.
PidInv ==
    /\ next_pid > 0
    /\ \A s \in Slots : pid[s] < next_pid
    /\ \A s \in Slots \ {0} : state[s] # "DEAD" => pid[s] # 0
    /\ \A s, t \in Slots : pid[s] = pid[t] => s = t \/ pid[s] = 0

\* The stack in process_create's hands is nobody else's.
NewStackInv ==
    LET n == Image(0).new_stack IN
    n # NoStack => n \notin free /\ \A s \in Slots : stack_base[s] # n

\* The stack under an interrupt handler is the interrupted process's or free,
\* and not the one in process_create's hands.
HandlerInv ==
    irq_stack \in Stacks =>
        /\ Image(0).new_stack # irq_stack
        /\ \/ irq_stack \in free
           \/ \E s \in Slots : stack_base[s] = irq_stack /\ context[s].rsp = irq_stack

IInv == /\ TypeOK /\ OneRunner /\ ShellInv /\ CreateInv /\ ThreadInv
        /\ DeadInv /\ PidInv /\ StacksDisjoint /\ NewStackInv /\ NoStackLost
        /\ HandlerInv
=============================================================================
