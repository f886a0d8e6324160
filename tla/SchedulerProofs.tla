--------------------------- MODULE SchedulerProofs ---------------------------
(***************************************************************************)
(* The process table of kernel/process.c is safe and is a round-robin      *)
(* dispatcher, for every table size, pool of stacks and bound on pids.     *)
(* One lemma per action shows that IInv (module SchedulerInv) survives it; *)
(* the theorems follow from IInv.                                          *)
(***************************************************************************)
EXTENDS SchedulerInv, TLAPS

\* Slot 0 is a slot of the table.
LEMMA SlotZero == 0 \in Slots
  BY MaxProcessesAssumption DEF Slots

\* Code of process_create only runs in slot 0.
LEMMA ShellRuns ==
  ASSUME IInv, cpu.pc \in CreatePoints
  PROVE  current_process_index = 0 /\ Image(0) = cpu
  BY SlotZero DEF IInv, TypeOK, ThreadInv, Resumable, Image, CreatePoints, ThreadPoints

\* Code of a thread only runs in the other slots.
LEMMA ThreadRuns ==
  ASSUME IInv, cpu.pc \in ThreadPoints
  PROVE  /\ current_process_index \in Slots \ {0}
         /\ Resumable(current_process_index)
         /\ Image(current_process_index) = cpu
         /\ Image(0) = context[0]
  BY SlotZero DEF IInv, TypeOK, ShellInv, Resumable, Image, CreatePoints, ThreadPoints

\* Outside an interrupt nothing is to be shown of the handler's stack.
LEMMA NoHandler == ASSUME irq_stack' = NoStack PROVE HandlerInv'
  BY StacksAssumption DEF HandlerInv

\* process_init establishes the invariant.
LEMMA InitIInv == Init => IInv
  <1> SUFFICES ASSUME Init PROVE IInv
    OBVIOUS
  <1> USE SlotZero, MaxProcessesAssumption, MaxAllocationsAssumption, StacksAssumption
  <1>1. TypeOK
    BY DEF Init, TypeOK, State, Registers, ZeroRegisters, Regs, CreatePoints, ThreadPoints
  <1>2. OneRunner /\ ShellInv /\ ThreadInv /\ DeadInv /\ PidInv
    BY DEF Regs, Init, OneRunner, ShellInv, ThreadInv, DeadInv, PidInv, Image, Resumable, CreatePoints
  <1>3. CreateInv
    BY DEF Regs, Init, CreateInv, Image, Reserved
  <1>4. StacksDisjoint /\ NewStackInv /\ NoStackLost /\ HandlerInv
    BY DEF Regs, Init, StacksDisjoint, NewStackInv, NoStackLost, HandlerInv, Image
  <1> QED BY <1>1, <1>2, <1>3, <1>4 DEF IInv

\* process_create has picked a DEAD slot and written its pid.
LEMMA CreatePickStep ==
  ASSUME IInv, NEW i \in Slots, CreatePick(i), irq_stack' = NoStack
  PROVE  IInv'
  <1> USE SlotZero DEF CreatePick, Regs
  <1>1. current_process_index = 0 /\ Image(0) = cpu
    BY ShellRuns DEF CreatePoints
  <1>2. Image(0)' = cpu' /\ \A s \in Slots \ {0} : Image(s)' = context[s]
    BY <1>1 DEF Image
  <1>3. TypeOK'
    BY <1>1 DEF IInv, TypeOK, Registers, CreatePoints
  <1>4. OneRunner' /\ ShellInv'
    BY <1>1, <1>2 DEF IInv, TypeOK, OneRunner, ShellInv, CreatePoints
  <1>5. CreateInv'
    <2>1. \A s \in Slots : state[s] # "SLEEPING"
      BY <1>1 DEF IInv, CreateInv, Reserved
    <2>2. pid'[i] # 0
      BY DEF IInv, TypeOK, PidInv
    <2> QED BY <1>1, <1>2, <2>1, <2>2 DEF CreateInv, Reserved
  <1>6. ThreadInv'
    BY <1>1, <1>2 DEF IInv, TypeOK, ThreadInv, Resumable, Image
  <1>7. DeadInv' /\ PidInv'
    BY DEF IInv, TypeOK, DeadInv, PidInv
  <1>8. StacksDisjoint' /\ NewStackInv' /\ NoStackLost'
    BY <1>1, <1>2 DEF IInv, CreateInv, StacksDisjoint, NewStackInv, NoStackLost
  <1> QED BY <1>3, <1>4, <1>5, <1>6, <1>7, <1>8, NoHandler DEF IInv

\* The slot is SLEEPING and its page records are cleared.
LEMMA CreateReserveStep ==
  ASSUME IInv, CreateReserve, irq_stack' = NoStack
  PROVE  IInv'
  <1> USE SlotZero DEF CreateReserve, Goto, ReservedState
  <1>1. current_process_index = 0 /\ Image(0) = cpu /\ cpu.i \in Slots \ {0}
    BY ShellRuns DEF CreatePoints, IInv, TypeOK, Registers, CreateInv
  <1>2. Image(0)' = cpu' /\ \A s \in Slots \ {0} : Image(s)' = context[s]
    BY <1>1 DEF Image
  <1>3. TypeOK'
    BY <1>1, MaxAllocationsAssumption DEF IInv, TypeOK, State, Registers, CreatePoints
  <1>4. OneRunner' /\ ShellInv'
    BY <1>1, <1>2 DEF IInv, TypeOK, Registers, OneRunner, ShellInv, CreatePoints
  <1>5. CreateInv'
    BY <1>1, <1>2 DEF IInv, TypeOK, Registers, CreateInv, DeadInv, Reserved
  <1>6. ThreadInv'
    BY <1>1, <1>2 DEF IInv, TypeOK, ThreadInv, Resumable, Image
  <1>7. DeadInv' /\ PidInv'
    BY <1>1 DEF IInv, TypeOK, DeadInv, PidInv, CreateInv
  <1>8. StacksDisjoint' /\ NewStackInv' /\ NoStackLost'
    BY <1>1, <1>2 DEF IInv, TypeOK, Registers, StacksDisjoint, NewStackInv, NoStackLost
  <1> QED BY <1>3, <1>4, <1>5, <1>6, <1>7, <1>8, NoHandler DEF IInv

\* kmalloc gave process_create a stack, held in a local.
LEMMA CreateKmallocStep ==
  ASSUME IInv, CreateKmalloc, irq_stack' = NoStack
  PROVE  IInv'
  <1> USE SlotZero DEF Regs
  <1> PICK stk \in free : /\ free' = free \ {stk}
                          /\ cpu' = Regs("stack", cpu.rsp, cpu.iflag, cpu.i, stk)
    BY DEF CreateKmalloc
  <1>0. cpu.pc = "kmalloc" /\ UNCHANGED <<state, pid, stack_base, alloc_count, context,
                   current_process_index, next_pid>>
    BY DEF CreateKmalloc
  <1>1. current_process_index = 0 /\ Image(0) = cpu /\ cpu.i \in Slots \ {0} /\ stk \in Stacks /\ stk # NoStack
    BY <1>0, ShellRuns, StacksAssumption DEF CreatePoints, IInv, TypeOK, Registers, CreateInv, Reserved
  <1>2. Image(0)' = cpu' /\ \A s \in Slots \ {0} : Image(s)' = context[s]
    BY <1>0, <1>1 DEF Image
  <1>3. TypeOK'
    BY <1>0, <1>1 DEF IInv, TypeOK, Registers, CreatePoints
  <1>4. OneRunner' /\ ShellInv'
    BY <1>0, <1>1, <1>2 DEF IInv, TypeOK, OneRunner, ShellInv, CreatePoints
  <1>5. CreateInv'
    BY <1>0, <1>1, <1>2 DEF IInv, TypeOK, CreateInv, Reserved
  <1>6. ThreadInv'
    BY <1>0, <1>1, <1>2 DEF IInv, TypeOK, ThreadInv, Resumable, Image
  <1>7. DeadInv' /\ PidInv'
    BY <1>0 DEF IInv, DeadInv, PidInv
  <1>8. StacksDisjoint' /\ NewStackInv' /\ NoStackLost'
    BY <1>0, <1>1, <1>2 DEF IInv, TypeOK, CreateInv, StacksDisjoint, NewStackInv, NoStackLost
  <1> QED BY <1>3, <1>4, <1>5, <1>6, <1>7, <1>8, NoHandler DEF IInv

\* kmalloc failed and the reservation is undone.
LEMMA CreateKmallocFailsStep ==
  ASSUME IInv, CreateKmallocFails, irq_stack' = NoStack
  PROVE  IInv'
  <1> USE SlotZero DEF CreateKmallocFails, Goto, UndoReservation
  <1>1. current_process_index = 0 /\ Image(0) = cpu /\ cpu.i \in Slots \ {0}
    BY ShellRuns DEF CreatePoints, IInv, TypeOK, Registers, CreateInv, Reserved
  <1>2. Image(0)' = cpu' /\ \A s \in Slots \ {0} : Image(s)' = context[s]
    BY <1>1 DEF Image
  <1>3. TypeOK'
    BY <1>1 DEF IInv, TypeOK, State, Registers, CreatePoints
  <1>4. OneRunner' /\ ShellInv'
    BY <1>1, <1>2 DEF IInv, TypeOK, Registers, OneRunner, ShellInv, CreatePoints
  <1>5. CreateInv'
    BY <1>1, <1>2 DEF IInv, TypeOK, Registers, CreateInv, Reserved
  <1>6. ThreadInv'
    BY <1>1, <1>2 DEF IInv, TypeOK, ThreadInv, Resumable, Image
  <1>7. DeadInv' /\ PidInv'
    BY <1>1 DEF IInv, TypeOK, DeadInv, PidInv, CreateInv, Reserved
  <1>8. StacksDisjoint' /\ NewStackInv' /\ NoStackLost'
    BY <1>1, <1>2 DEF IInv, TypeOK, Registers, StacksDisjoint, NewStackInv, NoStackLost
  <1> QED BY <1>3, <1>4, <1>5, <1>6, <1>7, <1>8, NoHandler DEF IInv

\* The stack moves from the local to the slot.
LEMMA CreateStackStep ==
  ASSUME IInv, CreateStack, irq_stack' = NoStack
  PROVE  IInv'
  <1> USE SlotZero DEF CreateStack, Regs
  <1>1. /\ current_process_index = 0 /\ Image(0) = cpu
        /\ cpu.i \in Slots \ {0} /\ cpu.new_stack \in Stacks /\ cpu.new_stack # NoStack
    BY ShellRuns DEF CreatePoints, IInv, TypeOK, Registers, CreateInv, Reserved
  <1>2. Image(0)' = cpu' /\ \A s \in Slots \ {0} : Image(s)' = context[s]
    BY <1>1 DEF Image
  <1>3. TypeOK'
    BY <1>1 DEF IInv, TypeOK, Registers, CreatePoints
  <1>4. OneRunner' /\ ShellInv'
    BY <1>1, <1>2 DEF IInv, TypeOK, OneRunner, ShellInv, CreatePoints
  <1>5. CreateInv'
    BY <1>1, <1>2 DEF IInv, TypeOK, CreateInv, Reserved
  <1>6. ThreadInv'
    BY <1>1, <1>2 DEF IInv, TypeOK, ThreadInv, Resumable, Image, CreateInv, Reserved
  <1>7. DeadInv' /\ PidInv'
    BY <1>1 DEF IInv, TypeOK, DeadInv, PidInv, CreateInv, Reserved
  <1>8. StacksDisjoint' /\ NewStackInv' /\ NoStackLost'
    BY <1>1, <1>2 DEF IInv, TypeOK, CreateInv, StacksDisjoint, NewStackInv, NoStackLost
  <1> QED BY <1>3, <1>4, <1>5, <1>6, <1>7, <1>8, NoHandler DEF IInv

\* The initial registers are written.
LEMMA CreateRegistersStep ==
  ASSUME IInv, CreateRegisters, irq_stack' = NoStack
  PROVE  IInv'
  <1> USE SlotZero DEF CreateRegisters, Goto
  <1>1. /\ current_process_index = 0 /\ Image(0) = cpu
        /\ cpu.i \in Slots \ {0} /\ state[cpu.i] = "SLEEPING"
    BY ShellRuns DEF CreatePoints, IInv, TypeOK, Registers, CreateInv, Reserved
  <1>2. Image(0)' = cpu' /\ \A s \in Slots \ {0} : s # cpu.i => Image(s)' = Image(s)
    BY <1>1 DEF Image, IInv, TypeOK
  <1>3. TypeOK'
    BY <1>1 DEF IInv, TypeOK, Registers, CreatePoints, ThreadPoints, EntryRegisters, Regs
  <1>4. OneRunner' /\ ShellInv'
    BY <1>1, <1>2 DEF IInv, TypeOK, Registers, OneRunner, ShellInv, CreatePoints
  <1>5. CreateInv'
    BY <1>1, <1>2 DEF IInv, TypeOK, Registers, CreateInv, Reserved
  <1>6. ThreadInv'
    BY <1>1, <1>2 DEF IInv, TypeOK, ThreadInv, Resumable
  <1>7. DeadInv' /\ PidInv'
    BY <1>1 DEF IInv, DeadInv, PidInv
  <1>8. StacksDisjoint' /\ NewStackInv' /\ NoStackLost'
    BY <1>1, <1>2 DEF IInv, TypeOK, Registers, StacksDisjoint, NewStackInv, NoStackLost
  <1> QED BY <1>3, <1>4, <1>5, <1>6, <1>7, <1>8, NoHandler DEF IInv

\* The slot becomes READY: its image is a thread on its own stack.
LEMMA CreatePublishStep ==
  ASSUME IInv, CreatePublish, irq_stack' = NoStack
  PROVE  IInv'
  <1> USE SlotZero DEF CreatePublish, Goto
  <1>1. /\ current_process_index = 0 /\ Image(0) = cpu
        /\ cpu.i \in Slots \ {0} /\ state[cpu.i] = "SLEEPING"
        /\ stack_base[cpu.i] # NoStack
        /\ context[cpu.i] = EntryRegisters(stack_base[cpu.i])
    BY ShellRuns DEF CreatePoints, IInv, TypeOK, Registers, CreateInv, Reserved
  <1>2. Image(0)' = cpu' /\ \A s \in Slots \ {0} : Image(s)' = Image(s) /\ Image(s) = context[s]
    BY <1>1 DEF Image, IInv, TypeOK
  <1>3. TypeOK'
    BY <1>1 DEF IInv, TypeOK, State, Registers, CreatePoints
  <1>4. OneRunner' /\ ShellInv'
    BY <1>1, <1>2 DEF IInv, TypeOK, Registers, OneRunner, ShellInv, CreatePoints
  <1>5. CreateInv'
    BY <1>1, <1>2 DEF IInv, TypeOK, Registers, CreateInv, Reserved
  <1>6. ThreadInv'
    BY <1>1, <1>2 DEF IInv, TypeOK, ThreadInv, Resumable, EntryRegisters, Regs, ThreadPoints
  <1>7. DeadInv' /\ PidInv'
    BY <1>1 DEF IInv, TypeOK, DeadInv, PidInv
  <1>8. StacksDisjoint' /\ NewStackInv' /\ NoStackLost'
    BY <1>1, <1>2 DEF IInv, TypeOK, Registers, StacksDisjoint, NewStackInv, NoStackLost
  <1> QED BY <1>3, <1>4, <1>5, <1>6, <1>7, <1>8, NoHandler DEF IInv

-----------------------------------------------------------------------------
(* The steps of the other processes.                                       *)

\* The pid lookup of a running thread finds its own slot.
LEMMA OwnSlot ==
  ASSUME IInv, cpu.pc \in ThreadPoints, state[current_process_index] # "DEAD",
         NEW s \in Slots, SlotOfPid(pid[current_process_index], s)
  PROVE  s = current_process_index
  BY ThreadRuns DEF IInv, PidInv, SlotOfPid, HasPid

\* A page is recorded for the running thread.
LEMMA TrackAllocationStep ==
  ASSUME IInv, TrackAllocation, irq_stack' = NoStack
  PROVE  IInv'
  <1> DEFINE c == current_process_index
  <1>0. /\ cpu.pc = "thread" 
        /\ UNCHANGED <<state, pid, stack_base, context, current_process_index,
                       next_pid, free, cpu>>
    BY DEF TrackAllocation
  <1>1. c \in Slots \ {0} /\ Resumable(c) /\ Image(c) = cpu /\ state[c] # "DEAD"
    BY <1>0, ThreadRuns DEF ThreadPoints, IInv, ThreadInv
  <1>2. alloc_count[c] < MAX_ALLOCATIONS_PER_PROC /\ alloc_count' = [alloc_count EXCEPT ![c] = @ + 1]
    BY <1>0, <1>1, OwnSlot DEF TrackAllocation, ThreadPoints
  <1>3. \A s \in Slots : Image(s)' = Image(s) /\ Resumable(s)' = Resumable(s)
    BY <1>0 DEF Image, Resumable
  <1>4. TypeOK'
    BY <1>0, <1>1, <1>2, MaxAllocationsAssumption DEF IInv, TypeOK
  <1>5. OneRunner' /\ ShellInv'
    BY <1>0, <1>3, SlotZero DEF IInv, OneRunner, ShellInv
  <1>6. CreateInv'
    BY <1>0, <1>1, <1>2, <1>3, SlotZero DEF IInv, TypeOK, OneRunner, CreateInv, Reserved
  <1>7. ThreadInv'
    BY <1>0, <1>1, <1>2, <1>3 DEF IInv, TypeOK, ThreadInv
  <1>8. DeadInv' /\ PidInv'
    BY <1>0, <1>1, <1>2 DEF IInv, TypeOK, DeadInv, PidInv
  <1>9. StacksDisjoint' /\ NewStackInv' /\ NoStackLost'
    BY <1>0, <1>3, SlotZero DEF IInv, StacksDisjoint, NewStackInv, NoStackLost
  <1> QED BY <1>4, <1>5, <1>6, <1>7, <1>8, <1>9, NoHandler DEF IInv

\* A step of a thread that only changes the registers preserves the invariant
\* when it preserves what ThreadInv says of the thread itself.
LEMMA ThreadRegistersStep ==
  ASSUME IInv, irq_stack' = NoStack, cpu.pc \in ThreadPoints, cpu' \in Registers, ThreadInv',
         UNCHANGED <<state, pid, stack_base, alloc_count, context,
                     current_process_index, next_pid, free>>
  PROVE  IInv'
  <1>1. Image(0)' = Image(0)
    BY ThreadRuns DEF Image
  <1>2. TypeOK'
    BY DEF IInv, TypeOK
  <1>3. OneRunner' /\ ShellInv' /\ CreateInv'
    BY <1>1 DEF IInv, OneRunner, ShellInv, CreateInv
  <1>4. DeadInv' /\ PidInv'
    BY DEF IInv, DeadInv, PidInv
  <1>5. StacksDisjoint' /\ NewStackInv' /\ NoStackLost'
    BY <1>1 DEF IInv, StacksDisjoint, NewStackInv, NoStackLost
  <1> QED BY <1>2, <1>3, <1>4, <1>5, NoHandler DEF IInv

\* What the invariant says of the running thread.
LEMMA RunningThread ==
  ASSUME IInv, cpu.pc \in ThreadPoints
  PROVE  LET c == current_process_index IN
         /\ c \in Slots \ {0}
         /\ cpu \in Registers
         /\ stack_base[c] # NoStack
         /\ state[c] \in {"RUNNING", "DEAD"}
         /\ state[c] = "DEAD" <=> cpu.pc \in {"wait", "halt"}
         /\ cpu.pc = "thread" => cpu.rsp = stack_base[c] /\ cpu.iflag
         /\ cpu.pc = "user" => cpu.rsp = UserStack /\ cpu.iflag
         /\ cpu.pc = "syscall" => cpu.rsp = SharedStack /\ ~cpu.iflag
         /\ cpu.pc \in {"exit", "die", "wait"} =>
              \/ cpu.rsp = stack_base[c] /\ cpu.iflag
              \/ cpu.rsp = SharedStack /\ ~cpu.iflag
         /\ cpu.pc \in {"die", "wait"} => cpu.i = c /\ alloc_count[c] = 0
  BY ThreadRuns DEF IInv, TypeOK, OneRunner, ThreadInv

\* iretq to ring 3.
LEMMA EnterUserStep ==
  ASSUME IInv, EnterUser, irq_stack' = NoStack
  PROVE  IInv'
  <1>1. ThreadInv'
    BY RunningThread DEF EnterUser, Regs, ThreadPoints, IInv, TypeOK, ThreadInv, Image, Resumable
  <1>2. cpu' \in Registers
    BY RunningThread DEF EnterUser, Regs, ThreadPoints, Registers
  <1> QED BY <1>1, <1>2, ThreadRegistersStep DEF EnterUser, ThreadPoints

\* The syscall instruction: the shared stack, interrupts off.
LEMMA SyscallEnterStep ==
  ASSUME IInv, SyscallEnter, irq_stack' = NoStack
  PROVE  IInv'
  <1> USE DEF SyscallEnter, InterruptsMasked, Regs
  <1>1. ThreadInv'
    BY RunningThread DEF ThreadPoints, IInv, TypeOK, ThreadInv, Image, Resumable
  <1>2. cpu' \in Registers
    BY RunningThread DEF ThreadPoints, Registers
  <1> QED BY <1>1, <1>2, ThreadRegistersStep DEF ThreadPoints

\* sysret back to ring 3.
LEMMA SyscallReturnStep ==
  ASSUME IInv, SyscallReturn, irq_stack' = NoStack
  PROVE  IInv'
  <1> USE DEF SyscallReturn, Regs
  <1>1. ThreadInv'
    BY RunningThread DEF ThreadPoints, IInv, TypeOK, ThreadInv, Image, Resumable
  <1>2. cpu' \in Registers
    BY RunningThread DEF ThreadPoints, Registers
  <1> QED BY <1>1, <1>2, ThreadRegistersStep DEF ThreadPoints

\* process_exit is called.
LEMMA ExitCallStep ==
  ASSUME IInv, ExitCall, irq_stack' = NoStack
  PROVE  IInv'
  <1> USE DEF ExitCall, Goto
  <1>1. cpu.pc \in ThreadPoints /\ cpu' \in Registers
    BY RunningThread DEF ThreadPoints, IInv, TypeOK, Registers
  <1>2. /\ cpu'.pc = "exit" /\ cpu'.rsp = cpu.rsp /\ cpu'.iflag = cpu.iflag
    BY DEF IInv, TypeOK, Registers
  <1>3. ThreadInv'
    BY <1>1, <1>2, RunningThread DEF ThreadPoints, IInv, TypeOK, ThreadInv, Image, Resumable
  <1> QED BY <1>1, <1>3, ThreadRegistersStep

\* The end of process_exit: the process halts, it does not return.
LEMMA ExitWaitStep ==
  ASSUME IInv, ExitWait, irq_stack' = NoStack
  PROVE  IInv'
  <1> USE DEF ExitWait, HaltFlag, Regs
  <1>1. cpu.pc \in ThreadPoints
    BY DEF ThreadPoints
  <1>2. cpu' = Regs("halt", cpu.rsp, TRUE, cpu.i, cpu.new_stack)
    BY <1>1, RunningThread
  <1>3. cpu' \in Registers
    BY <1>1, <1>2, RunningThread DEF ThreadPoints, Registers
  <1>4. ThreadInv'
    BY <1>1, <1>2, RunningThread DEF ThreadPoints, IInv, TypeOK, ThreadInv, Image, Resumable
  <1> QED BY <1>1, <1>3, <1>4, ThreadRegistersStep

\* process_exit gives the recorded pages back.
LEMMA ExitFreeAllocationsStep ==
  ASSUME IInv, ExitFreeAllocations, irq_stack' = NoStack
  PROVE  IInv'
  <1> DEFINE c == current_process_index
  <1>0. /\ cpu.pc = "exit"
        /\ UNCHANGED <<state, pid, stack_base, context, current_process_index,
                       next_pid, free>>
    BY DEF ExitFreeAllocations
  <1>1. cpu.pc \in ThreadPoints /\ c \in Slots \ {0} /\ state[c] = "RUNNING"
    BY <1>0, RunningThread DEF ThreadPoints
  <1>2. /\ alloc_count' = [alloc_count EXCEPT ![c] = 0]
        /\ cpu' = Regs("die", cpu.rsp, cpu.iflag, c, cpu.new_stack)
    BY <1>1, OwnSlot DEF ExitFreeAllocations
  <1>3. Image(0)' = Image(0)
    BY <1>0, <1>1 DEF Image
  <1>4. TypeOK'
    BY <1>0, <1>1, <1>2, MaxAllocationsAssumption
       DEF IInv, TypeOK, Registers, Regs, ThreadPoints
  <1>5. OneRunner' /\ ShellInv'
    BY <1>0, <1>3 DEF IInv, OneRunner, ShellInv
  <1>6. CreateInv'
    BY <1>0, <1>1, <1>2, <1>3 DEF IInv, TypeOK, CreateInv, Reserved
  <1>7. ThreadInv'
    BY <1>0, <1>1, <1>2, RunningThread
       DEF Regs, ThreadPoints, IInv, TypeOK, ThreadInv, Image, Resumable
  <1>8. DeadInv' /\ PidInv'
    BY <1>0, <1>1, <1>2 DEF IInv, TypeOK, DeadInv, PidInv
  <1>9. StacksDisjoint' /\ NewStackInv' /\ NoStackLost'
    BY <1>0, <1>3 DEF IInv, StacksDisjoint, NewStackInv, NoStackLost
  <1> QED BY <1>4, <1>5, <1>6, <1>7, <1>8, <1>9, NoHandler DEF IInv

\* The running process becomes DEAD.
LEMMA ExitDieStep ==
  ASSUME IInv, ExitDie, irq_stack' = NoStack
  PROVE  IInv'
  <1> DEFINE c == current_process_index
  <1> USE DEF ExitDie, Goto
  <1>1. /\ cpu.pc \in ThreadPoints /\ c \in Slots \ {0} /\ state[c] = "RUNNING"
        /\ cpu.i = c /\ alloc_count[c] = 0
    BY RunningThread DEF ThreadPoints
  <1>2. Image(0)' = Image(0)
    BY <1>1 DEF Image
  <1>3. TypeOK'
    BY <1>1 DEF IInv, TypeOK, State, Registers, ThreadPoints
  <1>4. OneRunner' /\ ShellInv'
    BY <1>1, <1>2 DEF IInv, TypeOK, OneRunner, ShellInv
  <1>5. CreateInv'
    BY <1>1, <1>2 DEF IInv, TypeOK, CreateInv, Reserved
  <1>6. ThreadInv'
    <2>1. /\ cpu'.pc = "wait" /\ cpu'.rsp = cpu.rsp /\ cpu'.iflag = cpu.iflag
          /\ cpu'.i = cpu.i
      BY DEF IInv, TypeOK, Registers
    <2> QED BY <1>1, <2>1, RunningThread
         DEF ThreadPoints, IInv, TypeOK, ThreadInv, Image, Resumable
  <1>7. DeadInv' /\ PidInv'
    BY <1>1 DEF IInv, TypeOK, DeadInv, PidInv
  <1>8. StacksDisjoint' /\ NewStackInv' /\ NoStackLost'
    BY <1>1, <1>2 DEF IInv, StacksDisjoint, NewStackInv, NoStackLost
  <1> QED BY <1>3, <1>4, <1>5, <1>6, <1>7, <1>8, NoHandler DEF IInv

-----------------------------------------------------------------------------
(* The timer interrupt.                                                    *)

\* process_schedule always finds a READY slot: the shell is one.
LEMMA ChosenIsReady ==
  ASSUME IInv, NEW n \in Slots, Chosen(Yielded, n)
  PROVE  Yielded[n] = "READY"
  <1>1. Yielded[0] = "READY"
    BY SlotZero DEF IInv, TypeOK, OneRunner, ShellInv, Yielded
  <1> QED BY <1>1, SlotZero DEF Chosen

\* What the interrupt makes of the states, the images and the stacks.
LEMMA ScheduleEffect ==
  ASSUME IInv, cpu.iflag, NEW n \in Slots, Schedule(n)
  PROVE  /\ state'[n] = "RUNNING" /\ current_process_index' = n
         /\ Image(n)' = Image(n)
         /\ n = current_process_index \/ state[n] = "READY"
         /\ n = current_process_index => state[n] = "RUNNING"
         /\ \A s \in Slots : s # n =>
               /\ Image(s)' = Image(s)
               /\ state'[s] = Yielded[s]
               /\ state'[s] = "READY" <=> Resumable(s) /\ state[s] # "DEAD"
         /\ \A s \in Slots : (state'[s] = "DEAD" <=> state[s] = "DEAD")
                          /\ (state'[s] = "SLEEPING" <=> state[s] = "SLEEPING")
  <1> USE DEF IInv, TypeOK, OneRunner
  <1>1. Yielded[n] = "READY"
    BY ChosenIsReady DEF Schedule
  <1>2. n = current_process_index \/ state[n] = "READY"
    BY <1>1 DEF Yielded
  <1>3. n = current_process_index => state[n] = "RUNNING"
    BY <1>1 DEF Yielded
  <1>4. state'[n] = "RUNNING" /\ \A s \in Slots : s # n => state'[s] = Yielded[s]
    BY DEF Schedule, Yielded
  <1>5. current_process_index' = n /\ cpu' = context'[n]
        /\ context' = [context EXCEPT ![current_process_index] = cpu]
    BY DEF Schedule
  <1>6. \A s \in Slots : Image(s)' = context'[s] /\ context'[s] = Image(s)
    BY <1>5 DEF Image
  <1>7. \A s \in Slots : s # n => (state'[s] = "READY" <=> Resumable(s) /\ state[s] # "DEAD")
    BY <1>4 DEF Yielded, Resumable
  <1>8. \A s \in Slots : (state'[s] = "DEAD" <=> state[s] = "DEAD")
                      /\ (state'[s] = "SLEEPING" <=> state[s] = "SLEEPING")
    BY <1>1, <1>4, <1>2, <1>3 DEF Yielded
  <1> QED BY <1>2, <1>3, <1>4, <1>5, <1>6, <1>7, <1>8

\* The timer interrupt: save, choose, switch and reap.
LEMMA TickStep ==
  ASSUME IInv, Tick
  PROVE  IInv'
  <1> PICK n \in Slots : Schedule(n)
    BY DEF Tick
  <1> DEFINE c == current_process_index
  <1>0. cpu.iflag /\ UNCHANGED <<pid, alloc_count, next_pid>>
    BY DEF Tick, Schedule
  <1>1. /\ state'[n] = "RUNNING" /\ current_process_index' = n
        /\ n = c \/ state[n] = "READY"
        /\ n = c => state[n] = "RUNNING"
        /\ \A s \in Slots : Image(s)' = Image(s)
        /\ \A s \in Slots : s # n =>
              /\ state'[s] = Yielded[s]
              /\ state'[s] = "READY" <=> Resumable(s) /\ state[s] # "DEAD"
        /\ \A s \in Slots : (state'[s] = "DEAD" <=> state[s] = "DEAD")
                         /\ (state'[s] = "SLEEPING" <=> state[s] = "SLEEPING")
    BY <1>0, ScheduleEffect
  <1>2. \A s \in Slots : stack_base'[s] = IF s \in Reapable(n) THEN NoStack ELSE stack_base[s]
    BY DEF Schedule
  <1>3. \A s \in Slots : state[s] # "DEAD" => stack_base'[s] = stack_base[s]
    BY <1>2 DEF Reapable
  <1>4. TypeOK'
    <2>1. state' \in [Slots -> State]
      BY DEF Schedule, Yielded, IInv, TypeOK, State
    <2>2. free' \subseteq Stacks /\ stack_base' \in [Slots -> Stacks \cup {NoStack}]
      BY DEF Schedule, IInv, TypeOK, Reapable
    <2>3. context' \in [Slots -> Registers] /\ cpu' \in Registers
      BY DEF Schedule, IInv, TypeOK
    <2>4. irq_stack' \in Stacks \cup {NoStack, BootStack, SharedStack}
      BY DEF Tick, InterruptStack, IInv, TypeOK, Registers
    <2> QED BY <1>0, <1>1, <2>1, <2>2, <2>3, <2>4 DEF IInv, TypeOK
  <1>5. OneRunner'
    BY <1>1 DEF IInv, TypeOK, OneRunner, Yielded
  <1>6. ShellInv'
    BY <1>0, <1>1, <1>3, SlotZero DEF IInv, TypeOK, OneRunner, ShellInv, Resumable
  <1>7. CreateInv'
    <2> DEFINE d == Image(0)
    <2>1. d.i \in Slots
      BY SlotZero DEF IInv, TypeOK, Registers, Image
    <2>2. d.pc = "publish" => context'[d.i] = context[d.i]
      BY <2>1 DEF IInv, TypeOK, OneRunner, CreateInv, Reserved, Schedule
    <2>3. d.pc = "reserve" => d.i # n
      BY <2>1, <1>1 DEF IInv, CreateInv
    <2> QED BY <1>0, <1>1, <1>3, <2>1, <2>2, <2>3, SlotZero DEF IInv, CreateInv, Reserved
  <1>8. ThreadInv'
    <2> SUFFICES ASSUME NEW s \in Slots \ {0}, Resumable(s)'
                 PROVE  /\ state[s] # "DEAD" /\ state'[s] # "DEAD" /\ Resumable(s)
                        /\ state'[s] = "READY" => Image(s).iflag
      BY <1>0, <1>1, <1>3 DEF IInv, ThreadInv
    <2>1. state[s] # "DEAD" /\ Resumable(s)
      BY <1>1 DEF Resumable, IInv, TypeOK
    <2>2. Image(s).iflag
      BY <1>0, <2>1 DEF IInv, ThreadInv, Image, Resumable
    <2> QED BY <1>1, <2>1, <2>2
  <1>9. DeadInv' /\ PidInv'
    <2>1. \A s \in Slots \ {0} : s # n /\ state[s] = "DEAD" => stack_base'[s] = NoStack
      BY <1>2 DEF Reapable
    <2>2. DeadInv'
      BY <1>0, <1>1, <2>1 DEF IInv, ShellInv, DeadInv
    <2>3. PidInv'
      BY <1>0, <1>1 DEF IInv, PidInv
    <2> QED BY <2>2, <2>3
  <1>10. free' = free \cup {stack_base[s] : s \in Reapable(n)}
    BY DEF Schedule
  <1>11. StacksDisjoint'
    BY <1>2, <1>10 DEF IInv, StacksDisjoint, Reapable
  <1>12. NewStackInv'
    BY <1>1, <1>2, <1>10, SlotZero DEF IInv, NewStackInv, Reapable
  <1>13. NoStackLost'
    BY <1>1, <1>2, <1>10, SlotZero DEF IInv, NoStackLost
  <1>14. HandlerInv'
    <2> SUFFICES ASSUME irq_stack' \in Stacks
                 PROVE  /\ Image(0).new_stack # irq_stack'
                        /\ \/ irq_stack' \in free'
                           \/ stack_base'[c] = irq_stack' /\ context'[c].rsp = irq_stack'
      BY <1>1, SlotZero DEF HandlerInv, IInv, TypeOK
    <2>1. irq_stack' = cpu.rsp
      BY StacksAssumption DEF Tick, InterruptStack
    <2>2. c \in Slots \ {0} /\ Resumable(c) /\ Image(c) = cpu
      BY <2>1, StacksAssumption DEF IInv, TypeOK, ShellInv, Resumable, Image
    <2>3. cpu.rsp = stack_base[c] /\ stack_base[c] # NoStack
      BY <2>1, <2>2, StacksAssumption DEF IInv, ThreadInv, ThreadPoints
    <2>4. Image(0).new_stack # cpu.rsp
      BY <2>2, <2>3 DEF IInv, NewStackInv
    <2>5. context'[c] = cpu
      BY <2>2 DEF Schedule, IInv, TypeOK
    <2> QED BY <1>2, <1>10, <2>1, <2>2, <2>3, <2>4, <2>5
  <1> QED BY <1>4, <1>5, <1>6, <1>7, <1>8, <1>9, <1>11, <1>12, <1>13, <1>14 DEF IInv

\* The handler returns: only its stack is left.
LEMMA IrqReturnStep ==
  ASSUME IInv, IrqReturn
  PROVE  IInv'
  <1>1. TypeOK' /\ OneRunner' /\ ShellInv' /\ CreateInv' /\ ThreadInv'
    BY DEF IrqReturn, IInv, TypeOK, OneRunner, ShellInv, CreateInv, ThreadInv, Image, Resumable
  <1>2. DeadInv' /\ PidInv' /\ StacksDisjoint' /\ NewStackInv' /\ NoStackLost'
    BY DEF IrqReturn, IInv, DeadInv, PidInv, StacksDisjoint, NewStackInv, NoStackLost, Image
  <1> QED BY <1>1, <1>2, NoHandler DEF IInv, IrqReturn

-----------------------------------------------------------------------------
(* The theorems.                                                           *)

\* Every step preserves the invariant.
LEMMA NextStep == IInv /\ [Next]_vars => IInv'
  <1> SUFFICES ASSUME IInv, [Next]_vars PROVE IInv'
    OBVIOUS
  <1>1. CASE CreateStart \/ CreateProgress
    <2>1. irq_stack' = NoStack
      BY <1>1 DEF CreateStart, CreateProgress, HandlerReturned
    <2> QED BY <1>1, <2>1, CreatePickStep, CreateReserveStep, CreateKmallocStep,
               CreateKmallocFailsStep, CreateStackStep, CreateRegistersStep,
               CreatePublishStep DEF CreateStart, CreateProgress
  <1>2. CASE ThreadStep
    <2>1. irq_stack' = NoStack
      BY <1>2 DEF ThreadStep, HandlerReturned
    <2> QED BY <1>2, <2>1, TrackAllocationStep, EnterUserStep, SyscallEnterStep,
               SyscallReturnStep, ExitCallStep, ExitFreeAllocationsStep, ExitDieStep,
               ExitWaitStep DEF ThreadStep
  <1>3. CASE Tick \/ IrqReturn
    BY <1>3, TickStep, IrqReturnStep
  <1>4. CASE UNCHANGED vars
    BY <1>4 DEF vars, IInv, TypeOK, OneRunner, ShellInv, CreateInv, ThreadInv, DeadInv,
       PidInv, StacksDisjoint, NewStackInv, NoStackLost, HandlerInv, Image, Resumable
  <1> QED BY <1>1, <1>2, <1>3, <1>4 DEF Next

\* The inductive invariant holds in every reachable state of process.c's
\* process table, for every table size, stack pool and pid bound.
THEOREM Invariance == Spec => []IInv
  BY InitIInv, NextStep, PTL DEF Spec

\* Type correctness of the process table and of the registers.
THEOREM TypeCorrect == Spec => []TypeOK
  <1>1. IInv => TypeOK
    BY DEF IInv
  <1> QED BY <1>1, Invariance, PTL

\* At any interrupt, one slot runs, only processes whose registers are filled
\* in can be switched to, and process_exit never returns.
THEOREM SchedulingSafe == Spec => [](OneRunner /\ RunsInitialised /\ ExitNeverReturns)
  <1>1. IInv => OneRunner
    BY DEF IInv
  <1>2. IInv => RunsInitialised /\ ExitNeverReturns
    <2> SUFFICES ASSUME IInv, NEW s \in Slots, Resumable(s)
                 PROVE  /\ Image(s).rsp # NoStack
                        /\ Image(s).pc \in (IF s = 0 THEN CreatePoints ELSE ThreadPoints)
                        /\ Image(s).pc # "returned"
      BY DEF RunsInitialised, ExitNeverReturns
    <2>1. CASE s = 0
      BY <2>1 DEF IInv, ShellInv, CreatePoints, BootStack, NoStack
    <2>2. CASE s # 0
      <3>1. Image(s).pc \in ThreadPoints \ {"returned"}
        BY <2>2 DEF IInv, ThreadInv
      <3>2. Image(s).rsp \in {stack_base[s], UserStack, SharedStack} /\ stack_base[s] # NoStack
        BY <2>2, <3>1 DEF IInv, ThreadInv, ThreadPoints
      <3> QED BY <2>2, <3>1, <3>2 DEF NoStack, UserStack, SharedStack
    <2> QED BY <2>1, <2>2
  <1> QED BY <1>1, <1>2, Invariance, PTL

\* No process runs on a stack that is free or somebody else's; the stack under
\* an interrupt handler, which process_schedule may already have freed, is
\* nobody else's before iretq; no stack is freed twice or lost, and the shared
\* kernel stack serves one process.
THEOREM StacksSafe ==
    Spec => [](RunsOnOwnStack /\ StacksDisjoint /\ NoStackLost /\ SharedStackExclusive)
  <1>1. IInv => StacksDisjoint /\ NoStackLost
    BY DEF IInv
  <1>2. IInv => RunsOnOwnStack
    <2> SUFFICES ASSUME IInv, NEW s \in Slots, Resumable(s), Image(s).rsp \in Stacks
                 PROVE  Image(s).rsp = stack_base[s] /\ stack_base[s] \notin free
      BY DEF RunsOnOwnStack, IInv, HandlerInv
    <2>1. s # 0
      BY StacksAssumption DEF IInv, ShellInv
    <2>2. Image(s).rsp = stack_base[s] /\ stack_base[s] # NoStack
      BY <2>1, StacksAssumption DEF IInv, ThreadInv, ThreadPoints
    <2> QED BY <2>2 DEF IInv, StacksDisjoint
  <1>3. IInv => SharedStackExclusive
    <2> SUFFICES ASSUME IInv, NEW s \in Slots, state[s] = "READY"
                 PROVE  context[s].rsp # SharedStack
      BY DEF SharedStackExclusive
    <2>1. Resumable(s) /\ Image(s) = context[s]
      BY DEF Resumable, Image, IInv, OneRunner
    <2>2. CASE s = 0
      BY <2>1, <2>2 DEF IInv, ShellInv, BootStack, SharedStack
    <2>3. CASE s # 0
      <3>1. stack_base[s] # SharedStack
        BY StacksAssumption DEF IInv, TypeOK, NoStack, SharedStack
      <3> QED BY <2>1, <2>3, <3>1 DEF IInv, ThreadInv, ThreadPoints, UserStack, SharedStack
    <2> QED BY <2>2, <2>3
  <1> QED BY <1>1, <1>2, <1>3, Invariance, PTL

\* A free slot of the process table records no pages.
THEOREM DeadSlotsClean == Spec => []DeadHoldsNoPages
  <1>1. IInv => DeadHoldsNoPages
    BY DEF IInv, DeadInv, DeadHoldsNoPages
  <1> QED BY <1>1, Invariance, PTL

-----------------------------------------------------------------------------
(* The process table implements the round-robin dispatcher.                *)

RunnableSlots == {s \in Slots : state[s] \in {"READY", "RUNNING"}}

\* A step that leaves the runnable slots and the current slot alone.
LEMMA Stutter ==
  ASSUME RunnableSlots' = RunnableSlots, UNCHANGED current_process_index
  PROVE  UNCHANGED D!dvars
  BY DEF RunnableSlots, D!dvars

\* The timer interrupt is a preemption of the dispatcher.
LEMMA TickPreempts ==
  ASSUME IInv, Tick
  PROVE  D!Preempt
  <1> PICK n \in Slots : cpu.iflag /\ Schedule(n)
    BY DEF Tick
  <1>1. RunnableSlots' = RunnableSlots
    BY ChosenIsReady DEF RunnableSlots, Schedule, Yielded, IInv, TypeOK, OneRunner
  <1>2. \A s \in RunnableSlots : Yielded[s] = "READY"
    BY DEF RunnableSlots, Yielded, IInv, TypeOK, OneRunner
  <1>3. n \in RunnableSlots
    BY ChosenIsReady DEF RunnableSlots, Schedule, Yielded, IInv, TypeOK, OneRunner
  <1>4. \A s \in RunnableSlots : CircularDistance(n) <= CircularDistance(s)
    BY <1>2, SlotZero DEF Schedule, Chosen, RunnableSlots
  <1>5. current_process_index' = n
    BY DEF Schedule
  <1> QED BY <1>1, <1>3, <1>4, <1>5
       DEF D!Preempt, D!CircularDistance, CircularDistance, RunnableSlots

\* Every step is a step of the dispatcher or changes nothing it sees.
LEMMA StepRefines ==
  ASSUME IInv, [Next]_vars
  PROVE  [D!DNext]_(D!dvars)
  <1>1. CASE CreatePublish
    <2>1. current_process_index = 0 /\ cpu.i \in Slots \ {0} /\ state[cpu.i] = "SLEEPING"
      BY <1>1, ShellRuns
         DEF CreatePublish, CreatePoints, IInv, TypeOK, Registers, CreateInv, Reserved
    <2>2. D!Admit(cpu.i)
      BY <1>1, <2>1 DEF CreatePublish, D!Admit, IInv, TypeOK
    <2>3. cpu.i \in D!Slot
      BY <2>1 DEF D!Slot, Slots
    <2> QED BY <2>2, <2>3 DEF D!DNext, D!Admit
  <1>2. CASE ExitDie
    <2>1. cpu.i = current_process_index /\ current_process_index \in Slots \ {0}
      BY <1>2, RunningThread DEF ExitDie, ThreadPoints
    <2>2. D!Retire
      BY <1>2, <2>1 DEF ExitDie, D!Retire, IInv, TypeOK
    <2> QED BY <2>2 DEF D!DNext
  <1>3. CASE Tick
    BY <1>3, TickPreempts DEF D!DNext
  <1>4. CASE \E i \in Slots : CreatePick(i)
    BY <1>4, Stutter DEF CreatePick, RunnableSlots
  <1>5. CASE CreateReserve
    <2>1. cpu.i \in Slots /\ state[cpu.i] = "DEAD"
      BY <1>5, ShellRuns
         DEF CreateReserve, CreatePoints, IInv, TypeOK, Registers, CreateInv
    <2> QED BY <1>5, <2>1, Stutter DEF CreateReserve, ReservedState, RunnableSlots, IInv, TypeOK
  <1>6. CASE CreateKmallocFails
    <2>1. cpu.i \in Slots /\ state[cpu.i] = "SLEEPING"
      BY <1>6, ShellRuns
         DEF CreateKmallocFails, CreatePoints, IInv, TypeOK, Registers, CreateInv, Reserved
    <2> QED BY <1>6, <2>1, Stutter
            DEF CreateKmallocFails, UndoReservation, RunnableSlots, IInv, TypeOK
  <1>7. CASE CreateKmalloc \/ CreateStack \/ CreateRegisters
    BY <1>7, Stutter DEF CreateKmalloc, CreateStack, CreateRegisters, RunnableSlots
  <1>8. CASE TrackAllocation \/ EnterUser \/ SyscallEnter \/ SyscallReturn
    BY <1>8, Stutter
       DEF TrackAllocation, EnterUser, SyscallEnter, SyscallReturn, RunnableSlots
  <1>9. CASE ExitCall \/ ExitFreeAllocations \/ ExitWait
    BY <1>9, Stutter DEF ExitCall, ExitFreeAllocations, ExitWait, RunnableSlots
  <1>11. CASE IrqReturn
    BY <1>11, Stutter DEF IrqReturn, RunnableSlots
  <1>10. CASE UNCHANGED vars
    BY <1>10, Stutter DEF vars, RunnableSlots
  <1> QED BY <1>1, <1>2, <1>3, <1>4, <1>5, <1>6, <1>7, <1>8, <1>9, <1>10, <1>11
       DEF Next, CreateStart, CreateProgress, ThreadStep

\* Safety part of the refinement: every behaviour of the process table is one
\* of the round-robin dispatcher over its READY and RUNNING slots.
THEOREM RefinesDispatcher == Spec => D!DInit /\ [][D!DNext]_(D!dvars)
  <1>1. Init => D!DInit
    BY SlotZero DEF Init, D!DInit
  <1>2. IInv /\ [Next]_vars => [D!DNext]_(D!dvars)
    BY StepRefines
  <1> QED BY <1>1, <1>2, Invariance, PTL DEF Spec
=============================================================================
