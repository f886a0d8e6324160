----------------------------- MODULE Dispatcher -----------------------------
(***************************************************************************)
(* What the scheduler of kernel/process.c promises, without contexts,      *)
(* stacks, pids or interrupt flags: a set of runnable slots, one of the    *)
(* slots holding the CPU, and a CPU that moves to the next runnable slot   *)
(* in circular order.  Slot 0 (the boot context, later the shell) never    *)
(* leaves.                                                                 *)
(***************************************************************************)
EXTENDS Integers

CONSTANT N                      \* number of slots, MAX_PROCESSES in the code

VARIABLES runnable, running

dvars == <<runnable, running>>

Slot == 0..(N - 1)

\* How many slots the circular search starting after "from" skips before s.
CircularDistance(from, s) == (s - from - 1) % N

DInit == /\ runnable = {0}
         /\ running = 0

\* A new process becomes runnable; it does not take the CPU by itself.
Admit(s) == /\ s \notin runnable
            /\ s # running
            /\ runnable' = runnable \cup {s}
            /\ UNCHANGED running

\* The process that holds the CPU ends; it keeps the CPU until it is preempted.
Retire == /\ running # 0
          /\ runnable' = runnable \ {running}
          /\ UNCHANGED running

\* The CPU goes to the runnable slot that the circular order visits first.
Preempt == /\ running' \in runnable
           /\ \A s \in runnable :
                 CircularDistance(running, running') <= CircularDistance(running, s)
           /\ UNCHANGED runnable

DNext == (\E s \in Slot : Admit(s)) \/ Retire \/ Preempt

DSpec == DInit /\ [][DNext]_dvars /\ WF_dvars(Preempt)
=============================================================================
