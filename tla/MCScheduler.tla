----------------------------- MODULE MCScheduler -----------------------------
(* Instances of Scheduler for TLC.                                         *)
EXTENDS SchedulerInv

CONSTANTS s1, s2        \* stacks, as model values

MCStacks == {s1, s2}
=============================================================================
