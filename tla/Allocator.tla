------------------------------ MODULE Allocator ------------------------------
(***************************************************************************)
(* What kmalloc and kfree promise to the rest of the kernel: the areas     *)
(* that are handed out and not yet given back never overlap.               *)
(***************************************************************************)
EXTENDS Integers

VARIABLE live       \* the areas in use: pairs <<address, length>>

Disjoint(x, y) == x[1] + x[2] <= y[1] \/ y[1] + y[2] <= x[1]

AInit == live = {}

\* A new area, of any address and length that do not clash with the others.
Malloc == \E x \in live' \ live :
             /\ x \in (Nat \ {0}) \X (Nat \ {0})
             /\ \A y \in live : Disjoint(x, y)
             /\ live' = live \cup {x}

\* One of the areas in use is given back.
Free == \E x \in live : live' = live \ {x}

ANext == Malloc \/ Free

ASpec == AInit /\ [][ANext]_live
=============================================================================
