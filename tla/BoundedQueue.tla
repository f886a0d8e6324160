---------------------------- MODULE BoundedQueue ----------------------------
(***************************************************************************)
(* What a ring promises its reader, the keyboard ring of                   *)
(* drivers/keyboard.c and the descriptor rings of drivers/e1000.c: a       *)
(* first-in first-out queue of at most Capacity items.  An item offered to *)
(* a full queue may be lost; nothing that was put is lost, doubled or      *)
(* reordered.                                                              *)
(***************************************************************************)
EXTENDS Naturals, Sequences

CONSTANTS Items, Capacity

VARIABLES
    queue,      \* items put and not yet taken
    taken       \* the item taken last, 0 before the first

Init == queue = <<>> /\ taken = 0

Put(x) ==
    /\ Len(queue) < Capacity
    /\ queue' = Append(queue, x)
    /\ UNCHANGED taken

Get ==
    /\ queue # <<>>
    /\ taken' = Head(queue)
    /\ queue' = Tail(queue)

Next == Get \/ \E x \in Items : Put(x)

Spec == Init /\ [][Next]_<<queue, taken>>
=============================================================================
