------------------------------ MODULE HeapRace ------------------------------
(***************************************************************************)
(* The heap of kernel/heap.c on one CPU, with the timer interrupt: kmalloc *)
(* runs in process 0 with interrupts on, and process_schedule calls kfree  *)
(* for the stack of a dead process at any point of it.  kmalloc is cut     *)
(* after the choice of a block, after split_block and after is_free = 0;   *)
(* kfree in the interrupt runs to completion, and kfree of process 0 is    *)
(* not interrupted here (the race needs only kmalloc).                     *)
(***************************************************************************)
EXTENDS Heap, TLC

VARIABLES
    pc,         \* where process 0 is in kmalloc
    cand,       \* the local "blk" of kmalloc
    want,       \* the local "size" of kmalloc
    absorbed,   \* headers that left the list; kmalloc may still point at one
    stacks,     \* headers of the blocks that are stacks of dead processes
    buffers     \* headers of the other blocks that were handed out

racevars == <<vars, pc, cand, want, absorbed, stacks, buffers>>

RaceInit == /\ Init
            /\ pc = "idle" /\ cand = NULL /\ want = 0
            /\ absorbed = EmptyBlocks
            /\ stacks = {} /\ buffers = {}

\* The walk stops at a block that fits (heap.c:119-120).
Pick == /\ pc = "idle"
        /\ \E req \in Requests, b \in DOMAIN blk :
              /\ FirstFit(blk, b, align_up(req))
              /\ cand' = b /\ want' = align_up(req)
        /\ pc' = "split"
        /\ UNCHANGED <<vars, absorbed, stacks, buffers>>

\* split_block on a header that is still in the list, or on one that is not.
Split ==
    /\ pc = "split" /\ pc' = "mark"
    /\ IF cand \in DOMAIN blk
       THEN /\ blk' = IF Splits(blk, cand, want) THEN SplitBlocks(blk, cand, want) ELSE blk
            /\ heap_tail' = TakeTail(blk, heap_tail, cand, want)
       ELSE LET n == absorbed[cand].next IN
            /\ blk' = IF Splits(absorbed, cand, want) /\ n \in DOMAIN blk
                      THEN [blk EXCEPT ![n].prev = Rest(cand, want)] ELSE blk
            /\ heap_tail' = TakeTail(absorbed, heap_tail, cand, want)
    /\ UNCHANGED <<heap_head, heap_mapped_limit, pages, result, cand, want,
                   absorbed, stacks, buffers>>

\* is_free = 0 and the return; the block becomes a stack or a buffer.
Mark ==
    /\ pc = "mark" /\ pc' = "idle"
    /\ IF cand \in DOMAIN blk
       THEN blk' = [blk EXCEPT ![cand].is_free = FALSE] /\ UNCHANGED absorbed
       ELSE absorbed' = [absorbed EXCEPT ![cand].is_free = FALSE] /\ UNCHANGED blk
    /\ result' = cand + HEADER
    /\ \/ stacks' = stacks \cup {cand} /\ UNCHANGED buffers
       \/ buffers' = buffers \cup {cand} /\ UNCHANGED stacks
    /\ UNCHANGED <<heap_head, heap_tail, heap_mapped_limit, pages, cand, want>>

\* kfree, which leaves the headers it merges away behind in memory.
Kfree(b) == /\ b \in DOMAIN blk
            /\ kfree(b)
            /\ absorbed' = [a \in DOMAIN blk \ DOMAIN blk' |->
                              [blk[a] EXCEPT !.is_free = TRUE]] @@ absorbed
            /\ UNCHANGED <<pc, cand, want>>

\* process_schedule in the timer interrupt gives back a dead process's stack.
Reap == \E b \in stacks : Kfree(b) /\ stacks' = stacks \ {b} /\ UNCHANGED buffers

\* Process 0 gives back a buffer.
FreeBuffer == /\ pc = "idle"
              /\ \E b \in buffers : Kfree(b) /\ buffers' = buffers \ {b}
              /\ UNCHANGED stacks

RaceNext == Pick \/ Split \/ Mark \/ Reap \/ FreeBuffer

RaceSpec == RaceInit /\ [][RaceNext]_racevars

\* "kmalloc/kfree kilitsiz; scheduler kesme baglaminda kfree cagiriyor. Tek
\* cekirdekte sorun yok" (README.md:149-150): every block that was handed out
\* and not given back is a block of the list and is not free.
HandedOutIsUsed ==
    \A b \in stacks \cup buffers : b \in DOMAIN blk /\ ~blk[b].is_free
=============================================================================
