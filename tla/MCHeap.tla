------------------------------- MODULE MCHeap -------------------------------
(* Instance of Heap for TLC: addresses and sizes scaled down.               *)
EXTENDS Heap
=============================================================================
