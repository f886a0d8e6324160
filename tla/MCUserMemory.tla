---------------------------- MODULE MCUserMemory ----------------------------
(* Instances of UserMemory for TLC.  Pages 1..4 are the user region, page 5 *)
(* is a page outside of it.                                                *)
EXTENDS UserMemory

CONSTANTS p1, p2

OneProc == {p1}
TwoProcs == {p1, p2}
MCRegion == 1..4
MCVPages == 1..5
MCStack == <<4>>

\* Programs inside the region: two segments that share a page, a segment the
\* loader refuses, and the built-in one.
InsideImages == {[pages |-> <<1, 2, 2, 3>>, builtin |-> FALSE],
                 [pages |-> <<2, KERNEL_SEGMENT>>, builtin |-> FALSE],
                 [pages |-> <<1>>, builtin |-> TRUE]}
SmallImage == {[pages |-> <<1>>, builtin |-> FALSE]}
\* A program that is linked outside the region.
OutsideImages == {[pages |-> <<5>>, builtin |-> FALSE]}
LargeImages == {[pages |-> <<1, 2, 3>>, builtin |-> FALSE]}
=============================================================================
