-------------------------------- MODULE Heap --------------------------------
(***************************************************************************)
(* kernel/heap.c: a first-fit free list with headers in front of the       *)
(* blocks, splitting, coalescing and growth by pages.  Here kmalloc and    *)
(* kfree run to completion; HeapRace lets the timer interrupt into them.   *)
(*                                                                         *)
(* blk maps the address of each linked header to its fields.  A header     *)
(* that was absorbed by its neighbour is unreachable and leaves the        *)
(* domain.  The walk along "next" is in address order (AddressOrdered), so *)
(* the first fit is the fitting block with the lowest address.             *)
(***************************************************************************)
EXTENDS Integers

CONSTANTS
    HEADER,         \* sizeof(heap_block_t), 32
    HEAP_ALIGN,     \* 16
    PMM_PAGE_SIZE,  \* 4096
    HEAP_START,     \* HEAP_START_VIRT
    Requests,       \* the sizes the kernel asks for
    MaxPages        \* bound: physical pages there are for heap and others

ASSUME HeaderAssumption == HEADER \in Nat \ {0}
ASSUME AlignAssumption == HEAP_ALIGN \in Nat \ {0}
ASSUME PageAssumption == PMM_PAGE_SIZE \in Nat \ {0}
ASSUME StartAssumption == HEAP_START \in Nat \ {0}
ASSUME RequestsAssumption == Requests \subseteq Nat \ {0}
ASSUME MaxPagesAssumption == MaxPages \in Nat

VARIABLES
    blk, heap_head, heap_tail, heap_mapped_limit,
    pages,      \* physical pages pmm_alloc_page can still return
    result      \* what the last kmalloc returned

heapvars == <<blk, heap_head, heap_tail, heap_mapped_limit>>
vars == <<blk, heap_head, heap_tail, heap_mapped_limit, pages, result>>

NULL == 0
Header == [is_free : BOOLEAN, size : Nat, next : Nat, prev : Nat]

End(B, a) == a + HEADER + B[a].size     \* the first address after a block

-----------------------------------------------------------------------------
(* The pure parts of heap.c.                                               *)

align_up(n) == IF n % HEAP_ALIGN # 0 THEN n + HEAP_ALIGN - (n % HEAP_ALIGN) ELSE n

\* Mutant: the growth forgets the header of the new block.
PagesForSize(needed) == (align_up(needed) + PMM_PAGE_SIZE - 1) \div PMM_PAGE_SIZE

\* How many turns the page loop of heap_expand makes.
PagesFor(needed) ==
    (align_up(needed + HEADER) + PMM_PAGE_SIZE - 1) \div PMM_PAGE_SIZE

MergesWithTail(B, t) == t # NULL /\ B[t].is_free

\* heap_expand once the pages are mapped: "mapped" new bytes at "start".
ExpandBlocks(B, t, start, mapped) ==
    IF MergesWithTail(B, t)
    THEN [B EXCEPT ![t].size = @ + mapped]
    ELSE [a \in DOMAIN B \cup {start} |->
            IF a = start
            THEN [is_free |-> TRUE, size |-> mapped - HEADER, next |-> NULL, prev |-> t]
            ELSE IF a = t THEN [B[a] EXCEPT !.next = start] ELSE B[a]]

ExpandHead(h, start) == IF h = NULL THEN start ELSE h
ExpandTail(B, t, start) == IF MergesWithTail(B, t) THEN t ELSE start

Splits(B, b, size) == B[b].size >= size + HEADER + HEAP_ALIGN

\* Mutant: the second header is placed without room for the first.
RestNoHeader(b, size) == b + size
Rest(b, size) == b + HEADER + size

\* split_block, when the block is large enough.
SplitBlocks(B, b, size) ==
    [a \in DOMAIN B \cup {Rest(b, size)} |->
        IF a = Rest(b, size)
        THEN [is_free |-> TRUE, size |-> B[b].size - size - HEADER,
              next |-> B[b].next, prev |-> b]
        ELSE IF a = b THEN [is_free |-> B[b].is_free, size |-> size,
                            next |-> Rest(b, size), prev |-> B[b].prev]
        ELSE IF a = B[b].next THEN [B[a] EXCEPT !.prev = Rest(b, size)]
        ELSE B[a]]

\* What the successful branch of kmalloc leaves: the split block, not free.
TakeBlocks(B, b, size) ==
    LET S == IF Splits(B, b, size) THEN SplitBlocks(B, b, size) ELSE B
    IN  [S EXCEPT ![b].is_free = FALSE]

TakeTail(B, t, b, size) ==
    IF Splits(B, b, size) /\ B[b].next = NULL THEN Rest(b, size) ELSE t

\* Mutant: a block in use may be taken.
FitsInUse(B, b, size) == B[b].size >= size
Fits(B, b, size) == B[b].is_free /\ B[b].size >= size
FirstFit(B, b, size) == Fits(B, b, size) /\ \A a \in DOMAIN B : a < b => ~Fits(B, a, size)

\* A block absorbs the next one: both are free and nothing lies between them.
Absorbs(B, a) ==
    /\ B[a].is_free
    /\ B[a].next # NULL
    /\ B[B[a].next].is_free
    /\ B[a].next = End(B, a)

AbsorbBlocks(B, a) ==
    LET n == B[a].next
    IN  [x \in DOMAIN B \ {n} |->
            IF x = a THEN [is_free |-> B[a].is_free, size |-> B[a].size + HEADER + B[n].size,
                           next |-> B[n].next, prev |-> B[a].prev]
            ELSE IF x = B[n].next THEN [B[x] EXCEPT !.prev = a]
            ELSE B[x]]

\* Mutant: heap_tail keeps pointing at the absorbed header.
AbsorbTailStale(B, t, a) == t
AbsorbTail(B, t, a) == IF B[B[a].next].next = NULL THEN a ELSE t

\* One of the two merges of kfree, into block a (NULL: there is no previous).
MergeBlocks(B, a) == IF a # NULL /\ Absorbs(B, a) THEN AbsorbBlocks(B, a) ELSE B
MergeTail(B, t, a) == IF a # NULL /\ Absorbs(B, a) THEN AbsorbTail(B, t, a) ELSE t

-----------------------------------------------------------------------------
(* The operations.                                                         *)

EmptyBlocks == [a \in {} |-> [is_free |-> FALSE, size |-> 0, next |-> NULL, prev |-> NULL]]

\* heap_init: one heap_expand on an empty heap, which may run out of pages.
Init ==
    /\ result = NULL
    /\ \E p \in 0..MaxPages :
          IF p >= PagesFor(PMM_PAGE_SIZE)
          THEN LET mapped == PagesFor(PMM_PAGE_SIZE) * PMM_PAGE_SIZE IN
               /\ blk = ExpandBlocks(EmptyBlocks, NULL, HEAP_START, mapped)
               /\ heap_head = HEAP_START
               /\ heap_tail = HEAP_START
               /\ heap_mapped_limit = HEAP_START + mapped
               /\ pages = p - PagesFor(PMM_PAGE_SIZE)
          ELSE /\ blk = EmptyBlocks
               /\ heap_head = NULL
               /\ heap_tail = NULL
               /\ heap_mapped_limit = HEAP_START + p * PMM_PAGE_SIZE
               /\ pages = 0

\* kmalloc finds a block on its first walk.
KmallocFit(size) ==
    /\ \E b \in DOMAIN blk :
          /\ FirstFit(blk, b, size)
          /\ blk' = TakeBlocks(blk, b, size)
          /\ heap_tail' = TakeTail(blk, heap_tail, b, size)
          /\ result' = b + HEADER
    /\ UNCHANGED <<heap_head, heap_mapped_limit, pages>>

NoFit(size) == \A b \in DOMAIN blk : ~Fits(blk, b, size)

\* kmalloc grows the heap and walks it a second time.
KmallocGrow(size) ==
    LET n == PagesFor(size)
        B == ExpandBlocks(blk, heap_tail, heap_mapped_limit, n * PMM_PAGE_SIZE)
        t == ExpandTail(blk, heap_tail, heap_mapped_limit)
    IN
    /\ NoFit(size) /\ pages >= n
    /\ pages' = pages - n
    /\ heap_head' = ExpandHead(heap_head, heap_mapped_limit)
    /\ heap_mapped_limit' = heap_mapped_limit + n * PMM_PAGE_SIZE
    /\ IF \E b \in DOMAIN B : Fits(B, b, size)
       THEN \E b \in DOMAIN B : /\ FirstFit(B, b, size)
                                /\ blk' = TakeBlocks(B, b, size)
                                /\ heap_tail' = TakeTail(B, t, b, size)
                                /\ result' = b + HEADER
       ELSE blk' = B /\ heap_tail' = t /\ result' = NULL

\* The pages run out inside heap_expand: those already mapped stay mapped.
KmallocOutOfMemory(size) ==
    /\ NoFit(size) /\ pages < PagesFor(size)
    /\ heap_mapped_limit' = heap_mapped_limit + pages * PMM_PAGE_SIZE
    /\ pages' = 0
    /\ result' = NULL
    /\ UNCHANGED <<blk, heap_head, heap_tail>>

kmalloc(req) == LET size == align_up(req) IN
    KmallocFit(size) \/ KmallocGrow(size) \/ KmallocOutOfMemory(size)

\* Mutant: a freed block is merged with the next one only.
kfreeForward(b) ==
    LET B1 == [blk EXCEPT ![b].is_free = TRUE]
    IN
    /\ ~blk[b].is_free
    /\ blk' = MergeBlocks(B1, b)
    /\ heap_tail' = MergeTail(B1, heap_tail, b)
    /\ UNCHANGED <<heap_head, heap_mapped_limit, pages, result>>

\* kfree of the block with header b; the kernel frees what it was given, once.
kfree(b) ==
    LET B1 == [blk EXCEPT ![b].is_free = TRUE]
        B2 == MergeBlocks(B1, b)
        t2 == MergeTail(B1, heap_tail, b)
        p  == B2[b].prev
    IN
    /\ ~blk[b].is_free
    /\ blk' = MergeBlocks(B2, p)
    /\ heap_tail' = MergeTail(B2, t2, p)
    /\ UNCHANGED <<heap_head, heap_mapped_limit, pages, result>>

\* Other users of the PMM take and return pages.
OtherPageUse ==
    /\ \E p \in 0..MaxPages :
          /\ heap_mapped_limit + p * PMM_PAGE_SIZE <= HEAP_START + MaxPages * PMM_PAGE_SIZE
          /\ pages' = p
    /\ UNCHANGED <<heapvars, result>>

Next == \/ \E req \in Requests : kmalloc(req)
        \/ \E b \in DOMAIN blk : kfree(b)
        \/ OtherPageUse

Spec == Init /\ [][Next]_vars

-----------------------------------------------------------------------------
(* Properties.                                                             *)

TypeOK == /\ \A a \in DOMAIN blk : a \in Nat /\ blk[a] \in Header
          /\ heap_head \in Nat /\ heap_tail \in Nat
          /\ heap_mapped_limit \in Nat /\ heap_mapped_limit >= HEAP_START
          /\ pages \in 0..MaxPages
          /\ result \in Nat

\* Blocks lie inside the mapped heap and do not overlap, headers included.
NoOverlapIn(B, limit) ==
    /\ \A a \in DOMAIN B : HEAP_START <= a /\ B[a].size > 0 /\ End(B, a) <= limit
    /\ \A a, b \in DOMAIN B : a < b => End(B, a) <= b

\* The list is doubly linked in address order, and head and tail are its ends.
OrderedIn(B, h, t) ==
    /\ \A a \in DOMAIN B :
          /\ B[a].next = NULL => a = t /\ \A b \in DOMAIN B : b <= a
          /\ B[a].next # NULL => /\ B[a].next \in DOMAIN B /\ B[a].next > a
                                /\ B[B[a].next].prev = a
                                /\ \A b \in DOMAIN B : b > a => b >= B[a].next
          /\ B[a].prev = NULL => a = h
          /\ B[a].prev # NULL => B[a].prev \in DOMAIN B /\ B[B[a].prev].next = a
    /\ \/ h = NULL /\ t = NULL /\ DOMAIN B = {}
       \/ h \in DOMAIN B /\ t \in DOMAIN B /\ B[h].prev = NULL /\ B[t].next = NULL

\* Two free blocks never touch.
CoalescedIn(B) ==
    \A a, b \in DOMAIN B : B[a].is_free /\ B[b].is_free => b # End(B, a)

\* No two blocks, used or free, share a byte, and none leaves the mapped heap,
\* also after a growth that failed half-way (heap.c:45-54, 66-69).
NoOverlap == NoOverlapIn(blk, heap_mapped_limit)

\* The walk of kmalloc visits every block, in address order, and ends at
\* heap_tail, after any mix of splits, merges and growth (heap.c:102-109,
\* 152-169).
AddressOrdered == OrderedIn(blk, heap_head, heap_tail)

\* kfree gives memory back for good: adjacent free blocks are always one block
\* (heap.c:4-6, 151-169).
Coalesced == CoalescedIn(blk)

\* A kmalloc that grew the heap by enough for its request does not fail: the
\* second walk finds a block (heap.c:118-129).
GrowthSuffices ==
    [][\A req \in Requests :
          KmallocGrow(align_up(req)) => result' # NULL]_vars

\* Pointers are aligned like the heap itself.
ResultAligned == (result - HEAP_START - HEADER) % HEAP_ALIGN = 0 \/ result = NULL

\* Refinement: seen by its users, the heap hands out disjoint areas.
A == INSTANCE Allocator WITH
        live <- {<<a + HEADER, blk[a].size>> : a \in {x \in DOMAIN blk : ~blk[x].is_free}}

ImplementsAllocator == A!ASpec
=============================================================================
