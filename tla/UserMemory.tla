----------------------------- MODULE UserMemory -----------------------------
(***************************************************************************)
(* Who owns which page of memory: the bitmap of kernel/pmm.c, the one page *)
(* table of kernel/vmm.c, and the programs that kernel/usermode.c and      *)
(* kernel/elf_loader.c load into the one user address space.  Every        *)
(* program is loaded by a process of its own while the shell, process 0,   *)
(* may grow the heap; the timer switches between them at any step.         *)
(*                                                                         *)
(* pmm_alloc_page is cut between the test of a bit and the store that sets *)
(* it.  The loop of usermode_reset_address_space and the loop of           *)
(* process_exit are one step each.  The levels of the page table that are  *)
(* still missing are allocated one by one, as in vmm_map_page.             *)
(***************************************************************************)
EXTENDS Integers, Sequences, FiniteSets

CONSTANTS
    Procs,          \* processes that load and run programs
    VPages,         \* virtual pages below the kernel
    Region,         \* those between USER_REGION_START and USER_REGION_END
    StackPages,     \* the pages of the user stack, a sequence
    Images,         \* programs: [pages, builtin], pages in loading order
    NFrames,        \* physical pages
    LEVELS,         \* levels of page table below the PML4 (3 in the code)
    MAX_ALLOCATIONS_PER_PROC,
    MaxLive,        \* bound: programs at the same time
    ShellWaits      \* whether the shell allocates nothing while one loads

KERNEL_SEGMENT == 0     \* a segment at or above 0xFFFF800000000000
NONE == 0               \* no frame: an empty entry, NULL

Frames == 1..NFrames

ASSUME VPagesAssumption == VPages \subseteq Nat \ {KERNEL_SEGMENT}
ASSUME RegionAssumption == Region \subseteq VPages
ASSUME StackAssumption == StackPages \in Seq(Region)
ASSUME ImagesAssumption ==
    Images \subseteq [pages : Seq(VPages \cup {KERNEL_SEGMENT}), builtin : BOOLEAN]
ASSUME NumbersAssumption ==
    {NFrames, LEVELS, MAX_ALLOCATIONS_PER_PROC, MaxLive} \subseteq Nat
ASSUME ShellAssumption == ShellWaits \in BOOLEAN

VARIABLES
    bitmap,         \* frames whose bit is set
    free_memory,    \* in pages
    pt,             \* the user part of the page table
    tables,         \* frames that hold the lower levels of the page table
    heap,           \* frames heap_expand got
    shell,          \* process 0 in pmm_alloc_page: "idle" or the free frame it saw
    pc, image, todo, cand, allocations, \* of each process
    halted          \* a kernel exception stopped the machine

pmmvars == <<bitmap, free_memory>>
vars == <<bitmap, free_memory, pt, tables, heap, shell,
          pc, image, todo, cand, allocations, halted>>

NoImage == [pages |-> <<>>, builtin |-> FALSE]
Live(p) == pc[p] # "dead"
Loading(p) == pc[p] \notin {"dead", "user"}

\* pmm_init and vmm_init; what the kernel itself got is left out of Frames.
Init == /\ bitmap = {} /\ free_memory = NFrames
        /\ pt = [v \in VPages |-> NONE]
        /\ tables = {} /\ heap = {} /\ shell = NONE
        /\ pc = [p \in Procs |-> "dead"]
        /\ image = [p \in Procs |-> NoImage]
        /\ todo = [p \in Procs |-> <<>>]
        /\ cand = [p \in Procs |-> NONE]
        /\ allocations = [p \in Procs |-> {}]
        /\ halted = FALSE

-----------------------------------------------------------------------------
(* kernel/pmm.c                                                            *)

\* The frame at which the scan of pmm_alloc_page stops.
FirstFree(f) == f \in Frames \ bitmap /\ \A g \in Frames \ bitmap : f <= g

\* bitmap_set and the counter, for the frame the scan had found.
Take(f) == /\ bitmap' = bitmap \cup {f}
           /\ free_memory' = free_memory - 1

\* pmm_free_page for each of fs; a bit that is not set is left alone.
GiveBack(fs) == /\ bitmap' = bitmap \ fs
                /\ free_memory' = free_memory + Cardinality(fs \cap bitmap)

\* heap_expand in process 0.
ShellAllocTest ==
    /\ shell = NONE
    /\ ShellWaits => \A p \in Procs : ~Loading(p)
    /\ \E f \in Frames : FirstFree(f) /\ shell' = f
    /\ UNCHANGED <<pmmvars, pt, tables, heap, pc, image, todo, cand, allocations, halted>>

ShellAllocSet ==
    /\ shell # NONE
    /\ Take(shell)
    /\ heap' = heap \cup {shell}
    /\ shell' = NONE
    /\ UNCHANGED <<pt, tables, pc, image, todo, cand, allocations, halted>>

-----------------------------------------------------------------------------
(* Loading a program: run_elf_process and usermode_run_test.               *)

\* cmd_run or cmd_usermode creates the process; the shell sleeps after it.
Start(p) ==
    /\ pc[p] = "dead" /\ shell = NONE
    /\ Cardinality({q \in Procs : Live(q)}) < MaxLive
    /\ ShellWaits => \A q \in Procs : ~Loading(q)
    /\ \E m \in Images : image' = [image EXCEPT ![p] = m]
    /\ pc' = [pc EXCEPT ![p] = "reset"]
    /\ allocations' = [allocations EXCEPT ![p] = {}]
    /\ UNCHANGED <<pmmvars, pt, tables, heap, shell, todo, cand, halted>>

\* process_exit: the recorded pages go back and the slot is DEAD.
Exit(p) ==
    /\ GiveBack(allocations[p])
    /\ allocations' = [allocations EXCEPT ![p] = {}]
    /\ pc' = [pc EXCEPT ![p] = "dead"]
    /\ UNCHANGED <<pt, tables, heap, shell, image, todo, cand, halted>>

\* A file that is missing, unreadable or not an ELF file: elf_load fails.
Reject(p) == pc[p] = "reset" /\ ~image[p].builtin /\ Exit(p)

\* Mutant: only the pages of the new program are unmapped.
ResetOwn(p) == [v \in VPages |->
    IF v \in {image[p].pages[i] : i \in DOMAIN image[p].pages} THEN NONE ELSE pt[v]]
\* usermode_reset_address_space unmaps the whole user region.
ResetTable(p) == [v \in VPages |-> IF v \in Region THEN NONE ELSE pt[v]]

Reset(p) ==
    /\ pc[p] = "reset"
    /\ pt' = ResetTable(p)
    /\ todo' = [todo EXCEPT ![p] = image[p].pages \o StackPages]
    /\ pc' = [pc EXCEPT ![p] = "map"]
    /\ UNCHANGED <<pmmvars, tables, heap, shell, image, cand, allocations, halted>>

\* A page that an earlier segment already mapped is left as it is.
SkipMapped(p) ==
    /\ pc[p] = "map" /\ todo[p] # <<>>
    /\ Head(todo[p]) # KERNEL_SEGMENT /\ pt[Head(todo[p])] # NONE
    /\ todo' = [todo EXCEPT ![p] = Tail(@)]
    /\ UNCHANGED <<pmmvars, pt, tables, heap, shell, pc, image, cand, allocations, halted>>

\* elf_load refuses a segment in kernel space; the process exits.
RefuseSegment(p) ==
    /\ pc[p] = "map" /\ todo[p] # <<>>
    /\ Head(todo[p]) = KERNEL_SEGMENT
    /\ Exit(p)

NeedsFrame(p) == /\ pc[p] = "map" /\ todo[p] # <<>>
                 /\ Head(todo[p]) # KERNEL_SEGMENT
                 /\ pt[Head(todo[p])] = NONE

\* usermode_map_range calls pmm_alloc_page: the scan finds a free frame.
AllocTest(p) ==
    /\ NeedsFrame(p)
    /\ \E f \in Frames : FirstFree(f) /\ cand' = [cand EXCEPT ![p] = f]
    /\ pc' = [pc EXCEPT ![p] = "set"]
    /\ UNCHANGED <<pmmvars, pt, tables, heap, shell, image, todo, allocations, halted>>

\* No frame is left: -1, and run_elf_process exits.  usermode_run_test only
\* returns, and a process entry has nowhere to return to: an exception.
OutOfMemory(p) ==
    /\ NeedsFrame(p) /\ Frames \subseteq bitmap
    /\ IF image[p].builtin
       THEN /\ halted' = TRUE
            /\ UNCHANGED <<pmmvars, pt, tables, heap, shell, pc, image, todo, cand, allocations>>
       ELSE Exit(p)

\* Mutant: the page is not recorded for the process.
TrackedNot(p, f) == allocations[p]
\* process_track_allocation drops a page when the array is full.
Tracked(p, f) ==
    IF Cardinality(allocations[p]) < MAX_ALLOCATIONS_PER_PROC
    THEN allocations[p] \cup {f} ELSE allocations[p]

AllocSet(p) ==
    /\ pc[p] = "set"
    /\ Take(cand[p])
    /\ allocations' = [allocations EXCEPT ![p] = Tracked(p, cand[p])]
    /\ pc' = [pc EXCEPT ![p] = "walk"]
    /\ UNCHANGED <<pt, tables, heap, shell, image, todo, cand, halted>>

\* vmm_map_page: a level of the table is missing and gets a frame.
AllocTable(p) ==
    /\ pc[p] = "walk" /\ Cardinality(tables) < LEVELS
    /\ \E f \in Frames : FirstFree(f) /\ Take(f) /\ tables' = tables \cup {f}
    /\ UNCHANGED <<pt, heap, shell, pc, image, todo, cand, allocations, halted>>

\* There is no frame for it: vmm_map_page returns without a word, and the
\* memset to the page that is not mapped is a page fault in the kernel.
TableOutOfMemory(p) ==
    /\ pc[p] = "walk" /\ Cardinality(tables) < LEVELS
    /\ Frames \subseteq bitmap
    /\ halted' = TRUE
    /\ UNCHANGED <<pmmvars, pt, tables, heap, shell, pc, image, todo, cand, allocations>>

MapPage(p) ==
    /\ pc[p] = "walk" /\ Cardinality(tables) >= LEVELS
    /\ pt' = [pt EXCEPT ![Head(todo[p])] = cand[p]]
    /\ todo' = [todo EXCEPT ![p] = Tail(@)]
    /\ cand' = [cand EXCEPT ![p] = NONE]
    /\ pc' = [pc EXCEPT ![p] = "map"]
    /\ UNCHANGED <<pmmvars, tables, heap, shell, image, allocations, halted>>

\* usermode_enter.
Enter(p) ==
    /\ pc[p] = "map" /\ todo[p] = <<>>
    /\ pc' = [pc EXCEPT ![p] = "user"]
    /\ UNCHANGED <<pmmvars, pt, tables, heap, shell, image, todo, cand, allocations, halted>>

\* SYS_EXIT.
SysExit(p) == pc[p] = "user" /\ Exit(p)

Next ==
    /\ ~halted
    /\ \/ ShellAllocTest \/ ShellAllocSet
       \/ \E p \in Procs :
             \/ Start(p) \/ Reject(p) \/ Reset(p) \/ SkipMapped(p) \/ RefuseSegment(p)
             \/ AllocTest(p) \/ OutOfMemory(p) \/ AllocSet(p)
             \/ AllocTable(p) \/ TableOutOfMemory(p) \/ MapPage(p)
             \/ Enter(p) \/ SysExit(p)

Spec == Init /\ [][Next]_vars

-----------------------------------------------------------------------------
\* The types.
TypeOK == /\ bitmap \subseteq Frames /\ tables \subseteq Frames /\ heap \subseteq Frames
          /\ free_memory \in 0..NFrames
          /\ pt \in [VPages -> Frames \cup {NONE}]
          /\ shell \in Frames \cup {NONE}
          /\ pc \in [Procs -> {"dead", "reset", "map", "set", "walk", "user"}]
          /\ cand \in [Procs -> Frames \cup {NONE}]
          /\ allocations \in [Procs -> SUBSET Frames]
          /\ halted \in BOOLEAN

\* The pages a process needs: its segments and the user stack.
Needed(p) == {image[p].pages[i] : i \in DOMAIN image[p].pages}
             \cup {StackPages[i] : i \in DOMAIN StackPages}

\* A program in ring 3 runs on pages of its own: each page it needs is mapped to
\* a frame that is allocated and recorded for it, whatever was mapped there
\* before and whichever load failed half-way (usermode.c:26-57, elf_loader.c:38-68).
RunsOnOwnPages ==
    \A p \in Procs : pc[p] = "user" =>
        \A v \in Needed(p) : pt[v] \in allocations[p] /\ pt[v] \in bitmap

\* The bitmap is exact: a frame is marked used if and only if somebody owns it,
\* and free_memory, which the shell's "mem" reports, counts the others.  No page
\* is lost over any sequence of failed loads and exits, and none is given out
\* while it is in use (pmm.h:5, pmm.c:84-104, process.c:163-168).
BitmapExact ==
    /\ bitmap = heap \cup tables \cup UNION {allocations[p] : p \in Procs}
    /\ free_memory = NFrames - Cardinality(bitmap)

\* "Fiziksel sayfalar surec oldugunde zaten geri verilmisti" (usermode.c:28-29):
\* no page that the reset unmaps belongs to a live process.
ResetFindsNoLivePage ==
    [][\A p \in Procs : Reset(p) =>
          \A v \in Region, q \in Procs : pt[v] # NONE => pt[v] \notin allocations[q]]_vars

\* "Onceki programdan kalan haritalamalar bu programin segmentlerini bozmasin
\* diye kullanici adres alanini temizle" (elf_loader.c:38-39): loading never
\* finds a page still mapped to a frame that the process does not own.
NoLeftoverMapping ==
    [][\A p \in Procs : SkipMapped(p) => pt[Head(todo[p])] \in allocations[p]]_vars

\* "Bu programin aldigi tum RAM'leri sisteme iade et" (process.c:163-164): no
\* frame stays marked without an owner.
AllReturned ==
    (\A p \in Procs : ~Live(p)) => bitmap \subseteq heap \cup tables

\* "Hangi sayfanin dolu, hangisinin bos oldugunu bir Bitmap uzerinden takip
\* eder" (pmm.h:5): a frame of the heap is not free.
HeapFramesMarked == heap \subseteq bitmap
=============================================================================
