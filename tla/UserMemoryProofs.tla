-------------------------- MODULE UserMemoryProofs --------------------------
(***************************************************************************)
(* Proofs about UserMemory, for any number of frames, pages, levels,       *)
(* processes and programs, under what the kernel relies on: the shell      *)
(* allocates nothing while a program loads (it sleeps after "run"); for    *)
(* BitmapExact, programs that lie in the user region and fit the list of   *)
(* recorded pages; for RunsOnOwnPages, one program at a time.              *)
(***************************************************************************)
EXTENDS UserMemory, FiniteSetTheorems, TLAPS

-----------------------------------------------------------------------------
(* Ownership: under ShellWaits the allocator is used by one process at a   *)
(* time, and no frame has two owners.                                      *)

\* What a call of pmm_alloc_page relies on: one process loads at a time, and
\* not while the shell is in pmm_alloc_page, so that the frame a scan has found
\* stays free until its bit is set.
Turns ==
    /\ \A p, q \in Procs : Loading(p) /\ Loading(q) => p = q
    /\ shell # NONE => \A p \in Procs : ~Loading(p)
    /\ shell \notin bitmap
    /\ \A p \in Procs : pc[p] = "set" => cand[p] \in Frames \ bitmap

\* Owned frames are marked, and the counter agrees with the bitmap.
Accounts ==
    /\ heap \subseteq bitmap /\ tables \subseteq bitmap
    /\ \A p \in Procs : allocations[p] \subseteq bitmap
    /\ free_memory = NFrames - Cardinality(bitmap)

\* A frame belongs to the heap, to the page table or to one process.
OneOwner ==
    /\ heap \cap tables = {}
    /\ \A p \in Procs : allocations[p] \cap (heap \cup tables) = {}
    /\ \A p, q \in Procs : p # q => allocations[p] \cap allocations[q] = {}

OwnInv == TypeOK /\ Turns /\ Accounts /\ OneOwner

LEMMA CountFacts ==
  ASSUME NEW S, S \subseteq Frames
  PROVE  IsFiniteSet(S) /\ Cardinality(S) \in 0..NFrames
  <1>1. NFrames \in Nat
    BY NumbersAssumption
  <1>2. IsFiniteSet(Frames) /\ Cardinality(Frames) = NFrames
    BY <1>1, FS_Interval DEF Frames
  <1>3. IsFiniteSet(S) /\ Cardinality(S) <= NFrames
    BY <1>2, FS_Subset
  <1>4. Cardinality(S) \in Nat
    BY <1>3, FS_CardinalityType
  <1> QED BY <1>1, <1>3, <1>4

\* bitmap_set for a frame that is free keeps the counter exact.
LEMMA TakeCounts ==
  ASSUME TypeOK, Accounts, NEW f \in Frames \ bitmap, Take(f)
  PROVE  /\ bitmap' \subseteq Frames /\ free_memory' \in 0..NFrames
         /\ free_memory' = NFrames - Cardinality(bitmap')
  <1>1. bitmap' = bitmap \cup {f} /\ bitmap' \subseteq Frames
        /\ free_memory' = free_memory - 1
    BY DEF Take, TypeOK
  <1>2. IsFiniteSet(bitmap) /\ Cardinality(bitmap) \in 0..NFrames
        /\ Cardinality(bitmap') \in 0..NFrames /\ NFrames \in Nat
    BY <1>1, CountFacts, NumbersAssumption DEF TypeOK
  <1>3. Cardinality(bitmap \cup {f}) = Cardinality(bitmap) + 1
    BY <1>2, FS_AddElement
  <1>4. free_memory = NFrames - Cardinality(bitmap)
    BY DEF Accounts
  <1> QED BY <1>1, <1>2, <1>3, <1>4

\* pmm_free_page for a set of frames does, too.
LEMMA GiveBackCounts ==
  ASSUME TypeOK, Accounts, NEW fs, GiveBack(fs)
  PROVE  /\ bitmap' \subseteq Frames /\ free_memory' \in 0..NFrames
         /\ free_memory' = NFrames - Cardinality(bitmap')
  <1>1. bitmap' = bitmap \ fs /\ bitmap' \subseteq Frames
        /\ free_memory' = free_memory + Cardinality(fs \cap bitmap)
    BY DEF GiveBack, TypeOK
  <1>2. IsFiniteSet(bitmap) /\ Cardinality(bitmap) \in 0..NFrames
        /\ Cardinality(bitmap') \in 0..NFrames /\ NFrames \in Nat
    BY <1>1, CountFacts, NumbersAssumption DEF TypeOK
  <1>3. fs \cap bitmap = bitmap \cap fs /\ Cardinality(bitmap \cap fs) \in 0..NFrames
    BY CountFacts DEF TypeOK
  <1>4. Cardinality(bitmap \ fs) = Cardinality(bitmap) - Cardinality(bitmap \cap fs)
    BY <1>2, FS_Difference
  <1>5. free_memory = NFrames - Cardinality(bitmap)
    BY DEF Accounts
  <1>6. Cardinality(fs \cap bitmap) = Cardinality(bitmap \cap fs)
    BY <1>3
  <1>7. Cardinality(bitmap') = Cardinality(bitmap) - Cardinality(bitmap \cap fs)
    BY <1>1, <1>4
  <1>8. free_memory' = NFrames - Cardinality(bitmap')
    BY <1>1, <1>2, <1>3, <1>5, <1>6, <1>7
  <1> QED BY <1>1, <1>2, <1>8

LEMMA OwnInit == Init => OwnInv
  <1> SUFFICES ASSUME Init PROVE OwnInv
    OBVIOUS
  <1>1. Cardinality({}) = 0 /\ NFrames \in Nat
    BY FS_EmptySet, NumbersAssumption
  <1>2. TypeOK
    <2>1. bitmap \subseteq Frames /\ tables \subseteq Frames /\ heap \subseteq Frames
          /\ free_memory \in 0..NFrames
      BY <1>1 DEF Init
    <2>2. /\ pt \in [VPages -> Frames \cup {NONE}]
          /\ shell \in Frames \cup {NONE}
          /\ cand \in [Procs -> Frames \cup {NONE}]
      BY DEF Init
    <2>3. /\ pc \in [Procs -> {"dead", "reset", "map", "set", "walk", "user"}]
          /\ allocations \in [Procs -> SUBSET Frames]
          /\ halted \in BOOLEAN
      BY DEF Init
    <2> QED BY <2>1, <2>2, <2>3 DEF TypeOK
  <1>3. Turns
    BY DEF Init, Turns, Loading, NONE, Frames
  <1>4. Accounts /\ OneOwner
    BY <1>1 DEF Init, Accounts, OneOwner
  <1> QED BY <1>2, <1>3, <1>4 DEF OwnInv

\* A frame goes to the heap.
LEMMA OwnShellSet ==
  ASSUME OwnInv, ShellAllocSet
  PROVE  OwnInv'
  <1>1. shell \in Frames \ bitmap
    BY DEF OwnInv, TypeOK, Turns, ShellAllocSet
  <1>2. /\ bitmap' \subseteq Frames /\ free_memory' \in 0..NFrames
        /\ free_memory' = NFrames - Cardinality(bitmap')
    BY <1>1, TakeCounts DEF OwnInv, ShellAllocSet
  <1>3. bitmap' = bitmap \cup {shell} /\ heap' = heap \cup {shell} /\ shell' = NONE
        /\ UNCHANGED <<pt, tables, pc, image, todo, cand, allocations, halted>>
    BY DEF ShellAllocSet, Take
  <1>4. TypeOK'
    BY <1>1, <1>2, <1>3 DEF OwnInv, TypeOK, NONE
  <1>5. Turns'
    BY <1>1, <1>2, <1>3 DEF OwnInv, Turns, Loading, NONE, Frames, ShellAllocSet
  <1>6. Accounts' /\ OneOwner'
    BY <1>1, <1>2, <1>3 DEF OwnInv, Accounts, OneOwner
  <1> QED BY <1>4, <1>5, <1>6 DEF OwnInv

\* A frame goes to a process that loads, and to the page table.
LEMMA OwnAllocSet ==
  ASSUME OwnInv, NEW p \in Procs, AllocSet(p)
  PROVE  OwnInv'
  <1>1. cand[p] \in Frames \ bitmap
    BY DEF OwnInv, Turns, AllocSet
  <1>2. /\ bitmap' \subseteq Frames /\ free_memory' \in 0..NFrames
        /\ free_memory' = NFrames - Cardinality(bitmap')
    BY <1>1, TakeCounts DEF OwnInv, AllocSet
  <1>3. /\ pc[p] = "set" /\ bitmap' = bitmap \cup {cand[p]}
        /\ allocations' = [allocations EXCEPT ![p] = Tracked(p, cand[p])]
        /\ pc' = [pc EXCEPT ![p] = "walk"]
        /\ UNCHANGED <<pt, tables, heap, shell, image, todo, cand, halted>>
    BY DEF AllocSet, Take
  <1>4. Tracked(p, cand[p]) \subseteq allocations[p] \cup {cand[p]}
    BY DEF Tracked
  <1>5. TypeOK'
    BY <1>1, <1>2, <1>3, <1>4 DEF OwnInv, TypeOK
  <1>6. Turns'
    <2>1. Loading(p) /\ \A q \in Procs : q # p => ~Loading(q)
      BY <1>3 DEF OwnInv, Turns, Loading
    <2>2. shell = NONE
      BY <2>1 DEF OwnInv, Turns
    <2>3. \A q \in Procs : q # p => pc'[q] \in {"dead", "user"}
      BY <1>3, <2>1 DEF Loading, OwnInv, TypeOK
    <2>4. pc'[p] = "walk"
      BY <1>3 DEF OwnInv, TypeOK
    <2>5. NONE \notin bitmap'
      BY <1>2 DEF NONE, Frames
    <2> QED BY <1>3, <2>2, <2>3, <2>4, <2>5 DEF Turns, Loading
  <1>7. Accounts'
    BY <1>2, <1>3, <1>4 DEF OwnInv, Accounts, TypeOK
  <1>8. OneOwner'
    BY <1>1, <1>3, <1>4 DEF OwnInv, OneOwner, Accounts, TypeOK
  <1> QED BY <1>5, <1>6, <1>7, <1>8 DEF OwnInv

LEMMA OwnAllocTable ==
  ASSUME OwnInv, NEW p \in Procs, AllocTable(p)
  PROVE  OwnInv'
  <1>1. PICK f \in Frames : FirstFree(f) /\ Take(f) /\ tables' = tables \cup {f}
    BY DEF AllocTable
  <1>2. f \in Frames \ bitmap
    BY <1>1 DEF FirstFree
  <1>3. /\ bitmap' \subseteq Frames /\ free_memory' \in 0..NFrames
        /\ free_memory' = NFrames - Cardinality(bitmap')
    BY <1>1, <1>2, TakeCounts DEF OwnInv
  <1>4. /\ pc[p] = "walk" /\ bitmap' = bitmap \cup {f}
        /\ UNCHANGED <<pt, heap, shell, pc, image, todo, cand, allocations, halted>>
    BY <1>1 DEF AllocTable, Take
  <1>5. TypeOK'
    BY <1>1, <1>2, <1>3, <1>4 DEF OwnInv, TypeOK
  <1>6. Turns'
    <2>1. Loading(p) /\ \A q \in Procs : pc[q] # "set"
      BY <1>4 DEF OwnInv, Turns, Loading
    <2>2. shell = NONE
      BY <2>1 DEF OwnInv, Turns
    <2>3. NONE \notin bitmap'
      BY <1>3 DEF NONE, Frames
    <2> QED BY <1>4, <2>1, <2>2, <2>3 DEF OwnInv, Turns, Loading
  <1>7. Accounts' /\ OneOwner'
    BY <1>1, <1>2, <1>3, <1>4 DEF OwnInv, Accounts, OneOwner
  <1> QED BY <1>5, <1>6, <1>7 DEF OwnInv

\* process_exit gives back what the process owns, and nothing else.
LEMMA OwnExit ==
  ASSUME OwnInv, NEW p \in Procs, Exit(p)
  PROVE  OwnInv'
  <1>1. /\ bitmap' \subseteq Frames /\ free_memory' \in 0..NFrames
        /\ free_memory' = NFrames - Cardinality(bitmap')
    BY GiveBackCounts DEF OwnInv, Exit
  <1>2. /\ bitmap' = bitmap \ allocations[p]
        /\ allocations' = [allocations EXCEPT ![p] = {}]
        /\ pc' = [pc EXCEPT ![p] = "dead"]
        /\ UNCHANGED <<pt, tables, heap, shell, image, todo, cand, halted>>
    BY DEF Exit, GiveBack
  <1>3. TypeOK'
    BY <1>1, <1>2 DEF OwnInv, TypeOK
  <1>4. Turns'
    <2>1. \A q \in Procs : pc'[q] = pc[q] \/ pc'[q] = "dead"
      BY <1>2 DEF OwnInv, TypeOK
    <2> QED BY <1>2, <2>1 DEF OwnInv, Turns, Loading
  <1>5. Accounts'
    BY <1>1, <1>2 DEF OwnInv, Accounts, OneOwner, TypeOK
  <1>6. OneOwner'
    BY <1>2 DEF OwnInv, OneOwner, TypeOK
  <1> QED BY <1>3, <1>4, <1>5, <1>6 DEF OwnInv

\* The shell's scan: no process is loading.
LEMMA OwnShellTest ==
  ASSUME ShellWaits, OwnInv, ShellAllocTest
  PROVE  OwnInv'
  <1>1. PICK f \in Frames : f \notin bitmap /\ shell' = f
    BY DEF ShellAllocTest, FirstFree
  <1>2. (\A p \in Procs : ~Loading(p))
        /\ UNCHANGED <<bitmap, free_memory, pt, tables, heap, pc, cand, allocations, halted>>
    BY DEF ShellAllocTest, pmmvars
  <1>3. TypeOK'
    BY <1>1, <1>2 DEF OwnInv, TypeOK
  <1>4. Turns'
    BY <1>1, <1>2 DEF OwnInv, Turns, Loading
  <1>5. Accounts' /\ OneOwner'
    BY <1>2 DEF OwnInv, Accounts, OneOwner
  <1> QED BY <1>3, <1>4, <1>5 DEF OwnInv

LEMMA OwnStart ==
  ASSUME ShellWaits, OwnInv, NEW p \in Procs, Start(p)
  PROVE  OwnInv'
  <1>1. /\ shell = NONE /\ \A q \in Procs : ~Loading(q)
        /\ pc' = [pc EXCEPT ![p] = "reset"]
        /\ allocations' = [allocations EXCEPT ![p] = {}]
        /\ UNCHANGED <<bitmap, free_memory, pt, tables, heap, shell, cand, halted>>
    BY DEF Start, pmmvars
  <1>2. TypeOK'
    BY <1>1 DEF OwnInv, TypeOK
  <1>3. Turns'
    <2>1. \A q \in Procs : q # p => pc'[q] = pc[q]
      BY <1>1 DEF OwnInv, TypeOK
    <2>2. pc'[p] = "reset"
      BY <1>1 DEF OwnInv, TypeOK
    <2> QED BY <1>1, <2>1, <2>2 DEF OwnInv, Turns, Loading
  <1>4. Accounts' /\ OneOwner'
    BY <1>1 DEF OwnInv, Accounts, OneOwner, TypeOK
  <1> QED BY <1>2, <1>3, <1>4 DEF OwnInv

\* The scan of a process that loads.
LEMMA OwnAllocTest ==
  ASSUME OwnInv, NEW p \in Procs, AllocTest(p)
  PROVE  OwnInv'
  <1>1. PICK f \in Frames : f \notin bitmap /\ cand' = [cand EXCEPT ![p] = f]
    BY DEF AllocTest, FirstFree
  <1>2. /\ pc[p] = "map" /\ pc' = [pc EXCEPT ![p] = "set"]
        /\ UNCHANGED <<bitmap, free_memory, pt, tables, heap, shell, allocations, halted>>
    BY DEF AllocTest, NeedsFrame, pmmvars
  <1>3. TypeOK'
    BY <1>1, <1>2 DEF OwnInv, TypeOK
  <1>4. Turns'
    <2>1. \A q \in Procs : Loading(q)' <=> Loading(q)
      BY <1>2 DEF OwnInv, TypeOK, Loading
    <2>2. \A q \in Procs : pc'[q] = "set" => q = p
      BY <1>2 DEF OwnInv, TypeOK, Turns, Loading
    <2>3. cand'[p] = f
      BY <1>1 DEF OwnInv, TypeOK
    <2> QED BY <1>1, <1>2, <2>1, <2>2, <2>3 DEF OwnInv, Turns
  <1>5. Accounts' /\ OneOwner'
    BY <1>2 DEF OwnInv, Accounts, OneOwner
  <1> QED BY <1>3, <1>4, <1>5 DEF OwnInv

\* A process goes on without a frame changing hands, or the machine halts.
LEMMA OwnQuiet ==
  ASSUME OwnInv, NEW p \in Procs,
         \/ Reset(p) \/ SkipMapped(p) \/ MapPage(p) \/ Enter(p) \/ TableOutOfMemory(p)
         \/ OutOfMemory(p) /\ image[p].builtin
  PROVE  OwnInv'
  <1>1. UNCHANGED <<bitmap, free_memory, tables, heap, shell, allocations>>
    BY DEF Reset, SkipMapped, MapPage, Enter, TableOutOfMemory, OutOfMemory, pmmvars
  <1>2. pt' \in [VPages -> Frames \cup {NONE}]
    BY DEF OwnInv, TypeOK, Reset, ResetTable, SkipMapped, MapPage, Enter,
           TableOutOfMemory, OutOfMemory
  <1>3. /\ pc' \in [Procs -> {"dead", "reset", "map", "set", "walk", "user"}]
        /\ \A q \in Procs : pc'[q] # "set" \/ pc[q] = "set"
        /\ \A q \in Procs : pc'[q] \in {"dead", "user"} \/ pc[q] \notin {"dead", "user"}
    BY DEF OwnInv, TypeOK, Reset, SkipMapped, MapPage, Enter, TableOutOfMemory, OutOfMemory
  <1>4. /\ cand' \in [Procs -> Frames \cup {NONE}]
        /\ \A q \in Procs : pc[q] = "set" => cand'[q] = cand[q]
    BY DEF OwnInv, TypeOK, Reset, SkipMapped, MapPage, Enter, TableOutOfMemory, OutOfMemory
  <1>5. halted' \in BOOLEAN
    BY DEF OwnInv, TypeOK, Reset, SkipMapped, MapPage, Enter, TableOutOfMemory, OutOfMemory
  <1>6. TypeOK'
    BY <1>1, <1>2, <1>3, <1>4, <1>5 DEF OwnInv, TypeOK
  <1>7. Turns'
    BY <1>1, <1>3, <1>4 DEF OwnInv, Turns, Loading
  <1>8. Accounts' /\ OneOwner'
    BY <1>1 DEF OwnInv, Accounts, OneOwner
  <1> QED BY <1>6, <1>7, <1>8 DEF OwnInv

LEMMA OwnStutter ==
  ASSUME OwnInv, UNCHANGED vars
  PROVE  OwnInv'
  BY DEF OwnInv, TypeOK, Turns, Accounts, OneOwner, Loading, vars

LEMMA OwnStep ==
  ASSUME ShellWaits, OwnInv, [Next]_vars
  PROVE  OwnInv'
  <1>1. CASE ShellAllocTest
    BY <1>1, OwnShellTest
  <1>2. CASE ShellAllocSet
    BY <1>2, OwnShellSet
  <1>3. ASSUME NEW p \in Procs, Start(p) PROVE OwnInv'
    BY <1>3, OwnStart
  <1>4. ASSUME NEW p \in Procs,
               Reject(p) \/ RefuseSegment(p) \/ SysExit(p)
        PROVE  OwnInv'
    <2>1. Exit(p)
      BY <1>4 DEF Reject, RefuseSegment, SysExit
    <2> QED BY <2>1, OwnExit
  <1>5. ASSUME NEW p \in Procs, AllocTest(p) PROVE OwnInv'
    BY <1>5, OwnAllocTest
  <1>6. ASSUME NEW p \in Procs, AllocSet(p) PROVE OwnInv'
    BY <1>6, OwnAllocSet
  <1>7. ASSUME NEW p \in Procs, AllocTable(p) PROVE OwnInv'
    BY <1>7, OwnAllocTable
  <1>8. ASSUME NEW p \in Procs,
               \/ Reset(p) \/ SkipMapped(p) \/ MapPage(p) \/ Enter(p)
               \/ TableOutOfMemory(p)
        PROVE  OwnInv'
    BY <1>8, OwnQuiet
  <1>9. CASE UNCHANGED vars
    BY <1>9, OwnStutter
  <1>10. ASSUME NEW p \in Procs, OutOfMemory(p) PROVE OwnInv'
    <2>1. CASE image[p].builtin
      BY <1>10, <2>1, OwnQuiet
    <2>2. CASE ~image[p].builtin
      BY <1>10, <2>2, OwnExit DEF OutOfMemory
    <2> QED BY <2>1, <2>2
  <1>11. ASSUME NEW p \in Procs,
                \/ Start(p) \/ Reject(p) \/ Reset(p) \/ SkipMapped(p) \/ RefuseSegment(p)
                \/ AllocTest(p) \/ OutOfMemory(p) \/ AllocSet(p)
                \/ AllocTable(p) \/ TableOutOfMemory(p) \/ MapPage(p)
                \/ Enter(p) \/ SysExit(p)
         PROVE  OwnInv'
    BY <1>3, <1>4, <1>5, <1>6, <1>7, <1>8, <1>10, <1>11
  <1> QED BY <1>1, <1>2, <1>9, <1>11 DEF Next

-----------------------------------------------------------------------------
(* No frame is lost, and a program runs on its own pages.                  *)

\* The pages of a sequence, and the pages of a program with the user stack.
PagesIn(s) == {s[i] : i \in DOMAIN s}
PagesOf(m) == (PagesIn(m.pages) \ {KERNEL_SEGMENT}) \cup PagesIn(StackPages)

\* What the loader takes for granted of a program: it is linked inside the user
\* region (usermode.h:24-25), and its pages fit the list of process.h:37.
ImagesFit ==
    \A m \in Images : /\ PagesOf(m) \subseteq Region
                      /\ Cardinality(PagesOf(m)) <= MAX_ALLOCATIONS_PER_PROC

\* The pages of the region that are mapped; the processes they are mapped for.
Placed == {v \in Region : pt[v] # NONE}
Mapping == {"map", "set", "walk"}
Placing(p) == pc[p] \in Mapping \/ (MaxLive = 1 /\ pc[p] = "user")

\* Such a process finds in the region its own pages alone, each mapped to a frame
\* recorded for it, and no frame is recorded without a page; the pages it needs
\* are mapped or still to be done.
LoadInv(p) ==
    /\ Placed \subseteq PagesOf(image[p])
    /\ \A v \in Placed : pt[v] \in allocations[p]
    /\ \A f \in allocations[p] : \/ \E v \in Placed : pt[v] = f
                                 \/ pc[p] = "walk" /\ f = cand[p]
    /\ PagesIn(todo[p]) \subseteq Needed(p)
    /\ Needed(p) \subseteq Placed \cup PagesIn(todo[p])
    /\ pc[p] \in {"set", "walk"} =>
          todo[p] # <<>> /\ Head(todo[p]) # KERNEL_SEGMENT /\ pt[Head(todo[p])] = NONE
    /\ pc[p] = "walk" => cand[p] \in allocations[p]
    /\ pc[p] = "user" => todo[p] = <<>>

LoadType ==
    /\ image \in [Procs -> Images \cup {NoImage}]
    /\ todo \in [Procs -> Seq(VPages \cup {KERNEL_SEGMENT})]
    /\ \A p \in Procs : Live(p) => image[p] \in Images

OneLive == MaxLive = 1 => \A p, q \in Procs : Live(p) /\ Live(q) => p = q

NothingLost ==
    /\ \A p \in Procs : pc[p] \in {"dead", "reset"} => allocations[p] = {}
    /\ bitmap \subseteq heap \cup tables \cup UNION {allocations[p] : p \in Procs}

FullInv ==
    /\ OwnInv /\ LoadType /\ OneLive /\ NothingLost
    /\ \A p \in Procs : Placing(p) => LoadInv(p)

LEMMA HeadTailPages ==
  ASSUME NEW T, NEW s \in Seq(T), s # <<>>
  PROVE  /\ Head(s) \in T /\ Tail(s) \in Seq(T)
         /\ PagesIn(s) = {Head(s)} \cup PagesIn(Tail(s))
  <1>1. Head(s) \in T /\ Tail(s) \in Seq(T)
    OBVIOUS
  <1>2. ASSUME NEW i \in DOMAIN s
        PROVE  s[i] \in {Head(s)} \cup PagesIn(Tail(s))
    <2>1. CASE i = 1
      BY <2>1
    <2>2. CASE i # 1
      <3>1. i - 1 \in DOMAIN Tail(s) /\ Tail(s)[i - 1] = s[i]
        BY <2>2
      <3> QED BY <3>1 DEF PagesIn
    <2> QED BY <2>1, <2>2
  <1>3. ASSUME NEW i \in DOMAIN Tail(s)
        PROVE  Tail(s)[i] \in PagesIn(s)
    <2>1. i + 1 \in DOMAIN s /\ Tail(s)[i] = s[i + 1]
      OBVIOUS
    <2> QED BY <2>1 DEF PagesIn
  <1>4. Head(s) \in PagesIn(s)
    <2>1. 1 \in DOMAIN s /\ Head(s) = s[1]
      OBVIOUS
    <2> QED BY <2>1 DEF PagesIn
  <1> QED BY <1>1, <1>2, <1>3, <1>4 DEF PagesIn

LEMMA ConcatPages ==
  ASSUME NEW T, NEW s \in Seq(T), NEW t \in Seq(T)
  PROVE  PagesIn(s \o t) = PagesIn(s) \cup PagesIn(t)
  <1>1. ASSUME NEW i \in DOMAIN (s \o t)
        PROVE  (s \o t)[i] \in PagesIn(s) \cup PagesIn(t)
    <2>1. CASE i <= Len(s)
      <3>1. i \in DOMAIN s /\ (s \o t)[i] = s[i]
        BY <2>1
      <3> QED BY <3>1 DEF PagesIn
    <2>2. CASE ~(i <= Len(s))
      <3>1. i - Len(s) \in DOMAIN t /\ (s \o t)[i] = t[i - Len(s)]
        BY <2>2
      <3> QED BY <3>1 DEF PagesIn
    <2> QED BY <2>1, <2>2
  <1>2. ASSUME NEW i \in DOMAIN s
        PROVE  s[i] \in PagesIn(s \o t)
    <2>1. i \in DOMAIN (s \o t) /\ (s \o t)[i] = s[i]
      OBVIOUS
    <2> QED BY <2>1 DEF PagesIn
  <1>3. ASSUME NEW i \in DOMAIN t
        PROVE  t[i] \in PagesIn(s \o t)
    <2>1. i + Len(s) \in DOMAIN (s \o t) /\ (s \o t)[i + Len(s)] = t[i]
      OBVIOUS
    <2> QED BY <2>1 DEF PagesIn
  <1> QED BY <1>1, <1>2, <1>3 DEF PagesIn

LEMMA PagesFinite ==
  ASSUME NEW T, NEW s \in Seq(T)
  PROVE  IsFiniteSet(PagesIn(s))
  <1> DEFINE f == [i \in 1..Len(s) |-> s[i]]
  <1>1. f \in Surjection(1..Len(s), PagesIn(s))
    BY DEF Surjection, PagesIn
  <1>2. IsFiniteSet(1..Len(s))
    BY FS_Interval
  <1> QED BY <1>1, <1>2, FS_Surjection

\* The pages a program needs, among them the refused one.
LEMMA ImagePages ==
  ASSUME NEW m \in Images
  PROVE  /\ m.pages \in Seq(VPages \cup {KERNEL_SEGMENT})
         /\ StackPages \in Seq(VPages \cup {KERNEL_SEGMENT})
         /\ PagesIn(m.pages \o StackPages) = PagesIn(m.pages) \cup PagesIn(StackPages)
         /\ IsFiniteSet(PagesOf(m))
  <1>1. m.pages \in Seq(VPages \cup {KERNEL_SEGMENT})
    BY ImagesAssumption
  <1>2. StackPages \in Seq(VPages \cup {KERNEL_SEGMENT})
    BY StackAssumption, RegionAssumption
  <1>3. PagesIn(m.pages \o StackPages) = PagesIn(m.pages) \cup PagesIn(StackPages)
    BY <1>1, <1>2, ConcatPages
  <1>4. IsFiniteSet(PagesIn(m.pages)) /\ IsFiniteSet(PagesIn(StackPages))
    BY <1>1, <1>2, PagesFinite
  <1>5. IsFiniteSet(PagesIn(m.pages) \ {KERNEL_SEGMENT})
    BY <1>4, FS_Difference
  <1>6. IsFiniteSet(PagesOf(m))
    BY <1>4, <1>5, FS_Union DEF PagesOf
  <1> QED BY <1>1, <1>2, <1>3, <1>6

\* process_track_allocation has room for one more page while one is missing.
LEMMA RoomLeft ==
  ASSUME ImagesFit, TypeOK, LoadType, NEW p \in Procs, pc[p] = "set", LoadInv(p)
  PROVE  Cardinality(allocations[p]) < MAX_ALLOCATIONS_PER_PROC
  <1>1. image[p] \in Images
    BY DEF LoadType, Live
  <1> DEFINE P == PagesOf(image[p])
             h == Head(todo[p])
             A == allocations[p]
             f == [v \in Placed |-> pt[v]]
  <1>2. IsFiniteSet(P) /\ Cardinality(P) <= MAX_ALLOCATIONS_PER_PROC /\ Cardinality(P) \in Nat
    BY <1>1, ImagePages, FS_CardinalityType DEF ImagesFit
  <1>3. h \in P /\ h \notin Placed
    <2>1. h \in PagesIn(todo[p])
      BY HeadTailPages DEF LoadInv, LoadType
    <2>2. h \in Needed(p) /\ h # KERNEL_SEGMENT /\ pt[h] = NONE
      BY <2>1 DEF LoadInv
    <2> QED BY <2>2 DEF Needed, PagesOf, PagesIn, Placed
  <1>4. Placed \subseteq P \ {h}
    BY <1>3 DEF LoadInv
  <1>5. IsFiniteSet(P \ {h}) /\ Cardinality(P \ {h}) = Cardinality(P) - 1
    BY <1>2, <1>3, FS_RemoveElement
  <1>6. IsFiniteSet(Placed) /\ Cardinality(Placed) <= Cardinality(P \ {h})
    BY <1>4, <1>5, FS_Subset
  <1>7. f \in Surjection(Placed, A)
    BY DEF LoadInv, Surjection
  <1>8. Cardinality(A) <= Cardinality(Placed)
    BY <1>6, <1>7, FS_Surjection
  <1>9. IsFiniteSet(A) /\ Cardinality(A) \in Nat /\ Cardinality(Placed) \in Nat
    BY <1>6, <1>7, FS_Surjection, FS_CardinalityType
  <1>10. MAX_ALLOCATIONS_PER_PROC \in Nat
    BY NumbersAssumption
  <1> HIDE DEF P, h, A, f
  <1>11. Cardinality(A) < MAX_ALLOCATIONS_PER_PROC
    BY <1>2, <1>5, <1>6, <1>8, <1>9, <1>10
  <1> QED BY <1>11 DEF A

\* What LoadInv(q) says depends on the page table and on q alone.
LEMMA LoadFrame ==
  ASSUME NEW q \in Procs, LoadInv(q), pt' = pt, image'[q] = image[q], todo'[q] = todo[q],
         allocations'[q] = allocations[q], pc'[q] = pc[q],
         pc[q] = "walk" => cand'[q] = cand[q]
  PROVE  LoadInv(q)'
  BY DEF LoadInv, Placed, Needed

\* Where one process changes the page table, it is the only one the region is
\* mapped for.
LEMMA AloneInRegion ==
  ASSUME FullInv, NEW p \in Procs, Loading(p), NEW q \in Procs, q # p
  PROVE  ~Placing(q)
  BY DEF FullInv, OwnInv, Turns, OneLive, Placing, Mapping, Loading, Live

\* A step of p that changes nothing of the other processes.
LEMMA LoadOthers ==
  ASSUME FullInv, NEW p \in Procs,
         \A q \in Procs : q # p =>
            /\ image'[q] = image[q] /\ todo'[q] = todo[q] /\ cand'[q] = cand[q]
            /\ allocations'[q] = allocations[q] /\ pc'[q] = pc[q],
         pt' = pt \/ Loading(p),
         Placing(p)' => LoadInv(p)'
  PROVE  \A q \in Procs : Placing(q)' => LoadInv(q)'
  <1> SUFFICES ASSUME NEW q \in Procs, q # p, Placing(q)' PROVE LoadInv(q)'
    OBVIOUS
  <1>1. Placing(q)
    BY DEF Placing
  <1>2. pt' = pt
    BY <1>1, AloneInRegion
  <1>3. LoadInv(q)
    BY <1>1 DEF FullInv
  <1> QED BY <1>2, <1>3, LoadFrame

LEMMA FullInit == Init => FullInv
  <1> SUFFICES ASSUME Init PROVE FullInv
    OBVIOUS
  <1>1. OwnInv
    BY OwnInit
  <1>2. LoadType
    BY DEF Init, LoadType, Live
  <1>3. OneLive /\ NothingLost
    BY DEF Init, OneLive, NothingLost, Live
  <1>4. \A p \in Procs : ~Placing(p)
    BY DEF Init, Placing, Mapping
  <1> QED BY <1>1, <1>2, <1>3, <1>4 DEF FullInv

\* The shell's two steps.
LEMMA FullShell ==
  ASSUME ShellWaits, FullInv, ShellAllocTest \/ ShellAllocSet
  PROVE  FullInv'
  <1>1. OwnInv'
    BY OwnShellTest, OwnShellSet DEF FullInv
  <1>2. UNCHANGED <<pt, tables, pc, image, todo, cand, allocations>>
    BY DEF ShellAllocTest, ShellAllocSet
  <1>3. \/ UNCHANGED <<bitmap, heap>>
        \/ bitmap' = bitmap \cup {shell} /\ heap' = heap \cup {shell}
    BY DEF ShellAllocTest, ShellAllocSet, Take, pmmvars
  <1>4. LoadType' /\ OneLive'
    BY <1>2 DEF FullInv, LoadType, OneLive, Live
  <1>5. NothingLost'
    BY <1>2, <1>3 DEF FullInv, NothingLost
  <1>6. \A q \in Procs : Placing(q)' => LoadInv(q)'
    BY <1>2, LoadFrame DEF FullInv, Placing
  <1> QED BY <1>1, <1>4, <1>5, <1>6 DEF FullInv

LEMMA FullStart ==
  ASSUME ShellWaits, FullInv, NEW p \in Procs, Start(p)
  PROVE  FullInv'
  <1>1. OwnInv'
    BY OwnStart DEF FullInv
  <1>2. PICK m \in Images : image' = [image EXCEPT ![p] = m]
    BY DEF Start
  <1>3. /\ pc[p] = "dead" /\ pc' = [pc EXCEPT ![p] = "reset"]
        /\ allocations' = [allocations EXCEPT ![p] = {}]
        /\ UNCHANGED <<bitmap, pt, tables, heap, todo, cand>>
    BY DEF Start, pmmvars
  <1>4. /\ pc'[p] = "reset" /\ image'[p] = m /\ allocations'[p] = {}
        /\ \A q \in Procs : q # p =>
              image'[q] = image[q] /\ pc'[q] = pc[q] /\ allocations'[q] = allocations[q]
    BY <1>2, <1>3 DEF FullInv, OwnInv, TypeOK, LoadType
  <1>5. LoadType'
    BY <1>2, <1>3, <1>4 DEF FullInv, LoadType, Live
  <1>6. OneLive'
    <2> SUFFICES ASSUME MaxLive = 1
                 PROVE  \A q \in Procs : ~Live(q)
      BY <1>4 DEF OneLive, Live
    <2> DEFINE L == {q \in Procs : Live(q)}
    <2>1. Cardinality(L) < 1
      BY DEF Start
    <2>2. L = {} \/ \E q : L = {q}
      BY DEF FullInv, OneLive
    <2>3. IsFiniteSet(L)
      BY <2>2, FS_Singleton, FS_EmptySet
    <2>4. Cardinality(L) \in Nat
      BY <2>3, FS_CardinalityType
    <2> HIDE DEF L
    <2>5. L = {}
      BY <2>1, <2>3, <2>4, FS_EmptySet
    <2> QED BY <2>5 DEF L
  <1>7. allocations' = allocations
    <2>1. allocations[p] = {}
      BY <1>3 DEF FullInv, NothingLost
    <2> QED BY <1>3, <2>1 DEF FullInv, OwnInv, TypeOK
  <1>8. NothingLost'
    BY <1>3, <1>4, <1>7 DEF FullInv, NothingLost
  <1>9. ~Placing(p)'
    BY <1>4 DEF Placing, Mapping
  <1>10. \A q \in Procs : Placing(q)' => LoadInv(q)'
    BY <1>3, <1>4, <1>9, LoadOthers
  <1> QED BY <1>1, <1>5, <1>6, <1>8, <1>10 DEF FullInv

\* process_exit leaves the marked frames to their other owners.
LEMMA FullExit ==
  ASSUME FullInv, NEW p \in Procs, Exit(p)
  PROVE  FullInv'
  <1>1. OwnInv'
    BY OwnExit DEF FullInv
  <1>2. /\ bitmap' = bitmap \ allocations[p]
        /\ allocations' = [allocations EXCEPT ![p] = {}]
        /\ pc' = [pc EXCEPT ![p] = "dead"]
        /\ UNCHANGED <<pt, tables, heap, shell, image, todo, cand, halted>>
    BY DEF Exit, GiveBack
  <1>3. /\ pc'[p] = "dead" /\ allocations'[p] = {}
        /\ \A q \in Procs : q # p => pc'[q] = pc[q] /\ allocations'[q] = allocations[q]
    BY <1>2 DEF FullInv, OwnInv, TypeOK
  <1>4. LoadType' /\ OneLive'
    BY <1>2, <1>3 DEF FullInv, LoadType, OneLive, Live
  <1>5. NothingLost'
    BY <1>2, <1>3 DEF FullInv, NothingLost
  <1>6. ~Placing(p)'
    BY <1>3 DEF Placing, Mapping
  <1>7. \A q \in Procs : Placing(q)' => LoadInv(q)'
    BY <1>2, <1>3, <1>6, LoadOthers
  <1> QED BY <1>1, <1>4, <1>5, <1>7 DEF FullInv

\* A step that takes p from one step of loading to another, or to ring 3.
LEMMA FullAdvance ==
  ASSUME FullInv, OwnInv', NEW p \in Procs, Loading(p), Live(p)',
         pc'[p] \in Mapping \cup {"user"},
         \A q \in Procs : q # p =>
            /\ todo'[q] = todo[q] /\ cand'[q] = cand[q]
            /\ allocations'[q] = allocations[q] /\ pc'[q] = pc[q],
         image' = image,
         todo' \in [Procs -> Seq(VPages \cup {KERNEL_SEGMENT})],
         bitmap' \subseteq heap' \cup tables' \cup UNION {allocations'[q] : q \in Procs},
         LoadInv(p)'
  PROVE  FullInv'
  <1>1. Live(p)
    BY DEF Loading, Live
  <1>2. LoadType' /\ OneLive'
    BY <1>1 DEF FullInv, LoadType, OneLive, Live
  <1>3. NothingLost'
    BY DEF FullInv, NothingLost, Mapping
  <1>4. \A q \in Procs : Placing(q)' => LoadInv(q)'
    BY LoadOthers
  <1> QED BY <1>2, <1>3, <1>4 DEF FullInv

\* usermode_reset_address_space leaves nothing in the region, so that the list
\* of recorded pages, empty, agrees with it.
LEMMA FullReset ==
  ASSUME FullInv, NEW p \in Procs, Reset(p)
  PROVE  FullInv'
  <1>1. OwnInv'
    BY OwnQuiet DEF FullInv
  <1>2. /\ pc[p] = "reset" /\ pt' = ResetTable(p)
        /\ todo' = [todo EXCEPT ![p] = image[p].pages \o StackPages]
        /\ pc' = [pc EXCEPT ![p] = "map"]
        /\ UNCHANGED <<bitmap, tables, heap, image, cand, allocations>>
    BY DEF Reset, pmmvars
  <1>3. image[p] \in Images /\ allocations[p] = {}
    BY <1>2 DEF FullInv, LoadType, NothingLost, Live
  <1>4. /\ pc'[p] = "map" /\ todo'[p] = image[p].pages \o StackPages
        /\ \A q \in Procs : q # p => todo'[q] = todo[q] /\ pc'[q] = pc[q]
    BY <1>2 DEF FullInv, OwnInv, TypeOK, LoadType
  <1>5. todo' \in [Procs -> Seq(VPages \cup {KERNEL_SEGMENT})]
    BY <1>2, <1>3, ImagePages DEF FullInv, LoadType
  <1>6. Placed' = {}
    BY <1>2, RegionAssumption DEF Placed, ResetTable
  <1>7. PagesIn(todo'[p]) = Needed(p)'
    <2>1. Needed(p)' = PagesIn(image[p].pages) \cup PagesIn(StackPages)
      BY <1>2 DEF Needed, PagesIn
    <2> QED BY <1>3, <1>4, <2>1, ImagePages
  <1>8. LoadInv(p)'
    BY <1>2, <1>3, <1>4, <1>6, <1>7 DEF LoadInv
  <1>9. Loading(p) /\ Live(p)' /\ pc'[p] \in Mapping \cup {"user"}
    BY <1>2, <1>4 DEF Loading, Live, Mapping
  <1>10. bitmap' \subseteq heap' \cup tables' \cup UNION {allocations'[q] : q \in Procs}
    BY <1>2 DEF FullInv, NothingLost
  <1> QED BY <1>1, <1>2, <1>4, <1>5, <1>8, <1>9, <1>10, FullAdvance

\* The page whose turn it is, for a process that is mapping.
LEMMA NextPage ==
  ASSUME ImagesFit, FullInv, NEW p \in Procs, pc[p] \in Mapping, todo[p] # <<>>
  PROVE  /\ LoadInv(p) /\ image[p] \in Images
         /\ Tail(todo[p]) \in Seq(VPages \cup {KERNEL_SEGMENT})
         /\ PagesIn(todo[p]) = {Head(todo[p])} \cup PagesIn(Tail(todo[p]))
         /\ Head(todo[p]) # KERNEL_SEGMENT =>
               Head(todo[p]) \in PagesOf(image[p]) /\ Head(todo[p]) \in Region
  <1>1. LoadInv(p) /\ image[p] \in Images
    BY DEF FullInv, Placing, Mapping, LoadType, Live
  <1>2. todo[p] \in Seq(VPages \cup {KERNEL_SEGMENT})
    BY DEF FullInv, LoadType
  <1>3. /\ Tail(todo[p]) \in Seq(VPages \cup {KERNEL_SEGMENT})
        /\ PagesIn(todo[p]) = {Head(todo[p])} \cup PagesIn(Tail(todo[p]))
    BY <1>2, HeadTailPages
  <1>4. Head(todo[p]) \in Needed(p)
    BY <1>1, <1>3 DEF LoadInv
  <1>5. Head(todo[p]) # KERNEL_SEGMENT => Head(todo[p]) \in PagesOf(image[p])
    BY <1>4 DEF Needed, PagesOf, PagesIn
  <1> QED BY <1>1, <1>3, <1>5 DEF ImagesFit

LEMMA FullSkip ==
  ASSUME ImagesFit, FullInv, NEW p \in Procs, SkipMapped(p)
  PROVE  FullInv'
  <1>1. OwnInv'
    BY OwnQuiet DEF FullInv
  <1>2. /\ pc[p] = "map" /\ todo[p] # <<>> /\ Head(todo[p]) # KERNEL_SEGMENT
        /\ pt[Head(todo[p])] # NONE
        /\ todo' = [todo EXCEPT ![p] = Tail(todo[p])]
        /\ UNCHANGED <<bitmap, pt, tables, heap, pc, image, cand, allocations>>
    BY DEF SkipMapped, pmmvars
  <1>3. /\ LoadInv(p) /\ Head(todo[p]) \in Placed
        /\ Tail(todo[p]) \in Seq(VPages \cup {KERNEL_SEGMENT})
        /\ PagesIn(todo[p]) = {Head(todo[p])} \cup PagesIn(Tail(todo[p]))
    BY <1>2, NextPage DEF Mapping, Placed
  <1>4. /\ todo'[p] = Tail(todo[p]) /\ \A q \in Procs : q # p => todo'[q] = todo[q]
        /\ todo' \in [Procs -> Seq(VPages \cup {KERNEL_SEGMENT})]
    BY <1>2, <1>3 DEF FullInv, LoadType
  <1>5. Placed' = Placed /\ Needed(p)' = Needed(p)
    BY <1>2 DEF Placed, Needed
  <1>6. LoadInv(p)'
    BY <1>2, <1>3, <1>4, <1>5 DEF LoadInv
  <1>7. Loading(p) /\ Live(p)' /\ pc'[p] \in Mapping \cup {"user"}
    BY <1>2 DEF Loading, Live, Mapping
  <1>8. bitmap' \subseteq heap' \cup tables' \cup UNION {allocations'[q] : q \in Procs}
    BY <1>2 DEF FullInv, NothingLost
  <1> QED BY <1>1, <1>2, <1>4, <1>6, <1>7, <1>8, FullAdvance

LEMMA FullAllocTest ==
  ASSUME FullInv, NEW p \in Procs, AllocTest(p)
  PROVE  FullInv'
  <1>1. OwnInv'
    BY OwnAllocTest DEF FullInv
  <1>2. /\ pc[p] = "map" /\ todo[p] # <<>> /\ Head(todo[p]) # KERNEL_SEGMENT
        /\ pt[Head(todo[p])] = NONE
        /\ pc' = [pc EXCEPT ![p] = "set"]
        /\ UNCHANGED <<bitmap, pt, tables, heap, image, todo, allocations>>
        /\ \E f \in Frames : cand' = [cand EXCEPT ![p] = f]
    BY DEF AllocTest, NeedsFrame, pmmvars
  <1>3. LoadInv(p)
    BY <1>2 DEF FullInv, Placing, Mapping
  <1>4. /\ pc'[p] = "set"
        /\ \A q \in Procs : q # p => cand'[q] = cand[q] /\ pc'[q] = pc[q]
    BY <1>2 DEF FullInv, OwnInv, TypeOK
  <1>5. Placed' = Placed /\ Needed(p)' = Needed(p)
    BY <1>2 DEF Placed, Needed
  <1>6. LoadInv(p)'
    BY <1>2, <1>3, <1>4, <1>5 DEF LoadInv
  <1>7. Loading(p) /\ Live(p)' /\ pc'[p] \in Mapping \cup {"user"}
    BY <1>2, <1>4 DEF Loading, Live, Mapping
  <1>8. bitmap' \subseteq heap' \cup tables' \cup UNION {allocations'[q] : q \in Procs}
    BY <1>2 DEF FullInv, NothingLost
  <1>9. todo' \in [Procs -> Seq(VPages \cup {KERNEL_SEGMENT})]
    BY <1>2 DEF FullInv, LoadType
  <1> QED BY <1>1, <1>2, <1>4, <1>6, <1>7, <1>8, <1>9, FullAdvance

\* The frame is recorded: the list has room for it.
LEMMA FullAllocSet ==
  ASSUME ImagesFit, FullInv, NEW p \in Procs, AllocSet(p)
  PROVE  FullInv'
  <1>1. OwnInv'
    BY OwnAllocSet DEF FullInv
  <1>2. /\ pc[p] = "set" /\ bitmap' = bitmap \cup {cand[p]}
        /\ allocations' = [allocations EXCEPT ![p] = Tracked(p, cand[p])]
        /\ pc' = [pc EXCEPT ![p] = "walk"]
        /\ UNCHANGED <<pt, tables, heap, image, todo, cand>>
    BY DEF AllocSet, Take
  <1>3. LoadInv(p)
    BY <1>2 DEF FullInv, Placing, Mapping
  <1>4. Tracked(p, cand[p]) = allocations[p] \cup {cand[p]}
    BY <1>2, <1>3, RoomLeft DEF Tracked, FullInv, OwnInv
  <1>5. /\ pc'[p] = "walk" /\ allocations'[p] = allocations[p] \cup {cand[p]}
        /\ \A q \in Procs : q # p => allocations'[q] = allocations[q] /\ pc'[q] = pc[q]
    BY <1>2, <1>4 DEF FullInv, OwnInv, TypeOK
  <1>6. Placed' = Placed /\ Needed(p)' = Needed(p)
    BY <1>2 DEF Placed, Needed
  <1>7. LoadInv(p)'
    BY <1>2, <1>3, <1>5, <1>6 DEF LoadInv
  <1>8. Loading(p) /\ Live(p)' /\ pc'[p] \in Mapping \cup {"user"}
    BY <1>2, <1>5 DEF Loading, Live, Mapping
  <1>9. bitmap' \subseteq heap' \cup tables' \cup UNION {allocations'[q] : q \in Procs}
    BY <1>2, <1>5 DEF FullInv, NothingLost
  <1>10. todo' \in [Procs -> Seq(VPages \cup {KERNEL_SEGMENT})]
    BY <1>2 DEF FullInv, LoadType
  <1> QED BY <1>1, <1>2, <1>5, <1>7, <1>8, <1>9, <1>10, FullAdvance

LEMMA FullAllocTable ==
  ASSUME FullInv, NEW p \in Procs, AllocTable(p)
  PROVE  FullInv'
  <1>1. OwnInv'
    BY OwnAllocTable DEF FullInv
  <1>2. PICK f \in Frames : bitmap' = bitmap \cup {f} /\ tables' = tables \cup {f}
    BY DEF AllocTable, Take
  <1>3. pc[p] = "walk" /\ UNCHANGED <<pt, heap, pc, image, todo, cand, allocations>>
    BY DEF AllocTable
  <1>4. LoadInv(p)'
    BY <1>3, LoadFrame DEF FullInv, Placing, Mapping
  <1>5. Loading(p) /\ Live(p)' /\ pc'[p] \in Mapping \cup {"user"}
    BY <1>3 DEF Loading, Live, Mapping
  <1>6. bitmap' \subseteq heap' \cup tables' \cup UNION {allocations'[q] : q \in Procs}
    BY <1>2, <1>3 DEF FullInv, NothingLost
  <1>7. todo' \in [Procs -> Seq(VPages \cup {KERNEL_SEGMENT})]
    BY <1>3 DEF FullInv, LoadType
  <1> QED BY <1>1, <1>3, <1>4, <1>5, <1>6, <1>7, FullAdvance

\* The page is mapped to the frame that was recorded for it.
LEMMA FullMapPage ==
  ASSUME ImagesFit, FullInv, NEW p \in Procs, MapPage(p)
  PROVE  FullInv'
  <1> DEFINE h == Head(todo[p])
  <1>1. OwnInv'
    BY OwnQuiet DEF FullInv
  <1>2. /\ pc[p] = "walk" /\ pt' = [pt EXCEPT ![h] = cand[p]]
        /\ todo' = [todo EXCEPT ![p] = Tail(todo[p])]
        /\ cand' = [cand EXCEPT ![p] = NONE]
        /\ pc' = [pc EXCEPT ![p] = "map"]
        /\ UNCHANGED <<bitmap, tables, heap, image, allocations>>
    BY DEF MapPage, pmmvars
  <1>3. LoadInv(p)
    BY <1>2 DEF FullInv, Placing, Mapping
  <1>4. todo[p] # <<>> /\ h # KERNEL_SEGMENT /\ pt[h] = NONE /\ cand[p] \in allocations[p]
    BY <1>2, <1>3 DEF LoadInv
  <1>5. /\ Tail(todo[p]) \in Seq(VPages \cup {KERNEL_SEGMENT})
        /\ PagesIn(todo[p]) = {h} \cup PagesIn(Tail(todo[p]))
        /\ h \in PagesOf(image[p]) /\ h \in Region
    BY <1>2, <1>4, NextPage DEF Mapping
  <1>6. /\ pc'[p] = "map" /\ todo'[p] = Tail(todo[p])
        /\ todo' \in [Procs -> Seq(VPages \cup {KERNEL_SEGMENT})]
        /\ \A q \in Procs : q # p =>
              todo'[q] = todo[q] /\ cand'[q] = cand[q] /\ pc'[q] = pc[q]
    BY <1>2, <1>5 DEF FullInv, OwnInv, TypeOK, LoadType
  <1>7. cand[p] # NONE
    BY <1>4 DEF FullInv, OwnInv, TypeOK, Frames, NONE
  <1> HIDE DEF h
  <1>8. /\ Placed' = Placed \cup {h} /\ pt'[h] = cand[p] /\ h \notin Placed
        /\ \A v \in Placed : pt'[v] = pt[v]
    BY <1>2, <1>4, <1>5, <1>7, RegionAssumption DEF Placed, FullInv, OwnInv, TypeOK
  <1>9. Needed(p)' = Needed(p)
    BY <1>2 DEF Needed
  <1>10. LoadInv(p)'
    <2>1. Placed' \subseteq PagesOf(image'[p])
      BY <1>2, <1>3, <1>5, <1>8 DEF LoadInv
    <2>2. \A v \in Placed' : pt'[v] \in allocations'[p]
      BY <1>2, <1>3, <1>4, <1>8 DEF LoadInv
    <2>3. \A f \in allocations'[p] : \E v \in Placed' : pt'[v] = f
      BY <1>2, <1>3, <1>8 DEF LoadInv
    <2>4. /\ PagesIn(todo'[p]) \subseteq Needed(p)'
          /\ Needed(p)' \subseteq Placed' \cup PagesIn(todo'[p])
      BY <1>3, <1>5, <1>6, <1>8, <1>9 DEF LoadInv
    <2> QED BY <1>6, <2>1, <2>2, <2>3, <2>4 DEF LoadInv
  <1>11. Loading(p) /\ Live(p)' /\ pc'[p] \in Mapping \cup {"user"}
    BY <1>2, <1>6 DEF Loading, Live, Mapping
  <1>12. bitmap' \subseteq heap' \cup tables' \cup UNION {allocations'[q] : q \in Procs}
    BY <1>2 DEF FullInv, NothingLost
  <1> QED BY <1>1, <1>2, <1>6, <1>10, <1>11, <1>12, FullAdvance

LEMMA FullEnter ==
  ASSUME FullInv, NEW p \in Procs, Enter(p)
  PROVE  FullInv'
  <1>1. OwnInv'
    BY OwnQuiet DEF FullInv
  <1>2. /\ pc[p] = "map" /\ todo[p] = <<>> /\ pc' = [pc EXCEPT ![p] = "user"]
        /\ UNCHANGED <<bitmap, pt, tables, heap, image, todo, cand, allocations>>
    BY DEF Enter, pmmvars
  <1>3. LoadInv(p)
    BY <1>2 DEF FullInv, Placing, Mapping
  <1>4. pc'[p] = "user" /\ \A q \in Procs : q # p => pc'[q] = pc[q]
    BY <1>2 DEF FullInv, OwnInv, TypeOK
  <1>5. Placed' = Placed /\ Needed(p)' = Needed(p)
    BY <1>2 DEF Placed, Needed
  <1>6. LoadInv(p)'
    BY <1>2, <1>3, <1>4, <1>5 DEF LoadInv
  <1>7. Loading(p) /\ Live(p)' /\ pc'[p] \in Mapping \cup {"user"}
    BY <1>2, <1>4 DEF Loading, Live, Mapping
  <1>8. bitmap' \subseteq heap' \cup tables' \cup UNION {allocations'[q] : q \in Procs}
    BY <1>2 DEF FullInv, NothingLost
  <1>9. todo' \in [Procs -> Seq(VPages \cup {KERNEL_SEGMENT})]
    BY <1>2 DEF FullInv, LoadType
  <1> QED BY <1>1, <1>2, <1>4, <1>6, <1>7, <1>8, <1>9, FullAdvance

\* The machine halts, or nothing happens.
LEMMA FullStill ==
  ASSUME FullInv, OwnInv',
         UNCHANGED <<bitmap, pt, tables, heap, pc, image, todo, cand, allocations>>
  PROVE  FullInv'
  <1>1. LoadType' /\ OneLive' /\ NothingLost'
    BY DEF FullInv, LoadType, OneLive, NothingLost, Live
  <1>2. \A q \in Procs : Placing(q)' => LoadInv(q)'
    BY LoadFrame DEF FullInv, Placing
  <1> QED BY <1>1, <1>2 DEF FullInv

LEMMA FullStep ==
  ASSUME ShellWaits, ImagesFit, FullInv, [Next]_vars
  PROVE  FullInv'
  <1>1. OwnInv'
    BY OwnStep DEF FullInv
  <1>2. CASE ShellAllocTest \/ ShellAllocSet
    BY <1>2, FullShell
  <1>3. ASSUME NEW p \in Procs, Start(p) PROVE FullInv'
    BY <1>3, FullStart
  <1>4. ASSUME NEW p \in Procs, Reject(p) \/ RefuseSegment(p) \/ SysExit(p)
        PROVE  FullInv'
    <2>1. Exit(p)
      BY <1>4 DEF Reject, RefuseSegment, SysExit
    <2> QED BY <2>1, FullExit
  <1>5. ASSUME NEW p \in Procs, OutOfMemory(p) PROVE FullInv'
    <2>1. CASE image[p].builtin
      BY <1>1, <1>5, <2>1, FullStill DEF OutOfMemory, pmmvars
    <2>2. CASE ~image[p].builtin
      BY <1>5, <2>2, FullExit DEF OutOfMemory
    <2> QED BY <2>1, <2>2
  <1>6. ASSUME NEW p \in Procs, TableOutOfMemory(p) PROVE FullInv'
    BY <1>1, <1>6, FullStill DEF TableOutOfMemory, pmmvars
  <1>7. ASSUME NEW p \in Procs,
               \/ Reset(p) \/ SkipMapped(p) \/ AllocTest(p) \/ AllocSet(p)
               \/ AllocTable(p) \/ MapPage(p) \/ Enter(p)
        PROVE  FullInv'
    BY <1>7, FullReset, FullSkip, FullAllocTest, FullAllocSet, FullAllocTable,
       FullMapPage, FullEnter
  <1>8. CASE UNCHANGED vars
    BY <1>1, <1>8, FullStill DEF vars
  <1>9. ASSUME NEW p \in Procs,
               \/ Start(p) \/ Reject(p) \/ Reset(p) \/ SkipMapped(p) \/ RefuseSegment(p)
               \/ AllocTest(p) \/ OutOfMemory(p) \/ AllocSet(p)
               \/ AllocTable(p) \/ TableOutOfMemory(p) \/ MapPage(p)
               \/ Enter(p) \/ SysExit(p)
        PROVE  FullInv'
    BY <1>3, <1>4, <1>5, <1>6, <1>7, <1>9
  <1> QED BY <1>2, <1>8, <1>9 DEF Next

LEMMA FullHolds ==
  ASSUME ShellWaits, ImagesFit
  PROVE  Spec => []FullInv
  <1>1. Init => FullInv
    BY FullInit
  <1>2. FullInv /\ [Next]_vars => FullInv'
    BY FullStep
  <1> QED BY <1>1, <1>2, PTL DEF Spec

\* The bitmap marks the frames that somebody owns and no others, and the counter
\* is exact, after any sequence of loads that fail half-way, refused segments,
\* exits and heap growth, and with any number of programs at once (pmm.c:84-104,
\* process.c:147-168).
THEOREM BitmapStaysExact ==
  ASSUME ShellWaits, ImagesFit
  PROVE  Spec => []BitmapExact
  <1>1. FullInv => BitmapExact
    BY DEF FullInv, OwnInv, Accounts, NothingLost, BitmapExact
  <1> QED BY <1>1, FullHolds, PTL

\* With one program at a time, a program in ring 3 runs on frames that are
\* allocated and recorded for it, on every page it needs, whatever the program
\* before it left in the page table (usermode.c:26-57, elf_loader.c:38-68).
THEOREM ProgramsRunOnOwnPages ==
  ASSUME ShellWaits, ImagesFit, MaxLive = 1
  PROVE  Spec => []RunsOnOwnPages
  <1>1. FullInv => RunsOnOwnPages
    <2> SUFFICES ASSUME FullInv, NEW p \in Procs, pc[p] = "user", NEW v \in Needed(p)
                 PROVE  pt[v] \in allocations[p] /\ pt[v] \in bitmap
      BY DEF RunsOnOwnPages
    <2>1. LoadInv(p) /\ todo[p] = <<>>
      BY DEF FullInv, Placing, LoadInv
    <2>2. v \in Placed
      BY <2>1 DEF LoadInv, PagesIn
    <2> QED BY <2>1, <2>2 DEF LoadInv, FullInv, OwnInv, Accounts
  <1> QED BY <1>1, FullHolds, PTL
=============================================================================
