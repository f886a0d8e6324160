----------------------------- MODULE HeapProofs -----------------------------
(***************************************************************************)
(* The block list of heap.c stays well formed for every page, header and   *)
(* alignment size and every sequence of requests.                          *)
(***************************************************************************)
EXTENDS Heap, TLAPS

\* A well-formed list of blocks, possibly with free neighbours.
ListOK(B, h, t, l) ==
    /\ \A a \in DOMAIN B : a \in Nat /\ B[a] \in Header
    /\ h \in Nat /\ t \in Nat /\ l \in Nat /\ l >= HEAP_START
    /\ NoOverlapIn(B, l)
    /\ OrderedIn(B, h, t)

\* No merge of kfree is left to do; the lists of the lemmas below have it.
NoneAbsorbs(B) == \A a \in DOMAIN B : ~Absorbs(B, a)

\* align_up does not shrink a size.
LEMMA AlignUp ==
  ASSUME NEW n \in Nat
  PROVE  align_up(n) \in Nat /\ align_up(n) >= n
  <1>1. n % HEAP_ALIGN \in 0..(HEAP_ALIGN - 1)
    BY AlignAssumption
  <1> QED BY <1>1, AlignAssumption DEF align_up

\* The pages heap_expand maps hold the request and a header.
LEMMA PagesEnough ==
  ASSUME NEW n \in Nat
  PROVE  /\ PagesFor(n) \in Nat
         /\ PagesFor(n) * PMM_PAGE_SIZE \in Nat
         /\ PagesFor(n) * PMM_PAGE_SIZE >= n + HEADER
  <1> DEFINE m == align_up(n + HEADER) + PMM_PAGE_SIZE - 1
             q == m \div PMM_PAGE_SIZE
  <1>1. align_up(n + HEADER) \in Nat /\ align_up(n + HEADER) >= n + HEADER
    BY AlignUp, HeaderAssumption
  <1>2. m \in Nat
    BY <1>1, PageAssumption
  <1> HIDE DEF m
  <1>3. q \in Nat /\ m = PMM_PAGE_SIZE * q + (m % PMM_PAGE_SIZE)
        /\ m % PMM_PAGE_SIZE < PMM_PAGE_SIZE /\ m % PMM_PAGE_SIZE \in Nat
    BY <1>2, PageAssumption
  <1> DEFINE d == q * PMM_PAGE_SIZE
  <1>4. d \in Nat /\ m = d + (m % PMM_PAGE_SIZE)
    BY <1>3, PageAssumption
  <1> HIDE DEF d
  <1>5. d >= n + HEADER
    BY <1>1, <1>2, <1>3, <1>4, PageAssumption, HeaderAssumption DEF m
  <1> QED BY <1>3, <1>4, <1>5 DEF m, d, PagesFor

\* The second header split_block writes, r, and the fields it leaves in S.
SplitShape(B, b, size, S, r) ==
    /\ r \in Nat /\ b < r /\ r + HEADER < End(B, b)
    /\ r \notin DOMAIN B
    /\ DOMAIN S = DOMAIN B \cup {r}
    /\ S[r] \in Header /\ S[r].is_free /\ S[r].size = B[b].size - size - HEADER
    /\ S[r].next = B[b].next /\ S[r].prev = b
    /\ S[b] \in Header /\ S[b].is_free = B[b].is_free /\ S[b].size = size
    /\ S[b].next = r /\ S[b].prev = B[b].prev
    /\ \A a \in DOMAIN B : a # b =>
          /\ S[a].is_free = B[a].is_free /\ S[a].size = B[a].size
          /\ S[a].next = B[a].next
          /\ S[a].prev = IF a = B[b].next THEN r ELSE B[a].prev
          /\ S[a] \in Header

\* split_block has that effect on a well-formed list.
LEMMA SplitFields ==
  ASSUME NEW B, NEW h, NEW t, NEW l, ListOK(B, h, t, l),
         NEW b \in DOMAIN B, NEW size \in Nat \ {0}, Splits(B, b, size)
  PROVE  SplitShape(B, b, size, SplitBlocks(B, b, size), Rest(b, size))
  <1> DEFINE S == SplitBlocks(B, b, size)
             r == Rest(b, size)
  <1> USE HeaderAssumption, AlignAssumption, StartAssumption
  <1>1. /\ b \in Nat /\ B[b].size \in Nat /\ B[b].next \in Nat /\ B[b].prev \in Nat
        /\ B[b].is_free \in BOOLEAN
    BY DEF ListOK, Header
  <1>2. r \in Nat /\ b < r /\ r + HEADER < End(B, b)
    BY <1>1 DEF Rest, End, Splits
  <1>3. r \notin DOMAIN B
    BY <1>1, <1>2 DEF ListOK, NoOverlapIn, End
  <1>4. DOMAIN S = DOMAIN B \cup {r}
    BY DEF SplitBlocks
  <1>5. /\ S[r] = [is_free |-> TRUE, size |-> B[b].size - size - HEADER,
                   next |-> B[b].next, prev |-> b]
        /\ S[b] = [is_free |-> B[b].is_free, size |-> size, next |-> r, prev |-> B[b].prev]
    BY <1>2, <1>1 DEF SplitBlocks
  <1>6. ASSUME NEW a \in DOMAIN B, a # b
        PROVE  S[a] = IF a = B[b].next THEN [B[a] EXCEPT !.prev = r] ELSE B[a]
    BY <1>6, <1>3 DEF SplitBlocks
  <1>7. ASSUME NEW a \in DOMAIN B, a # b
        PROVE  /\ S[a].is_free = B[a].is_free /\ S[a].size = B[a].size
               /\ S[a].next = B[a].next
               /\ S[a].prev = IF a = B[b].next THEN r ELSE B[a].prev
               /\ S[a] \in Header
    <2> HIDE DEF S, r
    <2>1. B[a] \in Header
      BY DEF ListOK
    <2> QED BY <2>1, <1>6, <1>7, <1>2 DEF Header
  <1>8. S[r] \in Header /\ S[b] \in Header
    <2> HIDE DEF S, r
    <2> QED BY <1>1, <1>2, <1>5 DEF Header, Splits
  <1> HIDE DEF S, r
  <1>9. SplitShape(B, b, size, S, r)
    BY <1>2, <1>3, <1>4, <1>5, <1>7, <1>8 DEF SplitShape
  <1> QED BY <1>9 DEF S, r

\* split_block preserves the list.
LEMMA SplitOK ==
  ASSUME NEW B, NEW h, NEW t, NEW l, ListOK(B, h, t, l),
         NEW b \in DOMAIN B, NEW size \in Nat \ {0}, Splits(B, b, size)
  PROVE  ListOK(SplitBlocks(B, b, size), h,
                IF B[b].next = NULL THEN Rest(b, size) ELSE t, l)
  <1> DEFINE r == Rest(b, size)
             S == SplitBlocks(B, b, size)
             u == IF B[b].next = NULL THEN r ELSE t
  <1> USE HeaderAssumption, AlignAssumption, StartAssumption
  <1>1. b \in Nat /\ B[b].size \in Nat /\ B[b].next \in Nat /\ B[b].prev \in Nat
    BY DEF ListOK, Header
  <1> HIDE DEF S, r
  <1>0. SplitShape(B, b, size, S, r)
    BY SplitFields DEF S, r
  <1>2. r \in Nat /\ b < r /\ r + HEADER < End(B, b)
    BY <1>0 DEF SplitShape
  <1>3. r \notin DOMAIN B
    BY <1>0 DEF SplitShape
  <1>4. /\ DOMAIN S = DOMAIN B \cup {r}
        /\ S[r] \in Header /\ S[b] \in Header
        /\ \A a \in DOMAIN B : a # b =>
              /\ S[a].size = B[a].size /\ S[a].next = B[a].next
              /\ S[a].prev = IF a = B[b].next THEN r ELSE B[a].prev
              /\ S[a] \in Header
    BY <1>0 DEF SplitShape
  <1>9. /\ S[r].size = B[b].size - size - HEADER
        /\ S[r].next = B[b].next /\ S[r].prev = b
        /\ S[b].size = size /\ S[b].next = r /\ S[b].prev = B[b].prev
    BY <1>0 DEF SplitShape
  <1>5. \A a \in DOMAIN S : a \in Nat /\ S[a] \in Header
    BY <1>2, <1>4 DEF ListOK
  <1>6. End(S, r) = End(B, b) /\ End(S, b) = r
        /\ \A a \in DOMAIN B : a # b => End(S, a) = End(B, a)
    BY <1>1, <1>2, <1>4, <1>9 DEF End, r, Rest
  <1>7. NoOverlapIn(S, l)
    <2>1. \A a \in DOMAIN S : HEAP_START <= a /\ S[a].size > 0 /\ End(S, a) <= l
      BY <1>1, <1>2, <1>4, <1>6, <1>9 DEF ListOK, NoOverlapIn, Splits, End
    <2>2. \A a \in DOMAIN B : a < r => a <= b
      BY <1>1, <1>2 DEF ListOK, NoOverlapIn, End, Header
    <2>3. \A a, c \in DOMAIN S : a < c => End(S, a) <= c
      <3> SUFFICES ASSUME NEW a \in DOMAIN S, NEW c \in DOMAIN S, a < c
                   PROVE  End(S, a) <= c
        OBVIOUS
      <3>1. CASE a = r
        BY <3>1, <1>1, <1>2, <1>4, <1>6 DEF ListOK, NoOverlapIn
      <3>2. CASE a = b
        BY <3>2, <1>1, <1>2, <1>4, <1>6, <2>2 DEF ListOK
      <3>3. CASE a # r /\ a # b /\ c = r
        <4>1. a \in DOMAIN B /\ a < b
          BY <3>3, <1>1, <1>2, <1>4, <2>2 DEF ListOK
        <4>2. End(B, a) <= b /\ End(B, a) \in Nat
          BY <4>1 DEF ListOK, NoOverlapIn, End, Header
        <4> QED BY <3>3, <4>1, <4>2, <1>1, <1>2, <1>6
      <3>4. CASE a # r /\ a # b /\ c # r
        BY <3>4, <1>4, <1>6 DEF ListOK, NoOverlapIn
      <3> QED BY <3>1, <3>2, <3>3, <3>4
    <2> QED BY <2>1, <2>3 DEF NoOverlapIn
  <1>10. \A a \in DOMAIN B : /\ a \in Nat \ {0} /\ B[a].next \in Nat /\ B[a].prev \in Nat
    BY DEF ListOK, Header, NoOverlapIn
  <1>11. \A c \in DOMAIN B : c > b => c > r
    BY <1>1, <1>2, <1>3, <1>10 DEF ListOK, NoOverlapIn, End
  <1>12. OrderedIn(B, h, t)
    BY DEF ListOK
  <1>8. OrderedIn(S, h, u)
    <2> USE DEF NULL
    <2>1. ASSUME NEW a \in DOMAIN S, S[a].next = NULL
          PROVE  a = u /\ \A c \in DOMAIN S : c <= a
      <3>1. a # b
        BY <2>1, <1>2, <1>9, <1>1
      <3>2. CASE a = r
        BY <3>2, <2>1, <1>1, <1>2, <1>4, <1>9, <1>10, <1>12 DEF OrderedIn
      <3>3. CASE a # r
        <4>1. a \in DOMAIN B /\ B[a].next = 0
          BY <3>1, <3>3, <2>1, <1>4
        <4>2. a = t /\ \A c \in DOMAIN B : c <= a
          BY <4>1, <1>12 DEF OrderedIn
        <4>3. b < a
          BY <3>1, <4>1, <4>2, <1>1, <1>10
        <4>4. B[b].next # 0 /\ r < a
          BY <4>1, <4>2, <4>3, <1>1, <1>10, <1>11, <1>12 DEF OrderedIn
        <4> QED BY <4>1, <4>2, <4>4, <1>2, <1>4, <1>10
      <3> QED BY <3>2, <3>3
    <2>2. ASSUME NEW a \in DOMAIN S, S[a].next # NULL
          PROVE  /\ S[a].next \in DOMAIN S /\ S[a].next > a
                 /\ S[S[a].next].prev = a
                 /\ \A c \in DOMAIN S : c > a => c >= S[a].next
      <3>1. CASE a = r
        <4> DEFINE n == B[b].next
        <4>1. /\ n # NULL /\ n \in DOMAIN B /\ n > b
              /\ \A c \in DOMAIN B : c > b => c >= n
          BY <3>1, <2>2, <1>9, <1>12 DEF OrderedIn
        <4>2. n > r /\ S[n].prev = r
          BY <4>1, <1>1, <1>4, <1>10, <1>11
        <4>3. \A c \in DOMAIN S : c > r => c >= n
          BY <4>1, <1>1, <1>2, <1>4, <1>10
        <4> QED BY <3>1, <4>1, <4>2, <4>3, <1>4, <1>9
      <3>2. CASE a = b
        BY <3>2, <1>1, <1>2, <1>4, <1>9, <1>10, <1>11 
      <3>3. CASE a # r /\ a # b
        <4> DEFINE n == B[a].next
        <4>1. a \in DOMAIN B /\ S[a].next = n /\ n # NULL
          BY <3>3, <2>2, <1>4
        <4>2. /\ n \in DOMAIN B /\ n > a /\ B[n].prev = a
              /\ \A c \in DOMAIN B : c > a => c >= n
          BY <4>1, <1>12 DEF OrderedIn
        <4>3. n # b => n # B[b].next
          BY <4>2, <3>3, <1>10, <1>12 DEF OrderedIn
        <4>4. S[n].prev = a
          BY <4>2, <4>3, <1>4, <1>9
        <4>5. r > a => r >= n
          BY <4>1, <4>2, <3>3, <1>1, <1>2, <1>10, <1>11
        <4> QED BY <4>1, <4>2, <4>4, <4>5, <1>4
      <3> QED BY <3>1, <3>2, <3>3
    <2>3. ASSUME NEW a \in DOMAIN S
          PROVE  /\ S[a].prev = NULL => a = h
                 /\ S[a].prev # NULL => S[a].prev \in DOMAIN S /\ S[S[a].prev].next = a
      <3>1. CASE a = r
        BY <3>1, <1>1, <1>2, <1>4, <1>9, StartAssumption DEF ListOK, NoOverlapIn
      <3>2. CASE a = b
        <4>1. B[b].prev # NULL => /\ B[b].prev \in DOMAIN B /\ B[B[b].prev].next = b
                                  /\ B[b].prev # b
          BY <1>10, <1>12 DEF OrderedIn
        <4> QED BY <3>2, <4>1, <1>4, <1>9, <1>12 DEF OrderedIn
      <3>3. CASE a # r /\ a # b
        <4>1. a \in DOMAIN B
          BY <3>3, <1>4
        <4>2. CASE a = B[b].next
          BY <3>3, <4>1, <4>2, <1>2, <1>4, <1>9, <1>10
        <4>3. CASE a # B[b].next
          <5>1. S[a].prev = B[a].prev
            BY <3>3, <4>1, <4>3, <1>4
          <5>2. B[a].prev # NULL => B[a].prev \in DOMAIN B /\ B[a].prev # b
                                    /\ B[B[a].prev].next = a
            BY <4>1, <4>3, <1>12 DEF OrderedIn
          <5> QED BY <4>1, <5>1, <5>2, <1>4, <1>12 DEF OrderedIn
        <4> QED BY <4>2, <4>3
      <3> QED BY <3>1, <3>2, <3>3
    <2>4. h \in DOMAIN S /\ u \in DOMAIN S /\ S[h].prev = NULL /\ S[u].next = NULL
      <3>1. h \in DOMAIN B /\ t \in DOMAIN B /\ B[h].prev = NULL /\ B[t].next = NULL
        BY <1>12 DEF OrderedIn
      <3>2. h # B[b].next
        BY <3>1, <1>10, <1>12 DEF OrderedIn
      <3>3. S[h].prev = NULL
        BY <3>1, <3>2, <1>4, <1>9
      <3>4. B[b].next # NULL => t # b
        BY <3>1
      <3> QED BY <3>1, <3>3, <3>4, <1>4, <1>9
    <2> QED BY <2>1, <2>2, <2>3, <2>4 DEF OrderedIn
  <1> QED BY <1>1, <1>2, <1>5, <1>7, <1>8 DEF ListOK, S, r

-----------------------------------------------------------------------------
\* Only sizes that do not grow and free flags may differ: the list stays well
\* formed.
LEMMA SameLinks ==
  ASSUME NEW B, NEW h, NEW t, NEW l, ListOK(B, h, t, l),
         NEW M, DOMAIN M = DOMAIN B,
         \A a \in DOMAIN B : /\ M[a] \in Header /\ M[a].size = B[a].size
                             /\ M[a].next = B[a].next /\ M[a].prev = B[a].prev
  PROVE  ListOK(M, h, t, l)
  <1>1. NoOverlapIn(M, l)
    BY DEF ListOK, NoOverlapIn, End
  <1>2. OrderedIn(M, h, t)
    BY DEF ListOK, OrderedIn
  <1> QED BY <1>1, <1>2 DEF ListOK

\* Setting the free flag of one block.
MarkShape(B, b, f, M) ==
    /\ DOMAIN M = DOMAIN B
    /\ M[b].is_free = f
    /\ \A a \in DOMAIN B : /\ M[a] \in Header /\ M[a].size = B[a].size
                           /\ M[a].next = B[a].next /\ M[a].prev = B[a].prev
                           /\ a # b => M[a].is_free = B[a].is_free

\* A store to is_free changes that field only.
LEMMA MarkFields ==
  ASSUME NEW B, NEW b \in DOMAIN B, NEW f \in BOOLEAN,
         \A a \in DOMAIN B : B[a] \in Header
  PROVE  MarkShape(B, b, f, [B EXCEPT ![b].is_free = f])
  <1> DEFINE M == [B EXCEPT ![b].is_free = f]
  <1>1. DOMAIN M = DOMAIN B
    OBVIOUS
  <1>2. \A a \in DOMAIN B : M[a] = IF a = b THEN [B[a] EXCEPT !.is_free = f] ELSE B[a]
    OBVIOUS
  <1> HIDE DEF M
  <1>3. MarkShape(B, b, f, M)
    BY <1>1, <1>2 DEF Header, MarkShape
  <1> QED BY <1>3 DEF M

\* A store to is_free preserves the list.
LEMMA MarkOK ==
  ASSUME NEW B, NEW h, NEW t, NEW l, ListOK(B, h, t, l),
         NEW b \in DOMAIN B, NEW f \in BOOLEAN
  PROVE  ListOK([B EXCEPT ![b].is_free = f], h, t, l)
  <1> DEFINE M == [B EXCEPT ![b].is_free = f]
  <1>1. MarkShape(B, b, f, M)
    BY MarkFields DEF ListOK
  <1> HIDE DEF M
  <1>2. ListOK(M, h, t, l)
    BY <1>1, SameLinks DEF MarkShape
  <1> QED BY <1>2 DEF M

\* What the successful branch of kmalloc makes of the list.
LEMMA TakeOK ==
  ASSUME NEW B, NEW h, NEW t, NEW l, ListOK(B, h, t, l),
         NEW b \in DOMAIN B, NEW size \in Nat \ {0}, Fits(B, b, size)
  PROVE  ListOK(TakeBlocks(B, b, size), h, TakeTail(B, t, b, size), l)
  <1> DEFINE S == IF Splits(B, b, size) THEN SplitBlocks(B, b, size) ELSE B
             u == TakeTail(B, t, b, size)
  <1>1. ListOK(S, h, u, l)
    BY SplitOK DEF TakeTail
  <1>2. b \in DOMAIN S
    BY DEF SplitBlocks
  <1> HIDE DEF S, u
  <1>3. ListOK([S EXCEPT ![b].is_free = FALSE], h, u, l)
    BY <1>1, <1>2, MarkOK
  <1> QED BY <1>3 DEF S, u, TakeBlocks

-----------------------------------------------------------------------------
(* Growth.                                                                 *)

\* Everything lies below the limit, so the new area is behind the tail.
LEMMA BelowLimit ==
  ASSUME NEW B, NEW h, NEW t, NEW l, ListOK(B, h, t, l), NEW a \in DOMAIN B
  PROVE  /\ a \in Nat \ {0} /\ a < l /\ End(B, a) <= l /\ End(B, a) \in Nat
         /\ B[a].size \in Nat /\ B[a].next \in Nat /\ B[a].prev \in Nat
         /\ B[a].is_free \in BOOLEAN
  BY HeaderAssumption, StartAssumption DEF ListOK, NoOverlapIn, End, Header

\* The last block grows when it is free.
LEMMA ExpandMerged ==
  ASSUME NEW B, NEW h, NEW t, NEW l, ListOK(B, h, t, l),
         NEW m \in Nat, m > HEADER, MergesWithTail(B, t)
  PROVE  ListOK([B EXCEPT ![t].size = @ + m], h, t, l + m)
  <1> DEFINE M == [B EXCEPT ![t].size = @ + m]
  <1> USE HeaderAssumption, StartAssumption
  <1>1. t \in DOMAIN B /\ B[t].next = NULL /\ \A a \in DOMAIN B : a <= t
    BY DEF MergesWithTail, ListOK, OrderedIn
  <1>2. DOMAIN M = DOMAIN B
    OBVIOUS
  <1>3. \A a \in DOMAIN B : M[a] = IF a = t THEN [B[a] EXCEPT !.size = B[a].size + m] ELSE B[a]
    OBVIOUS
  <1> HIDE DEF M
  <1>4. \A a \in DOMAIN B :
           /\ M[a] \in Header /\ M[a].size = IF a = t THEN B[a].size + m ELSE B[a].size
           /\ M[a].next = B[a].next /\ M[a].prev = B[a].prev
    <2> SUFFICES ASSUME NEW a \in DOMAIN B
                 PROVE  /\ M[a] \in Header
                        /\ M[a].size = IF a = t THEN B[a].size + m ELSE B[a].size
                        /\ M[a].next = B[a].next /\ M[a].prev = B[a].prev
      OBVIOUS
    <2>1. B[a] \in Header /\ B[a].size + m \in Nat
      BY DEF ListOK, Header
    <2>2. CASE a = t
      <3>1. M[a] = [B[a] EXCEPT !.size = B[a].size + m]
        BY <1>3, <2>2
      <3> QED BY <2>1, <2>2, <3>1 DEF Header
    <2>3. CASE a # t
      BY <1>3, <2>1, <2>3
    <2> QED BY <2>2, <2>3
  <1>5. NoOverlapIn(M, l + m)
    <2>1. \A a \in DOMAIN B : M[a].size > 0 /\ HEAP_START <= a /\ End(M, a) <= l + m
      BY <1>4 DEF ListOK, NoOverlapIn, End, Header
    <2>2. \A a, c \in DOMAIN B : a < c => End(M, a) <= c
      BY <1>1, <1>4 DEF ListOK, NoOverlapIn, End
    <2> QED BY <1>2, <2>1, <2>2 DEF NoOverlapIn
  <1>6. OrderedIn(M, h, t)
    BY <1>2, <1>4 DEF ListOK, OrderedIn
  <1>7. ListOK(M, h, t, l + m)
    BY <1>2, <1>4, <1>5, <1>6 DEF ListOK
  <1> QED BY <1>7 DEF M

\* The new area becomes a block of its own.
LEMMA ExpandLinked ==
  ASSUME NEW B, NEW h, NEW t, NEW l, ListOK(B, h, t, l),
         NEW m \in Nat, m > HEADER, ~MergesWithTail(B, t)
  PROVE  ListOK(ExpandBlocks(B, t, l, m), ExpandHead(h, l), l, l + m)
  <1> DEFINE M == ExpandBlocks(B, t, l, m)
             g == ExpandHead(h, l)
  <1> USE HeaderAssumption, StartAssumption DEF NULL
  <1>1. l \notin DOMAIN B /\ l \in Nat \ {0} /\ h \in Nat /\ t \in Nat
        /\ \A a \in DOMAIN B : a \in Nat \ {0} /\ a < l /\ End(B, a) <= l
    BY BelowLimit DEF ListOK
  <1>2. /\ DOMAIN M = DOMAIN B \cup {l}
        /\ M[l] = [is_free |-> TRUE, size |-> m - HEADER, next |-> 0, prev |-> t]
    BY DEF ExpandBlocks
  <1>3. \A a \in DOMAIN B : M[a] = IF a = t THEN [B[a] EXCEPT !.next = l] ELSE B[a]
    BY <1>1 DEF ExpandBlocks
  <1>4. OrderedIn(B, h, t) /\ NoOverlapIn(B, l) /\ \A a \in DOMAIN B : B[a] \in Header
    BY DEF ListOK
  <1> HIDE DEF M
  <1>5. \A a \in DOMAIN B :
           /\ M[a] \in Header /\ M[a].size = B[a].size /\ M[a].prev = B[a].prev
           /\ M[a].next = IF a = t THEN l ELSE B[a].next
    BY <1>1, <1>3, <1>4 DEF Header
  <1>6. /\ M[l] \in Header /\ M[l].size = m - HEADER /\ M[l].next = 0 /\ M[l].prev = t
    BY <1>1, <1>2 DEF Header
  <1>7. \A a \in DOMAIN M : a \in Nat /\ M[a] \in Header
    BY <1>1, <1>2, <1>5, <1>6
  <1>8. NoOverlapIn(M, l + m)
    <2>1. End(M, l) = l + m /\ \A a \in DOMAIN B : End(M, a) = End(B, a)
      BY <1>1, <1>5, <1>6 DEF End
    <2>2. \A a \in DOMAIN M : HEAP_START <= a /\ M[a].size > 0 /\ End(M, a) <= l + m
      BY <1>1, <1>2, <1>4, <1>5, <1>6, <2>1, BelowLimit DEF NoOverlapIn, ListOK
    <2>3. \A a, c \in DOMAIN M : a < c => End(M, a) <= c
      BY <1>1, <1>2, <1>4, <2>1 DEF NoOverlapIn
    <2> QED BY <2>2, <2>3 DEF NoOverlapIn
  <1>9. OrderedIn(M, g, l)
    <2>1. CASE DOMAIN B = {}
      <3>1. h = 0 /\ t = 0
        BY <2>1, <1>4 DEF OrderedIn
      <3>2. g = l
        BY <3>1 DEF ExpandHead
      <3> QED BY <2>1, <3>1, <3>2, <1>1, <1>2, <1>6 DEF OrderedIn
    <2>2. CASE DOMAIN B # {}
      <3>1. h \in DOMAIN B /\ t \in DOMAIN B /\ B[h].prev = 0 /\ B[t].next = 0
        BY <2>2, <1>4 DEF OrderedIn
      <3>2. g = h /\ t # 0
        BY <3>1, <1>1 DEF ExpandHead
      <3>3. \A a \in DOMAIN B : a <= t
        BY <3>1, <1>4 DEF OrderedIn
      <3>4. ASSUME NEW a \in DOMAIN M, M[a].next = 0
            PROVE  a = l /\ \A c \in DOMAIN M : c <= a
        BY <3>4, <1>1, <1>2, <1>4, <1>5 DEF OrderedIn
      <3>5. ASSUME NEW a \in DOMAIN M, M[a].next # 0
            PROVE  /\ M[a].next \in DOMAIN M /\ M[a].next > a /\ M[M[a].next].prev = a
                   /\ \A c \in DOMAIN M : c > a => c >= M[a].next
        <4>1. a \in DOMAIN B
          BY <3>5, <1>2, <1>6
        <4>2. CASE a = t
          BY <4>1, <4>2, <3>3, <1>1, <1>2, <1>5, <1>6
        <4>3. CASE a # t
          <5>1. /\ M[a].next = B[a].next /\ B[a].next \in DOMAIN B /\ B[a].next > a
                /\ B[B[a].next].prev = a /\ \A c \in DOMAIN B : c > a => c >= B[a].next
            BY <3>5, <4>1, <4>3, <1>4, <1>5 DEF OrderedIn
          <5> QED BY <5>1, <1>1, <1>2, <1>5
        <4> QED BY <4>2, <4>3
      <3>6. ASSUME NEW a \in DOMAIN M
            PROVE  /\ M[a].prev = 0 => a = h
                   /\ M[a].prev # 0 => M[a].prev \in DOMAIN M /\ M[M[a].prev].next = a
        <4>1. CASE a = l
          BY <4>1, <3>1, <3>2, <1>2, <1>5, <1>6
        <4>2. CASE a # l
          <5>1. a \in DOMAIN B /\ M[a].prev = B[a].prev
            BY <4>2, <1>2, <1>5
          <5>2. B[a].prev # 0 => B[a].prev \in DOMAIN B /\ B[B[a].prev].next = a
            BY <5>1, <1>4 DEF OrderedIn
          <5>3. B[a].prev # 0 => B[a].prev # t
            BY <5>1, <5>2, <3>1, <1>1
          <5> QED BY <5>1, <5>2, <5>3, <1>2, <1>4, <1>5 DEF OrderedIn
        <4> QED BY <4>1, <4>2
      <3> QED BY <3>1, <3>2, <3>4, <3>5, <3>6, <1>2, <1>5, <1>6 DEF OrderedIn
    <2> QED BY <2>1, <2>2
  <1>10. g \in Nat /\ l + m \in Nat /\ l + m >= HEAP_START
    BY <1>1 DEF ListOK, ExpandHead
  <1>11. ListOK(M, g, l, l + m)
    BY <1>1, <1>7, <1>8, <1>9, <1>10 DEF ListOK
  <1> QED BY <1>11 DEF M

\* heap_expand preserves the list.
LEMMA ExpandOK ==
  ASSUME NEW B, NEW h, NEW t, NEW l, ListOK(B, h, t, l), NEW m \in Nat, m > HEADER
  PROVE  ListOK(ExpandBlocks(B, t, l, m), ExpandHead(h, l), ExpandTail(B, t, l), l + m)
  <1>1. CASE MergesWithTail(B, t)
    <2>1. h # NULL
      BY <1>1, BelowLimit DEF MergesWithTail, ListOK, OrderedIn, NULL
    <2> QED BY <1>1, <2>1, ExpandMerged DEF ExpandBlocks, ExpandHead, ExpandTail
  <1>2. CASE ~MergesWithTail(B, t)
    BY <1>2, ExpandLinked DEF ExpandTail
  <1> QED BY <1>1, <1>2

-----------------------------------------------------------------------------
(* Merging.                                                                *)

\* Block a and the block n after it become one, in S.
AbsorbShape(B, a, n, S) ==
    /\ n = B[a].next /\ n \in DOMAIN B /\ a < n /\ B[n].prev = a
    /\ DOMAIN S = DOMAIN B \ {n} /\ a \in DOMAIN S
    /\ S[a] \in Header /\ S[a].is_free = B[a].is_free
    /\ S[a].size = B[a].size + HEADER + B[n].size
    /\ S[a].next = B[n].next /\ S[a].prev = B[a].prev
    /\ \A x \in DOMAIN S : x # a =>
          /\ S[x] \in Header /\ S[x].is_free = B[x].is_free /\ S[x].size = B[x].size
          /\ S[x].next = B[x].next
          /\ S[x].prev = IF x = B[n].next THEN a ELSE B[x].prev

\* Merging a block with the next has that effect on a well-formed list.
LEMMA AbsorbFields ==
  ASSUME NEW B, NEW h, NEW t, NEW l, ListOK(B, h, t, l), NEW a \in DOMAIN B, Absorbs(B, a)
  PROVE  AbsorbShape(B, a, B[a].next, AbsorbBlocks(B, a))
  <1> DEFINE n == B[a].next
             S == AbsorbBlocks(B, a)
  <1> USE HeaderAssumption
  <1>1. n \in DOMAIN B /\ a < n /\ B[n].prev = a
    BY DEF Absorbs, ListOK, OrderedIn
  <1>2. \A x \in DOMAIN B : x \in Nat /\ B[x] \in Header
    BY DEF ListOK
  <1>3. DOMAIN S = DOMAIN B \ {n} /\ a \in DOMAIN S
    BY <1>1, <1>2 DEF AbsorbBlocks
  <1>4. S[a] = [is_free |-> B[a].is_free, size |-> B[a].size + HEADER + B[n].size,
                next |-> B[n].next, prev |-> B[a].prev]
    BY <1>1, <1>2 DEF AbsorbBlocks
  <1>5. \A x \in DOMAIN B : x # a /\ x # n =>
           S[x] = IF x = B[n].next THEN [B[x] EXCEPT !.prev = a] ELSE B[x]
    BY DEF AbsorbBlocks
  <1> HIDE DEF n, S
  <1>6. S[a] \in Header
    BY <1>1, <1>2, <1>4 DEF Header
  <1>7. \A x \in DOMAIN S : x # a =>
          /\ S[x] \in Header /\ S[x].is_free = B[x].is_free /\ S[x].size = B[x].size
          /\ S[x].next = B[x].next
          /\ S[x].prev = IF x = B[n].next THEN a ELSE B[x].prev
    BY <1>2, <1>3, <1>5 DEF Header
  <1>8. AbsorbShape(B, a, n, S)
    BY <1>1, <1>3, <1>4, <1>6, <1>7 DEF AbsorbShape, n
  <1> QED BY <1>8 DEF n, S

\* Absorbing the next block preserves the list.
LEMMA AbsorbOK ==
  ASSUME NEW B, NEW h, NEW t, NEW l, ListOK(B, h, t, l), NEW a \in DOMAIN B, Absorbs(B, a)
  PROVE  ListOK(AbsorbBlocks(B, a), h, AbsorbTail(B, t, a), l)
  <1> DEFINE n == B[a].next
             S == AbsorbBlocks(B, a)
             u == AbsorbTail(B, t, a)
  <1> USE HeaderAssumption, StartAssumption DEF NULL
  <1>1. AbsorbShape(B, a, n, S)
    BY AbsorbFields
  <1>2. n = End(B, a) /\ u = IF B[n].next = 0 THEN a ELSE t
    BY DEF Absorbs, AbsorbTail
  <1> HIDE DEF n, S, u
  <1>3. \A x \in DOMAIN B : /\ x \in Nat \ {0} /\ B[x].size \in Nat /\ B[x].next \in Nat
                            /\ B[x].prev \in Nat /\ End(B, x) \in Nat
    BY BelowLimit
  <1>4. OrderedIn(B, h, t) /\ NoOverlapIn(B, l) /\ h \in Nat /\ t \in Nat
    BY DEF ListOK
  <1>5. /\ n \in DOMAIN B /\ a < n /\ B[n].prev = a /\ B[a].next = n
        /\ DOMAIN S = DOMAIN B \ {n} /\ a \in DOMAIN S
        /\ S[a].size = B[a].size + HEADER + B[n].size
        /\ S[a].next = B[n].next /\ S[a].prev = B[a].prev
        /\ \A x \in DOMAIN S : x # a =>
              /\ S[x].size = B[x].size /\ S[x].next = B[x].next
              /\ S[x].prev = IF x = B[n].next THEN a ELSE B[x].prev
    BY <1>1 DEF AbsorbShape
  <1>6. \A x \in DOMAIN S : x \in Nat /\ S[x] \in Header
    BY <1>1, <1>3, <1>5 DEF AbsorbShape
  <1>11. \A c \in DOMAIN B : c > a => c >= n
    <2>1. a \in DOMAIN B /\ B[a].next # 0
      BY <1>3, <1>5
    <2> QED BY <2>1, <1>4, <1>5 DEF OrderedIn
  <1>7. NoOverlapIn(S, l)
    <2>1. End(S, a) = End(B, n) /\ \A x \in DOMAIN S : x # a => End(S, x) = End(B, x)
      BY <1>2, <1>3, <1>5 DEF End
    <2>2. \A x \in DOMAIN S : HEAP_START <= x /\ S[x].size > 0 /\ End(S, x) <= l
      BY <1>3, <1>4, <1>5, <2>1 DEF NoOverlapIn
    <2>4. \A x, y \in DOMAIN S : x < y => End(S, x) <= y
      <3> SUFFICES ASSUME NEW x \in DOMAIN S, NEW y \in DOMAIN S, x < y
                   PROVE  End(S, x) <= y
        OBVIOUS
      <3>1. CASE x = a
        <4>1. y \in DOMAIN B /\ y > n
          BY <3>1, <1>11, <1>3, <1>5
        <4> QED BY <3>1, <4>1, <2>1, <1>4, <1>5 DEF NoOverlapIn
      <3>2. CASE x # a
        BY <3>2, <2>1, <1>4, <1>5 DEF NoOverlapIn
      <3> QED BY <3>1, <3>2
    <2> QED BY <2>2, <2>4 DEF NoOverlapIn
  <1>8. OrderedIn(S, h, u)
    <2>1. ASSUME NEW x \in DOMAIN S, S[x].next = 0
          PROVE  x = u /\ \A c \in DOMAIN S : c <= x
      <3>1. CASE x = a
        <4>1. B[n].next = 0 /\ \A c \in DOMAIN B : c <= n
          BY <2>1, <3>1, <1>4, <1>5 DEF OrderedIn
        <4>3. \A c \in DOMAIN S : c <= a
          BY <4>1, <1>11, <1>3, <1>5
        <4> QED BY <3>1, <4>1, <4>3, <1>2
      <3>2. CASE x # a
        <4>1. B[x].next = 0 /\ x \in DOMAIN B /\ x # n
          BY <2>1, <3>2, <1>5
        <4>2. x = t /\ \A c \in DOMAIN B : c <= x
          BY <4>1, <1>4 DEF OrderedIn
        <4>3. B[n].next # 0
          BY <4>1, <4>2, <1>4, <1>5 DEF OrderedIn
        <4> QED BY <4>2, <4>3, <1>2, <1>5
      <3> QED BY <3>1, <3>2
    <2>2. ASSUME NEW x \in DOMAIN S, S[x].next # 0
          PROVE  /\ S[x].next \in DOMAIN S /\ S[x].next > x /\ S[S[x].next].prev = x
                 /\ \A c \in DOMAIN S : c > x => c >= S[x].next
      <3>1. CASE x = a
        <4> DEFINE m == B[n].next
        <4>1. /\ m # 0 /\ m \in DOMAIN B /\ m > n /\ \A c \in DOMAIN B : c > n => c >= m
          BY <2>2, <3>1, <1>4, <1>5 DEF OrderedIn
        <4>3. m \in DOMAIN S /\ m # a /\ m > a
          BY <4>1, <1>3, <1>5
        <4>4. \A c \in DOMAIN S : c > a => c >= m
          BY <4>1, <1>11, <1>3, <1>5
        <4> QED BY <3>1, <4>3, <4>4, <1>5
      <3>2. CASE x # a
        <4> DEFINE m == B[x].next
        <4>1. /\ x \in DOMAIN B /\ x # n /\ S[x].next = m /\ m # 0
          BY <2>2, <3>2, <1>5
        <4>2. /\ m \in DOMAIN B /\ m > x /\ B[m].prev = x
              /\ \A c \in DOMAIN B : c > x => c >= m
          BY <4>1, <1>4 DEF OrderedIn
        <4>3. m # n /\ m # B[n].next
          <5>1. m # n
            BY <3>2, <4>2, <1>5
          <5>2. B[n].next # 0 => B[B[n].next].prev = n
            BY <1>4, <1>5 DEF OrderedIn
          <5> QED BY <5>1, <5>2, <4>1, <4>2
        <4>4. S[m].prev = x
          BY <4>2, <4>3, <3>2, <1>5
        <4> QED BY <4>1, <4>2, <4>3, <4>4, <1>5
      <3> QED BY <3>1, <3>2
    <2>3. ASSUME NEW x \in DOMAIN S
          PROVE  /\ S[x].prev = 0 => x = h
                 /\ S[x].prev # 0 => S[x].prev \in DOMAIN S /\ S[S[x].prev].next = x
      <3>1. CASE x = a
        <4>1. /\ a \in DOMAIN B
              /\ B[a].prev # 0 => B[a].prev \in DOMAIN B /\ B[B[a].prev].next = a
              /\ B[a].prev = 0 => a = h
          BY <1>4, <1>5 DEF OrderedIn
        <4>2. B[a].prev # 0 => a > B[a].prev
          BY <4>1, <1>3, <1>4 DEF OrderedIn
        <4> QED BY <3>1, <4>1, <4>2, <1>3, <1>5
      <3>2. CASE x # a /\ x = B[n].next
        BY <3>2, <1>3, <1>5
      <3>3. CASE x # a /\ x # B[n].next
        <4>1. x \in DOMAIN B /\ x # n /\ S[x].prev = B[x].prev
          BY <3>3, <1>5
        <4>2. /\ B[x].prev = 0 => x = h
              /\ B[x].prev # 0 => B[x].prev \in DOMAIN B /\ B[B[x].prev].next = x
          BY <4>1, <1>4 DEF OrderedIn
        <4>3. B[x].prev # 0 => B[x].prev # n /\ B[x].prev # a
          BY <4>1, <4>2, <3>3, <1>5
        <4> QED BY <4>1, <4>2, <4>3, <1>5
      <3> QED BY <3>1, <3>2, <3>3
    <2>4. h \in DOMAIN S /\ u \in DOMAIN S /\ S[h].prev = 0 /\ S[u].next = 0
      <3>1. h \in DOMAIN B /\ t \in DOMAIN B /\ B[h].prev = 0 /\ B[t].next = 0
        BY <1>4, <1>5 DEF OrderedIn
      <3>2. h # n /\ h # B[n].next
        BY <3>1, <1>3, <1>4, <1>5 DEF OrderedIn
      <3>3. h \in DOMAIN S /\ S[h].prev = 0
        BY <3>1, <3>2, <1>5
      <3>4. CASE B[n].next = 0
        BY <3>3, <3>4, <1>2, <1>5
      <3>5. CASE B[n].next # 0
        <4>1. t # n /\ t # a
          BY <3>1, <3>5, <1>3, <1>5
        <4> QED BY <3>1, <3>3, <3>5, <4>1, <1>2, <1>5
      <3> QED BY <3>4, <3>5
    <2> QED BY <2>1, <2>2, <2>3, <2>4 DEF OrderedIn
  <1>9. u \in Nat
    BY <1>2, <1>3, <1>4, <1>5
  <1>10. ListOK(S, h, u, l)
    BY <1>4, <1>6, <1>7, <1>8, <1>9 DEF ListOK
  <1> QED BY <1>10 DEF S, u

-----------------------------------------------------------------------------
(* No two free blocks touch.                                               *)

\* A block that can absorb after a merge at a could do so before it.
LEMMA AbsorbCreatesNone ==
  ASSUME NEW B, NEW h, NEW t, NEW l, ListOK(B, h, t, l), NEW a \in DOMAIN B, Absorbs(B, a),
         NEW x \in DOMAIN AbsorbBlocks(B, a), Absorbs(AbsorbBlocks(B, a), x)
  PROVE  \/ x = a /\ Absorbs(B, B[a].next)
         \/ x # a /\ x \in DOMAIN B /\ Absorbs(B, x)
                  /\ AbsorbBlocks(B, a)[x].next = B[x].next
  <1> DEFINE n == B[a].next
             S == AbsorbBlocks(B, a)
  <1> USE HeaderAssumption DEF NULL
  <1>1. AbsorbShape(B, a, n, S)
    BY AbsorbFields
  <1>2. n = End(B, a) /\ B[n].is_free
    BY DEF Absorbs
  <1>3. ListOK(S, h, AbsorbTail(B, t, a), l)
    BY AbsorbOK
  <1> HIDE DEF n, S
  <1>4. x \in DOMAIN S /\ Absorbs(S, x)
    BY DEF S
  <1>5. S[x].next \in DOMAIN S /\ S[x].next > x
    BY <1>3, <1>4 DEF Absorbs, ListOK, OrderedIn
  <1>6. \A y \in DOMAIN B : y \in Nat /\ B[y].size \in Nat
    BY BelowLimit
  <1>7. \A y \in DOMAIN S : S[y].is_free = B[y].is_free /\ y \in DOMAIN B
    BY <1>1 DEF AbsorbShape
  <1>8. CASE x = a
    <2>1. End(S, a) = End(B, n)
      BY <1>1, <1>2, <1>6 DEF End, AbsorbShape
    <2>2. Absorbs(B, n)
      BY <1>1, <1>2, <1>4, <1>5, <1>7, <1>8, <2>1 DEF Absorbs, AbsorbShape
    <2> QED BY <1>8, <2>2 DEF n
  <1>9. CASE x # a
    <2>1. S[x].next = B[x].next /\ End(S, x) = End(B, x)
      BY <1>1, <1>4, <1>9 DEF End, AbsorbShape
    <2>2. Absorbs(B, x)
      BY <1>4, <1>5, <1>7, <2>1 DEF Absorbs
    <2> QED BY <1>4, <1>7, <1>9, <2>1, <2>2 DEF S
  <1> QED BY <1>8, <1>9

\* The links of a well-formed list, one block at a time.
LEMMA Links ==
  ASSUME NEW B, NEW h, NEW t, NEW l, ListOK(B, h, t, l), NEW a \in DOMAIN B
  PROVE  /\ a \in Nat \ {0}
         /\ B[a].next # NULL => /\ B[a].next \in DOMAIN B /\ B[a].next > a
                               /\ B[B[a].next].prev = a
         /\ B[a].prev # NULL => B[a].prev \in DOMAIN B /\ B[B[a].prev].next = a
  <1>1. a \in Nat \ {0}
    BY BelowLimit
  <1>2. OrderedIn(B, h, t)
    BY DEF ListOK
  <1>3. B[a].next # NULL => /\ B[a].next \in DOMAIN B /\ B[a].next > a
                            /\ B[B[a].next].prev = a
    BY <1>2 DEF OrderedIn
  <1>4. B[a].prev # NULL => B[a].prev \in DOMAIN B /\ B[B[a].prev].next = a
    BY <1>2 DEF OrderedIn
  <1> QED BY <1>1, <1>3, <1>4

\* The first merge of kfree: block b takes in the block after it.
LEMMA MergeNext ==
  ASSUME NEW B, NEW h, NEW t, NEW l, ListOK(B, h, t, l), NEW b \in DOMAIN B,
         \A a \in DOMAIN B : Absorbs(B, a) => a = b \/ B[a].next = b
  PROVE  /\ ListOK(MergeBlocks(B, b), h, MergeTail(B, t, b), l)
         /\ b \in DOMAIN MergeBlocks(B, b)
         /\ \A a \in DOMAIN MergeBlocks(B, b) :
               Absorbs(MergeBlocks(B, b), a) => MergeBlocks(B, b)[a].next = b
  <1> DEFINE n == B[b].next
             S == AbsorbBlocks(B, b)
  <1> USE DEF NULL
  <1>1. b \in Nat \ {0}
    BY Links
  <1>2. CASE Absorbs(B, b)
    <2>1. MergeBlocks(B, b) = S /\ MergeTail(B, t, b) = AbsorbTail(B, t, b)
      BY <1>1, <1>2 DEF MergeBlocks, MergeTail
    <2>2. ListOK(S, h, AbsorbTail(B, t, b), l)
      BY <1>2, AbsorbOK
    <2>3. AbsorbShape(B, b, n, S)
      BY <1>2, AbsorbFields
    <2>4. \A x \in DOMAIN S : Absorbs(S, x) =>
             \/ x = b /\ Absorbs(B, n)
             \/ x # b /\ x \in DOMAIN B /\ Absorbs(B, x) /\ S[x].next = B[x].next
      BY <1>2, AbsorbCreatesNone
    <2> HIDE DEF S, n
    <2>5. n \in DOMAIN B /\ b < n /\ b \in DOMAIN S
      BY <2>3 DEF AbsorbShape
    <2>6. ~Absorbs(B, n)
      <3>1. n \in Nat /\ (B[n].next # 0 => B[n].next > n)
        BY <2>5, Links
      <3>2. n # b /\ B[n].next # b
        BY <3>1, <2>5, <1>1
      <3> QED BY <3>2, <2>5
    <2>7. \A x \in DOMAIN S : Absorbs(S, x) => S[x].next = b
      BY <2>4, <2>6
    <2> QED BY <2>1, <2>2, <2>5, <2>7
  <1>3. CASE ~Absorbs(B, b)
    <2>1. MergeBlocks(B, b) = B /\ MergeTail(B, t, b) = t
      BY <1>3 DEF MergeBlocks, MergeTail
    <2> QED BY <1>3, <2>1
  <1> QED BY <1>2, <1>3

\* The second merge of kfree: the block before b takes in b.
LEMMA MergePrevious ==
  ASSUME NEW B, NEW h, NEW t, NEW l, ListOK(B, h, t, l), NEW b \in DOMAIN B,
         \A a \in DOMAIN B : Absorbs(B, a) => B[a].next = b
  PROVE  /\ ListOK(MergeBlocks(B, B[b].prev), h, MergeTail(B, t, B[b].prev), l)
         /\ NoneAbsorbs(MergeBlocks(B, B[b].prev))
  <1> DEFINE p == B[b].prev
             S == AbsorbBlocks(B, p)
  <1> USE DEF NULL
  <1>1. ASSUME NEW a \in DOMAIN B, Absorbs(B, a)
        PROVE  a = p /\ p # 0
    <2>1. B[a].next = b
      BY <1>1
    <2>2. B[b].prev = a /\ a # 0
      BY <1>1, <2>1, Links DEF Absorbs
    <2> QED BY <2>2
  <1>2. CASE p # 0 /\ Absorbs(B, p)
    <2>1. MergeBlocks(B, p) = S /\ MergeTail(B, t, p) = AbsorbTail(B, t, p)
      BY <1>2 DEF MergeBlocks, MergeTail
    <2>2. p \in DOMAIN B /\ B[p].next = b /\ b > p
      BY <1>2, Links
    <2>3. ListOK(S, h, AbsorbTail(B, t, p), l)
      BY <1>2, <2>2, AbsorbOK
    <2>4. \A x \in DOMAIN S : Absorbs(S, x) =>
             \/ x = p /\ Absorbs(B, B[p].next)
             \/ x # p /\ x \in DOMAIN B /\ Absorbs(B, x)
      BY <1>2, <2>2, AbsorbCreatesNone
    <2>5. b \in Nat /\ p \in Nat
      BY <2>2, Links
    <2>6. ~Absorbs(B, b)
      BY <1>1, <2>2, <2>5
    <2> HIDE DEF S
    <2>7. NoneAbsorbs(S)
      BY <1>1, <2>2, <2>4, <2>6 DEF NoneAbsorbs
    <2> QED BY <2>1, <2>3, <2>7
  <1>3. CASE ~(p # 0 /\ Absorbs(B, p))
    <2>1. MergeBlocks(B, p) = B /\ MergeTail(B, t, p) = t
      BY <1>3 DEF MergeBlocks, MergeTail
    <2> QED BY <1>1, <1>3, <2>1 DEF NoneAbsorbs
  <1> QED BY <1>2, <1>3

\* The list after blk->is_free = 1 in kfree.
Freed(B, b) == [B EXCEPT ![b].is_free = TRUE]

\* Freeing one block of a coalesced list: only it and its predecessor can merge.
LEMMA FreeMark ==
  ASSUME NEW B, NEW h, NEW t, NEW l, ListOK(B, h, t, l), NoneAbsorbs(B), NEW b \in DOMAIN B
  PROVE  /\ ListOK(Freed(B, b), h, t, l) /\ b \in DOMAIN Freed(B, b)
         /\ \A a \in DOMAIN Freed(B, b) :
               Absorbs(Freed(B, b), a) => a = b \/ Freed(B, b)[a].next = b
  <1> DEFINE F == Freed(B, b)
  <1> USE DEF NULL
  <1>1. ListOK(F, h, t, l) /\ MarkShape(B, b, TRUE, F)
    BY MarkOK, MarkFields DEF ListOK, Freed
  <1> HIDE DEF F
  <1>2. \A a \in DOMAIN F : Absorbs(F, a) => a = b \/ F[a].next = b
    <2> SUFFICES ASSUME NEW a \in DOMAIN F, Absorbs(F, a), a # b, F[a].next # b
                 PROVE  FALSE
      OBVIOUS
    <2>1. a \in DOMAIN B /\ F[a].next \in DOMAIN B
      BY <1>1 DEF MarkShape, Absorbs, ListOK, OrderedIn
    <2>2. Absorbs(B, a)
      BY <1>1, <2>1 DEF MarkShape, Absorbs, End
    <2> QED BY <2>1, <2>2 DEF NoneAbsorbs
  <1>3. b \in DOMAIN F
    BY <1>1 DEF MarkShape
  <1> QED BY <1>1, <1>2, <1>3 DEF F

\* kmalloc takes a block: its remainder touches no free block.
LEMMA TakeCoalesced ==
  ASSUME NEW B, NEW h, NEW t, NEW l, ListOK(B, h, t, l), NoneAbsorbs(B),
         NEW b \in DOMAIN B, NEW size \in Nat \ {0}, Fits(B, b, size)
  PROVE  NoneAbsorbs(TakeBlocks(B, b, size))
  <1> USE HeaderAssumption DEF NULL
  <1> DEFINE S == IF Splits(B, b, size) THEN SplitBlocks(B, b, size) ELSE B
             T == [S EXCEPT ![b].is_free = FALSE]
  <1>1. ListOK(S, h, TakeTail(B, t, b, size), l)
    BY SplitOK DEF TakeTail
  <1>2. b \in DOMAIN S
    BY DEF SplitBlocks
  <1>3. \A a \in DOMAIN S : a # b => ~Absorbs(S, a) \/ S[a].next = b
    <2>1. CASE Splits(B, b, size)
      <3> DEFINE r == Rest(b, size)
      <3>1. SplitShape(B, b, size, S, r)
        BY <2>1, SplitFields
      <3> HIDE DEF S, r
      <3> SUFFICES ASSUME NEW a \in DOMAIN S, a # b, Absorbs(S, a), S[a].next # b
                   PROVE  FALSE
        OBVIOUS
      <3>2. S[a].next \in DOMAIN S /\ S[a].next > a
        BY <1>1 DEF Absorbs, ListOK, OrderedIn
      <3>3. \A y \in DOMAIN B : y \in Nat /\ B[y].size \in Nat /\ B[y].next \in Nat
        BY BelowLimit
      <3>4. CASE a = r
        <4>1. End(S, r) = End(B, b)
          BY <3>1, <3>3 DEF SplitShape, End, r, Rest
        <4>2. B[b].next # r
          BY <3>2, <3>4, <3>1, <3>3 DEF SplitShape
        <4>3. Absorbs(B, b)
          BY <3>1, <3>2, <3>4, <4>1, <4>2 DEF SplitShape, Absorbs, Fits
        <4> QED BY <4>3 DEF NoneAbsorbs
      <3>5. CASE a # r
        <4>1. a \in DOMAIN B /\ S[a].next = B[a].next /\ End(S, a) = End(B, a)
          BY <3>1, <3>5 DEF SplitShape, End
        <4>2. B[a].next # 0 /\ B[a].next \in DOMAIN B
          BY <4>1 DEF Absorbs, ListOK, OrderedIn
        <4>4. S[a].is_free = B[a].is_free /\ S[B[a].next].is_free = B[B[a].next].is_free
          BY <3>1, <4>1, <4>2 DEF SplitShape
        <4>3. Absorbs(B, a)
          BY <4>1, <4>2, <4>4 DEF Absorbs
        <4> QED BY <4>1, <4>3 DEF NoneAbsorbs
      <3> QED BY <3>4, <3>5
    <2>2. CASE ~Splits(B, b, size)
      BY <2>2 DEF NoneAbsorbs
    <2> QED BY <2>1, <2>2
  <1>4. MarkShape(S, b, FALSE, T)
    BY <1>1, <1>2, MarkFields DEF ListOK
  <1> HIDE DEF S, T
  <1>5. NoneAbsorbs(T)
    <2> SUFFICES ASSUME NEW a \in DOMAIN T, Absorbs(T, a) PROVE FALSE
      BY DEF NoneAbsorbs
    <2>1. a \in DOMAIN S /\ a # b
      BY <1>4 DEF MarkShape, Absorbs
    <2>2. S[a].next # b
      BY <1>4, <2>1 DEF MarkShape, Absorbs
    <2>3. S[a].next \in DOMAIN S
      BY <1>1, <1>4, <2>1 DEF MarkShape, Absorbs, ListOK, OrderedIn
    <2>4. Absorbs(S, a)
      BY <1>4, <2>1, <2>2, <2>3 DEF MarkShape, Absorbs, End
    <2> QED BY <1>3, <2>1, <2>2, <2>4
  <1> QED BY <1>5 DEF S, T, TakeBlocks

\* heap_expand: a new block is only linked behind a block in use.
LEMMA ExpandCoalesced ==
  ASSUME NEW B, NEW h, NEW t, NEW l, ListOK(B, h, t, l), NoneAbsorbs(B),
         NEW m \in Nat, m > HEADER
  PROVE  NoneAbsorbs(ExpandBlocks(B, t, l, m))
  <1> DEFINE M == ExpandBlocks(B, t, l, m)
  <1> USE HeaderAssumption DEF NULL
  <1>1. ListOK(M, ExpandHead(h, l), ExpandTail(B, t, l), l + m)
    BY ExpandOK
  <1>2. l \notin DOMAIN B /\ \A a \in DOMAIN B : B[a] \in Header /\ a # 0
    BY BelowLimit DEF ListOK
  <1>3. CASE MergesWithTail(B, t)
    <2>1. t \in DOMAIN B /\ B[t].next = 0
      BY <1>3 DEF MergesWithTail, ListOK, OrderedIn
    <2>2. DOMAIN M = DOMAIN B
      BY <1>3 DEF ExpandBlocks
    <2>3. \A a \in DOMAIN B : M[a] = IF a = t THEN [B[a] EXCEPT !.size = B[a].size + m] ELSE B[a]
      BY <1>3 DEF ExpandBlocks
    <2> HIDE DEF M
    <2>4. \A a \in DOMAIN B : M[a].next = B[a].next /\ M[a].is_free = B[a].is_free
                              /\ (a # t => M[a].size = B[a].size)
      BY <1>2, <2>3 DEF Header
    <2> SUFFICES ASSUME NEW a \in DOMAIN M, Absorbs(M, a) PROVE FALSE
      BY DEF NoneAbsorbs, M
    <2>5. a \in DOMAIN B /\ a # t /\ B[a].next \in DOMAIN B
      BY <1>1, <2>1, <2>2, <2>4 DEF Absorbs, ListOK, OrderedIn
    <2>6. Absorbs(B, a)
      BY <2>4, <2>5 DEF Absorbs, End
    <2> QED BY <2>5, <2>6 DEF NoneAbsorbs
  <1>4. CASE ~MergesWithTail(B, t)
    <2>1. /\ DOMAIN M = DOMAIN B \cup {l}
          /\ M[l] = [is_free |-> TRUE, size |-> m - HEADER, next |-> 0, prev |-> t]
      BY <1>4 DEF ExpandBlocks
    <2>2. \A a \in DOMAIN B : M[a] = IF a = t THEN [B[a] EXCEPT !.next = l] ELSE B[a]
      BY <1>2, <1>4 DEF ExpandBlocks
    <2> HIDE DEF M
    <2>3. \A a \in DOMAIN B : M[a].is_free = B[a].is_free /\ M[a].size = B[a].size
                              /\ (a # t => M[a].next = B[a].next)
      BY <1>2, <2>2 DEF Header
    <2> SUFFICES ASSUME NEW a \in DOMAIN M, Absorbs(M, a) PROVE FALSE
      BY DEF NoneAbsorbs, M
    <2>4. a \in DOMAIN B /\ a # t
      BY <1>2, <1>4, <2>1, <2>3 DEF Absorbs, MergesWithTail
    <2>5. B[a].next \in DOMAIN B /\ M[a].next = B[a].next
      BY <2>3, <2>4 DEF Absorbs, ListOK, OrderedIn
    <2>6. Absorbs(B, a)
      BY <2>3, <2>4, <2>5 DEF Absorbs, End
    <2> QED BY <2>4, <2>6 DEF NoneAbsorbs
  <1> QED BY <1>3, <1>4

-----------------------------------------------------------------------------
(* The invariant.                                                          *)

IInv == TypeOK /\ NoOverlap /\ AddressOrdered /\ Coalesced

\* In a well-formed list, free neighbours that touch are linked.
LEMMA CoalescedMeansNone ==
  ASSUME NEW B, NEW h, NEW t, NEW l, ListOK(B, h, t, l)
  PROVE  CoalescedIn(B) <=> NoneAbsorbs(B)
  <1> USE HeaderAssumption DEF NULL
  <1>1. ASSUME CoalescedIn(B), NEW a \in DOMAIN B, Absorbs(B, a) PROVE FALSE
    <2>1. B[a].next \in DOMAIN B /\ B[a].next = End(B, a) /\ B[a].is_free /\ B[B[a].next].is_free
      BY <1>1, Links DEF Absorbs
    <2> QED BY <1>1, <2>1 DEF CoalescedIn
  <1>2. ASSUME NoneAbsorbs(B), NEW a \in DOMAIN B, NEW b \in DOMAIN B,
               B[a].is_free, B[b].is_free, b = End(B, a)
        PROVE  FALSE
    <2>1. a \in Nat /\ b \in Nat /\ B[a].size \in Nat /\ B[a].next \in Nat
      BY BelowLimit
    <2>2. b > a
      BY <1>2, <2>1 DEF End
    <2>3. B[a].next # 0
      BY <2>1, <2>2 DEF ListOK, OrderedIn
    <2>4. B[a].next \in DOMAIN B /\ B[a].next > a /\ B[a].next <= b
      BY <2>1, <2>2, <2>3 DEF ListOK, OrderedIn
    <2>5. B[a].next >= b
      BY <1>2, <2>1, <2>4 DEF ListOK, NoOverlapIn
    <2>6. Absorbs(B, a)
      BY <1>2, <2>1, <2>3, <2>4, <2>5 DEF Absorbs
    <2> QED BY <1>2, <2>6 DEF NoneAbsorbs
  <1> QED BY <1>1, <1>2 DEF CoalescedIn, NoneAbsorbs

\* IInv in the words of the lemmas above.
LEMMA InvAsList ==
  IInv <=> /\ ListOK(blk, heap_head, heap_tail, heap_mapped_limit) /\ NoneAbsorbs(blk)
           /\ pages \in 0..MaxPages /\ result \in Nat
  <1>1. IInv <=> /\ ListOK(blk, heap_head, heap_tail, heap_mapped_limit) /\ CoalescedIn(blk)
                 /\ pages \in 0..MaxPages /\ result \in Nat
    BY DEF IInv, TypeOK, NoOverlap, AddressOrdered, Coalesced, ListOK
  <1> QED BY <1>1, CoalescedMeansNone

\* The same for the next state.
LEMMA InvAsListNext ==
  ASSUME ListOK(blk', heap_head', heap_tail', heap_mapped_limit'), NoneAbsorbs(blk'),
         pages' \in 0..MaxPages, result' \in Nat
  PROVE  IInv'
  <1>1. CoalescedIn(blk')
    BY CoalescedMeansNone
  <1> QED BY <1>1 DEF IInv, TypeOK, NoOverlap, AddressOrdered, Coalesced, ListOK

\* kmalloc rounds a request up to a size that is not zero.
LEMMA RequestSize ==
  ASSUME NEW req \in Requests
  PROVE  align_up(req) \in Nat \ {0}
  BY AlignUp, RequestsAssumption

\* heap_init establishes the invariant, whether or not it gets its pages.
LEMMA InitInv == Init => IInv
  <1> SUFFICES ASSUME Init PROVE IInv
    OBVIOUS
  <1> USE StartAssumption, PageAssumption, HeaderAssumption, MaxPagesAssumption DEF NULL
  <1>1. ListOK(EmptyBlocks, NULL, NULL, HEAP_START) /\ NoneAbsorbs(EmptyBlocks)
    <2>1. DOMAIN EmptyBlocks = {}
      BY DEF EmptyBlocks
    <2>2. \A a \in DOMAIN EmptyBlocks : FALSE
      BY <2>1
    <2>3. NoOverlapIn(EmptyBlocks, HEAP_START) /\ NoneAbsorbs(EmptyBlocks)
      BY <2>2 DEF NoOverlapIn, NoneAbsorbs
    <2>4. OrderedIn(EmptyBlocks, NULL, NULL)
      BY <2>1, <2>2 DEF OrderedIn
    <2>5. HEAP_START \in Nat /\ HEAP_START >= HEAP_START /\ NULL \in Nat
      OBVIOUS
    <2> QED BY <2>2, <2>3, <2>4, <2>5 DEF ListOK
  <1> DEFINE n == PagesFor(PMM_PAGE_SIZE)
             m == n * PMM_PAGE_SIZE
  <1>2. n \in Nat /\ m \in Nat /\ m > HEADER
    BY PagesEnough
  <1>3. PICK p \in 0..MaxPages :
          IF p >= n
          THEN /\ blk = ExpandBlocks(EmptyBlocks, NULL, HEAP_START, m)
               /\ heap_head = HEAP_START /\ heap_tail = HEAP_START
               /\ heap_mapped_limit = HEAP_START + m /\ pages = p - n
          ELSE /\ blk = EmptyBlocks /\ heap_head = NULL /\ heap_tail = NULL
               /\ heap_mapped_limit = HEAP_START + p * PMM_PAGE_SIZE /\ pages = 0
    BY DEF Init
  <1>4. result \in Nat /\ pages \in 0..MaxPages
    BY <1>2, <1>3 DEF Init
  <1>5. CASE p >= n
    <2>1. /\ ListOK(ExpandBlocks(EmptyBlocks, NULL, HEAP_START, m),
                    ExpandHead(NULL, HEAP_START), ExpandTail(EmptyBlocks, NULL, HEAP_START),
                    HEAP_START + m)
          /\ NoneAbsorbs(ExpandBlocks(EmptyBlocks, NULL, HEAP_START, m))
      <3> HIDE DEF m
      <3> QED BY <1>1, <1>2, ExpandOK, ExpandCoalesced
    <2>2. /\ ExpandHead(NULL, HEAP_START) = HEAP_START
          /\ ExpandTail(EmptyBlocks, NULL, HEAP_START) = HEAP_START
      BY DEF ExpandHead, ExpandTail, MergesWithTail
    <2> QED BY <1>3, <1>4, <1>5, <2>1, <2>2, InvAsList
  <1>6. CASE ~(p >= n)
    <2> DEFINE q == p * PMM_PAGE_SIZE
    <2>1. q \in Nat
      OBVIOUS
    <2> HIDE DEF q
    <2>2. blk = EmptyBlocks /\ heap_head = 0 /\ heap_tail = 0 /\ heap_mapped_limit = HEAP_START + q
      BY <1>3, <1>6 DEF q
    <2>3. ListOK(EmptyBlocks, 0, 0, HEAP_START + q)
      BY <2>1, <1>1 DEF ListOK, EmptyBlocks, NoOverlapIn, OrderedIn
    <2> QED BY <1>1, <1>4, <2>2, <2>3, InvAsList
  <1> QED BY <1>5, <1>6

\* kmalloc with a block that fits.
LEMMA FitInv ==
  ASSUME IInv, NEW size \in Nat \ {0}, KmallocFit(size)
  PROVE  IInv'
  <1>1. /\ ListOK(blk, heap_head, heap_tail, heap_mapped_limit) /\ NoneAbsorbs(blk)
        /\ pages \in 0..MaxPages
    BY InvAsList
  <1>2. PICK b \in DOMAIN blk : /\ FirstFit(blk, b, size)
                                /\ blk' = TakeBlocks(blk, b, size)
                                /\ heap_tail' = TakeTail(blk, heap_tail, b, size)
                                /\ result' = b + HEADER
    BY DEF KmallocFit
  <1>3. Fits(blk, b, size) /\ b \in Nat
    BY <1>1, <1>2 DEF FirstFit, ListOK
  <1>4. /\ ListOK(blk', heap_head, heap_tail', heap_mapped_limit) /\ NoneAbsorbs(blk')
    BY <1>1, <1>2, <1>3, TakeOK, TakeCoalesced
  <1>5. result' \in Nat /\ pages' = pages /\ heap_head' = heap_head
        /\ heap_mapped_limit' = heap_mapped_limit
    BY <1>2, <1>3, HeaderAssumption DEF KmallocFit
  <1> QED BY <1>1, <1>4, <1>5, InvAsListNext

\* kmalloc with a growth of the heap: the list is well formed and a block fits.
LEMMA GrowList ==
  ASSUME NEW B, NEW h, NEW t, NEW l, ListOK(B, h, t, l), NoneAbsorbs(B),
         NEW m \in Nat, NEW size \in Nat \ {0}, m >= size + HEADER
  PROVE  /\ ListOK(ExpandBlocks(B, t, l, m), ExpandHead(h, l), ExpandTail(B, t, l), l + m)
         /\ NoneAbsorbs(ExpandBlocks(B, t, l, m))
         /\ \E b \in DOMAIN ExpandBlocks(B, t, l, m) : Fits(ExpandBlocks(B, t, l, m), b, size)
  <1> DEFINE M == ExpandBlocks(B, t, l, m)
  <1> USE HeaderAssumption DEF NULL
  <1>1. m > HEADER
    OBVIOUS
  <1>2. /\ ListOK(M, ExpandHead(h, l), ExpandTail(B, t, l), l + m)
        /\ NoneAbsorbs(M)
    BY <1>1, ExpandOK, ExpandCoalesced
  <1>3. \E b \in DOMAIN M : Fits(M, b, size)
    <2>1. CASE MergesWithTail(B, t)
      <3>1. t \in DOMAIN B /\ B[t].is_free
        BY <2>1 DEF MergesWithTail, ListOK, OrderedIn
      <3>2. B[t] \in Header /\ B[t].size \in Nat
        BY <3>1 DEF ListOK, Header
      <3>3. t \in DOMAIN M /\ M[t] = [B[t] EXCEPT !.size = B[t].size + m]
        BY <2>1, <3>1 DEF ExpandBlocks
      <3> HIDE DEF M
      <3>4. M[t].is_free /\ M[t].size >= size
        BY <3>1, <3>2, <3>3 DEF Header
      <3> QED BY <3>3, <3>4 DEF Fits
    <2>2. CASE ~MergesWithTail(B, t)
      <3>1. l \in DOMAIN M
            /\ M[l] = [is_free |-> TRUE, size |-> m - HEADER, next |-> 0, prev |-> t]
        BY <2>2 DEF ExpandBlocks
      <3> HIDE DEF M
      <3>2. M[l].is_free /\ M[l].size >= size
        BY <3>1
      <3> QED BY <3>1, <3>2 DEF Fits
    <2> QED BY <2>1, <2>2
  <1> QED BY <1>2, <1>3

\* The second walk of kmalloc succeeds, and the invariant survives it.
LEMMA GrowInv ==
  ASSUME IInv, NEW size \in Nat \ {0}, KmallocGrow(size)
  PROVE  IInv' /\ result' # NULL
  <1> DEFINE n == PagesFor(size)
             m == n * PMM_PAGE_SIZE
             M == ExpandBlocks(blk, heap_tail, heap_mapped_limit, m)
             u == ExpandTail(blk, heap_tail, heap_mapped_limit)
             g == ExpandHead(heap_head, heap_mapped_limit)
             k == heap_mapped_limit + m
  <1>1. /\ ListOK(blk, heap_head, heap_tail, heap_mapped_limit) /\ NoneAbsorbs(blk)
        /\ pages \in 0..MaxPages
    BY InvAsList
  <1>2. n \in Nat /\ m \in Nat /\ m >= size + HEADER
    BY PagesEnough
  <1>3. /\ pages >= n /\ pages' = pages - n /\ heap_head' = g /\ heap_mapped_limit' = k
        /\ IF \E b \in DOMAIN M : Fits(M, b, size)
           THEN \E b \in DOMAIN M : /\ FirstFit(M, b, size)
                                    /\ blk' = TakeBlocks(M, b, size)
                                    /\ heap_tail' = TakeTail(M, u, b, size)
                                    /\ result' = b + HEADER
           ELSE blk' = M /\ heap_tail' = u /\ result' = NULL
    BY DEF KmallocGrow
  <1> HIDE DEF m, n
  <1>4. ListOK(M, g, u, k) /\ NoneAbsorbs(M) /\ \E b \in DOMAIN M : Fits(M, b, size)
    BY <1>1, <1>2, GrowList
  <1> HIDE DEF M, u, g, k
  <1>5. PICK b \in DOMAIN M : /\ FirstFit(M, b, size)
                              /\ blk' = TakeBlocks(M, b, size)
                              /\ heap_tail' = TakeTail(M, u, b, size)
                              /\ result' = b + HEADER
    BY <1>3, <1>4
  <1>6. Fits(M, b, size) /\ b \in Nat
    BY <1>4, <1>5 DEF FirstFit, ListOK
  <1>7. ListOK(blk', g, heap_tail', k) /\ NoneAbsorbs(blk')
    BY <1>4, <1>5, <1>6, TakeOK, TakeCoalesced
  <1>8. result' \in Nat /\ result' # NULL /\ pages' \in 0..MaxPages
    BY <1>1, <1>2, <1>3, <1>5, <1>6, HeaderAssumption, MaxPagesAssumption DEF NULL
  <1> QED BY <1>3, <1>7, <1>8, InvAsListNext

\* kmalloc that runs out of pages: the mapped heap grows and no block does.
LEMMA OutOfMemoryInv ==
  ASSUME IInv, NEW size \in Nat \ {0}, KmallocOutOfMemory(size)
  PROVE  IInv'
  <1> DEFINE q == pages * PMM_PAGE_SIZE
  <1> USE StartAssumption, HeaderAssumption, MaxPagesAssumption
  <1>1. pages \in Nat
    BY DEF IInv, TypeOK
  <1>2. q \in Nat
    BY <1>1, PageAssumption
  <1> HIDE DEF q
  <1>3. /\ heap_mapped_limit' = heap_mapped_limit + q /\ pages' = 0 /\ result' = 0
        /\ blk' = blk /\ heap_head' = heap_head /\ heap_tail' = heap_tail
    BY DEF KmallocOutOfMemory, q, NULL
  <1>4. heap_mapped_limit \in Nat /\ heap_mapped_limit' \in Nat
        /\ heap_mapped_limit' >= heap_mapped_limit
    BY <1>2, <1>3 DEF IInv, TypeOK
  <1>5. ListOK(blk, heap_head, heap_tail, heap_mapped_limit)
    BY InvAsList
  <1>6. \A a \in DOMAIN blk : End(blk, a) \in Nat /\ End(blk, a) <= heap_mapped_limit
    BY <1>5, BelowLimit
  <1>7. NoOverlapIn(blk, heap_mapped_limit')
    BY <1>4, <1>5, <1>6 DEF ListOK, NoOverlapIn
  <1>8. TypeOK'
    BY <1>3, <1>4 DEF IInv, TypeOK
  <1> QED BY <1>3, <1>7, <1>8 DEF IInv, NoOverlap, AddressOrdered, Coalesced

\* kfree of a used block.
LEMMA KfreeInv ==
  ASSUME IInv, NEW b \in DOMAIN blk, kfree(b)
  PROVE  IInv'
  <1> DEFINE B1 == Freed(blk, b)
             B2 == MergeBlocks(B1, b)
             t2 == MergeTail(B1, heap_tail, b)
  <1>1. /\ ListOK(blk, heap_head, heap_tail, heap_mapped_limit) /\ NoneAbsorbs(blk)
        /\ pages \in 0..MaxPages /\ result \in Nat
    BY InvAsList
  <1>2. /\ ListOK(B1, heap_head, heap_tail, heap_mapped_limit) /\ b \in DOMAIN B1
        /\ \A a \in DOMAIN B1 : Absorbs(B1, a) => a = b \/ B1[a].next = b
    BY <1>1, FreeMark
  <1>3. /\ blk' = MergeBlocks(B2, B2[b].prev) /\ heap_tail' = MergeTail(B2, t2, B2[b].prev)
        /\ UNCHANGED <<heap_head, heap_mapped_limit, pages, result>>
    BY DEF kfree, Freed
  <1> HIDE DEF B1
  <1>4. /\ ListOK(B2, heap_head, t2, heap_mapped_limit) /\ b \in DOMAIN B2
        /\ \A a \in DOMAIN B2 : Absorbs(B2, a) => B2[a].next = b
    BY <1>2, MergeNext
  <1> HIDE DEF B2, t2
  <1>5. /\ ListOK(blk', heap_head, heap_tail', heap_mapped_limit) /\ NoneAbsorbs(blk')
    BY <1>3, <1>4, MergePrevious
  <1> QED BY <1>1, <1>3, <1>5, InvAsListNext

\* Every step of the heap preserves the invariant.
LEMMA StepInv ==
  ASSUME IInv, [Next]_vars
  PROVE  IInv'
  <1> USE DEF IInv, TypeOK, NoOverlap, AddressOrdered, Coalesced
  <1>1. CASE UNCHANGED vars
    BY <1>1 DEF vars
  <1>2. ASSUME NEW req \in Requests, kmalloc(req) PROVE IInv'
    <2> HIDE DEF IInv
    <2> DEFINE size == align_up(req)
    <2>1. size \in Nat \ {0} /\ (KmallocFit(size) \/ KmallocGrow(size) \/ KmallocOutOfMemory(size))
      BY <1>2, RequestSize DEF kmalloc
    <2> HIDE DEF size
    <2> QED BY <2>1, FitInv, GrowInv, OutOfMemoryInv
  <1>3. ASSUME NEW b \in DOMAIN blk, kfree(b) PROVE IInv'
    <2> HIDE DEF IInv
    <2> QED BY <1>3, KfreeInv
  <1>4. CASE OtherPageUse
    BY <1>4 DEF OtherPageUse, heapvars
  <1> QED BY <1>1, <1>2, <1>3, <1>4 DEF Next

\* For every page, header and alignment size and every sequence of kmalloc and
\* kfree: blocks never overlap nor leave the mapped heap, the list is doubly
\* linked in address order, and free neighbours are merged (heap.c:93-170).
THEOREM HeapSafe == Spec => [](TypeOK /\ NoOverlap /\ AddressOrdered /\ Coalesced)
  <1>1. Init => IInv
    BY InitInv
  <1>2. IInv /\ [Next]_vars => IInv'
    BY StepInv
  <1>3. IInv => TypeOK /\ NoOverlap /\ AddressOrdered /\ Coalesced
    BY DEF IInv
  <1> QED BY <1>1, <1>2, <1>3, PTL DEF Spec

\* kmalloc never fails after heap_expand gave it the pages it asked for
\* (heap.c:118-129), for every request.
THEOREM GrowthIsEnough == Spec => GrowthSuffices
  <1> DEFINE P == \A req \in Requests : KmallocGrow(align_up(req)) => result' # NULL
  <1>1. Init => IInv
    BY InitInv
  <1>2. IInv /\ [Next]_vars => IInv'
    BY StepInv
  <1>3. IInv => [P]_vars
    BY RequestSize, GrowInv
  <1>4. Spec => []IInv
    BY <1>1, <1>2, PTL DEF Spec
  <1> QED BY <1>3, <1>4, PTL DEF GrowthSuffices

-----------------------------------------------------------------------------
(* The heap implements the allocator.                                      *)

\* The areas that are handed out.
InUse(B) == {<<a + HEADER, B[a].size>> : a \in {x \in DOMAIN B : ~B[x].is_free}}

\* Free blocks may be cut, joined or added: that hands nothing out.
LEMMA SameUse ==
  ASSUME NEW B, NEW S,
         \A a \in DOMAIN B : ~B[a].is_free =>
            a \in DOMAIN S /\ ~S[a].is_free /\ S[a].size = B[a].size,
         \A a \in DOMAIN S : ~S[a].is_free => a \in DOMAIN B /\ ~B[a].is_free
  PROVE  InUse(S) = InUse(B)
  BY DEF InUse

LEMMA ExpandUse ==
  ASSUME NEW B, NEW h, NEW t, NEW l, ListOK(B, h, t, l), NEW m \in Nat
  PROVE  InUse(ExpandBlocks(B, t, l, m)) = InUse(B)
  <1> DEFINE M == ExpandBlocks(B, t, l, m)
  <1>1. \A a \in DOMAIN B : B[a] \in Header /\ a # l
    BY BelowLimit DEF ListOK
  <1>2. CASE MergesWithTail(B, t)
    <2>1. B[t].is_free /\ DOMAIN M = DOMAIN B
      BY <1>2 DEF ExpandBlocks, MergesWithTail
    <2>2. \A a \in DOMAIN B : M[a] = IF a = t THEN [B[a] EXCEPT !.size = B[a].size + m] ELSE B[a]
      BY <1>2 DEF ExpandBlocks
    <2> HIDE DEF M
    <2>3. \A a \in DOMAIN B : /\ M[a].is_free = B[a].is_free
                              /\ a # t => M[a] = B[a]
      BY <1>1, <2>2 DEF Header
    <2>4. InUse(M) = InUse(B)
      BY <2>1, <2>3, SameUse
    <2> QED BY <2>4 DEF M
  <1>3. CASE ~MergesWithTail(B, t)
    <2>1. DOMAIN M = DOMAIN B \cup {l} /\ M[l].is_free
      BY <1>3 DEF ExpandBlocks
    <2>2. \A a \in DOMAIN B : M[a] = IF a = t THEN [B[a] EXCEPT !.next = l] ELSE B[a]
      BY <1>1, <1>3 DEF ExpandBlocks
    <2> HIDE DEF M
    <2>3. \A a \in DOMAIN B : M[a].is_free = B[a].is_free /\ M[a].size = B[a].size
      BY <1>1, <2>2 DEF Header
    <2>4. InUse(M) = InUse(B)
      BY <2>1, <2>3, SameUse
    <2> QED BY <2>4 DEF M
  <1> QED BY <1>2, <1>3

LEMMA MergeUse ==
  ASSUME NEW B, NEW h, NEW t, NEW l, ListOK(B, h, t, l), NEW a, a # NULL => a \in DOMAIN B
  PROVE  InUse(MergeBlocks(B, a)) = InUse(B)
  <1>1. CASE a # NULL /\ Absorbs(B, a)
    <2> DEFINE S == AbsorbBlocks(B, a)
               n == B[a].next
    <2>1. AbsorbShape(B, a, n, S) /\ a \in DOMAIN B
      BY <1>1, AbsorbFields
    <2>2. B[a].is_free /\ B[n].is_free
      BY <1>1 DEF Absorbs
    <2>3. MergeBlocks(B, a) = S
      BY <1>1 DEF MergeBlocks
    <2> HIDE DEF S, n
    <2>4. \A x \in DOMAIN B : ~B[x].is_free =>
             x \in DOMAIN S /\ ~S[x].is_free /\ S[x].size = B[x].size
      BY <2>1, <2>2 DEF AbsorbShape
    <2>5. \A x \in DOMAIN S : ~S[x].is_free => x \in DOMAIN B /\ ~B[x].is_free
      BY <2>1, <2>2 DEF AbsorbShape
    <2>6. InUse(S) = InUse(B)
      BY <2>4, <2>5, SameUse
    <2> QED BY <2>3, <2>6
  <1>2. CASE ~(a # NULL /\ Absorbs(B, a))
    BY <1>2 DEF MergeBlocks
  <1> QED BY <1>1, <1>2

\* A free block becomes an area of its own, disjoint from the others.
LEMMA TakeUse ==
  ASSUME NEW B, NEW h, NEW t, NEW l, ListOK(B, h, t, l),
         NEW b \in DOMAIN B, NEW size \in Nat \ {0}, Fits(B, b, size)
  PROVE  \E x \in (Nat \ {0}) \X (Nat \ {0}) :
            /\ x \notin InUse(B) /\ InUse(TakeBlocks(B, b, size)) = InUse(B) \cup {x}
            /\ \A y \in InUse(B) : A!Disjoint(x, y)
  <1> DEFINE S == IF Splits(B, b, size) THEN SplitBlocks(B, b, size) ELSE B
             M == [S EXCEPT ![b].is_free = FALSE]
             u == TakeTail(B, t, b, size)
             x == <<b + HEADER, S[b].size>>
  <1> USE HeaderAssumption
  <1>1. M = TakeBlocks(B, b, size)
    BY DEF TakeBlocks
  <1>2. ListOK(M, h, u, l)
    <2>1. ListOK(TakeBlocks(B, b, size), h, u, l)
      BY TakeOK
    <2> HIDE DEF M
    <2> QED BY <1>1, <2>1
  <1>3. B[b].is_free /\ B[b] \in Header /\ b \in Nat
    BY DEF Fits, ListOK
  <1>4. /\ b \in DOMAIN S /\ S[b].is_free
        /\ \A a \in DOMAIN B : a # b => /\ a \in DOMAIN S /\ S[a].is_free = B[a].is_free
                                        /\ S[a].size = B[a].size
        /\ \A a \in DOMAIN S : a \in DOMAIN B \/ S[a].is_free
        /\ \A a \in DOMAIN S : S[a] \in Header
    <2>1. CASE Splits(B, b, size)
      <3>1. SplitShape(B, b, size, S, Rest(b, size))
        BY <2>1, SplitFields
      <3> HIDE DEF S
      <3> QED BY <1>3, <3>1 DEF SplitShape
    <2>2. CASE ~Splits(B, b, size)
      BY <1>3, <2>2 DEF ListOK
    <2> QED BY <2>1, <2>2
  <1> HIDE DEF S
  <1>5. MarkShape(S, b, FALSE, M)
    BY <1>4, MarkFields
  <1> HIDE DEF M, u
  <1>6. /\ DOMAIN M = DOMAIN S /\ ~M[b].is_free /\ M[b].size = S[b].size
        /\ \A a \in DOMAIN B : a # b => /\ a \in DOMAIN M /\ M[a].is_free = B[a].is_free
                                        /\ M[a].size = B[a].size
        /\ \A a \in DOMAIN M : a # b => a \in DOMAIN B \/ M[a].is_free
    BY <1>4, <1>5 DEF MarkShape
  <1>7. \A a \in DOMAIN M : a \in Nat /\ M[a].size \in Nat /\ M[a].size > 0
    BY <1>2, BelowLimit DEF ListOK, NoOverlapIn
  <1>8. x \in (Nat \ {0}) \X (Nat \ {0})
    BY <1>3, <1>4, <1>6, <1>7
  <1>9. x \notin InUse(B)
    <2> SUFFICES ASSUME NEW a \in DOMAIN B, ~B[a].is_free, x = <<a + HEADER, B[a].size>>
                 PROVE  FALSE
      BY DEF InUse
    <2>1. a \in Nat /\ a + HEADER = b + HEADER
      BY DEF ListOK
    <2>2. a = b
      BY <1>3, <2>1
    <2> QED BY <1>3, <2>2
  <1>10. InUse(M) = InUse(B) \cup {x}
    <2>1. ASSUME NEW y \in InUse(M) PROVE y \in InUse(B) \cup {x}
      <3>1. PICK a \in DOMAIN M : ~M[a].is_free /\ y = <<a + HEADER, M[a].size>>
        BY DEF InUse
      <3>2. CASE a = b
        BY <1>6, <3>1, <3>2
      <3>3. CASE a # b
        <4>1. a \in DOMAIN B /\ ~B[a].is_free /\ M[a].size = B[a].size
          BY <1>6, <3>1, <3>3
        <4> QED BY <3>1, <4>1 DEF InUse
      <3> QED BY <3>2, <3>3
    <2>2. ASSUME NEW y \in InUse(B) PROVE y \in InUse(M)
      <3>1. PICK a \in DOMAIN B : ~B[a].is_free /\ y = <<a + HEADER, B[a].size>>
        BY DEF InUse
      <3>2. a # b
        BY <1>3, <3>1
      <3> QED BY <1>6, <3>1, <3>2 DEF InUse
    <2>3. x \in InUse(M)
      BY <1>4, <1>6 DEF InUse
    <2> QED BY <2>1, <2>2, <2>3
  <1>11. ASSUME NEW y \in InUse(B) PROVE A!Disjoint(x, y)
    <2>1. PICK a \in DOMAIN B : ~B[a].is_free /\ y = <<a + HEADER, B[a].size>>
      BY DEF InUse
    <2>2. a # b /\ a \in DOMAIN M /\ b \in DOMAIN M /\ M[a].size = B[a].size
      BY <1>3, <1>4, <1>6, <2>1
    <2>3. (a < b => End(M, a) <= b) /\ (b < a => End(M, b) <= a)
      BY <1>2, <2>2 DEF ListOK, NoOverlapIn
    <2>4. a \in Nat /\ b \in Nat /\ M[a].size \in Nat /\ M[b].size \in Nat
      BY <1>7, <2>2
    <2>5. \/ (a + HEADER) + M[a].size <= b + HEADER
          \/ (b + HEADER) + M[b].size <= a + HEADER
      <3> DEFINE p == M[a].size
                 q == M[b].size
      <3>1. (a < b => a + HEADER + p <= b) /\ (b < a => b + HEADER + q <= a)
        BY <2>3 DEF End
      <3>2. a \in Nat /\ b \in Nat /\ p \in Nat /\ q \in Nat /\ HEADER \in Nat /\ a # b
        BY <2>2, <2>4
      <3> HIDE DEF p, q
      <3>3. (a + HEADER) + p <= b + HEADER \/ (b + HEADER) + q <= a + HEADER
        BY <3>1, <3>2
      <3> QED BY <3>3 DEF p, q
    <2>6. x[1] = b + HEADER /\ x[2] = M[b].size /\ y[1] = a + HEADER /\ y[2] = M[a].size
      BY <1>6, <2>1, <2>2
    <2> QED BY <2>5, <2>6 DEF A!Disjoint
  <1> HIDE DEF x
  <1> QED BY <1>1, <1>8, <1>9, <1>10, <1>11

\* kfree gives back one area.
LEMMA KfreeUse ==
  ASSUME IInv, NEW b \in DOMAIN blk, kfree(b)
  PROVE  \E x \in InUse(blk) : InUse(blk') = InUse(blk) \ {x}
  <1> DEFINE B1 == Freed(blk, b)
             B2 == MergeBlocks(B1, b)
             t2 == MergeTail(B1, heap_tail, b)
             x == <<b + HEADER, blk[b].size>>
  <1>1. ListOK(blk, heap_head, heap_tail, heap_mapped_limit) /\ NoneAbsorbs(blk)
    BY InvAsList
  <1>2. ListOK(B1, heap_head, heap_tail, heap_mapped_limit) /\ b \in DOMAIN B1
        /\ \A a \in DOMAIN B1 : Absorbs(B1, a) => a = b \/ B1[a].next = b
    BY <1>1, FreeMark
  <1>3. ~blk[b].is_free /\ blk' = MergeBlocks(B2, B2[b].prev)
    BY DEF kfree, Freed
  <1>4. MarkShape(blk, b, TRUE, B1)
    BY <1>1, MarkFields DEF ListOK, Freed
  <1> HIDE DEF B1
  <1>5. ListOK(B2, heap_head, t2, heap_mapped_limit) /\ b \in DOMAIN B2
    BY <1>2, MergeNext
  <1>6. InUse(B2) = InUse(B1)
    BY <1>2, MergeUse
  <1> HIDE DEF B2, t2
  <1>7. B2[b].prev # NULL => B2[b].prev \in DOMAIN B2
    BY <1>5, Links
  <1>8. InUse(blk') = InUse(B2)
    BY <1>3, <1>5, <1>7, MergeUse
  <1>9. x \in InUse(blk)
    BY <1>3 DEF InUse
  <1>10. InUse(B1) = InUse(blk) \ {x}
    <2>1. ASSUME NEW y \in InUse(B1) PROVE y \in InUse(blk) \ {x}
      <3>1. PICK a \in DOMAIN B1 : ~B1[a].is_free /\ y = <<a + HEADER, B1[a].size>>
        BY DEF InUse
      <3>2. a \in DOMAIN blk /\ a # b /\ ~blk[a].is_free /\ B1[a].size = blk[a].size
        BY <1>4, <3>1 DEF MarkShape
      <3>3. y \in InUse(blk)
        BY <3>1, <3>2 DEF InUse
      <3>4. a + HEADER # b + HEADER
        BY <1>1, <3>2, HeaderAssumption DEF ListOK
      <3> QED BY <3>1, <3>3, <3>4
    <2>2. ASSUME NEW y \in InUse(blk), y # x PROVE y \in InUse(B1)
      <3>1. PICK a \in DOMAIN blk : ~blk[a].is_free /\ y = <<a + HEADER, blk[a].size>>
        BY DEF InUse
      <3>2. a # b
        BY <2>2, <3>1
      <3>3. a \in DOMAIN B1 /\ ~B1[a].is_free /\ B1[a].size = blk[a].size
        BY <1>4, <3>1, <3>2 DEF MarkShape
      <3> QED BY <3>1, <3>3 DEF InUse
    <2> QED BY <2>1, <2>2
  <1> HIDE DEF x
  <1> QED BY <1>6, <1>8, <1>9, <1>10

\* Every step of the heap is one of the allocator or leaves the areas alone.
LEMMA AllocatorStep ==
  ASSUME IInv, [Next]_vars
  PROVE  [A!ANext]_(InUse(blk))
  <1>0. ListOK(blk, heap_head, heap_tail, heap_mapped_limit) /\ NoneAbsorbs(blk)
    BY InvAsList
  <1>1. ASSUME NEW B, NEW h, NEW t, NEW l, ListOK(B, h, t, l), InUse(B) = InUse(blk),
               NEW b \in DOMAIN B, NEW size \in Nat \ {0}, FirstFit(B, b, size),
               blk' = TakeBlocks(B, b, size)
        PROVE  A!Malloc
    <2>1. Fits(B, b, size)
      BY <1>1 DEF FirstFit
    <2>2. PICK x \in (Nat \ {0}) \X (Nat \ {0}) :
             /\ x \notin InUse(blk) /\ InUse(blk') = InUse(blk) \cup {x}
             /\ \A y \in InUse(blk) : A!Disjoint(x, y)
      BY <1>1, <2>1, TakeUse
    <2>3. x \in InUse(blk)' \ InUse(blk) /\ InUse(blk)' = InUse(blk) \cup {x}
      BY <2>2 DEF InUse
    <2> QED BY <2>2, <2>3 DEF A!Malloc, InUse
  <1>2. ASSUME NEW req \in Requests, kmalloc(req) PROVE [A!ANext]_(InUse(blk))
    <2> DEFINE size == align_up(req)
    <2>1. size \in Nat \ {0} /\ (KmallocFit(size) \/ KmallocGrow(size) \/ KmallocOutOfMemory(size))
      BY <1>2, RequestSize DEF kmalloc
    <2> HIDE DEF size
    <2>2. CASE KmallocFit(size)
      <3>1. PICK b \in DOMAIN blk : FirstFit(blk, b, size) /\ blk' = TakeBlocks(blk, b, size)
        BY <2>2 DEF KmallocFit
      <3>2. A!Malloc
        BY <1>0, <1>1, <2>1, <3>1
      <3> QED BY <3>2 DEF A!ANext
    <2>3. CASE KmallocGrow(size)
      <3> DEFINE m == PagesFor(size) * PMM_PAGE_SIZE
                 M == ExpandBlocks(blk, heap_tail, heap_mapped_limit, m)
                 g == ExpandHead(heap_head, heap_mapped_limit)
                 u == ExpandTail(blk, heap_tail, heap_mapped_limit)
                 k == heap_mapped_limit + m
      <3>1. \/ \E b \in DOMAIN M : FirstFit(M, b, size) /\ blk' = TakeBlocks(M, b, size)
            \/ blk' = M
        BY <2>3 DEF KmallocGrow
      <3>2. m \in Nat /\ m >= size + HEADER
        BY <2>1, PagesEnough
      <3> HIDE DEF m
      <3>3. ListOK(M, g, u, k) /\ InUse(M) = InUse(blk)
        BY <1>0, <2>1, <3>2, GrowList, ExpandUse
      <3> HIDE DEF M, g, u, k
      <3>4. CASE blk' = M
        BY <3>3, <3>4 DEF InUse
      <3>5. CASE \E b \in DOMAIN M : FirstFit(M, b, size) /\ blk' = TakeBlocks(M, b, size)
        <4>1. A!Malloc
          BY <1>1, <2>1, <3>3, <3>5
        <4> QED BY <4>1 DEF A!ANext
      <3> QED BY <3>1, <3>4, <3>5
    <2>4. CASE KmallocOutOfMemory(size)
      BY <2>4 DEF KmallocOutOfMemory, InUse
    <2> QED BY <2>1, <2>2, <2>3, <2>4
  <1>3. ASSUME NEW b \in DOMAIN blk, kfree(b) PROVE [A!ANext]_(InUse(blk))
    <2>1. PICK x \in InUse(blk) : InUse(blk') = InUse(blk) \ {x}
      BY <1>3, KfreeUse
    <2>2. InUse(blk)' = InUse(blk) \ {x}
      BY <2>1 DEF InUse
    <2>3. A!Free
      BY <2>1, <2>2 DEF A!Free, InUse
    <2> QED BY <2>3 DEF A!ANext
  <1>4. CASE OtherPageUse \/ UNCHANGED vars
    BY <1>4 DEF OtherPageUse, heapvars, vars, InUse
  <1> QED BY <1>2, <1>3, <1>4 DEF Next

\* Seen by its users the heap is an allocator: kmalloc hands out an area that
\* no other user has, whatever was split, merged or grown before, and kfree
\* takes back exactly one (heap.c:93-170).
THEOREM RefinesAllocator == Spec => ImplementsAllocator
  <1>1. Init => IInv /\ A!AInit
    <2> SUFFICES ASSUME Init PROVE InUse(blk) = {}
      BY InitInv DEF A!AInit, InUse
    <2>1. \A a \in DOMAIN blk : blk[a].is_free
      BY DEF Init, ExpandBlocks, EmptyBlocks, MergesWithTail, NULL
    <2> QED BY <2>1 DEF InUse
  <1>2. IInv /\ [Next]_vars => IInv' /\ [A!ANext]_(InUse(blk))
    BY StepInv, AllocatorStep
  <1> QED BY <1>1, <1>2, PTL DEF Spec, ImplementsAllocator, A!ASpec, InUse
=============================================================================
