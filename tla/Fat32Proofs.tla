---------------------------- MODULE Fat32Proofs ----------------------------
(***************************************************************************)
(* Proofs about Fat32, for any disk, names and sizes of files: no cluster  *)
(* is shared, files read back as written at every sector write, and no     *)
(* cluster is lost unless a fault loses it.  Overwrites fit on the disk    *)
(* (Room), and no stop and no I/O error falls into an overwrite or before  *)
(* the clearing of a new directory cluster (~FaultsAnywhere).              *)
(***************************************************************************)
EXTENDS Fat32, FiniteSetTheorems, TLAPS

-----------------------------------------------------------------------------
(* The invariants.                                                         *)

Slots == [name : Names \cup {END, DELETED}, first : Links, size : 0..MaxSize]
Dirs == [slots : [1..SlotsPerCluster -> Slots]]
Blocks == [name : Names, value : Values, index : Nat]

Builds == {"alloc", "link", "data", "entry"}
Frees == {"free_old", "free_new", "free_deleted"}
Extends == {"ext_alloc", "ext_link", "ext_zero"}
Replaces == {"free_old", "alloc", "link", "data", "entry", "free_new"}

FatType ==
    /\ fat \in [1..2 -> [Clusters -> Links]]
    /\ sector \in [Data -> Dirs \cup Blocks]
    /\ pc \in {"idle"} \cup Builds \cup Frees \cup Extends
    /\ op \in [name : Names \cup {"none"}, value : Values \cup {"none"}, size : 0..MaxSize]
    /\ pc \notin {"idle", "free_deleted"} => op.name \in Names /\ op.value \in Values
    /\ first \in Clusters \cup {0} /\ prev \in Clusters \cup {0}
    /\ new \in Clusters \cup {0} /\ cur \in Links
    /\ count \in 0..MaxSize /\ faults \in Nat
    /\ second = <<>> \/ second \in Clusters \X Links
    /\ files \in [Names -> Seq(Blocks)]

\* s is the way from c to the end of its chain, without a repetition.
Path(f, c, s) ==
    /\ s \in Seq(Clusters)
    /\ IF s = <<>> THEN c \notin Clusters ELSE c = s[1] /\ f[s[Len(s)]] = FAT_EOC
    /\ \A i \in 1 .. Len(s) - 1 : f[s[i]] = s[i + 1]
    /\ \A i, j \in 1..Len(s) : s[i] = s[j] => i = j

\* The directory, and the slots of it that can be read.
Dir == Chain(root_cluster)
Places == Range(Readable) \X (1..SlotsPerCluster)

\* The chain an operation builds or frees, and a cluster it has taken and not
\* yet linked.
Anchor == IF pc \in Builds THEN first ELSE IF pc \in Frees THEN cur ELSE FREE
Work == Chain(Anchor)
Loose == IF pc \in {"link", "ext_link"} THEN {new} ELSE {}

\* The entries of files that are not being replaced.
Files == {p \in Places : Entry(p).name \in Names} \ Replaced

DirInv ==
    /\ Path(fat[1], root_cluster, Dir)
    /\ \A i \in 1 .. Len(Dir) - 1 : Dir[i] \in Data
    /\ pc = "ext_zero" => Dir[Len(Dir)] = new /\ Len(Dir) > 1
    /\ pc \in {"ext_alloc", "ext_link"} => Range(Dir) \subseteq Data
    /\ \A x \in Range(Readable) : sector[x] \in Dirs

\* Behind an unused slot all are unused, and a name occurs once.
NamesInv ==
    /\ \A i, k \in DOMAIN DirectorySlots :
          Before(i, k) /\ Entry(DirectorySlots[i]).name = END
             => Entry(DirectorySlots[k]).name = END
    /\ \A p, q \in Places : Entry(p).name \in Names /\ Entry(p).name = Entry(q).name => p = q

\* The slot an operation uses is free, or holds the name it replaces.
SlotInv ==
    /\ pc \in Extends => \A p \in Places : Entry(p).name \in Names \ {op.name}
    /\ pc \in Replaces =>
          /\ at \in Places
          /\ Entry(at).name \in {op.name, END, DELETED}
          /\ \A p \in Places : p # at => Entry(p).name # op.name
          /\ Entry(at).name # op.name =>
                \A i, k \in DOMAIN DirectorySlots :
                   DirectorySlots[k] = at /\ Before(i, k) => Entry(DirectorySlots[i]).name # END
    /\ pc = "free_old" => Entry(at).name = op.name
    /\ pc = "free_new" => Entry(at).name # op.name

\* How far the chain of an operation has come.
WorkInv ==
    /\ Path(fat[1], Anchor, Work)
    /\ pc \in Frees => cur \in Clusters
    /\ pc \notin Builds \cup {"free_new"} => first = 0 /\ count = 0
    /\ Loose \subseteq Clusters /\ \A x \in Loose : fat[1][x] = FAT_EOC
    /\ pc \in {"alloc", "link"} => Len(Work) = count /\ count < op.size
    /\ pc \in {"alloc", "link"} /\ count > 0 => prev = Work[count]
    /\ pc = "link" => count > 0
    /\ pc = "data" => Len(Work) = count + 1 /\ count < op.size /\ new = Work[count + 1]
    /\ pc = "entry" => Len(Work) = count /\ count = op.size
    /\ pc \in Builds => \A i \in 1..count :
          Work[i] \in Data /\ sector[Work[i]] = Block(op.name, op.value, i)
    /\ pc = "free_old" => Range(Work) \subseteq Data

\* The chain of a file holds what was written.
FileOK(p) ==
    LET s == Chain(Entry(p).first)
    IN  /\ Path(fat[1], Entry(p).first, s)
        /\ Range(s) \subseteq Data /\ Len(s) = Entry(p).size
        /\ files[Entry(p).name] = [i \in 1..Len(s) |-> sector[s[i]]]

FilesInv ==
    /\ \A p \in Files : FileOK(p)
    /\ \A n \in Names : (\A p \in Places : Entry(p).name # n) => files[n] = <<>>

\* No cluster is used twice.
Apart ==
    /\ \A p, q \in Files : p # q => Owned(p) \cap Owned(q) = {}
    /\ \A p \in Files : Owned(p) \cap (Range(Dir) \cup Range(Work) \cup Loose) = {}
    /\ Range(Dir) \cap (Range(Work) \cup Loose) = {}
    /\ Range(Work) \cap Loose = {}

\* What an overwrite still needs is there.
SpaceInv ==
    pc \in Replaces /\ Entry(at).name = op.name =>
       /\ pc = "free_old" => op.size <= Cardinality(FreeData) + Len(Work)
       /\ pc = "alloc" => op.size - count <= Cardinality(FreeData)
       /\ pc \in {"link", "data"} => /\ op.size - count - 1 <= Cardinality(FreeData)
                                     /\ new \in Data

\* Without a stop, the copies of the FAT differ in the entry being written at
\* most, and every cluster in use is known.
NothingLost ==
    faults = 0 =>
       /\ fat[1] = IF second = <<>> THEN fat[2]
                   ELSE [fat[2] EXCEPT ![second[1]] = second[2]]
       /\ Clusters \ FreeEntries
            = Range(Dir) \cup Range(Work) \cup Loose \cup UNION {Owned(p) : p \in Files}

\* The copies of the FAT differ in the entry that is being written and, for
\* every fault, in one more.
Differing == {x \in Clusters : fat[1][x] # fat[2][x]}
Pending == IF second = <<>> THEN {} ELSE {second[1]}
CopiesInv ==
    /\ Cardinality(Differing \ Pending) <= faults
    /\ second # <<>> => fat[1][second[1]] = second[2]

FatInv ==
    /\ FatType /\ DirInv /\ NamesInv /\ SlotInv /\ WorkInv
    /\ FilesInv /\ Apart /\ SpaceInv /\ NothingLost

-----------------------------------------------------------------------------
(* Chains.                                                                 *)

LEMMA Consts ==
  /\ Clusters \subseteq Nat \ {0, 1} /\ IsFiniteSet(Clusters)
  /\ Data \subseteq Clusters /\ root_cluster \in Data /\ root_cluster \in Clusters
  /\ \A x \in Data, y \in Slack : x < y
  /\ FREE \notin Clusters /\ FAT_EOC \notin Clusters /\ FREE # FAT_EOC
  /\ Clusters \subseteq Links /\ FREE \in Links /\ FAT_EOC \in Links
<1>1. Clusters \subseteq Nat \ {0, 1} /\ IsFiniteSet(Clusters)
  BY ClustersAssumption
<1>2. Data \subseteq Clusters  BY DEF Clusters
<1>3. root_cluster \in Data /\ \A x \in Data, y \in Slack : x < y
  BY ClustersAssumption
<1>4. FREE = 0 /\ FAT_EOC = -1  BY DEF FREE, FAT_EOC
<1>5. FREE \notin Clusters /\ FAT_EOC \notin Clusters /\ FREE # FAT_EOC
  BY <1>1, <1>4
<1> QED  BY <1>1, <1>2, <1>3, <1>5 DEF Links

LEMMA SlackApart == \A x : ~(x \in Data /\ x \in Slack)
<1> SUFFICES ASSUME NEW x \in Data, x \in Slack PROVE FALSE  OBVIOUS
<1>1. x \in Nat /\ x < x  BY Consts
<1> QED  BY <1>1

\* A set of natural numbers has a least element: the induction of this module.
LEMMA Least ==
  ASSUME NEW S, S \subseteq Nat, S # {}
  PROVE  \E x \in S : \A y \in S : x <= y
<1> DEFINE R == OpToRel(<, Nat)
<1>1. PICK x \in S : \A y \in S : ~(<<y, x>> \in R)
  <2> HIDE DEF R
  <2>1. IsWellFoundedOn(R, Nat)  BY NatLessThanWellFounded DEF R
  <2> QED  BY <2>1, WFMin
<1>2. R = {p \in Nat \X Nat : p[1] < p[2]}  BY DEF OpToRel
<1>3. \A y \in S : ~(y < x)
  <2> SUFFICES ASSUME NEW y \in S, y < x PROVE <<y, x>> \in R  BY <1>1
  <2> HIDE DEF R
  <2>1. <<y, x>> \in Nat \X Nat /\ <<y, x>>[1] < <<y, x>>[2]  OBVIOUS
  <2> QED  BY <2>1, <1>2
<1> QED  BY <1>3

\* The function that Chain is defined by, up to m steps.
N == Cardinality(Clusters)
Turn(f, h) == [x \in Links |-> IF x \notin Clusters THEN <<>> ELSE <<x>> \o h[f[x]]]
Visit(f, v, m) ==
    v = [n \in 0..m |->
           [x \in Links |-> IF n = 0 \/ x \notin Clusters THEN <<>>
                            ELSE <<x>> \o v[n - 1][f[x]]]]

LEMMA VisitStart ==
  ASSUME NEW f
  PROVE  \E v : Visit(f, v, 0)
<1> DEFINE v == [n \in 0..0 |-> [x \in Links |-> <<>>]]
<1>1. v = [n \in 0..0 |->
             [x \in Links |-> IF n = 0 \/ x \notin Clusters THEN <<>>
                              ELSE <<x>> \o v[n - 1][f[x]]]]
  OBVIOUS
<1> QED  BY <1>1 DEF Visit

LEMMA VisitStep ==
  ASSUME NEW f, NEW m \in Nat \ {0}, NEW v, Visit(f, v, m - 1)
  PROVE  \E w : Visit(f, w, m)
<1> DEFINE w == [n \in 0..m |-> IF n < m THEN v[n] ELSE Turn(f, v[m - 1])]
           G(n) == [x \in Links |-> IF n = 0 \/ x \notin Clusters THEN <<>>
                                    ELSE <<x>> \o w[n - 1][f[x]]]
<1>1. ASSUME NEW n \in 0..m, n < m  PROVE w[n] = G(n)
  <2>1. v[n] = [x \in Links |-> IF n = 0 \/ x \notin Clusters THEN <<>>
                                ELSE <<x>> \o v[n - 1][f[x]]]
    <3> DEFINE H(k) == [x \in Links |-> IF k = 0 \/ x \notin Clusters THEN <<>>
                                         ELSE <<x>> \o v[k - 1][f[x]]]
    <3>1. v = [k \in 0 .. m - 1 |-> H(k)]  BY Zenon DEF Visit
    <3>2. n \in 0 .. m - 1  BY <1>1
    <3> HIDE DEF H
    <3>3. v[n] = H(n)  BY <3>1, <3>2
    <3> QED  BY <3>3 DEF H
  <2>2. n = 0 \/ w[n - 1] = v[n - 1]  BY <1>1
  <2>3. w[n] = v[n]  BY <1>1
  <2> QED  BY <2>1, <2>2, <2>3
<1>2. w[m] = G(m)
  <2>1. w[m] = Turn(f, v[m - 1])  OBVIOUS
  <2>2. w[m - 1] = v[m - 1]  OBVIOUS
  <2> QED  BY <2>1, <2>2 DEF Turn
<1>3. \A n \in 0..m : w[n] = G(n)
  <2> HIDE DEF w, G
  <2>1. \A n \in 0..m : n < m \/ n = m  OBVIOUS
  <2> QED  BY <1>1, <1>2, <2>1
<1>4. w = [n \in 0..m |-> G(n)]
  <2>1. w = [n \in 0..m |-> w[n]]  OBVIOUS
  <2> HIDE DEF w
  <2> QED  BY <2>1, <1>3
<1>5. Visit(f, w, m)
  <2> HIDE DEF w
  <2> QED  BY <1>4 DEF Visit
<1> QED  BY <1>5

LEMMA VisitExists ==
  ASSUME NEW f, NEW m \in Nat
  PROVE  \E v : Visit(f, v, m)
<1> DEFINE S == {k \in Nat : ~\E v : Visit(f, v, k)}
<1>1. SUFFICES ASSUME S # {} PROVE FALSE  OBVIOUS
<1>2. PICK k \in S : \A y \in S : k <= y
  <2>1. S \subseteq Nat  OBVIOUS
  <2> HIDE DEF S
  <2> QED  BY <1>1, <2>1, Least
<1>3. k # 0  BY VisitStart
<1>4. k - 1 \in Nat /\ k - 1 \notin S  BY <1>2, <1>3
<1>5. \E v : Visit(f, v, k - 1)  BY <1>4
<1> QED  BY <1>3, <1>5, VisitStep

LEMMA ChainVisits ==
  ASSUME NEW f, NEW c
  PROVE  \E v : Visit(f, v, N) /\ ChainIn(f, c) = v[N][c]
<1> DEFINE v == CHOOSE v : Visit(f, v, N)
<1>1. N \in Nat  BY Consts, FS_CardinalityType DEF N
<1>2. Visit(f, v, N)  BY <1>1, VisitExists
<1>3. ChainIn(f, c) = v[N][c]  BY Zenon DEF ChainIn, Visit, N
<1> QED  BY <1>2, <1>3

LEMMA VisitTurn ==
  ASSUME NEW f, NEW v, Visit(f, v, N)
  PROVE  \A n \in 0..N, x \in Links :
            v[n][x] = IF n = 0 \/ x \notin Clusters THEN <<>> ELSE <<x>> \o v[n - 1][f[x]]
<1> DEFINE H(k) == [y \in Links |-> IF k = 0 \/ y \notin Clusters THEN <<>>
                                     ELSE <<y>> \o v[k - 1][f[y]]]
<1>1. v = [k \in 0..N |-> H(k)]  BY Zenon DEF Visit
<1>2. \A n \in 0..N : v[n] = H(n)
  <2> HIDE DEF H
  <2> QED  BY <1>1
<1> QED  BY <1>2

LEMMA PathLength ==
  ASSUME NEW f, NEW c, NEW s, Path(f, c, s)
  PROVE  Len(s) \in 0..N /\ N \in Nat
<1>1. IsFiniteSet(Clusters)  BY Consts
<1>2. s \in [1..Len(s) -> Clusters] /\ Len(s) \in Nat  BY DEF Path
<1>3. IsInjective(s)
  <2>1. DOMAIN s = 1..Len(s)  BY <1>2
  <2> QED  BY <2>1 DEF Path, IsInjective
<1>4. s \in Injection(1..Len(s), Clusters)  BY <1>2, <1>3 DEF Injection
<1>5. Cardinality(1..Len(s)) <= Cardinality(Clusters)  BY <1>1, <1>4, FS_Injection
<1>6. Cardinality(1..Len(s)) = Len(s)
  <2>1. 1 \in Int /\ Len(s) \in Int  BY <1>2
  <2>2. Cardinality(1..Len(s)) = IF 1 > Len(s) THEN 0 ELSE Len(s) - 1 + 1
    BY <2>1, FS_Interval
  <2> QED  BY <1>2, <2>2
<1>7. Cardinality(Clusters) \in Nat  BY <1>1, FS_CardinalityType
<1> QED  BY <1>2, <1>5, <1>6, <1>7 DEF N

\* A sequence from its i-th element on.
Rest(s, i) == [k \in 1 .. Len(s) - i + 1 |-> s[k + i - 1]]

LEMMA RestEnds ==
  ASSUME NEW s \in Seq(Clusters)
  PROVE  Rest(s, Len(s) + 1) = <<>> /\ Rest(s, 1) = s
<1>1. Rest(s, Len(s) + 1) = <<>>  BY DEF Rest
<1>2. Rest(s, 1) = s
  <2>1. s = [k \in 1..Len(s) |-> s[k]] /\ Len(s) \in Nat  OBVIOUS
  <2>2. Rest(s, 1) = [k \in 1..Len(s) |-> s[k]]  BY <2>1 DEF Rest
  <2> QED  BY <2>1, <2>2
<1> QED  BY <1>1, <1>2

LEMMA RestFacts ==
  ASSUME NEW s \in Seq(Clusters), NEW j \in 1..Len(s)
  PROVE  Rest(s, j) = <<s[j]>> \o Rest(s, j + 1)
<1> DEFINE t == Rest(s, j + 1)
<1>1. Len(s) \in Nat /\ \A i \in 1..Len(s) : s[i] \in Clusters  OBVIOUS
<1>2. t = [k \in 1 .. Len(s) - j |-> s[k + j]]  BY <1>1 DEF Rest
<1>3. t \in Seq(Clusters) /\ Len(t) = Len(s) - j
  <2> HIDE DEF t
  <2>1. \A k \in 1 .. Len(s) - j : s[k + j] \in Clusters  BY <1>1
  <2>2. Len(s) - j \in Nat  BY <1>1
  <2> QED  BY <1>2, <2>1, <2>2
<1>4. Rest(s, j) = [k \in 1 .. Len(s) - j + 1 |-> s[k + j - 1]]  BY DEF Rest
<1> HIDE DEF t
<1>5. <<s[j]>> \o t = [k \in 1 .. Len(s) - j + 1 |-> IF k = 1 THEN s[j] ELSE t[k - 1]]
  <2> DEFINE u == <<s[j]>> \o t
  <2>1. <<s[j]>> \in Seq(Clusters) /\ Len(<<s[j]>>) = 1  BY <1>1
  <2>2. u \in Seq(Clusters) /\ Len(u) = Len(s) - j + 1  BY <1>1, <1>3, <2>1
  <2>3. \A k \in 1 .. Len(s) - j + 1 : u[k] = IF k = 1 THEN s[j] ELSE t[k - 1]
    BY <1>1, <1>3, <2>1
  <2> HIDE DEF u
  <2>4. u = [k \in 1..Len(u) |-> u[k]]  BY <2>2
  <2>5. u = [k \in 1 .. Len(s) - j + 1 |-> IF k = 1 THEN s[j] ELSE t[k - 1]]
    BY <2>2, <2>3, <2>4
  <2> QED  BY <2>5 DEF u
<1>6. \A k \in 1 .. Len(s) - j + 1 :
         s[k + j - 1] = IF k = 1 THEN s[j] ELSE t[k - 1]
  <2> SUFFICES ASSUME NEW k \in 1 .. Len(s) - j + 1
               PROVE  s[k + j - 1] = IF k = 1 THEN s[j] ELSE t[k - 1]
    OBVIOUS
  <2>1. CASE k = 1  BY <2>1, <1>1
  <2>2. CASE k # 1
    <3>1. k - 1 \in 1 .. Len(s) - j /\ (k - 1) + j = k + j - 1  BY <2>2, <1>1
    <3> QED  BY <3>1, <2>2, <1>2
  <2> QED  BY <2>1, <2>2
<1> QED  BY <1>4, <1>5, <1>6 DEF t

\* A way to the end without a repetition is the chain.
LEMMA ChainIs ==
  ASSUME NEW f \in [Clusters -> Links], NEW c \in Links, NEW s, Path(f, c, s)
  PROVE  ChainIn(f, c) = s
<1>1. PICK v : Visit(f, v, N) /\ ChainIn(f, c) = v[N][c]  BY ChainVisits
<1>2. Len(s) \in 0..N /\ N \in Nat  BY PathLength
<1>3. \A n \in 0..N, x \in Links :
         v[n][x] = IF n = 0 \/ x \notin Clusters THEN <<>> ELSE <<x>> \o v[n - 1][f[x]]
  BY <1>1, VisitTurn, Zenon
<1>4. FAT_EOC \in Links /\ FAT_EOC \notin Clusters /\ Clusters \subseteq Links  BY Consts
<1>5. CASE s = <<>>
  <2>1. c \notin Clusters  BY <1>5 DEF Path
  <2>2. N \in 0..N  BY <1>2
  <2> QED  BY <1>1, <1>5, <1>3, <2>1, <2>2
<1>6. CASE s # <<>>
  <2> DEFINE L == Len(s)
             To(d) == IF d = 0 THEN FAT_EOC ELSE s[L + 1 - d]
             OK(d) == \A n \in d..N : v[n][To(d)] = Rest(s, L + 1 - d)
             S == {d \in 0..L : ~OK(d)}
  <2>1. s \in Seq(Clusters) /\ L \in Nat \ {0} /\ \A i \in 1..L : s[i] \in Clusters
    BY <1>6 DEF Path
  <2>2. OK(0)
    <3>1. SUFFICES ASSUME NEW n \in 0..N PROVE v[n][FAT_EOC] = Rest(s, L + 1)
      OBVIOUS
    <3>2. v[n][FAT_EOC] = <<>>  BY <1>3, <1>4
    <3> QED  BY <3>2, <2>1, RestEnds
  <2>3. ASSUME NEW d \in 1..L, OK(d - 1) PROVE OK(d)
    <3>1. SUFFICES ASSUME NEW n \in d..N PROVE v[n][s[L + 1 - d]] = Rest(s, L + 1 - d)
      BY <2>3
    <3> DEFINE j == L + 1 - d
    <3>2. j \in 1..L /\ s[j] \in Clusters /\ n \in 0..N /\ n # 0 /\ n - 1 \in (d - 1)..N
      BY <2>1, <1>2, <3>1
    <3>3. f[s[j]] = To(d - 1)
      <4>1. CASE d = 1  BY <4>1, <1>6, <2>1 DEF Path
      <4>2. CASE d # 1
        <5>1. j \in 1 .. L - 1 /\ j + 1 = L + 1 - (d - 1)  BY <4>2, <2>1
        <5> QED  BY <5>1, <4>2 DEF Path
      <4> QED  BY <4>1, <4>2
    <3>4. v[n][s[j]] = <<s[j]>> \o v[n - 1][f[s[j]]]
      BY <1>3, <1>4, <3>2
    <3>5. v[n - 1][To(d - 1)] = Rest(s, L + 1 - (d - 1))  BY <2>3, <3>2
    <3>6. L + 1 - (d - 1) = j + 1  BY <2>1
    <3>7. Rest(s, j) = <<s[j]>> \o Rest(s, j + 1)  BY <2>1, <3>2, RestFacts
    <3> HIDE DEF To
    <3> QED  BY <3>3, <3>4, <3>5, <3>6, <3>7
  <2>4. S = {}
    <3>1. SUFFICES ASSUME S # {} PROVE FALSE  OBVIOUS
    <3>2. PICK d \in S : \A y \in S : d <= y
      <4>1. S \subseteq Nat  OBVIOUS
      <4> HIDE DEF S
      <4> QED  BY <3>1, <4>1, Least
    <3> HIDE DEF OK
    <3>3. d # 0  BY <2>2
    <3>4. d - 1 \in 0..L /\ d - 1 \notin S  BY <2>1, <3>2, <3>3
    <3>5. d \in 1..L /\ OK(d - 1)  BY <3>3, <3>4, <2>1
    <3> QED  BY <3>5, <2>3
  <2>5. OK(L)  BY <2>1, <2>4
  <2>6. v[N][s[1]] = Rest(s, 1)
    <3>1. L \in L..N /\ N \in L..N /\ L + 1 - L = 1 /\ To(L) = s[1]  BY <1>2, <2>1
    <3> QED  BY <2>5, <3>1
  <2>7. c = s[1] /\ Rest(s, 1) = s  BY <1>6, <2>1, RestEnds DEF Path
  <2> QED  BY <1>1, <2>6, <2>7
<1> QED  BY <1>5, <1>6

\* What a chain consists of.
LEMMA PathParts ==
  ASSUME NEW f, NEW c, NEW s, Path(f, c, s)
  PROVE  /\ s \in Seq(Clusters) /\ Len(s) \in Nat /\ DOMAIN s = 1..Len(s)
         /\ Range(s) = {s[i] : i \in 1..Len(s)} /\ Range(s) \subseteq Clusters
         /\ c \in Clusters => s # <<>> /\ Len(s) > 0 /\ c = s[1] /\ c \in Range(s)
         /\ c \notin Clusters => s = <<>> /\ Range(s) = {}
         /\ \A y \in Range(s) : f[y] # FREE
<1>1. s \in Seq(Clusters) /\ Len(s) \in Nat /\ DOMAIN s = 1..Len(s)  BY DEF Path
<1>2. Range(s) = {s[i] : i \in 1..Len(s)}  BY <1>1 DEF Range
<1>3. \A i \in 1..Len(s) : s[i] \in Clusters  BY <1>1
<1>4. \A i \in 1..Len(s) : f[s[i]] # FREE
  <2> SUFFICES ASSUME NEW i \in 1..Len(s) PROVE f[s[i]] # FREE  OBVIOUS
  <2>1. CASE i = Len(s)  BY <2>1, <1>1, Consts DEF Path
  <2>2. CASE i # Len(s)
    <3>1. Len(s) \in Nat  BY <1>1
    <3>2. i \in 1 .. Len(s) - 1 /\ i + 1 \in 1..Len(s)  BY <2>2, <3>1
    <3> QED  BY <3>2, <1>3, Consts DEF Path
  <2> QED  BY <2>1, <2>2
<1>5. CASE s = <<>>  BY <1>1, <1>2, <1>3, <1>5 DEF Path
<1>6. CASE s # <<>>
  <2>1. Len(s) > 0 /\ c = s[1] /\ 1 \in 1..Len(s)  BY <1>1, <1>6 DEF Path
  <2> QED  BY <1>1, <1>2, <1>3, <1>4, <1>6, <2>1
<1> QED  BY <1>5, <1>6

\* A chain does not change when other entries do.
LEMMA ChainSame ==
  ASSUME NEW f, NEW g \in [Clusters -> Links], NEW c \in Links, NEW s, Path(f, c, s),
         \A y \in Range(s) : g[y] = f[y]
  PROVE  Path(g, c, s) /\ ChainIn(g, c) = s
<1>1. \A i \in 1..Len(s) : g[s[i]] = f[s[i]]  BY PathParts
<1>2. Len(s) \in Nat  BY PathParts
<1>3. s # <<>> => Len(s) \in 1..Len(s)  BY PathParts
<1>4. \A i \in 1 .. Len(s) - 1 : i \in 1..Len(s)  BY <1>2
<1>5. Path(g, c, s)  BY <1>1, <1>3, <1>4 DEF Path
<1> QED  BY <1>5, ChainIs

LEMMA ChainNone ==
  ASSUME NEW f \in [Clusters -> Links], NEW c \in Links \ Clusters
  PROVE  ChainIn(f, c) = <<>> /\ Path(f, c, <<>>)
<1>1. Path(f, c, <<>>)  BY DEF Path
<1> QED  BY <1>1, ChainIs

LEMMA ChainOne ==
  ASSUME NEW f \in [Clusters -> Links], NEW c \in Clusters, f[c] = FAT_EOC
  PROVE  ChainIn(f, c) = <<c>> /\ Path(f, c, <<c>>)
<1>1. Path(f, c, <<c>>)
  <2>1. <<c>> \in Seq(Clusters) /\ Len(<<c>>) = 1 /\ <<c>>[1] = c /\ <<c>> # <<>>  OBVIOUS
  <2> QED  BY <2>1 DEF Path
<1>2. c \in Links  BY Consts
<1> QED  BY <1>1, <1>2, ChainIs

\* A cluster is linked to the end of a chain.
LEMMA ChainLink ==
  ASSUME NEW f \in [Clusters -> Links], NEW g \in [Clusters -> Links], NEW c \in Clusters,
         NEW s, Path(f, c, s), NEW y \in Clusters \ Range(s), f[y] = FAT_EOC,
         g[s[Len(s)]] = y, \A z \in Clusters : z # s[Len(s)] => g[z] = f[z]
  PROVE  Path(g, c, Append(s, y)) /\ ChainIn(g, c) = Append(s, y)
<1> DEFINE t == Append(s, y)  L == Len(s)
<1>1. s \in Seq(Clusters) /\ L \in Nat \ {0} /\ c = s[1] /\ Range(s) = {s[i] : i \in 1..L}
  BY PathParts
<1>2. t \in Seq(Clusters) /\ Len(t) = L + 1 /\ t # <<>>
  BY <1>1
<1>3. t[L + 1] = y /\ \A i \in 1..L : t[i] = s[i]
  BY <1>1
<1>4. \A i \in 1..L : s[i] # y /\ s[i] \in Clusters  BY <1>1
<1>5. g[y] = FAT_EOC /\ g[s[L]] = y  BY <1>1, <1>4
<1>6. ASSUME NEW i \in 1 .. L - 1 PROVE g[s[i]] = s[i + 1]
  <2>1. i \in 1..L /\ L \in 1..L /\ i # L  BY <1>1
  <2>2. s[i] # s[L]  BY <2>1 DEF Path
  <2>3. f[s[i]] = s[i + 1]  BY DEF Path
  <2> QED  BY <1>4, <2>1, <2>2, <2>3
<1> HIDE DEF t
<1>7. \A i \in 1 .. Len(t) - 1 : g[t[i]] = t[i + 1]
  <2> SUFFICES ASSUME NEW i \in 1..L PROVE g[t[i]] = t[i + 1]  BY <1>1, <1>2
  <2>1. CASE i = L  BY <2>1, <1>3, <1>5
  <2>2. CASE i # L
    <3>1. i \in 1 .. L - 1 /\ i + 1 \in 1..L  BY <2>2, <1>1
    <3> QED  BY <3>1, <1>3, <1>6
  <2> QED  BY <2>1, <2>2
<1>8. \A i, j \in 1..Len(t) : t[i] = t[j] => i = j
  <2> SUFFICES ASSUME NEW i \in 1 .. L + 1, NEW j \in 1 .. L + 1, t[i] = t[j] PROVE i = j
    BY <1>2
  <2>1. CASE i \in 1..L /\ j \in 1..L  BY <2>1, <1>3 DEF Path
  <2>2. CASE i = L + 1 /\ j \in 1..L  BY <2>2, <1>3, <1>4
  <2>3. CASE j = L + 1 /\ i \in 1..L  BY <2>3, <1>3, <1>4
  <2>4. CASE i = L + 1 /\ j = L + 1  BY <2>4
  <2> QED  BY <2>1, <2>2, <2>3, <2>4, <1>1
<1>9. t[1] = c  BY <1>1, <1>3
<1>10. g[t[Len(t)]] = FAT_EOC  BY <1>2, <1>3, <1>5
<1>11. Path(g, c, t)  BY <1>2, <1>7, <1>8, <1>9, <1>10 DEF Path
<1>12. c \in Links  BY Consts
<1> QED  BY <1>11, <1>12, ChainIs DEF t

\* The first cluster of a chain is freed.
LEMMA ChainFree ==
  ASSUME NEW f \in [Clusters -> Links], NEW g \in [Clusters -> Links], NEW c \in Clusters,
         NEW s, Path(f, c, s), \A z \in Clusters : z # c => g[z] = f[z]
  PROVE  /\ Path(g, f[c], Tail(s)) /\ ChainIn(g, f[c]) = Tail(s)
         /\ Range(s) = {c} \cup Range(Tail(s)) /\ c \notin Range(Tail(s))
         /\ Len(Tail(s)) = Len(s) - 1
<1> DEFINE t == Tail(s)  L == Len(s)
<1>1. s \in Seq(Clusters) /\ L \in Nat \ {0} /\ c = s[1] /\ Range(s) = {s[i] : i \in 1..L}
      /\ s # <<>>
  BY PathParts
<1>2. t \in Seq(Clusters) /\ Len(t) = L - 1 /\ DOMAIN t = 1 .. L - 1
  BY <1>1
<1>3. \A i \in 1 .. L - 1 : t[i] = s[i + 1] /\ i + 1 \in 1..L /\ i + 1 # 1
  BY <1>1
<1>4. Range(t) = {t[i] : i \in 1 .. L - 1}  BY <1>2 DEF Range
<1> HIDE DEF t
<1>5. \A i \in 1 .. L - 1 : t[i] # c /\ t[i] \in Clusters
  BY <1>1, <1>3 DEF Path
<1>6. Range(s) = {c} \cup Range(t)
  <2>1. \A i \in 1..L : i = 1 \/ (i - 1 \in 1 .. L - 1 /\ (i - 1) + 1 = i)  BY <1>1
  <2>2. \A i \in 1..L : s[i] = c \/ s[i] = t[i - 1]  BY <2>1, <1>1, <1>3
  <2>3. 1 \in 1..L  BY <1>1
  <2>4. Range(s) \subseteq {c} \cup Range(t)  BY <1>1, <1>4, <2>1, <2>2
  <2>5. {c} \cup Range(t) \subseteq Range(s)  BY <1>1, <1>3, <1>4, <2>3
  <2> QED  BY <2>4, <2>5
<1>7. c \notin Range(t)  BY <1>4, <1>5
<1>8. \A i \in 1 .. L - 1 : g[t[i]] = f[t[i]]  BY <1>5
<1>9. Path(g, f[c], t)
  <2>1. CASE L = 1
    <3>1. f[c] = FAT_EOC  BY <2>1, <1>1 DEF Path
    <3>2. t = <<>>  BY <2>1, <1>2
    <3> QED  BY <3>1, <3>2, Consts DEF Path
  <2>2. CASE L # 1
    <3>1. 1 \in 1 .. L - 1 /\ L - 1 \in 1 .. L - 1 /\ (L - 1) + 1 = L /\ 1 + 1 \in 1..L
      <4>1. L \in Nat \ {0}  BY <1>1
      <4> HIDE DEF L
      <4> QED  BY <2>2, <4>1
    <3>2. f[c] = t[1] /\ t # <<>>  BY <3>1, <1>1, <1>2, <1>3 DEF Path
    <3>3. g[t[Len(t)]] = FAT_EOC
      <4>1. t[L - 1] = s[L]  BY <3>1, <1>3
      <4>2. f[s[L]] = FAT_EOC  BY <1>1 DEF Path
      <4> QED  BY <4>1, <4>2, <3>1, <1>2, <1>8
    <3>4. \A i \in 1 .. Len(t) - 1 : g[t[i]] = t[i + 1]
      <4> SUFFICES ASSUME NEW i \in 1 .. L - 2 PROVE g[t[i]] = t[i + 1]  BY <1>1, <1>2
      <4>1. i \in 1 .. L - 1 /\ i + 1 \in 1 .. L - 1 /\ i + 1 + 1 = i + 2  BY <1>1
      <4>2. f[s[i + 1]] = s[i + 1 + 1]  BY <4>1 DEF Path
      <4> QED  BY <4>1, <4>2, <1>3, <1>8
    <3>5. \A i, j \in 1..Len(t) : t[i] = t[j] => i = j
      <4> SUFFICES ASSUME NEW i \in 1 .. L - 1, NEW j \in 1 .. L - 1, t[i] = t[j] PROVE i = j
        BY <1>2
      <4>1. i + 1 = j + 1  BY <1>3 DEF Path
      <4> QED  BY <4>1
    <3> QED  BY <3>2, <3>3, <3>4, <3>5, <1>2 DEF Path
  <2> QED  BY <2>1, <2>2
<1>10. f[c] \in Links  OBVIOUS
<1>11. ChainIn(g, f[c]) = t  BY <1>9, <1>10, ChainIs
<1> QED  BY <1>2, <1>6, <1>7, <1>9, <1>11 DEF t

-----------------------------------------------------------------------------
(* The directory.                                                          *)

\* Readable, of a directory d and, if z holds, its new cluster w.
Legible(d, z, w) ==
    SubSeq(d, 1, CHOOSE n \in 0..Len(d) :
                    /\ \A i \in 1..n : d[i] \in Data /\ (z => d[i] # w)
                    /\ n < Len(d) => ~(d[n + 1] \in Data /\ (z => d[n + 1] # w)))

LEMMA ReadableNow == Readable = Legible(Dir, pc = "ext_zero", new)
  BY DEF Readable, Legible, Dir

LEMMA ReadableThen == Readable' = Legible(Dir', pc' = "ext_zero", new')
  BY DEF Readable, Legible, Dir

\* Only the last cluster of the directory may be unreadable.
LEMMA LegibleIs ==
  ASSUME NEW d \in Seq(Clusters), d # <<>>, NEW z \in BOOLEAN, NEW w,
         \A i \in 1 .. Len(d) - 1 : d[i] \in Data /\ (z => d[i] # w)
  PROVE  Legible(d, z, w) = IF d[Len(d)] \in Data /\ (z => d[Len(d)] # w) THEN d
                            ELSE SubSeq(d, 1, Len(d) - 1)
<1> DEFINE L == Len(d)
           Good(i) == d[i] \in Data /\ (z => d[i] # w)
           P(n) == (\A i \in 1..n : Good(i)) /\ (n < L => ~Good(n + 1))
           m == CHOOSE n \in 0..L : P(n)
<1>1. L \in Nat \ {0}  OBVIOUS
<1>2. \A i \in 1 .. L - 1 : Good(i)  OBVIOUS
<1>3. Legible(d, z, w) = SubSeq(d, 1, m)  BY DEF Legible
<1> HIDE DEF L, Good
<1>4. CASE Good(L)
  <2>1. \A i \in 1..L : Good(i)  BY <1>1, <1>2, <1>4
  <2>2. L \in 0..L /\ P(L)  BY <1>1, <2>1
  <2>3. m \in 0..L /\ P(m)
    <3> HIDE DEF P
    <3> QED  BY <2>2
  <2>4. m = L
    <3>1. SUFFICES ASSUME m < L PROVE FALSE  BY <1>1, <2>3
    <3>2. m + 1 \in 1..L  BY <1>1, <2>3, <3>1
    <3> HIDE DEF m
    <3> QED  BY <2>1, <2>3, <3>1, <3>2
  <2>5. SubSeq(d, 1, L) = d  BY <1>1 DEF L
  <2> QED  BY <1>3, <1>4, <2>4, <2>5 DEF Good, L
<1>5. CASE ~Good(L)
  <2>1. L - 1 \in 0..L /\ P(L - 1)  BY <1>1, <1>2, <1>5
  <2>2. m \in 0..L /\ P(m)
    <3> HIDE DEF P
    <3> QED  BY <2>1
  <2>3. m = L - 1
    <3>1. m # L
      <4>1. SUFFICES ASSUME m = L PROVE FALSE  OBVIOUS
      <4>2. L \in 1..L  BY <1>1
      <4> HIDE DEF m
      <4> QED  BY <2>2, <4>1, <4>2, <1>5
    <3>2. SUFFICES ASSUME m < L - 1 PROVE FALSE  BY <1>1, <2>2, <3>1
    <3>3. m + 1 \in 1 .. L - 1 /\ m < L  BY <1>1, <2>2, <3>2
    <3> HIDE DEF m
    <3> QED  BY <1>2, <2>2, <3>3
  <2> QED  BY <1>3, <1>5, <2>3 DEF Good, L
<1> QED  BY <1>4, <1>5

LEMMA FrontOf ==
  ASSUME NEW s \in Seq(Clusters), s # <<>>
  PROVE  LET t == SubSeq(s, 1, Len(s) - 1)
         IN  /\ t \in Seq(Clusters) /\ Len(t) = Len(s) - 1
             /\ t = [i \in 1 .. Len(s) - 1 |-> s[i]]
<1> DEFINE t == SubSeq(s, 1, Len(s) - 1)
<1>1. Len(s) \in Nat /\ Len(s) > 0  OBVIOUS
<1>2. t = [i \in 1 .. Len(s) - 1 |-> s[i]]  BY <1>1
<1>3. \A i \in 1 .. Len(s) - 1 : s[i] \in Clusters  OBVIOUS
<1>4. t \in Seq(Clusters)  BY <1>1, <1>2, <1>3
<1> HIDE DEF t
<1>5. DOMAIN t = 1 .. Len(s) - 1  BY <1>2
<1>6. DOMAIN t = 1 .. Len(t) /\ Len(t) \in Nat  BY <1>4
<1>7. Len(t) = Len(s) - 1  BY <1>1, <1>5, <1>6
<1> QED  BY <1>2, <1>4, <1>7 DEF t

LEMMA DirFacts ==
  ASSUME FatType, DirInv
  PROVE  /\ Dir \in Seq(Clusters) /\ Len(Dir) \in Nat \ {0} /\ Dir # <<>>
         /\ Range(Dir) = {Dir[i] : i \in 1..Len(Dir)} /\ Range(Dir) \subseteq Clusters
         /\ Readable = IF pc # "ext_zero" /\ Dir[Len(Dir)] \in Data THEN Dir
                       ELSE SubSeq(Dir, 1, Len(Dir) - 1)
         /\ Len(Readable) \in Nat
         /\ Len(Readable) = Len(Dir) \/ Len(Readable) = Len(Dir) - 1
         /\ \A i \in 1..Len(Readable) : i \in 1..Len(Dir) /\ Readable[i] = Dir[i]
         /\ \A i, j \in 1..Len(Readable) : Readable[i] = Readable[j] => i = j
         /\ Range(Readable) = {Readable[i] : i \in 1..Len(Readable)}
         /\ Range(Readable) \subseteq Range(Dir) /\ Range(Readable) \subseteq Data
<1>1. /\ Dir \in Seq(Clusters) /\ Len(Dir) \in Nat \ {0} /\ Dir # <<>>
      /\ Range(Dir) = {Dir[i] : i \in 1..Len(Dir)} /\ Range(Dir) \subseteq Clusters
  BY PathParts, Consts DEF DirInv
<1>2. \A i, j \in 1..Len(Dir) : Dir[i] = Dir[j] => i = j  BY DEF DirInv, Path
<1>3. \A i \in 1 .. Len(Dir) - 1 : Dir[i] \in Data /\ (pc = "ext_zero" => Dir[i] # new)
  <2> SUFFICES ASSUME NEW i \in 1 .. Len(Dir) - 1
               PROVE  Dir[i] \in Data /\ (pc = "ext_zero" => Dir[i] # new)
    OBVIOUS
  <2>1. i \in 1..Len(Dir) /\ Len(Dir) \in 1..Len(Dir) /\ i # Len(Dir)  BY <1>1
  <2> QED  BY <1>2, <2>1 DEF DirInv
<1>4. pc = "ext_zero" => Dir[Len(Dir)] = new  BY DEF DirInv
<1>5. Readable = IF pc # "ext_zero" /\ Dir[Len(Dir)] \in Data THEN Dir
                 ELSE SubSeq(Dir, 1, Len(Dir) - 1)
  <2> DEFINE z == pc = "ext_zero"
  <2>1. z \in BOOLEAN  OBVIOUS
  <2>2. Readable = Legible(Dir, z, new)  BY ReadableNow
  <2>3. \A i \in 1 .. Len(Dir) - 1 : Dir[i] \in Data /\ (z => Dir[i] # new)  BY <1>3
  <2>4. z <=> pc = "ext_zero"  OBVIOUS
  <2> HIDE DEF z
  <2>5. Readable = IF Dir[Len(Dir)] \in Data /\ (z => Dir[Len(Dir)] # new) THEN Dir
                   ELSE SubSeq(Dir, 1, Len(Dir) - 1)
    BY <1>1, <2>1, <2>2, <2>3, LegibleIs
  <2> QED  BY <1>4, <2>4, <2>5
<1>6. CASE Readable = Dir
  <2>1. Dir[Len(Dir)] \in Data
    <3>1. CASE pc # "ext_zero" /\ Dir[Len(Dir)] \in Data  BY <3>1
    <3>2. CASE ~(pc # "ext_zero" /\ Dir[Len(Dir)] \in Data)
      <4>1. Dir = SubSeq(Dir, 1, Len(Dir) - 1)  BY <3>2, <1>5, <1>6
      <4>2. Len(SubSeq(Dir, 1, Len(Dir) - 1)) = Len(Dir) - 1  BY <1>1, FrontOf
      <4>3. Len(Dir) = Len(Dir) - 1  BY <4>1, <4>2
      <4>4. Len(Dir) \in Nat  BY <1>1
      <4> QED  BY <4>3, <4>4
    <3> QED  BY <3>1, <3>2
  <2>2. \A i \in 1..Len(Dir) : Dir[i] \in Data
    <3>1. \A i \in 1..Len(Dir) : i = Len(Dir) \/ i \in 1 .. Len(Dir) - 1  BY <1>1
    <3> QED  BY <3>1, <2>1, <1>3
  <2> QED  BY <1>1, <1>2, <1>5, <1>6, <2>2
<1>7. CASE Readable # Dir
  <2>1. Readable = SubSeq(Dir, 1, Len(Dir) - 1)  BY <1>5, <1>7
  <2>2. Len(Dir) - 1 \in Nat /\ \A i \in 1 .. Len(Dir) - 1 : i \in 1..Len(Dir)
    <3>1. Len(Dir) \in Nat \ {0}  BY <1>1
    <3> QED  BY <3>1
  <2>3. Readable = [i \in 1 .. Len(Dir) - 1 |-> Dir[i]] /\ Len(Readable) = Len(Dir) - 1
    BY <1>1, <2>1, FrontOf
  <2>4. Range(Readable) = {Readable[i] : i \in 1..Len(Readable)}
    BY <2>3, <2>2 DEF Range
  <2>5. \A i \in 1..Len(Readable) : i \in 1..Len(Dir) /\ Readable[i] = Dir[i]
    BY <2>2, <2>3
  <2>6. \A i \in 1..Len(Readable) : Readable[i] \in Data
    BY <2>3, <1>3
  <2>7. \A i, j \in 1..Len(Readable) : Readable[i] = Readable[j] => i = j
    BY <2>5, <1>2
  <2>8. Range(Readable) \subseteq Range(Dir)  BY <1>1, <2>4, <2>5
  <2>9. Range(Readable) \subseteq Data  BY <2>4, <2>6
  <2>10. Len(Readable) \in Nat /\ Len(Readable) = Len(Dir) - 1  BY <2>2, <2>3
  <2> QED  BY <1>1, <1>5, <2>4, <2>5, <2>7, <2>8, <2>9, <2>10, Zenon
<1> QED  BY <1>6, <1>7

\* Places and their numbers.
LEMMA SlotFacts ==
  ASSUME FatType, DirInv
  PROVE  /\ DOMAIN DirectorySlots = (1..Len(Readable)) \X (1..SlotsPerCluster)
         /\ \A k \in DOMAIN DirectorySlots :
               /\ DirectorySlots[k] = <<Readable[k[1]], k[2]>>
               /\ DirectorySlots[k] \in Places
         /\ \A p \in Places : \E k \in DOMAIN DirectorySlots : DirectorySlots[k] = p
         /\ \A i, k \in DOMAIN DirectorySlots :
               DirectorySlots[i] = DirectorySlots[k] => i = k
<1> DEFINE r == Readable  K == (1..Len(r)) \X (1..SlotsPerCluster)
<1>1. DirectorySlots = [k \in K |-> <<r[k[1]], k[2]>>]  BY DEF DirectorySlots
<1>2. /\ Range(r) = {r[i] : i \in 1..Len(r)}
      /\ \A i, j \in 1..Len(r) : r[i] = r[j] => i = j
  BY DirFacts
<1>3. Places = Range(r) \X (1..SlotsPerCluster)  BY DEF Places
<1> HIDE DEF r
<1>4. \A k \in K : k = <<k[1], k[2]>> /\ k[1] \in 1..Len(r) /\ k[2] \in 1..SlotsPerCluster
  OBVIOUS
<1>5. \A k \in K : DirectorySlots[k] = <<r[k[1]], k[2]>> /\ DirectorySlots[k] \in Places
  <2> SUFFICES ASSUME NEW k \in K
               PROVE  DirectorySlots[k] = <<r[k[1]], k[2]>> /\ DirectorySlots[k] \in Places
    OBVIOUS
  <2>1. DirectorySlots[k] = <<r[k[1]], k[2]>>  BY <1>1
  <2>2. r[k[1]] \in Range(r)  BY <1>2, <1>4
  <2>3. k[2] \in 1..SlotsPerCluster  BY <1>4
  <2> QED  BY <2>1, <2>2, <2>3, <1>3
<1>6. \A p \in Places : \E k \in K : DirectorySlots[k] = p
  <2> SUFFICES ASSUME NEW p \in Places PROVE \E k \in K : DirectorySlots[k] = p  OBVIOUS
  <2>1. p = <<p[1], p[2]>> /\ p[1] \in Range(r) /\ p[2] \in 1..SlotsPerCluster  BY <1>3
  <2>2. PICK i \in 1..Len(r) : r[i] = p[1]  BY <2>1, <1>2
  <2>3. <<i, p[2]>> \in K  BY <2>1
  <2>4. DirectorySlots[<<i, p[2]>>] = <<r[i], p[2]>>  BY <1>5, <2>3
  <2> QED  BY <2>1, <2>2, <2>3, <2>4
<1>7. ASSUME NEW i \in K, NEW k \in K, DirectorySlots[i] = DirectorySlots[k]  PROVE i = k
  <2>1. <<r[i[1]], i[2]>> = <<r[k[1]], k[2]>>  BY <1>5, <1>7
  <2>2. r[i[1]] = r[k[1]] /\ i[2] = k[2]  BY <2>1
  <2>3. i[1] = k[1]  BY <2>2, <1>2, <1>4
  <2> QED  BY <2>2, <2>3, <1>4
<1>8. DOMAIN DirectorySlots = K  BY <1>1
<1> QED  BY <1>5, <1>6, <1>7, <1>8 DEF r

LEMMA EntryType ==
  ASSUME FatType, DirInv, NEW p \in Places
  PROVE  /\ Entry(p) \in Slots /\ p = <<p[1], p[2]>>
         /\ p[1] \in Range(Readable) /\ p[1] \in Data /\ p[2] \in 1..SlotsPerCluster
         /\ Entry(p).name \in Names \cup {END, DELETED} /\ Entry(p).first \in Links
         /\ Entry(p).size \in 0..MaxSize
<1>1. p = <<p[1], p[2]>> /\ p[1] \in Range(Readable) /\ p[2] \in 1..SlotsPerCluster
  BY DEF Places
<1>2. p[1] \in Data  BY <1>1, DirFacts
<1>3. sector[p[1]] \in Dirs  BY <1>1 DEF DirInv
<1>4. sector[p[1]].slots \in [1..SlotsPerCluster -> Slots]  BY <1>3 DEF Dirs
<1>5. Entry(p) \in Slots  BY <1>1, <1>4 DEF Entry
<1> QED  BY <1>1, <1>2, <1>5 DEF Slots

LEMMA FirstSlotIs ==
  ASSUME NEW T, NEW U
  PROVE  FirstSlot(T, U) =
           {DirectorySlots[k] : k \in {k \in DOMAIN DirectorySlots :
              /\ Entry(DirectorySlots[k]).name \in T
              /\ \A i \in DOMAIN DirectorySlots :
                    Before(i, k) => Entry(DirectorySlots[i]).name \notin T \cup U}}
  BY DEF FirstSlot

\* Searching the directory finds the slot with the name.
LEMMA FindIs ==
  ASSUME FatType, DirInv, NamesInv, NEW n \in Names
  PROVE  find_entry(n) = {p \in Places : Entry(p).name = n}
<1> DEFINE s == DirectorySlots
<1>1. find_entry(n) = {s[k] : k \in {k \in DOMAIN s : /\ Entry(s[k]).name \in {n}
              /\ \A i \in DOMAIN s : Before(i, k) => Entry(s[i]).name \notin {n} \cup {END}}}
  BY FirstSlotIs DEF find_entry
<1>2. ASSUME NEW p \in find_entry(n) PROVE p \in Places /\ Entry(p).name = n
  BY <1>1, SlotFacts
<1>3. ASSUME NEW p \in Places, Entry(p).name = n PROVE p \in find_entry(n)
  <2>1. PICK k \in DOMAIN s : s[k] = p  BY SlotFacts
  <2>2. ASSUME NEW i \in DOMAIN s, Before(i, k) PROVE Entry(s[i]).name \notin {n, END}
    <3>1. n # END  BY NamesAssumption
    <3>2. Entry(s[i]).name # END  BY <2>1, <2>2, <3>1, <1>3 DEF NamesInv
    <3>3. i # k
      <4>1. k[1] \in 1..Len(Readable) /\ k[2] \in 1..SlotsPerCluster  BY SlotFacts
      <4> QED  BY <4>1, <2>2 DEF Before
    <3>4. s[i] \in Places /\ s[i] # p  BY <2>1, <3>3, SlotFacts
    <3>5. Entry(s[i]).name # n  BY <3>4, <1>3 DEF NamesInv
    <3> QED  BY <3>2, <3>5
  <2> QED  BY <1>1, <1>3, <2>1, <2>2
<1> QED  BY <1>2, <1>3

LEMMA FreeIs ==
  ASSUME FatType, DirInv, NEW p \in FreeSlot
  PROVE  /\ p \in Places /\ Entry(p).name \in {END, DELETED}
         /\ \A i, k \in DOMAIN DirectorySlots :
               DirectorySlots[k] = p /\ Before(i, k) => Entry(DirectorySlots[i]).name # END
<1> DEFINE s == DirectorySlots
<1>1. FreeSlot = {s[k] : k \in {k \in DOMAIN s : /\ Entry(s[k]).name \in {END, DELETED}
              /\ \A i \in DOMAIN s :
                    Before(i, k) => Entry(s[i]).name \notin {END, DELETED} \cup {}}}
  BY FirstSlotIs DEF FreeSlot
<1>2. PICK k \in DOMAIN s :
         /\ p = s[k] /\ Entry(s[k]).name \in {END, DELETED}
         /\ \A i \in DOMAIN s : Before(i, k) => Entry(s[i]).name \notin {END, DELETED}
  BY <1>1
<1>3. p \in Places  BY <1>2, SlotFacts
<1>4. \A j \in DOMAIN s : s[j] = p => j = k  BY <1>2, SlotFacts
<1> QED  BY <1>2, <1>3, <1>4

\* No slot is free if the search finds none: a free one would have a first.
LEMMA FullIs ==
  ASSUME FatType, DirInv, FreeSlot = {}, NEW p \in Places
  PROVE  Entry(p).name \in Names
<1> DEFINE s == DirectorySlots
           Free(k) == Entry(s[k]).name \in {END, DELETED}
           K == DOMAIN s
<1>1. FreeSlot = {s[k] : k \in {k \in K : Free(k) /\ \A i \in K :
                    Before(i, k) => Entry(s[i]).name \notin {END, DELETED} \cup {}}}
  BY FirstSlotIs DEF FreeSlot
<1>2. K = (1..Len(Readable)) \X (1..SlotsPerCluster)  BY SlotFacts
<1>3. SUFFICES ASSUME Entry(p).name \in {END, DELETED} PROVE FALSE  BY EntryType
<1>4. PICK k0 \in K : Free(k0)  BY <1>3, SlotFacts
<1>5. \A k \in K : k = <<k[1], k[2]>> /\ k[1] \in Nat /\ k[2] \in Nat
  <2>1. Len(Readable) \in Nat /\ SlotsPerCluster \in Nat  BY DirFacts, BoundsAssumption
  <2> HIDE DEF K
  <2> QED  BY <1>2, <2>1
<1> DEFINE A == {a \in Nat : \E k \in K : Free(k) /\ k[1] = a}
<1>6. PICK a \in A : \A y \in A : a <= y
  <2>1. A \subseteq Nat /\ A # {}
    <3> HIDE DEF K, Free
    <3> QED  BY <1>4, <1>5
  <2> HIDE DEF A
  <2> QED  BY <2>1, Least
<1> DEFINE B == {b \in Nat : \E k \in K : Free(k) /\ k[1] = a /\ k[2] = b}
<1>7. PICK b \in B : \A y \in B : b <= y
  <2>1. B \subseteq Nat /\ B # {}
    <3> HIDE DEF K, Free
    <3> QED  BY <1>5, <1>6
  <2> HIDE DEF B
  <2> QED  BY <2>1, Least
<1>8. PICK k \in K : Free(k) /\ k[1] = a /\ k[2] = b  BY <1>7
<1>9. ASSUME NEW i \in K, Before(i, k) PROVE ~Free(i)
  <2>1. SUFFICES ASSUME Free(i) PROVE FALSE  OBVIOUS
  <2> HIDE DEF K, Free
  <2>2. i[1] \in A  BY <1>5, <2>1
  <2>3. i[1] = a => i[2] \in B  BY <1>5, <2>1
  <2>4. i[1] \in Nat /\ i[2] \in Nat /\ a \in Nat /\ b \in Nat  BY <1>5, <1>6, <1>7
  <2> HIDE DEF A, B
  <2> QED  BY <1>6, <1>7, <1>8, <1>9, <2>2, <2>3, <2>4 DEF Before
<1>10. s[k] \in FreeSlot  BY <1>1, <1>8, <1>9
<1> QED  BY <1>10

-----------------------------------------------------------------------------
(* The types.                                                              *)

LEMMA Bounds == MaxSize \in Nat /\ SlotsPerCluster \in Nat \ {0} /\ MaxFaults \in Nat
  BY BoundsAssumption

LEMMA AfterSlotType == \A n : AfterSlot(n) \in {"entry", "alloc"}
  BY DEF AfterSlot

LEMMA EmptyDirType == EmptyDir \in Dirs
<1>1. Slot(END, 0, 0) \in Slots  BY Consts, Bounds DEF Slot, Slots, FREE
<1> QED  BY <1>1 DEF EmptyDir, Dirs

LEMMA ReturnType ==
  ASSUME Return, FatType, faults' \in Nat, fat' = fat, sector' = sector, files' = files,
         second' \in {second, <<>>}
  PROVE  FatType'
<1>1. NoOp \in [name : Names \cup {"none"}, value : Values \cup {"none"}, size : 0..MaxSize]
  BY Bounds DEF NoOp
<1>2. FREE = 0 /\ 0 \in Links /\ 0 \in 0..MaxSize  BY Consts, Bounds DEF FREE
<1> QED  BY <1>1, <1>2 DEF FatType, Return

\* One entry of the first copy is set.
LEMMA SetFirst ==
  ASSUME FatType, NEW x \in Clusters, NEW v \in Links, SetFirstCopy(x, v)
  PROVE  /\ fat' \in [1..2 -> [Clusters -> Links]]
         /\ fat'[1] = [fat[1] EXCEPT ![x] = v] /\ fat'[1] \in [Clusters -> Links]
         /\ fat'[2] = fat[2] /\ fat[1] \in [Clusters -> Links] /\ fat[2] \in [Clusters -> Links]
         /\ second' = <<x, v>> /\ second' \in Clusters \X Links
<1>1. fat \in [1..2 -> [Clusters -> Links]] /\ 1 \in 1..2 /\ 2 \in 1..2  BY DEF FatType
<1>2. fat' = [fat EXCEPT ![1] = [fat[1] EXCEPT ![x] = v]]  BY DEF SetFirstCopy
<1>3. fat[1] \in [Clusters -> Links] /\ fat[2] \in [Clusters -> Links]  BY <1>1
<1>4. [fat[1] EXCEPT ![x] = v] \in [Clusters -> Links]  BY <1>3
<1>5. fat'[1] = [fat[1] EXCEPT ![x] = v] /\ fat'[2] = fat[2]  BY <1>1, <1>2
<1>6. fat' \in [1..2 -> [Clusters -> Links]]
  <2> DEFINE g == [fat[1] EXCEPT ![x] = v]
  <2> HIDE DEF g
  <2>1. fat' = [fat EXCEPT ![1] = g]  BY <1>2 DEF g
  <2>2. g \in [Clusters -> Links]  BY <1>4 DEF g
  <2> QED  BY <1>1, <2>1, <2>2
<1> QED  BY <1>3, <1>4, <1>5, <1>6 DEF SetFirstCopy

\* Allocation takes a free entry, and one of the disk if there is one.
LEMMA AllocTakes ==
  ASSUME FatType, NEW x \in Clusters, fat_alloc_cluster(x)
  PROVE  /\ fat[1][x] = FREE /\ SetFirstCopy(x, FAT_EOC)
         /\ FreeData # {} => x \in Data
<1>1. FreeEntries # {} /\ x = Lowest(FreeEntries) /\ SetFirstCopy(x, FAT_EOC)
  BY DEF fat_alloc_cluster
<1>2. FreeEntries \subseteq Clusters /\ FreeEntries \subseteq Nat  BY Consts DEF FreeEntries
<1>3. x \in FreeEntries /\ \A y \in FreeEntries : x <= y
  BY <1>1, <1>2, Least DEF Lowest
<1>4. ASSUME NEW y \in FreeData PROVE x \in Data
  <2>1. y \in FreeEntries /\ y \in Data  BY DEF FreeData
  <2>2. x <= y /\ x \in Nat /\ y \in Nat  BY <1>2, <1>3, <2>1
  <2>3. x \in Data \/ x \in Slack  BY DEF Clusters
  <2> QED  BY <2>1, <2>2, <2>3, Consts
<1> QED  BY <1>1, <1>3, <1>4 DEF FreeEntries

-----------------------------------------------------------------------------
(* What a step leaves alone.                                               *)

SameEntries ==
    /\ Places' = Places /\ DirectorySlots' = DirectorySlots
    /\ \A p \in Places : Entry(p)' = Entry(p)

\* A chain whose entries the step does not change.
LEMMA ChainKept ==
  ASSUME FatType', NEW c \in Links, Path(fat[1], c, ChainIn(fat[1], c)),
         \A y \in Range(ChainIn(fat[1], c)) : fat'[1][y] = fat[1][y]
  PROVE  /\ Path(fat'[1], c, ChainIn(fat[1], c))
         /\ ChainIn(fat'[1], c) = ChainIn(fat[1], c)
<1> DEFINE f == fat[1]  g == fat'[1]  s == ChainIn(fat[1], c)
<1>1. g \in [Clusters -> Links]  BY DEF FatType
<1>2. Path(f, c, s) /\ \A y \in Range(s) : g[y] = f[y]  OBVIOUS
<1> HIDE DEF f, g, s
<1>3. Path(g, c, s) /\ ChainIn(g, c) = s  BY <1>1, <1>2, ChainSame
<1> QED  BY <1>3 DEF f, g, s

\* What can be read of the same directory once no new cluster is to be cleared.
LEMMA ReadableCleared ==
  ASSUME FatType, DirInv, Dir' = Dir, pc' # "ext_zero"
  PROVE  Readable' = IF Dir[Len(Dir)] \in Data THEN Dir ELSE SubSeq(Dir, 1, Len(Dir) - 1)
<1>1. Readable' = Legible(Dir, FALSE, new')  BY ReadableThen
<1>2. Dir \in Seq(Clusters) /\ Dir # <<>>  BY DirFacts
<1>3. \A i \in 1 .. Len(Dir) - 1 : Dir[i] \in Data /\ (FALSE => Dir[i] # new')
  BY DEF DirInv
<1>4. Readable' = IF Dir[Len(Dir)] \in Data /\ (FALSE => Dir[Len(Dir)] # new') THEN Dir
                  ELSE SubSeq(Dir, 1, Len(Dir) - 1)
  BY <1>1, <1>2, <1>3, LegibleIs
<1> QED  BY <1>4

LEMMA EntriesKept ==
  ASSUME FatType, DirInv, NamesInv, Readable' = Readable,
         \A x \in Range(Readable) : sector'[x] = sector[x]
  PROVE  NamesInv' /\ SameEntries
<1>1. Places' = Places  BY DEF Places
<1>2. DirectorySlots' = DirectorySlots  BY DEF DirectorySlots
<1>3. \A p \in Places : Entry(p)' = Entry(p)
  <2> SUFFICES ASSUME NEW p \in Places PROVE Entry(p)' = Entry(p)  OBVIOUS
  <2>1. p[1] \in Range(Readable)  BY DEF Places
  <2> QED  BY <2>1 DEF Entry
<1>4. NamesInv'
  <2>1. \A k \in DOMAIN DirectorySlots : Entry(DirectorySlots[k])' = Entry(DirectorySlots[k])
    <3> SUFFICES ASSUME NEW k \in DOMAIN DirectorySlots
                 PROVE  Entry(DirectorySlots[k])' = Entry(DirectorySlots[k])
      OBVIOUS
    <3>1. DirectorySlots[k] \in Places  BY SlotFacts
    <3> QED  BY <3>1, <1>2, <1>3 DEF Entry
  <2> QED  BY <2>1, <1>1, <1>2, <1>3 DEF NamesInv
<1> QED  BY <1>1, <1>2, <1>3, <1>4 DEF SameEntries

\* A step that leaves the directory alone.
LEMMA DirFrame ==
  ASSUME FatType, DirInv, NamesInv, FatType',
         \A x \in Range(Dir) : fat'[1][x] = fat[1][x],
         \A x \in Range(Readable) : sector'[x] = sector[x],
         pc' = "ext_zero" => pc = "ext_zero" /\ new' = new,
         pc = "ext_zero" /\ pc' # "ext_zero" => new \notin Data,
         pc' \in {"ext_alloc", "ext_link"} => Range(Dir) \subseteq Data
  PROVE  Dir' = Dir /\ Readable' = Readable /\ DirInv' /\ NamesInv' /\ SameEntries
<1>1. Path(fat[1], root_cluster, Dir)  BY DEF DirInv
<1>2. fat'[1] \in [Clusters -> Links] /\ root_cluster \in Links  BY Consts DEF FatType
<1>3. Path(fat'[1], root_cluster, Dir) /\ ChainIn(fat'[1], root_cluster) = Dir
  BY <1>1, <1>2, ChainKept DEF Dir, Chain
<1>4. Dir' = Dir  BY <1>3 DEF Dir, Chain
<1>5. Readable' = Readable
  <2>1. CASE pc' = "ext_zero"
    <3>1. Readable' = Legible(Dir, TRUE, new)  BY <2>1, <1>4, ReadableThen
    <3>2. Readable = Legible(Dir, TRUE, new)  BY <2>1, ReadableNow
    <3> QED  BY <3>1, <3>2
  <2>2. CASE pc' # "ext_zero"
    <3>1. Readable' = IF Dir[Len(Dir)] \in Data THEN Dir ELSE SubSeq(Dir, 1, Len(Dir) - 1)
      BY <2>2, <1>4, ReadableCleared
    <3>2. Readable = IF pc # "ext_zero" /\ Dir[Len(Dir)] \in Data THEN Dir
                     ELSE SubSeq(Dir, 1, Len(Dir) - 1)
      BY DirFacts
    <3>3. pc = "ext_zero" => Dir[Len(Dir)] \notin Data  BY <2>2 DEF DirInv
    <3> QED  BY <3>1, <3>2, <3>3
  <2> QED  BY <2>1, <2>2
<1>6. DirInv'
  <2>1. Path(fat'[1], root_cluster, Dir')  BY <1>3, <1>4
  <2>2. \A i \in 1 .. Len(Dir') - 1 : Dir'[i] \in Data  BY <1>4 DEF DirInv
  <2>3. pc' = "ext_zero" => Dir'[Len(Dir')] = new' /\ Len(Dir') > 1  BY <1>4 DEF DirInv
  <2>4. pc' \in {"ext_alloc", "ext_link"} => Range(Dir') \subseteq Data  BY <1>4
  <2>5. \A x \in Range(Readable') : sector'[x] \in Dirs  BY <1>5 DEF DirInv
  <2> QED  BY <2>1, <2>2, <2>3, <2>4, <2>5 DEF DirInv
<1> QED  BY <1>4, <1>5, <1>6, EntriesKept

LEMMA FileParts ==
  ASSUME FatType, DirInv, FilesInv, NEW p \in Files
  PROVE  /\ p \in Places /\ Entry(p).name \in Names /\ p \notin Replaced
         /\ Entry(p).first \in Links
         /\ Path(fat[1], Entry(p).first, ChainIn(fat[1], Entry(p).first))
         /\ Owned(p) = Range(ChainIn(fat[1], Entry(p).first))
         /\ Owned(p) \subseteq Data /\ Owned(p) \subseteq Clusters
         /\ Len(ChainIn(fat[1], Entry(p).first)) = Entry(p).size
<1>1. p \in Places /\ Entry(p).name \in Names /\ p \notin Replaced  BY DEF Files
<1>2. Entry(p).first \in Links  BY <1>1, EntryType
<1>3. FileOK(p)  BY DEF FilesInv
<1> QED  BY <1>1, <1>2, <1>3, Consts DEF FileOK, Owned, Chain

\* A file whose entry and chain the step leaves alone.
LEMMA FileKept ==
  ASSUME FatType, DirInv, FilesInv, FatType', NEW p \in Files, Entry(p)' = Entry(p),
         files'[Entry(p).name] = files[Entry(p).name],
         \A x \in Owned(p) : fat'[1][x] = fat[1][x] /\ sector'[x] = sector[x]
  PROVE  FileOK(p)' /\ Owned(p)' = Owned(p)
<1> DEFINE c == Entry(p).first  s == ChainIn(fat[1], c)
<1>1. c \in Links /\ Path(fat[1], c, s) /\ Owned(p) = Range(s)  BY FileParts
<1>2. \A y \in Range(s) : fat'[1][y] = fat[1][y] /\ sector'[y] = sector[y]  BY <1>1
<1>3. Path(fat'[1], c, s) /\ ChainIn(fat'[1], c) = s
  <2> HIDE DEF c
  <2> QED  BY <1>1, <1>2, ChainKept
<1>4. FileOK(p)  BY DEF FilesInv
<1>5. Range(s) \subseteq Data /\ Len(s) = Entry(p).size  BY <1>4 DEF FileOK, Chain
<1>6. files[Entry(p).name] = [i \in 1..Len(s) |-> sector[s[i]]]  BY <1>4 DEF FileOK, Chain
<1>7. \A i \in 1..Len(s) : s[i] \in Range(s)  BY <1>1, PathParts
<1>8. [i \in 1..Len(s) |-> sector[s[i]]] = [i \in 1..Len(s) |-> sector'[s[i]]]
  <2> HIDE DEF s
  <2> QED  BY <1>2, <1>7
<1>9. Owned(p)' = Owned(p)  BY <1>1, <1>3 DEF Owned, Chain
<1>10. FileOK(p)'  BY <1>3, <1>5, <1>6, <1>8 DEF FileOK, Chain
<1> QED  BY <1>9, <1>10

\* A step that leaves the chains of the files alone.
LEMMA FilesFrame ==
  ASSUME FatType, DirInv, FilesInv, FatType', SameEntries, files' = files, Files' \subseteq Files,
         \A p \in Files' : \A x \in Owned(p) : fat'[1][x] = fat[1][x] /\ sector'[x] = sector[x]
  PROVE  FilesInv' /\ \A p \in Files' : Owned(p)' = Owned(p)
<1>1. ASSUME NEW p \in Files' PROVE FileOK(p)' /\ Owned(p)' = Owned(p)
  <2>1. p \in Files  OBVIOUS
  <2>2. Entry(p)' = Entry(p)  BY <2>1, FileParts DEF SameEntries
  <2> QED  BY <2>1, <2>2, FileKept
<1>2. \A n \in Names : (\A p \in Places' : Entry(p)'.name # n) => files'[n] = <<>>
  <2> SUFFICES ASSUME NEW n \in Names, \A p \in Places' : Entry(p)'.name # n
               PROVE  files[n] = <<>>
    OBVIOUS
  <2>1. \A p \in Places : Entry(p).name # n  BY DEF SameEntries
  <2> QED  BY <2>1 DEF FilesInv
<1> QED  BY <1>1, <1>2 DEF FilesInv

\* No one uses a free cluster.
LEMMA FreeApart ==
  ASSUME FatInv, NEW x, fat[1][x] = FREE
  PROVE  /\ x \notin Range(Dir) /\ x \notin Range(Work) /\ x \notin Loose
         /\ \A p \in Files : x \notin Owned(p)
<1>1. x \notin Range(Dir)  BY PathParts DEF FatInv, DirInv
<1>2. x \notin Range(Work)  BY PathParts DEF FatInv, WorkInv
<1>3. x \notin Loose  BY Consts DEF FatInv, WorkInv
<1>4. ASSUME NEW p \in Files PROVE x \notin Owned(p)
  BY FileParts, PathParts DEF FatInv
<1> QED  BY <1>1, <1>2, <1>3, <1>4

\* A step that writes only clusters X of the operation's own.
LEMMA Quiet ==
  ASSUME FatInv, FatType', files' = files, NEW X,
         \A x \in Clusters \ X : fat'[1][x] = fat[1][x],
         \A x \in Data \ X : sector'[x] = sector[x],
         X \cap Range(Dir) = {}, \A p \in Files : X \cap Owned(p) = {},
         \A p \in Places : Entry(p).name \in Names /\ p \in Replaced => p \in Replaced',
         pc' = "ext_zero" => pc = "ext_zero" /\ new' = new,
         pc = "ext_zero" /\ pc' # "ext_zero" => new \notin Data,
         pc' \in {"ext_alloc", "ext_link"} => Range(Dir) \subseteq Data
  PROVE  /\ Dir' = Dir /\ Readable' = Readable /\ DirInv' /\ NamesInv' /\ SameEntries
         /\ Files' = Files \ Replaced' /\ FilesInv' /\ \A p \in Files' : Owned(p)' = Owned(p)
<1> USE DEF FatInv
<1>1. Range(Dir) \subseteq Clusters /\ Range(Readable) \subseteq Range(Dir)
      /\ Range(Readable) \subseteq Data
  BY DirFacts
<1>2. \A x \in Range(Dir) : fat'[1][x] = fat[1][x]  BY <1>1
<1>3. \A x \in Range(Readable) : sector'[x] = sector[x]  BY <1>1
<1>4. Dir' = Dir /\ Readable' = Readable /\ DirInv' /\ NamesInv' /\ SameEntries
  BY <1>2, <1>3, DirFrame
<1>5. Files' = Files \ Replaced' /\ Files' \subseteq Files
  <2>1. Files' = {p \in Places' : Entry(p)'.name \in Names} \ Replaced'  BY DEF Files
  <2>2. {p \in Places' : Entry(p)'.name \in Names} = {p \in Places : Entry(p).name \in Names}
    BY <1>4 DEF SameEntries
  <2> QED  BY <2>1, <2>2 DEF Files
<1>6. \A p \in Files' : \A x \in Owned(p) : fat'[1][x] = fat[1][x] /\ sector'[x] = sector[x]
  <2> SUFFICES ASSUME NEW p \in Files, NEW x \in Owned(p)
               PROVE  fat'[1][x] = fat[1][x] /\ sector'[x] = sector[x]
    BY <1>5
  <2>1. x \in Data /\ x \in Clusters /\ x \notin X  BY FileParts
  <2> QED  BY <2>1
<1>7. FilesInv' /\ \A p \in Files' : Owned(p)' = Owned(p)
  BY <1>4, <1>5, <1>6, FilesFrame
<1> QED  BY <1>4, <1>5, <1>7

\* The clusters of the files are still apart from the others.
LEMMA ApartFrame ==
  ASSUME Apart, Dir' = Dir, Files' \subseteq Files, \A p \in Files' : Owned(p)' = Owned(p),
         \A p \in Files' : Owned(p) \cap (Range(Work') \cup Loose') = {},
         Range(Dir) \cap (Range(Work') \cup Loose') = {}, Range(Work') \cap Loose' = {}
  PROVE  Apart'
<1>1. \A p, q \in Files' : p # q => Owned(p)' \cap Owned(q)' = {}  BY DEF Apart
<1>2. \A p \in Files' : Owned(p)' \cap (Range(Dir') \cup Range(Work') \cup Loose') = {}
  <2> SUFFICES ASSUME NEW p \in Files'
               PROVE  Owned(p) \cap (Range(Dir) \cup Range(Work') \cup Loose') = {}
    OBVIOUS
  <2>1. Owned(p) \cap Range(Dir) = {}  BY DEF Apart
  <2> QED  BY <2>1
<1> QED  BY <1>1, <1>2 DEF Apart

LEMMA SlotFrame ==
  ASSUME FatType, DirInv, SlotInv, SameEntries, op' = op, at' = at,
         pc' \in Extends => pc \in Extends, pc' \in Replaces => pc \in Replaces,
         pc' = "free_old" => pc = "free_old", pc' = "free_new" => Entry(at).name # op.name
  PROVE  SlotInv' /\ (pc \in Replaces => Entry(at)' = Entry(at))
<1>1. \A p \in Places : Entry(p)' = Entry(p)  BY DEF SameEntries
<1>2. \A k \in DOMAIN DirectorySlots : Entry(DirectorySlots[k])' = Entry(DirectorySlots[k])
  <2> SUFFICES ASSUME NEW k \in DOMAIN DirectorySlots
               PROVE  Entry(DirectorySlots[k])' = Entry(DirectorySlots[k])
    OBVIOUS
  <2>1. DirectorySlots[k] \in Places /\ DirectorySlots' = DirectorySlots
    BY SlotFacts DEF SameEntries
  <2> QED  BY <2>1, <1>1 DEF Entry
<1>3. pc \in Replaces => at \in Places /\ Entry(at)' = Entry(at)
  <2>1. SUFFICES ASSUME pc \in Replaces PROVE at \in Places /\ Entry(at)' = Entry(at)  OBVIOUS
  <2>2. at \in Places  BY <2>1 DEF SlotInv
  <2> QED  BY <2>2, <1>1 DEF Entry
<1>4. pc' \in Extends => \A p \in Places' : Entry(p)'.name \in Names \ {op'.name}
  BY <1>1 DEF SlotInv, SameEntries
<1>5. ASSUME pc' \in Replaces
      PROVE  /\ at' \in Places' /\ Entry(at)'.name \in {op'.name, END, DELETED}
             /\ \A p \in Places' : p # at' => Entry(p)'.name # op'.name
             /\ Entry(at)'.name # op'.name =>
                  \A i, k \in DOMAIN DirectorySlots' : DirectorySlots'[k] = at' /\ Before(i, k)
                     => Entry(DirectorySlots[i])'.name # END
  <2>1. pc \in Replaces  BY <1>5
  <2>2. Places' = Places /\ DirectorySlots' = DirectorySlots  BY DEF SameEntries
  <2> QED  BY <1>1, <1>2, <1>3, <2>1, <2>2 DEF SlotInv
<1>6. pc' = "free_old" => Entry(at)'.name = op'.name  BY <1>3 DEF SlotInv, Replaces
<1>7. pc' = "free_new" => Entry(at)'.name # op'.name
  <2>1. SUFFICES ASSUME pc' = "free_new" PROVE Entry(at)'.name # op'.name  OBVIOUS
  <2>2. pc \in Replaces  BY <2>1 DEF Replaces
  <2> QED  BY <1>3, <2>1, <2>2
<1> QED  BY <1>3, <1>4, <1>5, <1>6, <1>7 DEF SlotInv

LEMMA AnchorType == FatType => Anchor \in Links
  BY Consts DEF FatType, Anchor, Links, FREE

LEMMA WorkKept ==
  ASSUME FatType, FatType', WorkInv, Anchor' = Anchor,
         \A y \in Range(Work) : fat'[1][y] = fat[1][y]
  PROVE  Work' = Work /\ Path(fat'[1], Anchor', Work')
<1>1. Path(fat[1], Anchor, ChainIn(fat[1], Anchor)) /\ Work = ChainIn(fat[1], Anchor)
  BY DEF WorkInv, Work, Chain
<1>2. Anchor \in Links  BY AnchorType
<1>3. /\ Path(fat'[1], Anchor, ChainIn(fat[1], Anchor))
      /\ ChainIn(fat'[1], Anchor) = ChainIn(fat[1], Anchor)
  BY <1>1, <1>2, ChainKept
<1> QED  BY <1>1, <1>3 DEF Work, Chain

LEMMA NoWork ==
  ASSUME FatType', pc' \notin Frees, pc' \in Builds => first' = 0
  PROVE  Work' = <<>> /\ Path(fat'[1], Anchor', Work') /\ Range(Work') = {}
<1>1. Anchor' = FREE  BY DEF Anchor, FREE
<1>2. fat'[1] \in [Clusters -> Links] /\ FREE \in Links \ Clusters  BY Consts DEF FatType
<1>3. ChainIn(fat'[1], FREE) = <<>> /\ Path(fat'[1], FREE, <<>>)
  BY <1>2, ChainNone
<1> QED  BY <1>1, <1>3 DEF Work, Chain, Range

\* Clusters A are taken and clusters B are freed.
LEMMA LostFrame ==
  ASSUME NothingLost, Dir' = Dir, Files' = Files, \A p \in Files' : Owned(p)' = Owned(p),
         faults' = 0 => faults = 0,
         faults' = 0 => fat'[1] = IF second' = <<>> THEN fat'[2]
                                   ELSE [fat'[2] EXCEPT ![second'[1]] = second'[2]],
         NEW A, NEW B, A \subseteq Clusters, A \cap B = {},
         FreeEntries' = (FreeEntries \ A) \cup B,
         Range(Work') \cup Loose' = ((Range(Work) \cup Loose) \ B) \cup A,
         B \cap Range(Dir) = {}, \A p \in Files : B \cap Owned(p) = {}
  PROVE  NothingLost'
<1>1. SUFFICES ASSUME faults' = 0
      PROVE  Clusters \ FreeEntries'
               = Range(Dir') \cup Range(Work') \cup Loose' \cup UNION {Owned(p)' : p \in Files'}
  BY DEF NothingLost
<1> DEFINE U == UNION {Owned(p) : p \in Files}
<1>2. Clusters \ FreeEntries = Range(Dir) \cup Range(Work) \cup Loose \cup U
  BY <1>1 DEF NothingLost
<1>3. {Owned(p)' : p \in Files'} = {Owned(p) : p \in Files}
  OBVIOUS
<1>4. UNION {Owned(p)' : p \in Files'} = U  BY <1>3
<1>5. B \cap U = {}  OBVIOUS
<1> HIDE DEF U
<1> QED  BY <1>2, <1>4, <1>5

\* Between the writes of the two copies, they differ in that entry.
LEMMA Copies ==
  ASSUME FatType, NothingLost, second = <<>>, NEW x \in Clusters, NEW v \in Links,
         SetFirstCopy(x, v), faults = 0
  PROVE  fat'[1] = IF second' = <<>> THEN fat'[2]
                   ELSE [fat'[2] EXCEPT ![second'[1]] = second'[2]]
<1>1. fat[1] = fat[2]  BY DEF NothingLost
<1>2. fat'[1] = [fat[1] EXCEPT ![x] = v] /\ fat'[2] = fat[2] /\ second' = <<x, v>>
  BY SetFirst
<1> QED  BY <1>1, <1>2

\* The FAT is left alone.
LEMMA FatKept ==
  ASSUME fat' = fat
  PROVE  /\ FreeEntries' = FreeEntries /\ FreeData' = FreeData
         /\ \A x : fat'[1][x] = fat[1][x]
  BY DEF FreeEntries, FreeData

\* The same two for a step that writes no cluster.
LEMMA Still ==
  ASSUME FatInv, FatType', files' = files, fat'[1] = fat[1], sector' = sector,
         \A p \in Places : Entry(p).name \in Names /\ p \in Replaced => p \in Replaced',
         pc' = "ext_zero" => pc = "ext_zero" /\ new' = new,
         pc = "ext_zero" /\ pc' # "ext_zero" => new \notin Data,
         pc' \in {"ext_alloc", "ext_link"} => Range(Dir) \subseteq Data
  PROVE  /\ Dir' = Dir /\ Readable' = Readable /\ DirInv' /\ NamesInv' /\ SameEntries
         /\ Files' = Files \ Replaced' /\ FilesInv' /\ \A p \in Files' : Owned(p)' = Owned(p)
<1> DEFINE X == {}
<1>1. /\ \A x \in Clusters \ X : fat'[1][x] = fat[1][x]
      /\ \A x \in Data \ X : sector'[x] = sector[x]
      /\ X \cap Range(Dir) = {} /\ \A p \in Files : X \cap Owned(p) = {}
  OBVIOUS
<1> HIDE DEF X
<1> QED  BY <1>1, Quiet

LEMMA LostStill ==
  ASSUME NothingLost, Dir' = Dir, Files' = Files, \A p \in Files' : Owned(p)' = Owned(p),
         faults' = 0 => faults = 0,
         faults' = 0 => fat'[1] = IF second' = <<>> THEN fat'[2]
                                   ELSE [fat'[2] EXCEPT ![second'[1]] = second'[2]],
         FreeEntries' = FreeEntries, Range(Work') \cup Loose' = Range(Work) \cup Loose
  PROVE  NothingLost'
<1> DEFINE A == {}
<1>1. /\ A \subseteq Clusters /\ A \cap A = {} /\ FreeEntries' = (FreeEntries \ A) \cup A
      /\ Range(Work') \cup Loose' = ((Range(Work) \cup Loose) \ A) \cup A
      /\ A \cap Range(Dir) = {} /\ \A p \in Files : A \cap Owned(p) = {}
  OBVIOUS
<1> HIDE DEF A
<1> QED  BY <1>1, LostFrame

-----------------------------------------------------------------------------
(* The steps that leave the first copy of the FAT alone.                   *)

LEMMA KeepsSecond ==
  ASSUME FatInv, SetSecondCopy
  PROVE  FatInv'
<1> USE DEF FatInv
<1>1. /\ second # <<>> /\ fat' = [fat EXCEPT ![2][second[1]] = second[2]] /\ second' = <<>>
      /\ sector' = sector /\ pc' = pc /\ failed' = failed /\ faults' = faults /\ files' = files
      /\ op' = op /\ at' = at /\ first' = first /\ prev' = prev /\ new' = new /\ cur' = cur
      /\ count' = count
  BY DEF SetSecondCopy, local
<1>2. /\ fat'[1] = fat[1] /\ fat'[2] = [fat[2] EXCEPT ![second[1]] = second[2]]
      /\ fat' \in [1..2 -> [Clusters -> Links]]
  <2> DEFINE g == [fat[2] EXCEPT ![second[1]] = second[2]]
  <2>1. fat \in [1..2 -> [Clusters -> Links]] /\ second \in Clusters \X Links
    BY <1>1 DEF FatType
  <2>2. second[1] \in Clusters /\ second[2] \in Links  BY <2>1
  <2>3. g \in [Clusters -> Links]  BY <2>1, <2>2
  <2>4. fat' = [fat EXCEPT ![2] = g]  BY <1>1
  <2> HIDE DEF g
  <2>5. fat'[1] = fat[1] /\ fat'[2] = g /\ fat' \in [1..2 -> [Clusters -> Links]]
    BY <2>1, <2>3, <2>4
  <2> QED  BY <2>5 DEF g
<1>3. FatType'  BY <1>1, <1>2 DEF FatType
<1>4. Replaced' = Replaced /\ Loose' = Loose /\ Anchor' = Anchor
  BY <1>1 DEF Replaced, Loose, Anchor
<1>5. /\ Dir' = Dir /\ Readable' = Readable /\ DirInv' /\ NamesInv' /\ SameEntries
      /\ Files' = Files \ Replaced' /\ FilesInv' /\ \A p \in Files' : Owned(p)' = Owned(p)
  <2>1. pc' \in {"ext_alloc", "ext_link"} => Range(Dir) \subseteq Data  BY <1>1 DEF DirInv
  <2> QED  BY <1>1, <1>2, <1>3, <1>4, <2>1, Still
<1>6. Files' = Files  BY <1>4, <1>5 DEF Files
<1>7. Work' = Work /\ Path(fat'[1], Anchor', Work')  BY <1>2, <1>3, <1>4, WorkKept
<1>8. SlotInv' /\ (pc \in Replaces => Entry(at)' = Entry(at))
  BY <1>1, <1>5, SlotFrame DEF SlotInv
<1>9. WorkInv'  BY <1>1, <1>2, <1>4, <1>7 DEF WorkInv
<1>10. Apart'  BY <1>4, <1>5, <1>6, <1>7 DEF Apart
<1>11. FreeEntries' = FreeEntries /\ FreeData' = FreeData  BY <1>2 DEF FreeEntries, FreeData
<1>12. SpaceInv'  BY <1>1, <1>7, <1>8, <1>11 DEF SpaceInv
<1>13. NothingLost'
  <2>1. faults' = 0 => fat'[1] = IF second' = <<>> THEN fat'[2]
                                  ELSE [fat'[2] EXCEPT ![second'[1]] = second'[2]]
    BY <1>1, <1>2 DEF NothingLost
  <2> QED  BY <1>1, <1>4, <1>5, <1>6, <1>7, <1>11, <2>1, LostStill
<1> QED  BY <1>3, <1>5, <1>8, <1>9, <1>10, <1>12, <1>13

LEMMA IdleFacts ==
  ASSUME FatInv, pc = "idle"
  PROVE  /\ Work = <<>> /\ Range(Work) = {} /\ Loose = {} /\ Replaced = {}
         /\ first = 0 /\ count = 0
<1>1. Anchor = FREE /\ Loose = {} /\ Replaced = {}
  BY DEF Anchor, Loose, Replaced, Builds, Frees
<1>2. Path(fat[1], FREE, Work)  BY <1>1 DEF FatInv, WorkInv
<1>3. Work = <<>> /\ Range(Work) = {}  BY <1>2, PathParts, Consts
<1>4. first = 0 /\ count = 0  BY DEF FatInv, WorkInv, Builds
<1> QED  BY <1>1, <1>3, <1>4

\* A call of fat32_write_file, up to its first write.
LEMMA Begins ==
  ASSUME FatInv, Idle, NEW n \in Names, NEW v \in Values, NEW s \in 0..MaxSize, Begin(n, v, s),
         cur' \in Links, pc' \in {"free_old", "entry", "alloc", "ext_alloc"},
         pc' = "ext_alloc" => Range(Dir) \subseteq Data
  PROVE  /\ FatType' /\ fat' = fat /\ sector' = sector /\ files' = files /\ second' = second
         /\ faults' = faults /\ op'.name = n /\ op'.value = v /\ op'.size = s
         /\ first' = 0 /\ count' = 0 /\ new' = new /\ prev' = prev
         /\ Dir' = Dir /\ Readable' = Readable /\ DirInv' /\ NamesInv' /\ SameEntries
         /\ Files' = Files \ Replaced' /\ FilesInv' /\ \A p \in Files' : Owned(p)' = Owned(p)
         /\ Loose' = {} /\ FreeEntries' = FreeEntries /\ FreeData' = FreeData
<1> USE DEF FatInv
<1>1. /\ fat' = fat /\ sector' = sector /\ files' = files /\ second' = second
      /\ faults' = faults /\ op' = [name |-> n, value |-> v, size |-> s]
      /\ first' = first /\ prev' = prev /\ new' = new /\ count' = count
  BY DEF Begin
<1>2. pc = "idle" /\ first = 0 /\ count = 0 /\ Replaced = {}  BY IdleFacts DEF Idle
<1>3. FatType'
  <2>1. op' \in [name : Names \cup {"none"}, value : Values \cup {"none"}, size : 0..MaxSize]
    BY <1>1
  <2>2. op'.name \in Names /\ op'.value \in Values  BY <1>1
  <2>3. pc' \in {"idle"} \cup Builds \cup Frees \cup Extends  BY DEF Builds, Frees, Extends
  <2> QED  BY <1>1, <2>1, <2>2, <2>3 DEF FatType
<1>4. /\ Dir' = Dir /\ Readable' = Readable /\ DirInv' /\ NamesInv' /\ SameEntries
      /\ Files' = Files \ Replaced' /\ FilesInv' /\ \A p \in Files' : Owned(p)' = Owned(p)
  BY <1>1, <1>2, <1>3, Still
<1>5. Loose' = {}  BY DEF Loose
<1> QED  BY <1>1, <1>2, <1>3, <1>4, <1>5, FatKept

LEMMA AfterSlotWork ==
  ASSUME FatType', first' = 0, count' = 0, Loose' = {}, pc' = AfterSlot(op'.size)
  PROVE  WorkInv' /\ Work' = <<>> /\ Range(Work') = {}
<1>1. pc' \in {"entry", "alloc"} /\ (pc' = "entry" <=> op'.size = 0)  BY DEF AfterSlot
<1>2. Work' = <<>> /\ Path(fat'[1], Anchor', Work') /\ Range(Work') = {}
  BY <1>1, NoWork DEF Frees
<1>3. op'.size \in Nat  BY Bounds DEF FatType
<1>4. Len(Work') = 0 /\ \A i \in 1..0 : FALSE  BY <1>2
<1> QED  BY <1>1, <1>2, <1>3, <1>4 DEF WorkInv, Builds, Frees

LEMMA LinkKinds ==
  ASSUME NEW c \in Links
  PROVE  (c >= 2 <=> c \in Clusters) /\ (c \notin Clusters => c = FREE \/ c = FAT_EOC)
  BY Consts DEF Links, FREE, FAT_EOC

LEMMA KeepsExisting ==
  ASSUME FatInv, Room, NEW n \in Names, NEW v \in Values, NEW s \in 0..MaxSize,
         WriteExisting(n, v, s)
  PROVE  FatInv'
<1> USE DEF FatInv
<1>1. Idle /\ at' \in find_entry(n) /\ Fits(s, at') /\ cur' = Entry(at').first
      /\ pc' = (IF cur' >= 2 THEN "free_old" ELSE AfterSlot(s)) /\ Begin(n, v, s)
  BY DEF WriteExisting
<1> DEFINE p == at'  c == Entry(p).first
<1>2. p \in Places /\ Entry(p).name = n  BY <1>1, FindIs
<1>3. Work = <<>> /\ Range(Work) = {} /\ Loose = {} /\ Replaced = {}
  BY <1>1, IdleFacts DEF Idle
<1>4. p \in Files  BY <1>2, <1>3 DEF Files
<1>5. /\ c \in Links /\ Path(fat[1], c, ChainIn(fat[1], c)) /\ Owned(p) = Range(ChainIn(fat[1], c))
      /\ Owned(p) \subseteq Data
  BY <1>4, FileParts
<1>6. cur' = c /\ pc' \in {"free_old", "entry", "alloc"} /\ (cur' >= 2 <=> c \in Clusters)
  BY <1>1, <1>5, AfterSlotType, LinkKinds
<1>7. /\ FatType' /\ fat' = fat /\ sector' = sector /\ files' = files /\ second' = second
      /\ faults' = faults /\ op'.name = n /\ op'.value = v /\ op'.size = s
      /\ first' = 0 /\ count' = 0
      /\ Dir' = Dir /\ Readable' = Readable /\ DirInv' /\ NamesInv' /\ SameEntries
      /\ Files' = Files \ Replaced' /\ FilesInv' /\ (\A q \in Files' : Owned(q)' = Owned(q))
      /\ Loose' = {} /\ FreeEntries' = FreeEntries /\ FreeData' = FreeData
  BY <1>1, <1>5, <1>6, Begins
<1>8. Replaced' = {p}  BY <1>6 DEF Replaced
<1>9. s <= Cardinality(FreeData) + Len(ChainIn(fat[1], c))  BY <1>1 DEF Fits, Chain
<1> HIDE DEF c
<1>10. WorkInv' /\ Range(Work') = Owned(p) /\ SpaceInv'
  <2>1. CASE c \in Clusters
    <3>1. pc' = "free_old" /\ Anchor' = c  BY <1>1, <1>6, <2>1 DEF Anchor, Builds, Frees
    <3>2. Work' = ChainIn(fat[1], c)  BY <3>1, <1>7 DEF Work, Chain
    <3>3. WorkInv'  BY <3>1, <3>2, <1>5, <1>6, <1>7, <2>1 DEF WorkInv, Builds, Frees
    <3>4. SpaceInv'  BY <3>1, <3>2, <1>7, <1>9 DEF SpaceInv
    <3> QED  BY <3>2, <3>3, <3>4, <1>5
  <2>2. CASE c \notin Clusters
    <3>1. pc' = AfterSlot(op'.size)  BY <1>1, <1>6, <1>7, <2>2
    <3>2. WorkInv' /\ Work' = <<>> /\ Range(Work') = {}  BY <1>7, <3>1, AfterSlotWork
    <3>3. ChainIn(fat[1], c) = <<>> /\ Range(ChainIn(fat[1], c)) = {}
      BY <1>5, <2>2, PathParts
    <3>4. s <= Cardinality(FreeData)
      <4>1. Len(ChainIn(fat[1], c)) = 0  BY <3>3
      <4>2. FreeData \subseteq Clusters  BY DEF FreeData, FreeEntries
      <4>3. IsFiniteSet(FreeData)  BY <4>2, Consts, FS_Subset
      <4>4. Cardinality(FreeData) \in Nat  BY <4>3, FS_CardinalityType
      <4> QED  BY <1>9, <4>1, <4>4
    <3>5. pc' \in {"entry", "alloc"}  BY <3>1, AfterSlotType
    <3>6. SpaceInv'  BY <3>4, <3>5, <1>7 DEF SpaceInv
    <3> QED  BY <3>2, <3>3, <3>6, <1>5
  <2> QED  BY <2>1, <2>2
<1>11. SlotInv'
  <2>1. Entry(at)' = Entry(p) /\ Places' = Places  BY <1>7 DEF Entry, SameEntries
  <2>2. \A q \in Places : q # p => Entry(q).name # n  BY <1>2 DEF NamesInv
  <2>3. \A q \in Places' : q # p => Entry(q)'.name # op'.name
    BY <2>2, <1>7 DEF SameEntries
  <2>4. pc' \notin Extends /\ pc' # "free_new"  BY <1>6 DEF Extends
  <2> QED  BY <1>2, <1>7, <2>1, <2>3, <2>4 DEF SlotInv
<1>12. Apart'
  <2>1. \A q \in Files' : q \in Files /\ q # p  BY <1>7, <1>8
  <2>2. \A q \in Files' : Owned(q) \cap (Range(Work') \cup Loose') = {}
    BY <1>4, <1>7, <1>10, <2>1 DEF Apart
  <2>3. Range(Dir) \cap (Range(Work') \cup Loose') = {}
    BY <1>4, <1>7, <1>10 DEF Apart
  <2> QED  BY <2>1, <2>2, <2>3, <1>7, ApartFrame
<1>13. NothingLost'
  <2> DEFINE U == UNION {Owned(q) : q \in Files}
             V == UNION {Owned(q) : q \in Files \ {p}}
  <2>1. U = V \cup Owned(p)  BY <1>4
  <2>2. {Owned(q)' : q \in Files'} = {Owned(q) : q \in Files \ {p}}  BY <1>7, <1>8
  <2>3. UNION {Owned(q)' : q \in Files'} = V  BY <2>2
  <2>4. faults = 0 => Clusters \ FreeEntries = Range(Dir) \cup Range(Work) \cup Loose \cup U
    BY DEF NothingLost
  <2>5. faults = 0 => fat[1] = IF second = <<>> THEN fat[2]
                                ELSE [fat[2] EXCEPT ![second[1]] = second[2]]
    BY DEF NothingLost
  <2> HIDE DEF U, V
  <2>6. faults' = 0 => Clusters \ FreeEntries' = Range(Dir') \cup Range(Work') \cup Loose'
                              \cup UNION {Owned(q)' : q \in Files'}
    BY <1>3, <1>7, <1>10, <2>1, <2>3, <2>4
  <2> QED  BY <1>7, <2>5, <2>6 DEF NothingLost
<1> QED  BY <1>7, <1>10, <1>11, <1>12, <1>13

LEMMA KeepsNew ==
  ASSUME FatInv, NEW n \in Names, NEW v \in Values, NEW s \in 0..MaxSize, WriteNew(n, v, s)
  PROVE  FatInv'
<1> USE DEF FatInv
<1>1. Idle /\ find_entry(n) = {} /\ at' \in FreeSlot /\ pc' = AfterSlot(s) /\ cur' = 0
      /\ Begin(n, v, s)
  BY DEF WriteNew
<1> DEFINE p == at'
<1>2. /\ p \in Places /\ Entry(p).name \in {END, DELETED}
      /\ \A i, k \in DOMAIN DirectorySlots :
            DirectorySlots[k] = p /\ Before(i, k) => Entry(DirectorySlots[i]).name # END
  BY <1>1, FreeIs
<1>3. Work = <<>> /\ Range(Work) = {} /\ Loose = {} /\ Replaced = {}
  BY <1>1, IdleFacts DEF Idle
<1>4. pc' \in {"entry", "alloc"} /\ cur' \in Links  BY <1>1, AfterSlotType, Consts DEF FREE
<1>5. /\ FatType' /\ fat' = fat /\ sector' = sector /\ files' = files /\ second' = second
      /\ faults' = faults /\ op'.name = n /\ op'.value = v /\ op'.size = s
      /\ first' = 0 /\ count' = 0
      /\ Dir' = Dir /\ Readable' = Readable /\ DirInv' /\ NamesInv' /\ SameEntries
      /\ Files' = Files \ Replaced' /\ FilesInv' /\ (\A q \in Files' : Owned(q)' = Owned(q))
      /\ Loose' = {} /\ FreeEntries' = FreeEntries /\ FreeData' = FreeData
  BY <1>1, <1>4, Begins
<1>6. n \notin {END, DELETED} /\ Entry(p).name \notin Names  BY <1>2, NamesAssumption
<1>7. Files' = Files
  <2>1. Replaced' = {p}  BY <1>4 DEF Replaced
  <2>2. p \notin Files  BY <1>6 DEF Files
  <2> QED  BY <2>1, <2>2, <1>5
<1>8. WorkInv' /\ Work' = <<>> /\ Range(Work') = {}  BY <1>1, <1>5, AfterSlotWork
<1>9. Entry(at)' = Entry(p)  BY <1>5 DEF Entry
<1>10. SlotInv'
  <2>1. \A q \in Places : Entry(q).name # n  BY <1>1, FindIs
  <2>2. \A q \in Places' : Entry(q)'.name # op'.name  BY <2>1, <1>5 DEF SameEntries
  <2>3. \A i \in DOMAIN DirectorySlots :
           Entry(DirectorySlots[i])' = Entry(DirectorySlots[i])
    BY <1>5 DEF Entry, SameEntries
  <2>4. DirectorySlots' = DirectorySlots /\ Places' = Places  BY <1>5 DEF SameEntries
  <2>5. \A i, k \in DOMAIN DirectorySlots' :
           DirectorySlots'[k] = at' /\ Before(i, k) => Entry(DirectorySlots[i])'.name # END
    BY <1>2, <2>3, <2>4
  <2>6. pc' \notin Extends /\ pc' # "free_old" /\ pc' # "free_new"  BY <1>4 DEF Extends
  <2> QED  BY <1>2, <1>9, <2>2, <2>4, <2>5, <2>6 DEF SlotInv
<1>11. Apart'  BY <1>5, <1>7, <1>8, ApartFrame
<1>12. SpaceInv'  BY <1>5, <1>6, <1>9 DEF SpaceInv
<1>13. NothingLost'
  <2>1. faults' = 0 => fat'[1] = IF second' = <<>> THEN fat'[2]
                                  ELSE [fat'[2] EXCEPT ![second'[1]] = second'[2]]
    BY <1>5 DEF NothingLost
  <2> QED  BY <1>3, <1>5, <1>7, <1>8, <2>1, LostStill
<1> QED  BY <1>5, <1>8, <1>10, <1>11, <1>12, <1>13

LEMMA KeepsExtending ==
  ASSUME FatInv, NEW n \in Names, NEW v \in Values, NEW s \in 0..MaxSize, WriteExtending(n, v, s)
  PROVE  FatInv'
<1> USE DEF FatInv
<1>1. Idle /\ find_entry(n) = {} /\ FreeSlot = {} /\ Len(Readable) = Len(Dir)
      /\ pc' = "ext_alloc" /\ cur' = 0 /\ Begin(n, v, s)
  BY DEF WriteExtending, Dir
<1>2. Range(Dir) \subseteq Data
  <2>1. \A i \in 1..Len(Dir) : Dir[i] = Readable[i]  BY <1>1, DirFacts
  <2>2. \A i \in 1..Len(Dir) : Readable[i] \in Range(Readable)  BY <1>1, DirFacts
  <2>3. Range(Readable) \subseteq Data /\ Range(Dir) = {Dir[i] : i \in 1..Len(Dir)}
    BY DirFacts
  <2> QED  BY <2>1, <2>2, <2>3
<1>3. Work = <<>> /\ Range(Work) = {} /\ Loose = {} /\ Replaced = {}
  BY <1>1, IdleFacts DEF Idle
<1>4. cur' \in Links  BY <1>1, Consts DEF FREE
<1>5. /\ FatType' /\ fat' = fat /\ sector' = sector /\ files' = files /\ second' = second
      /\ faults' = faults /\ op'.name = n /\ op'.value = v /\ op'.size = s
      /\ first' = 0 /\ count' = 0
      /\ Dir' = Dir /\ Readable' = Readable /\ DirInv' /\ NamesInv' /\ SameEntries
      /\ Files' = Files \ Replaced' /\ FilesInv' /\ (\A q \in Files' : Owned(q)' = Owned(q))
      /\ Loose' = {} /\ FreeEntries' = FreeEntries /\ FreeData' = FreeData
  BY <1>1, <1>2, <1>4, Begins
<1>6. Files' = Files  BY <1>1, <1>5 DEF Replaced
<1>7. pc' \notin Builds \cup Frees /\ pc' \notin Replaces
  BY <1>1 DEF Builds, Frees, Replaces
<1>8. Work' = <<>> /\ Path(fat'[1], Anchor', Work') /\ Range(Work') = {}
  BY <1>5, <1>7, NoWork
<1>9. WorkInv'  BY <1>1, <1>5, <1>7, <1>8 DEF WorkInv, Builds, Frees
<1>10. SlotInv'
  <2>1. \A q \in Places : Entry(q).name \in Names \ {n}  BY <1>1, FindIs, FullIs
  <2>2. \A q \in Places' : Entry(q)'.name \in Names \ {op'.name}
    BY <2>1, <1>5 DEF SameEntries
  <2> QED  BY <1>1, <1>7, <2>2 DEF SlotInv
<1>11. Apart'  BY <1>5, <1>6, <1>8, ApartFrame
<1>12. SpaceInv'  BY <1>7 DEF SpaceInv
<1>13. NothingLost'
  <2>1. faults' = 0 => fat'[1] = IF second' = <<>> THEN fat'[2]
                                  ELSE [fat'[2] EXCEPT ![second'[1]] = second'[2]]
    BY <1>5 DEF NothingLost
  <2> QED  BY <1>3, <1>5, <1>6, <1>8, <2>1, LostStill
<1> QED  BY <1>5, <1>9, <1>10, <1>11, <1>12, <1>13

\* An operation returns, or the machine stops, and no file is being replaced.
LEMMA Returns ==
  ASSUME FatInv, Return, FatType', fat'[1] = fat[1], sector' = sector, files' = files,
         pc \in Replaces => Entry(at).name # op.name, pc = "ext_zero" => new \notin Data,
         faults' = 0 => faults = 0,
         faults' = 0 => fat'[1] = IF second' = <<>> THEN fat'[2]
                                   ELSE [fat'[2] EXCEPT ![second'[1]] = second'[2]],
         faults' = 0 => Range(Work) \cup Loose = {}
  PROVE  FatInv'
<1> USE DEF FatInv
<1>1. pc' = "idle" /\ first' = 0 /\ count' = 0  BY DEF Return
<1>2. \A p \in Places : Entry(p).name \in Names => p \notin Replaced
  <2> SUFFICES ASSUME NEW p \in Places, Entry(p).name \in Names, p \in Replaced PROVE FALSE
    OBVIOUS
  <2>1. pc \in Replaces /\ p = at  BY DEF Replaced, Replaces
  <2>2. Entry(at).name \in {END, DELETED}  BY <2>1 DEF SlotInv
  <2> QED  BY <2>1, <2>2, NamesAssumption
<1>3. /\ Dir' = Dir /\ Readable' = Readable /\ DirInv' /\ NamesInv' /\ SameEntries
      /\ Files' = Files \ Replaced' /\ FilesInv' /\ \A p \in Files' : Owned(p)' = Owned(p)
  BY <1>1, <1>2, Still
<1>4. Files' = Files /\ Loose' = {}  BY <1>1, <1>3 DEF Replaced, Loose
<1>5. pc' \notin Builds \cup Frees /\ pc' \notin Replaces \cup Extends
  BY <1>1 DEF Builds, Frees, Replaces, Extends
<1>6. Work' = <<>> /\ Path(fat'[1], Anchor', Work') /\ Range(Work') = {}  BY <1>5, NoWork
<1>7. WorkInv'  BY <1>1, <1>4, <1>5, <1>6 DEF WorkInv, Builds
<1>8. SlotInv' /\ SpaceInv'  BY <1>1, <1>5 DEF SlotInv, SpaceInv
<1>9. Apart'  BY <1>3, <1>4, <1>6, ApartFrame
<1>10. FreeEntries' = FreeEntries  BY DEF FreeEntries
<1>11. NothingLost'
  <2>1. CASE faults' = 0  BY <2>1, <1>3, <1>4, <1>6, <1>10, LostStill
  <2>2. CASE faults' # 0  BY <2>2 DEF NothingLost
  <2> QED  BY <2>1, <2>2
<1> QED  BY <1>3, <1>7, <1>8, <1>9, <1>11

LEMMA KeepsExtendFails ==
  ASSUME FatInv, ExtendFails
  PROVE  FatInv'
<1> USE DEF FatInv
<1>1. /\ pc \in {"ext_alloc", "ext_zero"} /\ (pc = "ext_zero" => new \in Slack) /\ Return
      /\ fat' = fat /\ sector' = sector /\ second' = second /\ faults' = faults
      /\ files' = files
  BY DEF ExtendFails, Step
<1>2. FatType'
  <2>1. faults' \in Nat  BY <1>1 DEF FatType
  <2> QED  BY <1>1, <2>1, ReturnType
<1>3. new \in Slack => new \notin Data  BY SlackApart
<1>4. Range(Work) \cup Loose = {}
  <2>1. Anchor = FREE /\ Loose = {}  BY <1>1 DEF Anchor, Builds, Frees, Loose
  <2>2. Path(fat[1], FREE, Work)  BY <2>1 DEF WorkInv
  <2> QED  BY <2>1, <2>2, PathParts, Consts
<1>5. pc \notin Replaces  BY <1>1 DEF Replaces
<1>6. faults' = 0 => fat'[1] = IF second' = <<>> THEN fat'[2]
                                ELSE [fat'[2] EXCEPT ![second'[1]] = second'[2]]
  BY <1>1 DEF NothingLost
<1> QED  BY <1>1, <1>2, <1>3, <1>4, <1>5, <1>6, Returns

\* A fault spares the files that are being replaced.
LEMMA FaultSpares ==
  ASSUME FatInv, ~FaultsAnywhere, Fault
  PROVE  /\ pc # "ext_zero" /\ faults' \in Nat /\ faults' # 0
         /\ pc \in Replaces => Entry(at).name # op.name
<1> USE DEF FatInv
<1>1. find_entry(op.name) = {} /\ pc # "ext_zero" /\ faults' = faults + 1  BY DEF Fault
<1>2. faults' \in Nat /\ faults' # 0  BY <1>1 DEF FatType
<1>3. pc \in Replaces => Entry(at).name # op.name
  <2> SUFFICES ASSUME pc \in Replaces PROVE Entry(at).name # op.name  OBVIOUS
  <2>1. op.name \in Names /\ at \in Places  BY DEF FatType, SlotInv, Replaces
  <2> QED  BY <1>1, <2>1, FindIs
<1> QED  BY <1>1, <1>2, <1>3

LEMMA KeepsAbandon ==
  ASSUME FatInv, ~FaultsAnywhere, Fault, Abandon
  PROVE  FatInv'
<1> USE DEF FatInv
<1>1. /\ Return /\ second' = <<>> /\ fat' = fat /\ sector' = sector /\ files' = files
  BY DEF Abandon
<1>2. /\ pc # "ext_zero" /\ faults' \in Nat /\ faults' # 0
      /\ pc \in Replaces => Entry(at).name # op.name
  BY FaultSpares
<1>3. FatType'  BY <1>1, <1>2, ReturnType
<1> QED  BY <1>1, <1>2, <1>3, Returns

\* The chain an operation has built is to be freed: the files keep theirs.
LEMMA GivesUp ==
  ASSUME FatInv, pc \in {"alloc", "link", "data"}, Entry(at).name # op.name, first # 0,
         cur' = first, pc' = "free_new", second' \in {second, <<>>}, faults' \in Nat,
         UNCHANGED <<fat, sector, op, at, first, prev, new, count, files>>
  PROVE  /\ FatType' /\ DirInv' /\ NamesInv' /\ SlotInv' /\ WorkInv' /\ FilesInv'
         /\ Apart' /\ SpaceInv'
         /\ Dir' = Dir /\ Files' = Files /\ Work' = Work /\ Loose' = {}
         /\ \A p \in Files' : Owned(p)' = Owned(p)
<1> USE DEF FatInv
<1>1. /\ op' = op /\ at' = at /\ first' = first /\ prev' = prev /\ new' = new
      /\ count' = count /\ fat' = fat /\ sector' = sector /\ files' = files
  OBVIOUS
<1>2. first \in Clusters  BY DEF FatType
<1>3. FatType'
  <2>1. op.name \in Names /\ op.value \in Values  BY DEF FatType
  <2> QED  BY <1>1, <1>2, <2>1, Consts DEF FatType, Frees
<1>4. Anchor' = Anchor /\ Loose' = {} /\ Replaced' = Replaced
  BY <1>1 DEF Anchor, Builds, Frees, Loose, Replaced
<1>5. /\ Dir' = Dir /\ Readable' = Readable /\ DirInv' /\ NamesInv' /\ SameEntries
      /\ Files' = Files \ Replaced' /\ FilesInv' /\ \A p \in Files' : Owned(p)' = Owned(p)
  BY <1>1, <1>3, <1>4, Still
<1>6. Files' = Files  BY <1>4, <1>5 DEF Files
<1>7. Work' = Work /\ Path(fat'[1], Anchor', Work')  BY <1>1, <1>3, <1>4, WorkKept
<1>8. SlotInv' /\ (pc \in Replaces => Entry(at)' = Entry(at))
  BY <1>1, <1>5, SlotFrame DEF Extends, Replaces
<1>9. WorkInv'  BY <1>1, <1>2, <1>4, <1>7 DEF WorkInv, Builds, Frees
<1>10. Apart'
  <2>1. \A p \in Files' : Owned(p) \cap (Range(Work') \cup Loose') = {}
    BY <1>4, <1>6, <1>7 DEF Apart
  <2>2. Range(Dir) \cap (Range(Work') \cup Loose') = {} /\ Range(Work') \cap Loose' = {}
    BY <1>4, <1>7 DEF Apart
  <2> QED  BY <1>5, <1>6, <2>1, <2>2, ApartFrame
<1>11. SpaceInv'  BY DEF SpaceInv
<1> QED  BY <1>3, <1>4, <1>5, <1>6, <1>7, <1>8, <1>9, <1>10, <1>11

LEMMA KeepsErrorFreesChain ==
  ASSUME FatInv, ~FaultsAnywhere, ErrorFreesChain
  PROVE  FatInv'
<1> USE DEF FatInv
<1>1. /\ Fault /\ pc \in {"alloc", "link", "data"} /\ (pc = "alloc" => first # 0)
      /\ cur' = first /\ pc' = "free_new" /\ second' = <<>>
      /\ UNCHANGED <<fat, sector, op, at, first, prev, new, count, failed, files>>
  BY DEF ErrorFreesChain, Step
<1>2. faults' \in Nat /\ faults' # 0 /\ Entry(at).name # op.name
  BY <1>1, FaultSpares DEF Replaces
<1>3. first # 0
  <2>1. SUFFICES ASSUME pc \in {"link", "data"}, first = 0 PROVE FALSE  BY <1>1
  <2>2. Anchor = FREE  BY <2>1 DEF Anchor, Builds, FREE
  <2>3. Path(fat[1], FREE, Work)  BY <2>2 DEF WorkInv
  <2>4. Work = <<>>  BY <2>3, PathParts, Consts
  <2>5. Len(Work) = 0  BY <2>4
  <2>6. count \in Nat  BY DEF FatType
  <2> QED  BY <2>1, <2>5, <2>6 DEF WorkInv
<1>4. /\ FatType' /\ DirInv' /\ NamesInv' /\ SlotInv' /\ WorkInv' /\ FilesInv'
      /\ Apart' /\ SpaceInv'
  BY <1>1, <1>2, <1>3, GivesUp
<1> QED  BY <1>2, <1>4 DEF NothingLost

LEMMA FreeDataCard ==
  /\ IsFiniteSet(FreeData) /\ Cardinality(FreeData) \in Nat
  /\ FreeData = {} => Cardinality(FreeData) = 0
<1>1. FreeData \subseteq Clusters  BY DEF FreeData, FreeEntries
<1>2. IsFiniteSet(FreeData)  BY <1>1, Consts, FS_Subset
<1> QED  BY <1>2, FS_CardinalityType, FS_EmptySet

LEMMA KeepsNoSpace ==
  ASSUME FatInv, NoSpace
  PROVE  FatInv'
<1> USE DEF FatInv
<1>1. /\ pc \in {"alloc", "data"} /\ (pc = "alloc" => FreeEntries = {})
      /\ (pc = "data" => new \in Slack)
      /\ fat' = fat /\ sector' = sector /\ second' = second /\ faults' = faults
      /\ files' = files
  BY DEF NoSpace, Step
<1>2. Entry(at).name # op.name
  <2>1. SUFFICES ASSUME Entry(at).name = op.name PROVE FALSE  OBVIOUS
  <2>2. pc \in Replaces  BY <1>1 DEF Replaces
  <2>3. CASE pc = "alloc"
    <3>1. op.size - count <= Cardinality(FreeData)  BY <2>1, <2>2, <2>3 DEF SpaceInv
    <3>2. FreeData = {}  BY <1>1, <2>3 DEF FreeData
    <3>3. count < op.size /\ count \in Nat /\ op.size \in Nat
      BY <2>3, Bounds DEF WorkInv, FatType
    <3> QED  BY <3>1, <3>2, <3>3, FreeDataCard
  <2>4. CASE pc = "data"
    <3>1. new \in Data /\ new \in Slack  BY <1>1, <2>1, <2>2, <2>4 DEF SpaceInv
    <3> QED  BY <3>1, SlackApart
  <2> QED  BY <1>1, <2>3, <2>4
<1>3. faults' = 0 => fat'[1] = IF second' = <<>> THEN fat'[2]
                                ELSE [fat'[2] EXCEPT ![second'[1]] = second'[2]]
  BY <1>1 DEF NothingLost
<1>4. CASE first = 0
  <2>1. Return  BY <1>4 DEF NoSpace
  <2>2. FatType'
    <3>1. faults' \in Nat  BY <1>1 DEF FatType
    <3> QED  BY <1>1, <2>1, <3>1, ReturnType
  <2>3. Range(Work) \cup Loose = {}
    <3>1. Anchor = FREE /\ Loose = {}  BY <1>1, <1>4 DEF Anchor, Builds, Loose, FREE
    <3>2. Path(fat[1], FREE, Work)  BY <3>1 DEF WorkInv
    <3> QED  BY <3>1, <3>2, PathParts, Consts
  <2> QED  BY <1>1, <1>2, <1>3, <2>1, <2>2, <2>3, Returns
<1>5. CASE first # 0
  <2>1. /\ cur' = first /\ pc' = "free_new" /\ op' = op /\ at' = at /\ first' = first
        /\ prev' = prev /\ new' = new /\ count' = count
    BY <1>5 DEF NoSpace
  <2>2. faults' \in Nat  BY <1>1 DEF FatType
  <2>3. /\ FatType' /\ DirInv' /\ NamesInv' /\ SlotInv' /\ WorkInv' /\ FilesInv'
        /\ Apart' /\ SpaceInv'
        /\ Dir' = Dir /\ Files' = Files /\ Work' = Work /\ Loose' = {}
        /\ \A p \in Files' : Owned(p)' = Owned(p)
    BY <1>1, <1>2, <1>5, <2>1, <2>2, GivesUp
  <2>4. Loose = {}  BY <1>1 DEF Loose
  <2>5. NothingLost'  BY <1>1, <1>3, <2>3, <2>4, FatKept, LostStill
  <2> QED  BY <2>3, <2>5
<1> QED  BY <1>4, <1>5

LEMMA KeepsData ==
  ASSUME FatInv, WriteData
  PROVE  FatInv'
<1> USE DEF FatInv
<1>1. /\ pc = "data" /\ second = <<>> /\ new \in Data
      /\ sector' = [sector EXCEPT ![new] = Block(op.name, op.value, count + 1)]
      /\ prev' = new /\ count' = count + 1
      /\ pc' = (IF count' = op.size THEN "entry" ELSE "alloc")
      /\ fat' = fat /\ op' = op /\ at' = at /\ first' = first /\ new' = new /\ cur' = cur
      /\ second' = second /\ faults' = faults /\ files' = files
  BY DEF WriteData, Step
<1>2. /\ count \in Nat /\ op.size \in 0..MaxSize /\ count < op.size /\ count + 1 \in 0..MaxSize
      /\ Len(Work) = count + 1 /\ new = Work[count + 1] /\ MaxSize \in Nat
  BY <1>1, Bounds DEF FatType, WorkInv
<1>3. op.name \in Names /\ op.value \in Values  BY <1>1 DEF FatType
<1>4. FatType'
  <2>1. Block(op.name, op.value, count + 1) \in Blocks  BY <1>2, <1>3 DEF Block, Blocks
  <2>2. sector \in [Data -> Dirs \cup Blocks]  BY DEF FatType
  <2>3. sector' \in [Data -> Dirs \cup Blocks]  BY <1>1, <2>1, <2>2
  <2>4. pc' \in Builds  BY <1>1 DEF Builds
  <2> QED  BY <1>1, <1>2, <1>3, <2>3, <2>4 DEF FatType
<1>5. /\ Path(fat[1], Anchor, Work) /\ Range(Work) = {Work[i] : i \in 1..Len(Work)}
      /\ \A i, j \in 1..Len(Work) : Work[i] = Work[j] => i = j
  <2>1. Path(fat[1], Anchor, Work)  BY DEF WorkInv
  <2>2. Range(Work) = {Work[i] : i \in 1..Len(Work)}  BY <2>1, PathParts
  <2>3. \A i, j \in 1..Len(Work) : Work[i] = Work[j] => i = j  BY <2>1 DEF Path
  <2> QED  BY <2>1, <2>2, <2>3
<1>6. new \in Range(Work)  BY <1>2, <1>5
<1>7. Anchor' = Anchor /\ Loose' = {} /\ Loose = {} /\ Replaced' = Replaced
  BY <1>1 DEF Anchor, Builds, Loose, Replaced
<1>8. /\ Dir' = Dir /\ Readable' = Readable /\ DirInv' /\ NamesInv' /\ SameEntries
      /\ Files' = Files \ Replaced' /\ FilesInv' /\ \A p \in Files' : Owned(p)' = Owned(p)
  <2> DEFINE X == {new}
  <2>1. X \cap Range(Dir) = {} /\ \A p \in Files : X \cap Owned(p) = {}
    BY <1>6 DEF Apart
  <2>2. sector \in [Data -> Dirs \cup Blocks]  BY DEF FatType
  <2>3. /\ \A x \in Clusters \ X : fat'[1][x] = fat[1][x]
        /\ \A x \in Data \ X : sector'[x] = sector[x]
    BY <1>1, <2>2
  <2>4. pc' \notin {"ext_zero", "ext_alloc", "ext_link"} /\ pc # "ext_zero"  BY <1>1
  <2> HIDE DEF X
  <2> QED  BY <1>1, <1>4, <1>7, <2>1, <2>3, <2>4, Quiet
<1>9. Files' = Files  BY <1>7, <1>8 DEF Files
<1>10. Work' = Work /\ Path(fat'[1], Anchor', Work')  BY <1>1, <1>4, <1>7, WorkKept
<1>11. SlotInv' /\ (pc \in Replaces => Entry(at)' = Entry(at))
  BY <1>1, <1>8, SlotFrame DEF Extends, Replaces
<1>12. WorkInv'
  <2>1. \A i \in 1..count' : Work'[i] \in Data /\ sector'[Work'[i]] = Block(op'.name, op'.value, i)
    <3> SUFFICES ASSUME NEW i \in 1 .. count + 1
                 PROVE  Work[i] \in Data /\ sector'[Work[i]] = Block(op.name, op.value, i)
      BY <1>1, <1>10
    <3>1. sector \in [Data -> Dirs \cup Blocks]  BY DEF FatType
    <3>2. CASE i = count + 1  BY <3>1, <3>2, <1>1, <1>2
    <3>3. CASE i # count + 1
      <4>1. i \in 1..count /\ i \in 1..Len(Work) /\ count + 1 \in 1..Len(Work)
        BY <3>3, <1>2
      <4>2. Work[i] # new  BY <4>1, <3>3, <1>2, <1>5
      <4>3. Work[i] \in Data /\ sector[Work[i]] = Block(op.name, op.value, i)
        BY <4>1, <1>1 DEF WorkInv, Builds
      <4> QED  BY <4>2, <4>3, <3>1, <1>1
    <3> QED  BY <3>2, <3>3
  <2>2. pc' \in {"alloc", "entry"}  BY <1>1
  <2>3. Len(Work') = count' /\ prev' = Work'[count'] /\ count' > 0 /\ count' <= op'.size
    BY <1>1, <1>2, <1>10
  <2>4. pc' = "alloc" => count' < op'.size  BY <1>1, <2>3, <1>2
  <2>5. pc' = "entry" => count' = op'.size  BY <1>1
  <2> QED  BY <1>7, <1>10, <2>1, <2>2, <2>3, <2>4, <2>5 DEF WorkInv, Builds, Frees
<1>13. Apart'  BY <1>7, <1>8, <1>9, <1>10 DEF Apart
<1>14. SpaceInv'
  <2>1. SUFFICES ASSUME Entry(at)'.name = op'.name, pc' = "alloc"
        PROVE  op.size - count' <= Cardinality(FreeData)
    BY <1>1, FatKept DEF SpaceInv
  <2>2. pc \in Replaces  BY <1>1 DEF Replaces
  <2>3. Entry(at).name = op.name  BY <2>1, <2>2, <1>1, <1>11
  <2>4. op.size - count - 1 <= Cardinality(FreeData)  BY <1>1, <2>2, <2>3 DEF SpaceInv
  <2> QED  BY <1>1, <1>2, <2>4, FreeDataCard
<1>15. NothingLost'
  <2>1. faults' = 0 => fat'[1] = IF second' = <<>> THEN fat'[2]
                                  ELSE [fat'[2] EXCEPT ![second'[1]] = second'[2]]
    BY <1>1 DEF NothingLost
  <2> QED  BY <1>1, <1>7, <1>8, <1>9, <1>10, <2>1, FatKept, LostStill
<1> QED  BY <1>4, <1>8, <1>11, <1>12, <1>13, <1>14, <1>15

-----------------------------------------------------------------------------
(* The steps that take a cluster.                                          *)

LEMMA Allocs ==
  ASSUME FatInv, second = <<>>, NEW x \in Clusters, fat_alloc_cluster(x), FatType',
         sector' = sector, files' = files, faults' = faults, at' = at, op' = op,
         pc' = "ext_link" => pc = "ext_alloc", pc' # "ext_link" => pc = "alloc",
         pc' \in {"data", "link", "ext_link"}
  PROVE  /\ Dir' = Dir /\ Readable' = Readable /\ DirInv' /\ NamesInv' /\ SameEntries
         /\ Files' = Files /\ FilesInv' /\ \A p \in Files' : Owned(p)' = Owned(p)
         /\ SlotInv' /\ (pc \in Replaces => Entry(at)' = Entry(at))
         /\ fat'[1][x] = FAT_EOC /\ \A y \in Clusters : y # x => fat'[1][y] = fat[1][y]
         /\ x \notin Range(Dir) /\ x \notin Range(Work) /\ \A p \in Files : x \notin Owned(p)
         /\ FreeEntries' = FreeEntries \ {x} /\ FreeData' = FreeData \ {x} /\ x \in FreeEntries
         /\ FreeData # {} => x \in FreeData
         /\ faults' = 0 => fat'[1] = IF second' = <<>> THEN fat'[2]
                                      ELSE [fat'[2] EXCEPT ![second'[1]] = second'[2]]
<1> USE DEF FatInv
<1>1. fat[1][x] = FREE /\ SetFirstCopy(x, FAT_EOC) /\ (FreeData # {} => x \in Data)
  BY AllocTakes
<1>2. FAT_EOC \in Links /\ FAT_EOC # FREE  BY Consts
<1>3. fat'[1] = [fat[1] EXCEPT ![x] = FAT_EOC] /\ fat[1] \in [Clusters -> Links]
  BY <1>1, <1>2, SetFirst
<1>4. fat'[1][x] = FAT_EOC /\ \A y \in Clusters : y # x => fat'[1][y] = fat[1][y]
  BY <1>3
<1>5. x \notin Range(Dir) /\ x \notin Range(Work) /\ \A p \in Files : x \notin Owned(p)
  BY <1>1, FreeApart
<1>6. Replaced' = Replaced  BY DEF Replaced
<1>7. /\ Dir' = Dir /\ Readable' = Readable /\ DirInv' /\ NamesInv' /\ SameEntries
      /\ Files' = Files \ Replaced' /\ FilesInv' /\ \A p \in Files' : Owned(p)' = Owned(p)
  <2> DEFINE X == {x}
  <2>1. X \cap Range(Dir) = {} /\ \A p \in Files : X \cap Owned(p) = {}  BY <1>5
  <2>2. /\ \A y \in Clusters \ X : fat'[1][y] = fat[1][y]
        /\ \A y \in Data \ X : sector'[y] = sector[y]
    BY <1>4
  <2>3. pc' # "ext_zero" /\ pc # "ext_zero"  OBVIOUS
  <2>4. pc' \in {"ext_alloc", "ext_link"} => Range(Dir) \subseteq Data  BY DEF DirInv
  <2> HIDE DEF X
  <2> QED  BY <1>6, <2>1, <2>2, <2>3, <2>4, Quiet
<1>8. Files' = Files  BY <1>6, <1>7 DEF Files
<1>9. SlotInv' /\ (pc \in Replaces => Entry(at)' = Entry(at))
  BY <1>7, SlotFrame DEF Extends, Replaces
<1>10. /\ FreeEntries' = FreeEntries \ {x} /\ FreeData' = FreeData \ {x} /\ x \in FreeEntries
       /\ FreeData # {} => x \in FreeData
  BY <1>1, <1>2, <1>4 DEF FreeEntries, FreeData
<1>11. faults' = 0 => fat'[1] = IF second' = <<>> THEN fat'[2]
                                 ELSE [fat'[2] EXCEPT ![second'[1]] = second'[2]]
  BY <1>1, <1>2, Copies
<1> QED  BY <1>4, <1>5, <1>7, <1>8, <1>9, <1>10, <1>11

LEMMA KeepsExtendAlloc ==
  ASSUME FatInv, ExtendAlloc
  PROVE  FatInv'
<1> USE DEF FatInv
<1>1. /\ pc = "ext_alloc" /\ second = <<>> /\ pc' = "ext_link" /\ sector' = sector
      /\ op' = op /\ at' = at /\ first' = first /\ prev' = prev /\ cur' = cur
      /\ count' = count /\ faults' = faults /\ files' = files
  BY DEF ExtendAlloc, Step
<1>2. PICK x \in Clusters : fat_alloc_cluster(x) /\ new' = x  BY DEF ExtendAlloc
<1>3. FatType'
  <2>1. SetFirstCopy(x, FAT_EOC) /\ FAT_EOC \in Links  BY <1>2, AllocTakes, Consts
  <2>2. fat' \in [1..2 -> [Clusters -> Links]] /\ second' \in Clusters \X Links
    BY <2>1, SetFirst
  <2>3. pc' \in Extends  BY <1>1 DEF Extends
  <2> QED  BY <1>1, <1>2, <2>2, <2>3 DEF FatType
<1>4. /\ Dir' = Dir /\ Readable' = Readable /\ DirInv' /\ NamesInv' /\ SameEntries
      /\ Files' = Files /\ FilesInv' /\ (\A p \in Files' : Owned(p)' = Owned(p))
      /\ SlotInv' /\ (pc \in Replaces => Entry(at)' = Entry(at))
      /\ fat'[1][x] = FAT_EOC /\ (\A y \in Clusters : y # x => fat'[1][y] = fat[1][y])
      /\ x \notin Range(Dir) /\ x \notin Range(Work)
      /\ (\A p \in Files : x \notin Owned(p)) /\ FreeEntries' = FreeEntries \ {x}
      /\ x \in FreeEntries /\ FreeData' = FreeData \ {x} /\ (FreeData # {} => x \in FreeData)
      /\ (faults' = 0 => fat'[1] = IF second' = <<>> THEN fat'[2]
                                   ELSE [fat'[2] EXCEPT ![second'[1]] = second'[2]])
  BY <1>1, <1>2, <1>3, Allocs
<1>5. pc \notin Builds \cup Frees /\ pc' \notin Builds \cup Frees /\ pc' \notin Replaces
  BY <1>1 DEF Builds, Frees, Replaces
<1>6. Work' = <<>> /\ Path(fat'[1], Anchor', Work') /\ Range(Work') = {}
  BY <1>3, <1>5, NoWork
<1>7. Range(Work) = {} /\ Loose = {} /\ Loose' = {x}
  <2>1. Anchor = FREE /\ Loose = {} /\ Loose' = {x}
    BY <1>1, <1>2, <1>5 DEF Anchor, Loose
  <2>2. Path(fat[1], FREE, Work)  BY <2>1 DEF WorkInv
  <2> QED  BY <2>1, <2>2, PathParts, Consts
<1>8. WorkInv'  BY <1>1, <1>4, <1>5, <1>6, <1>7 DEF WorkInv, Builds
<1>9. Apart'
  <2>1. \A p \in Files' : Owned(p) \cap (Range(Work') \cup Loose') = {}  BY <1>4, <1>6, <1>7
  <2>2. Range(Dir) \cap (Range(Work') \cup Loose') = {} /\ Range(Work') \cap Loose' = {}
    BY <1>4, <1>6, <1>7
  <2> QED  BY <1>4, <2>1, <2>2, ApartFrame
<1>10. SpaceInv'  BY <1>5 DEF SpaceInv
<1>11. NothingLost'
  <2> DEFINE A == {x}  B == {}
  <2>1. A \subseteq Clusters /\ A \cap B = {} /\ FreeEntries' = (FreeEntries \ A) \cup B
    BY <1>4
  <2>2. /\ Range(Work') \cup Loose' = ((Range(Work) \cup Loose) \ B) \cup A
        /\ B \cap Range(Dir) = {} /\ \A p \in Files : B \cap Owned(p) = {}
    BY <1>6, <1>7
  <2> HIDE DEF A, B
  <2> QED  BY <1>1, <1>4, <2>1, <2>2, LostFrame
<1> QED  BY <1>3, <1>4, <1>8, <1>9, <1>10, <1>11

LEMMA KeepsAlloc ==
  ASSUME FatInv, AllocCluster
  PROVE  FatInv'
<1> USE DEF FatInv
<1>1. /\ pc = "alloc" /\ second = <<>> /\ sector' = sector
      /\ op' = op /\ at' = at /\ prev' = prev /\ cur' = cur
      /\ count' = count /\ faults' = faults /\ files' = files
      /\ IF first = 0 THEN first' = new' /\ pc' = "data" ELSE first' = first /\ pc' = "link"
  BY DEF AllocCluster, Step
<1>2. PICK x \in Clusters : fat_alloc_cluster(x) /\ new' = x  BY DEF AllocCluster
<1>3. FatType'
  <2>1. SetFirstCopy(x, FAT_EOC) /\ FAT_EOC \in Links  BY <1>2, AllocTakes, Consts
  <2>2. fat' \in [1..2 -> [Clusters -> Links]] /\ second' \in Clusters \X Links
    BY <2>1, SetFirst
  <2>3. pc' \in Builds /\ first' \in Clusters \cup {0}  BY <1>1, <1>2 DEF Builds, FatType
  <2>4. op.name \in Names /\ op.value \in Values  BY <1>1 DEF FatType
  <2> QED  BY <1>1, <1>2, <2>2, <2>3, <2>4 DEF FatType
<1>4. /\ Dir' = Dir /\ Readable' = Readable /\ DirInv' /\ NamesInv' /\ SameEntries
      /\ Files' = Files /\ FilesInv' /\ (\A p \in Files' : Owned(p)' = Owned(p))
      /\ SlotInv' /\ (pc \in Replaces => Entry(at)' = Entry(at))
      /\ fat'[1][x] = FAT_EOC /\ (\A y \in Clusters : y # x => fat'[1][y] = fat[1][y])
      /\ x \notin Range(Dir) /\ x \notin Range(Work)
      /\ (\A p \in Files : x \notin Owned(p)) /\ FreeEntries' = FreeEntries \ {x}
      /\ x \in FreeEntries /\ FreeData' = FreeData \ {x} /\ (FreeData # {} => x \in FreeData)
      /\ (faults' = 0 => fat'[1] = IF second' = <<>> THEN fat'[2]
                                   ELSE [fat'[2] EXCEPT ![second'[1]] = second'[2]])
  BY <1>1, <1>2, <1>3, Allocs
<1>5. /\ Len(Work) = count /\ count < op.size /\ count \in Nat /\ op.size \in Nat
      /\ Path(fat[1], first, Work) /\ Loose = {}
  BY <1>1, Bounds DEF WorkInv, FatType, Anchor, Builds, Loose
<1>6. Range(Work') \cup Loose' = Range(Work) \cup {x} /\ WorkInv' /\ Range(Work') \cap Loose' = {}
  <2>1. CASE first = 0
    <3>1. pc' = "data" /\ first' = x /\ Anchor' = x /\ Loose' = {}
      BY <1>1, <1>2, <2>1 DEF Anchor, Builds, Loose
    <3>2. fat'[1] \in [Clusters -> Links]  BY <1>3 DEF FatType
    <3>3. ChainIn(fat'[1], x) = <<x>> /\ Path(fat'[1], x, <<x>>)
      BY <1>4, <3>2, ChainOne
    <3>4. Work' = <<x>>  BY <3>1, <3>3 DEF Work, Chain
    <3>5. Work = <<>> /\ Range(Work) = {}  BY <1>5, <2>1, PathParts, Consts DEF FREE
    <3>6. count = 0  BY <1>5, <3>5
    <3>7. Range(Work') = {x} /\ Len(Work') = 1 /\ Work'[1] = x  BY <3>4 DEF Range
    <3>8. WorkInv'
      <4>1. Path(fat'[1], Anchor', Work')  BY <3>1, <3>3, <3>4
      <4>2. Len(Work') = count' + 1 /\ count' < op'.size /\ new' = Work'[count' + 1]
        BY <1>1, <1>2, <1>5, <3>6, <3>7
      <4>3. \A i \in 1..count' : FALSE  BY <1>1, <3>6
      <4> QED  BY <3>1, <4>1, <4>2, <4>3 DEF WorkInv, Builds, Frees
    <3> QED  BY <3>1, <3>5, <3>7, <3>8
  <2>2. CASE first # 0
    <3>1. pc' = "link" /\ first' = first /\ Anchor' = Anchor /\ Loose' = {x} /\ Anchor = first
      BY <1>1, <1>2, <2>2 DEF Anchor, Builds, Loose
    <3>2. Range(Work) \subseteq Clusters  BY <1>5, PathParts
    <3>3. \A y \in Range(Work) : fat'[1][y] = fat[1][y]  BY <3>2, <1>4
    <3>4. Work' = Work /\ Path(fat'[1], Anchor', Work')  BY <1>3, <3>1, <3>3, WorkKept
    <3>5. first \in Clusters  BY <2>2 DEF FatType
    <3>6. count > 0  BY <1>5, <3>5, PathParts
    <3>7. WorkInv'
      <4>1. prev' = Work'[count']  BY <1>1, <3>4, <3>6 DEF WorkInv
      <4>2. \A i \in 1..count' : Work'[i] \in Data /\ sector'[Work'[i]] = Block(op'.name, op'.value, i)
        BY <1>1, <3>4 DEF WorkInv, Builds
      <4>3. Loose' \subseteq Clusters /\ \A y \in Loose' : fat'[1][y] = FAT_EOC
        BY <3>1, <1>4
      <4> QED  BY <1>1, <1>5, <3>1, <3>4, <3>6, <4>1, <4>2, <4>3 DEF WorkInv, Builds, Frees
    <3> QED  BY <1>4, <3>1, <3>4, <3>7
  <2> QED  BY <2>1, <2>2
<1>7. Apart'
  <2>1. \A p \in Files' : Owned(p) \cap (Range(Work') \cup Loose') = {}
    BY <1>4, <1>6 DEF Apart
  <2>2. Range(Dir) \cap (Range(Work') \cup Loose') = {}
    BY <1>4, <1>6 DEF Apart
  <2> QED  BY <1>4, <1>6, <2>1, <2>2, ApartFrame
<1>8. SpaceInv'
  <2>1. pc \in Replaces /\ pc' \in {"data", "link"}  BY <1>1 DEF Replaces
  <2>2. SUFFICES ASSUME Entry(at)'.name = op'.name
        PROVE  op.size - count - 1 <= Cardinality(FreeData') /\ new' \in Data
    BY <1>1, <2>1 DEF SpaceInv
  <2>3. op.size - count <= Cardinality(FreeData)
    BY <1>1, <1>4, <2>1, <2>2 DEF SpaceInv
  <2>4. FreeData # {}  BY <2>3, <1>5, FreeDataCard
  <2>5. x \in FreeData /\ x \in Data  BY <1>4, <2>4 DEF FreeData
  <2>6. Cardinality(FreeData') = Cardinality(FreeData) - 1
    BY <1>4, <2>5, FreeDataCard, FS_RemoveElement
  <2> QED  BY <1>2, <1>5, <2>3, <2>5, <2>6, FreeDataCard
<1>9. NothingLost'
  <2> DEFINE A == {x}  B == {}
  <2>1. A \subseteq Clusters /\ A \cap B = {} /\ FreeEntries' = (FreeEntries \ A) \cup B
    BY <1>4
  <2>2. /\ Range(Work') \cup Loose' = ((Range(Work) \cup Loose) \ B) \cup A
        /\ B \cap Range(Dir) = {} /\ \A p \in Files : B \cap Owned(p) = {}
    BY <1>5, <1>6
  <2> HIDE DEF A, B
  <2> QED  BY <1>1, <1>4, <2>1, <2>2, LostFrame
<1> QED  BY <1>3, <1>4, <1>6, <1>7, <1>8, <1>9

-----------------------------------------------------------------------------
(* The steps that link a cluster.                                          *)

LEMMA AppendParts ==
  ASSUME NEW s \in Seq(Clusters), NEW y \in Clusters
  PROVE  LET t == Append(s, y)
         IN  /\ t \in Seq(Clusters) /\ Len(t) = Len(s) + 1 /\ t # <<>>
             /\ t[Len(s) + 1] = y /\ \A i \in 1..Len(s) : t[i] = s[i]
             /\ Range(t) = Range(s) \cup {y} /\ SubSeq(t, 1, Len(t) - 1) = s
<1> DEFINE t == Append(s, y)
<1>1. Len(s) \in Nat /\ s = [i \in 1..Len(s) |-> s[i]]  OBVIOUS
<1>2. t \in Seq(Clusters) /\ Len(t) = Len(s) + 1 /\ t # <<>>
  <2>1. t \in Seq(Clusters) /\ Len(t) = Len(s) + 1  OBVIOUS
  <2> HIDE DEF t
  <2>2. Len(t) # 0  BY <1>1, <2>1
  <2> QED  BY <2>1, <2>2
<1>3. t[Len(s) + 1] = y /\ \A i \in 1..Len(s) : t[i] = s[i]  OBVIOUS
<1> HIDE DEF t
<1>4. DOMAIN t = 1 .. Len(s) + 1 /\ DOMAIN s = 1..Len(s)  BY <1>1, <1>2
<1>5. Range(t) = Range(s) \cup {y}
  <2>1. Range(t) = {t[i] : i \in 1 .. Len(s) + 1} /\ Range(s) = {s[i] : i \in 1..Len(s)}
    BY <1>4 DEF Range
  <2>2. \A i \in 1 .. Len(s) + 1 : i \in 1..Len(s) \/ i = Len(s) + 1  BY <1>1
  <2>3. Len(s) + 1 \in 1 .. Len(s) + 1 /\ \A i \in 1..Len(s) : i \in 1 .. Len(s) + 1
    BY <1>1
  <2>4. Range(t) \subseteq Range(s) \cup {y}  BY <1>3, <2>1, <2>2
  <2>5. Range(s) \cup {y} \subseteq Range(t)  BY <1>3, <2>1, <2>3
  <2> QED  BY <2>4, <2>5
<1>6. SubSeq(t, 1, Len(t) - 1) = s
  <2>1. Len(t) - 1 = Len(s)  BY <1>1, <1>2
  <2>2. SubSeq(t, 1, Len(t) - 1) = [i \in 1 .. Len(t) - 1 |-> t[i]]  BY <1>2, FrontOf
  <2> QED  BY <1>1, <1>3, <2>1, <2>2
<1> QED  BY <1>2, <1>3, <1>5, <1>6 DEF t

LEMMA KeepsLink ==
  ASSUME FatInv, LinkCluster
  PROVE  FatInv'
<1> USE DEF FatInv
<1>1. /\ pc = "link" /\ second = <<>> /\ SetFirstCopy(prev, new) /\ pc' = "data"
      /\ sector' = sector /\ op' = op /\ at' = at /\ first' = first /\ prev' = prev
      /\ new' = new /\ cur' = cur /\ count' = count /\ faults' = faults /\ files' = files
  BY DEF LinkCluster, Step, local
<1>2. /\ Loose = {new} /\ Loose' = {} /\ new \in Clusters /\ fat[1][new] = FAT_EOC
      /\ Anchor = first /\ Anchor' = first
  BY <1>1 DEF Loose, WorkInv, Anchor, Builds
<1>3. /\ Path(fat[1], first, Work) /\ Len(Work) = count /\ count \in Nat \ {0}
      /\ prev = Work[count] /\ count < op.size
  BY <1>1, <1>2 DEF WorkInv, FatType
<1>4. /\ Work \in Seq(Clusters) /\ Range(Work) \subseteq Clusters
      /\ Range(Work) = {Work[i] : i \in 1..Len(Work)}
      /\ \A y \in Range(Work) : fat[1][y] # FREE
  BY <1>3, PathParts
<1>5. first \in Clusters /\ prev \in Range(Work) /\ prev \in Clusters
  <2>1. prev \in Range(Work)  BY <1>3, <1>4
  <2>2. Work # <<>>  BY <1>3
  <2> QED  BY <1>3, <1>4, <2>1, <2>2, PathParts
<1>6. /\ fat' \in [1..2 -> [Clusters -> Links]] /\ second' \in Clusters \X Links
      /\ fat'[1] = [fat[1] EXCEPT ![prev] = new] /\ fat'[1] \in [Clusters -> Links]
      /\ fat[1] \in [Clusters -> Links]
  BY <1>1, <1>2, <1>5, SetFirst, Consts
<1>7. FatType'
  <2>1. op.name \in Names /\ op.value \in Values  BY <1>1 DEF FatType
  <2> QED  BY <1>1, <1>6, <2>1 DEF FatType, Builds
<1>8. new \notin Range(Work)  BY <1>2 DEF Apart
<1>9. Work' = Append(Work, new) /\ Path(fat'[1], Anchor', Work')
  <2> DEFINE f == fat[1]  g == fat'[1]  s == Work  c == first  y == new
  <2>1. /\ f \in [Clusters -> Links] /\ g \in [Clusters -> Links] /\ Path(f, c, s)
        /\ y \in Clusters \ Range(s) /\ f[y] = FAT_EOC /\ c \in Clusters
        /\ g[s[Len(s)]] = y /\ \A z \in Clusters : z # s[Len(s)] => g[z] = f[z]
    BY <1>2, <1>3, <1>5, <1>6, <1>8
  <2>2. Work' = ChainIn(g, c)  BY <1>2 DEF Work, Chain
  <2> HIDE DEF f, g, s, c, y
  <2>3. Path(g, c, Append(s, y)) /\ ChainIn(g, c) = Append(s, y)  BY <2>1, ChainLink
  <2> QED  BY <1>2, <2>2, <2>3 DEF g, s, c, y
<1>10. /\ Len(Work') = count + 1 /\ Range(Work') = Range(Work) \cup {new}
       /\ Work'[count + 1] = new /\ \A i \in 1..count : Work'[i] = Work[i]
  BY <1>2, <1>3, <1>4, <1>9, AppendParts
<1>11. /\ Dir' = Dir /\ Readable' = Readable /\ DirInv' /\ NamesInv' /\ SameEntries
       /\ Files' = Files \ Replaced' /\ FilesInv' /\ \A p \in Files' : Owned(p)' = Owned(p)
  <2> DEFINE X == {prev}
  <2>1. X \cap Range(Dir) = {} /\ \A p \in Files : X \cap Owned(p) = {}
    BY <1>5 DEF Apart
  <2>2. /\ \A y \in Clusters \ X : fat'[1][y] = fat[1][y]
        /\ \A y \in Data \ X : sector'[y] = sector[y]
    BY <1>1, <1>6
  <2>3. pc' \notin {"ext_zero", "ext_alloc", "ext_link"} /\ pc # "ext_zero"  BY <1>1
  <2>4. Replaced' = Replaced  BY <1>1 DEF Replaced
  <2> HIDE DEF X
  <2> QED  BY <1>1, <1>7, <2>1, <2>2, <2>3, <2>4, Quiet
<1>12. Files' = Files  BY <1>1, <1>11 DEF Files, Replaced
<1>13. SlotInv' /\ (pc \in Replaces => Entry(at)' = Entry(at))
  BY <1>1, <1>11, SlotFrame DEF Extends, Replaces
<1>14. WorkInv'
  <2>1. \A i \in 1..count' : Work'[i] \in Data /\ sector'[Work'[i]] = Block(op'.name, op'.value, i)
    BY <1>1, <1>10 DEF WorkInv, Builds
  <2> QED  BY <1>1, <1>2, <1>3, <1>9, <1>10, <2>1 DEF WorkInv, Builds, Frees
<1>15. Apart'
  <2>1. Range(Work') \cup Loose' = Range(Work) \cup Loose  BY <1>2, <1>10
  <2>2. \A p \in Files' : Owned(p) \cap (Range(Work') \cup Loose') = {}
    BY <1>12, <2>1 DEF Apart
  <2>3. Range(Dir) \cap (Range(Work') \cup Loose') = {} /\ Range(Work') \cap Loose' = {}
    BY <1>2, <2>1 DEF Apart
  <2> QED  BY <1>11, <1>12, <2>2, <2>3, ApartFrame
<1>16. FreeEntries' = FreeEntries /\ FreeData' = FreeData
  <2>1. \A y \in Clusters : fat'[1][y] = FREE <=> fat[1][y] = FREE
    BY <1>2, <1>4, <1>5, <1>6, Consts
  <2> QED  BY <2>1 DEF FreeEntries, FreeData
<1>17. SpaceInv'  BY <1>1, <1>13, <1>16 DEF SpaceInv, Replaces
<1>18. NothingLost'
  <2>1. faults' = 0 => fat'[1] = IF second' = <<>> THEN fat'[2]
                                  ELSE [fat'[2] EXCEPT ![second'[1]] = second'[2]]
    BY <1>1, <1>2, <1>5, Consts, Copies
  <2> QED  BY <1>1, <1>2, <1>10, <1>11, <1>12, <1>16, <2>1, LostStill
<1> QED  BY <1>7, <1>11, <1>13, <1>14, <1>15, <1>17, <1>18

LEMMA KeepsExtendLink ==
  ASSUME FatInv, ExtendLink
  PROVE  FatInv'
<1> USE DEF FatInv
<1> DEFINE e == Dir[Len(Dir)]
<1>1. /\ pc = "ext_link" /\ second = <<>> /\ SetFirstCopy(e, new) /\ pc' = "ext_zero"
      /\ sector' = sector /\ op' = op /\ at' = at /\ first' = first /\ prev' = prev
      /\ new' = new /\ cur' = cur /\ count' = count /\ faults' = faults /\ files' = files
  BY DEF ExtendLink, Step, local, Dir, Last
<1>2. /\ Loose = {new} /\ Loose' = {} /\ new \in Clusters /\ fat[1][new] = FAT_EOC
      /\ Anchor = FREE /\ Anchor' = FREE
  BY <1>1 DEF Loose, WorkInv, Anchor, Builds, Frees
<1>3. /\ Dir \in Seq(Clusters) /\ Len(Dir) \in Nat \ {0} /\ Range(Dir) \subseteq Clusters
      /\ Range(Dir) = {Dir[i] : i \in 1..Len(Dir)} /\ Range(Dir) \subseteq Data
  BY <1>1, DirFacts DEF DirInv
<1>4. e \in Range(Dir) /\ e \in Clusters /\ e \in Data /\ new \notin Range(Dir)
  <2>1. Len(Dir) \in 1..Len(Dir)  BY <1>3
  <2> QED  BY <1>2, <1>3, <2>1 DEF Apart
<1>5. Path(fat[1], root_cluster, Dir)  BY DEF DirInv
<1>6. \A y \in Range(Dir) : fat[1][y] # FREE  BY <1>5, PathParts
<1> HIDE DEF e
<1>7. /\ fat' \in [1..2 -> [Clusters -> Links]] /\ second' \in Clusters \X Links
      /\ fat'[1] = [fat[1] EXCEPT ![e] = new] /\ fat'[1] \in [Clusters -> Links]
      /\ fat[1] \in [Clusters -> Links]
  BY <1>1, <1>2, <1>4, SetFirst, Consts
<1>8. FatType'
  <2>1. op.name \in Names /\ op.value \in Values  BY <1>1 DEF FatType
  <2> QED  BY <1>1, <1>7, <2>1 DEF FatType, Extends
<1>9. Dir' = Append(Dir, new) /\ Path(fat'[1], root_cluster, Dir')
  <2> DEFINE f == fat[1]  g == fat'[1]  s == Dir  c == root_cluster  y == new
  <2>1. /\ f \in [Clusters -> Links] /\ g \in [Clusters -> Links] /\ Path(f, c, s)
        /\ y \in Clusters \ Range(s) /\ f[y] = FAT_EOC /\ c \in Clusters
        /\ g[s[Len(s)]] = y /\ \A z \in Clusters : z # s[Len(s)] => g[z] = f[z]
    BY <1>2, <1>4, <1>5, <1>7, Consts DEF e
  <2>2. Dir' = ChainIn(g, c)  BY DEF Dir, Chain
  <2> HIDE DEF f, g, s, c, y
  <2>3. Path(g, c, Append(s, y)) /\ ChainIn(g, c) = Append(s, y)  BY <2>1, ChainLink
  <2> QED  BY <2>2, <2>3 DEF g, s, c, y
<1>10. /\ Dir' \in Seq(Clusters) /\ Len(Dir') = Len(Dir) + 1 /\ Dir' # <<>>
       /\ Dir'[Len(Dir) + 1] = new /\ (\A i \in 1..Len(Dir) : Dir'[i] = Dir[i])
       /\ Range(Dir') = Range(Dir) \cup {new} /\ SubSeq(Dir', 1, Len(Dir') - 1) = Dir
  BY <1>2, <1>3, <1>9, AppendParts
<1>11. Readable = Dir /\ Readable' = Dir
  <2>1. Readable = Dir  BY <1>1, <1>4, DirFacts DEF e
  <2>2. Readable' = Legible(Dir', TRUE, new)  BY <1>1, ReadableThen
  <2>3. \A i \in 1 .. Len(Dir') - 1 : Dir'[i] \in Data /\ (TRUE => Dir'[i] # new)
    <3> SUFFICES ASSUME NEW i \in 1..Len(Dir) PROVE Dir'[i] \in Data /\ Dir'[i] # new
      BY <1>3, <1>10
    <3>1. Dir'[i] = Dir[i] /\ Dir[i] \in Range(Dir)  BY <1>3, <1>10
    <3> QED  BY <3>1, <1>3, <1>4
  <2>4. Legible(Dir', TRUE, new)
           = IF Dir'[Len(Dir')] \in Data /\ (TRUE => Dir'[Len(Dir')] # new) THEN Dir'
             ELSE SubSeq(Dir', 1, Len(Dir') - 1)
    <3> DEFINE d == Dir'  w == new
    <3>1. d \in Seq(Clusters) /\ d # <<>>  BY <1>10
    <3>2. \A i \in 1 .. Len(d) - 1 : d[i] \in Data /\ (TRUE => d[i] # w)  BY <2>3
    <3> HIDE DEF d, w
    <3>3. Legible(d, TRUE, w) = IF d[Len(d)] \in Data /\ (TRUE => d[Len(d)] # w) THEN d
                                ELSE SubSeq(d, 1, Len(d) - 1)
      BY <3>1, <3>2, LegibleIs
    <3> QED  BY <3>3 DEF d, w
  <2> QED  BY <2>1, <2>2, <2>4, <1>10
<1>12. NamesInv' /\ SameEntries  BY <1>1, <1>11, EntriesKept
<1>13. DirInv'
  <2>1. \A i \in 1 .. Len(Dir') - 1 : Dir'[i] \in Data
    <3> SUFFICES ASSUME NEW i \in 1..Len(Dir) PROVE Dir'[i] \in Data  BY <1>3, <1>10
    <3> QED  BY <1>3, <1>10
  <2>2. Dir'[Len(Dir')] = new' /\ Len(Dir') > 1  BY <1>1, <1>3, <1>10
  <2>3. \A x \in Range(Readable') : sector'[x] \in Dirs  BY <1>1, <1>11 DEF DirInv
  <2> QED  BY <1>1, <1>9, <2>1, <2>2, <2>3 DEF DirInv
<1>14. Files' = Files
  <2>1. Replaced' = {} /\ Replaced = {}  BY <1>1 DEF Replaced
  <2>2. {p \in Places' : Entry(p)'.name \in Names} = {p \in Places : Entry(p).name \in Names}
    BY <1>12 DEF SameEntries
  <2> QED  BY <2>1, <2>2 DEF Files
<1>15. FilesInv' /\ \A p \in Files' : Owned(p)' = Owned(p)
  <2>1. \A p \in Files' : \A x \in Owned(p) : fat'[1][x] = fat[1][x] /\ sector'[x] = sector[x]
    <3> SUFFICES ASSUME NEW p \in Files, NEW x \in Owned(p)
                 PROVE  fat'[1][x] = fat[1][x] /\ sector'[x] = sector[x]
      BY <1>14
    <3>1. x \in Clusters /\ x # e  BY <1>4, FileParts DEF Apart
    <3> QED  BY <3>1, <1>1, <1>7
  <2> QED  BY <1>1, <1>8, <1>12, <1>14, <2>1, FilesFrame
<1>16. SlotInv'  BY <1>1, <1>12, SlotFrame DEF Extends, Replaces
<1>17. /\ Work' = <<>> /\ Path(fat'[1], Anchor', Work') /\ Range(Work') = {}
       /\ Range(Work) = {}
  <2>1. pc' \notin Builds \cup Frees  BY <1>1 DEF Builds, Frees
  <2>2. Path(fat[1], FREE, Work)  BY <1>2 DEF WorkInv
  <2> QED  BY <1>8, <2>1, <2>2, NoWork, PathParts, Consts
<1>18. WorkInv'  BY <1>1, <1>2, <1>17 DEF WorkInv, Builds, Frees
<1>19. Apart'
  <2>1. \A p, q \in Files' : p # q => Owned(p)' \cap Owned(q)' = {}
    BY <1>14, <1>15 DEF Apart
  <2>2. \A p \in Files' : Owned(p)' \cap (Range(Dir') \cup Range(Work') \cup Loose') = {}
    BY <1>2, <1>10, <1>14, <1>15, <1>17 DEF Apart
  <2> QED  BY <1>2, <1>17, <2>1, <2>2 DEF Apart
<1>20. SpaceInv'  BY <1>1 DEF SpaceInv, Replaces
<1>21. NothingLost'
  <2>1. faults' = 0 => fat'[1] = IF second' = <<>> THEN fat'[2]
                                  ELSE [fat'[2] EXCEPT ![second'[1]] = second'[2]]
    BY <1>1, <1>2, <1>4, Consts, Copies
  <2>2. FreeEntries' = FreeEntries
    <3>1. \A y \in Clusters : fat'[1][y] = FREE <=> fat[1][y] = FREE
      BY <1>2, <1>4, <1>6, <1>7, Consts
    <3> QED  BY <3>1 DEF FreeEntries
  <2>3. {Owned(p)' : p \in Files'} = {Owned(p) : p \in Files}  BY <1>14, <1>15
  <2>4. Range(Dir') \cup Range(Work') \cup Loose' = Range(Dir) \cup Range(Work) \cup Loose
    BY <1>2, <1>10, <1>17
  <2> QED  BY <1>1, <2>1, <2>2, <2>3, <2>4 DEF NothingLost
<1> QED  BY <1>8, <1>12, <1>13, <1>15, <1>16, <1>18, <1>19, <1>20, <1>21

-----------------------------------------------------------------------------
(* The step that frees a cluster.                                          *)

LEMMA KeepsFree ==
  ASSUME FatInv, FreeCluster
  PROVE  FatInv'
<1> USE DEF FatInv
<1> DEFINE z == fat[1][cur]
<1>1. /\ pc \in Frees /\ second = <<>> /\ cur \in Clusters /\ SetFirstCopy(cur, FREE)
      /\ sector' = sector /\ faults' = faults /\ files' = files
  BY DEF FreeCluster, Frees
<1>2. FREE \in Links  BY Consts
<1>3. /\ fat' \in [1..2 -> [Clusters -> Links]] /\ second' \in Clusters \X Links
      /\ fat'[1] = [fat[1] EXCEPT ![cur] = FREE] /\ fat'[1] \in [Clusters -> Links]
      /\ fat[1] \in [Clusters -> Links] /\ z \in Links
  BY <1>1, <1>2, SetFirst
<1>4. /\ z \in Clusters \/ pc = "free_old"
         => /\ cur' = z /\ pc' = (IF z \in Clusters THEN pc ELSE AfterSlot(op.size))
            /\ op' = op /\ at' = at /\ first' = first /\ prev' = prev /\ new' = new
            /\ count' = count
      /\ ~(z \in Clusters \/ pc = "free_old") => Return
  BY DEF FreeCluster
<1>5. Anchor = cur /\ Loose = {} /\ Path(fat[1], cur, Work)
  BY <1>1 DEF Anchor, Builds, Frees, Loose, WorkInv
<1>6. /\ Path(fat'[1], z, Tail(Work)) /\ ChainIn(fat'[1], z) = Tail(Work)
      /\ Range(Work) = {cur} \cup Range(Tail(Work)) /\ cur \notin Range(Tail(Work))
      /\ Len(Tail(Work)) = Len(Work) - 1
  <2> DEFINE f == fat[1]  g == fat'[1]  s == Work  c == cur
  <2>1. /\ f \in [Clusters -> Links] /\ g \in [Clusters -> Links] /\ Path(f, c, s)
        /\ c \in Clusters /\ \A y \in Clusters : y # c => g[y] = f[y]
    BY <1>1, <1>3, <1>5
  <2> HIDE DEF f, g, s, c
  <2>2. /\ Path(g, f[c], Tail(s)) /\ ChainIn(g, f[c]) = Tail(s)
        /\ Range(s) = {c} \cup Range(Tail(s)) /\ c \notin Range(Tail(s))
        /\ Len(Tail(s)) = Len(s) - 1
    BY <2>1, ChainFree
  <2> QED  BY <2>2 DEF f, g, s, c
<1>7. z \notin Clusters => Tail(Work) = <<>> /\ Range(Tail(Work)) = {}  BY <1>6, PathParts
<1>8. Len(Work) \in Nat  BY <1>5, PathParts
<1> HIDE DEF z
<1>9. FatType'
  <2>1. CASE z \in Clusters \/ pc = "free_old"
    <3>1. pc' \in Builds \cup Frees  BY <1>1, <1>4, <2>1, AfterSlotType DEF Builds, Frees
    <3>2. pc' # "free_deleted" => pc # "free_deleted"  BY <1>4, <2>1
    <3>3. pc # "free_deleted" => op.name \in Names /\ op.value \in Values
      BY <1>1 DEF FatType, Frees
    <3>4. cur' = z /\ op' = op /\ first' = first /\ prev' = prev /\ new' = new /\ count' = count
      BY <1>4, <2>1
    <3> QED  BY <1>1, <1>3, <3>1, <3>2, <3>3, <3>4 DEF FatType
  <2>2. CASE ~(z \in Clusters \/ pc = "free_old")
    <3>1. Return  BY <1>4, <2>2
    <3>2. NoOp \in [name : Names \cup {"none"}, value : Values \cup {"none"}, size : 0..MaxSize]
      BY Bounds DEF NoOp
    <3>3. 0 \in Links /\ 0 \in 0..MaxSize  BY Consts, Bounds DEF FREE
    <3> QED  BY <1>1, <1>3, <3>1, <3>2, <3>3 DEF FatType, Return
  <2> QED  BY <2>1, <2>2
<1>10. /\ Dir' = Dir /\ Readable' = Readable /\ DirInv' /\ NamesInv' /\ SameEntries
       /\ Files' = Files \ Replaced' /\ FilesInv' /\ \A p \in Files' : Owned(p)' = Owned(p)
  <2> DEFINE X == {cur}
  <2>1. X \cap Range(Dir) = {} /\ \A p \in Files : X \cap Owned(p) = {}
    BY <1>6 DEF Apart
  <2>2. /\ \A y \in Clusters \ X : fat'[1][y] = fat[1][y]
        /\ \A y \in Data \ X : sector'[y] = sector[y]
    BY <1>1, <1>3
  <2>3. pc' \notin {"ext_zero", "ext_alloc", "ext_link"} /\ pc # "ext_zero"
    BY <1>1, <1>4, AfterSlotType DEF Frees, Return
  <2>4. \A p \in Places : Entry(p).name \in Names /\ p \in Replaced => p \in Replaced'
    <3> SUFFICES ASSUME NEW p \in Places, Entry(p).name \in Names, p \in Replaced
                 PROVE  p \in Replaced'
      OBVIOUS
    <3>1. pc \in {"free_old", "free_new"} /\ p = at  BY <1>1 DEF Replaced, Frees
    <3>2. CASE z \in Clusters \/ pc = "free_old"
      <4>1. at' = at /\ pc' \in {"free_old", "free_new", "entry", "alloc"}
        BY <1>4, <3>1, <3>2, AfterSlotType
      <4> QED  BY <3>1, <4>1 DEF Replaced
    <3>3. CASE pc = "free_new"
      <4>1. Entry(at).name \in {op.name, END, DELETED} /\ Entry(at).name # op.name
        BY <3>3 DEF SlotInv, Replaces
      <4> QED  BY <3>1, <4>1, NamesAssumption
    <3> QED  BY <3>1, <3>2, <3>3
  <2> HIDE DEF X
  <2> QED  BY <1>1, <1>9, <2>1, <2>2, <2>3, <2>4, Quiet
<1>11. FreeEntries' = FreeEntries \cup {cur}
       /\ FreeData' = FreeData \cup ({cur} \cap Data)
  <2>1. \A y \in Clusters : fat'[1][y] = FREE <=> fat[1][y] = FREE \/ y = cur  BY <1>1, <1>3
  <2> QED  BY <1>1, <2>1 DEF FreeEntries, FreeData
<1>12. Files' = Files /\ Work' = Tail(Work) /\ Loose' = {} /\ WorkInv' /\ SlotInv' /\ SpaceInv'
  <2>1. ASSUME pc = "free_old", Entry(at).name = op.name
        PROVE  op.size <= Cardinality(FreeData') + Len(Tail(Work))
    <3>1. op.size <= Cardinality(FreeData) + Len(Work)  BY <2>1 DEF SpaceInv, Replaces
    <3>2. cur \in Data  BY <1>6, <2>1 DEF WorkInv
    <3>3. cur \notin FreeData
      <4>1. cur \in Range(Work)  BY <1>6
      <4>2. fat[1][cur] # FREE  BY <1>5, <4>1, PathParts
      <4> QED  BY <4>2 DEF FreeData, FreeEntries
    <3>4. FreeData' = FreeData \cup {cur}  BY <1>11, <3>2
    <3>5. Cardinality(FreeData') = Cardinality(FreeData) + 1
      BY <3>3, <3>4, FreeDataCard, FS_AddElement
    <3>6. op.size \in Nat  BY Bounds DEF FatType
    <3> QED  BY <3>1, <3>5, <3>6, <1>6, <1>8, FreeDataCard
  <2>2. CASE z \in Clusters
    <3>1. pc' = pc /\ cur' = z /\ op' = op /\ at' = at /\ first' = first /\ count' = count
      BY <1>4, <2>2
    <3>2. Replaced' = Replaced /\ Loose' = {} /\ Anchor' = z
      BY <1>1, <3>1 DEF Replaced, Loose, Anchor, Builds, Frees
    <3>3. Files' = Files  BY <1>10, <3>2 DEF Files
    <3>4. Work' = Tail(Work) /\ Path(fat'[1], Anchor', Work')
      BY <1>6, <3>2 DEF Work, Chain
    <3>5. SlotInv' /\ (pc \in Replaces => Entry(at)' = Entry(at))
      BY <1>10, <3>1, SlotFrame DEF SlotInv
    <3>6. WorkInv'
      <4>1. pc = "free_old" => Range(Work') \subseteq Data  BY <1>6, <3>4 DEF WorkInv
      <4> QED  BY <1>1, <2>2, <3>1, <3>2, <3>4, <4>1 DEF WorkInv, Builds, Frees
    <3>7. SpaceInv'  BY <1>1, <2>1, <3>1, <3>4, <3>5 DEF SpaceInv, Frees
    <3> QED  BY <3>2, <3>3, <3>4, <3>5, <3>6, <3>7
  <2>3. CASE z \notin Clusters /\ pc = "free_old"
    <3>1. /\ pc' = AfterSlot(op'.size) /\ op' = op /\ at' = at /\ first' = first
          /\ count' = count /\ pc' \in {"entry", "alloc"}
      BY <1>4, <2>3, AfterSlotType
    <3>2. first' = 0 /\ count' = 0  BY <2>3, <3>1 DEF WorkInv, Builds
    <3>3. Replaced' = Replaced /\ Loose' = {}  BY <2>3, <3>1 DEF Replaced, Loose
    <3>4. Files' = Files  BY <1>10, <3>3 DEF Files
    <3>5. WorkInv' /\ Work' = <<>>  BY <1>9, <3>1, <3>2, <3>3, AfterSlotWork
    <3>6. SlotInv' /\ (pc \in Replaces => Entry(at)' = Entry(at))
      BY <1>10, <2>3, <3>1, SlotFrame DEF Extends, Replaces
    <3>7. SpaceInv'
      <4>1. Len(Tail(Work)) = 0
        <5>1. Tail(Work) = <<>> /\ Len(<<>>) = 0  BY <1>7, <2>3
        <5> QED  BY <5>1, Zenon
      <4>2. op.size \in Nat /\ Entry(at).name = op.name  BY <2>3, Bounds DEF FatType, SlotInv
      <4>3. op.size <= Cardinality(FreeData') + 0  BY <2>1, <2>3, <4>1, <4>2
      <4>4. Cardinality(FreeData') \in Nat
        <5>1. FreeData' \subseteq Clusters  BY DEF FreeData, FreeEntries
        <5>2. IsFiniteSet(FreeData')  BY <5>1, Consts, FS_Subset
        <5> QED  BY <5>2, FS_CardinalityType
      <4> QED  BY <3>1, <3>2, <4>2, <4>3, <4>4 DEF SpaceInv
    <3> QED  BY <1>7, <2>3, <3>3, <3>4, <3>5, <3>6, <3>7
  <2>4. CASE z \notin Clusters /\ pc # "free_old"
    <3>1. pc' = "idle" /\ first' = 0 /\ count' = 0  BY <1>4, <2>4 DEF Return
    <3>2. Replaced' = {} /\ Loose' = {}  BY <3>1 DEF Replaced, Loose
    <3>3. Files' = Files  BY <1>10, <3>2
    <3>4. pc' \notin Builds \cup Frees /\ pc' \notin Replaces \cup Extends
      BY <3>1 DEF Builds, Frees, Replaces, Extends
    <3>5. Work' = <<>> /\ Path(fat'[1], Anchor', Work')  BY <1>9, <3>4, NoWork
    <3>6. WorkInv'  BY <3>1, <3>2, <3>4, <3>5 DEF WorkInv, Builds
    <3>7. SlotInv' /\ SpaceInv'  BY <3>1, <3>4 DEF SlotInv, SpaceInv
    <3> QED  BY <1>7, <2>4, <3>2, <3>3, <3>5, <3>6, <3>7
  <2> QED  BY <2>2, <2>3, <2>4
<1>13. Apart'
  <2>1. \A p \in Files' : Owned(p) \cap (Range(Work') \cup Loose') = {}
    BY <1>6, <1>12 DEF Apart
  <2>2. Range(Dir) \cap (Range(Work') \cup Loose') = {} /\ Range(Work') \cap Loose' = {}
    BY <1>6, <1>12 DEF Apart
  <2> QED  BY <1>10, <1>12, <2>1, <2>2, ApartFrame
<1>14. NothingLost'
  <2> DEFINE A == {}  B == {cur}
  <2>1. A \subseteq Clusters /\ A \cap B = {} /\ FreeEntries' = (FreeEntries \ A) \cup B
    BY <1>11
  <2>2. /\ Range(Work') \cup Loose' = ((Range(Work) \cup Loose) \ B) \cup A
        /\ B \cap Range(Dir) = {} /\ \A p \in Files : B \cap Owned(p) = {}
    BY <1>5, <1>6, <1>12 DEF Apart
  <2>3. faults' = 0 => fat'[1] = IF second' = <<>> THEN fat'[2]
                                  ELSE [fat'[2] EXCEPT ![second'[1]] = second'[2]]
    BY <1>1, <1>2, Copies
  <2> HIDE DEF A, B
  <2> QED  BY <1>1, <1>10, <1>12, <2>1, <2>2, <2>3, LostFrame
<1> QED  BY <1>9, <1>10, <1>12, <1>13, <1>14

\* The same when the rest of the chain is forgotten.
LEMMA KeepsFreeCutShort ==
  ASSUME FatInv, Room, FreeCutShort
  PROVE  FatInv'
<1> USE DEF FatInv
<1>1. /\ pc \in Frees /\ second = <<>> /\ SetFirstCopy(cur, FREE) /\ faults' = faults + 1
      /\ sector' = sector /\ files' = files
      /\ pc = "free_old" => op.size <= Cardinality(FreeData \cup {cur})
  BY DEF FreeCutShort, Frees
<1>2. FREE \in Links /\ FAT_EOC \in Links /\ cur \in Clusters  BY <1>1, Consts DEF WorkInv
<1>3. /\ fat' \in [1..2 -> [Clusters -> Links]] /\ second' \in Clusters \X Links
      /\ fat'[1] = [fat[1] EXCEPT ![cur] = FREE] /\ fat'[1] \in [Clusters -> Links]
      /\ fat[1] \in [Clusters -> Links]
  BY <1>1, <1>2, SetFirst
<1>4. /\ pc = "free_old" =>
            /\ cur' = FAT_EOC /\ pc' = AfterSlot(op.size)
            /\ op' = op /\ at' = at /\ first' = first /\ prev' = prev /\ new' = new
            /\ count' = count
      /\ pc # "free_old" => Return
  BY DEF FreeCutShort
<1>5. cur \in Range(Work) /\ Path(fat[1], cur, Work)
  <2>1. Path(fat[1], cur, Work)  BY <1>1 DEF Anchor, Builds, Frees, WorkInv
  <2> QED  BY <1>2, <2>1, PathParts
<1>6. faults' \in Nat /\ faults' # 0  BY <1>1 DEF FatType
<1>7. FatType'
  <2>1. CASE pc = "free_old"
    <3>1. pc' \in Builds  BY <1>4, <2>1, AfterSlotType DEF Builds
    <3>2. op.name \in Names /\ op.value \in Values  BY <2>1 DEF FatType
    <3> QED  BY <1>1, <1>2, <1>3, <1>4, <1>6, <2>1, <3>1, <3>2 DEF FatType
  <2>2. CASE pc # "free_old"
    <3>1. Return  BY <1>4, <2>2
    <3>2. NoOp \in [name : Names \cup {"none"}, value : Values \cup {"none"}, size : 0..MaxSize]
      BY Bounds DEF NoOp
    <3>3. 0 \in Links /\ 0 \in 0..MaxSize  BY Consts, Bounds DEF FREE
    <3> QED  BY <1>1, <1>3, <1>6, <3>1, <3>2, <3>3 DEF FatType, Return
  <2> QED  BY <2>1, <2>2
<1>8. /\ Dir' = Dir /\ Readable' = Readable /\ DirInv' /\ NamesInv' /\ SameEntries
      /\ Files' = Files \ Replaced' /\ FilesInv' /\ \A p \in Files' : Owned(p)' = Owned(p)
  <2> DEFINE X == {cur}
  <2>1. X \cap Range(Dir) = {} /\ \A p \in Files : X \cap Owned(p) = {}
    BY <1>5 DEF Apart
  <2>2. /\ \A y \in Clusters \ X : fat'[1][y] = fat[1][y]
        /\ \A y \in Data \ X : sector'[y] = sector[y]
    BY <1>1, <1>3
  <2>3. pc' \notin {"ext_zero", "ext_alloc", "ext_link"} /\ pc # "ext_zero"
    BY <1>1, <1>4, AfterSlotType DEF Frees, Return
  <2>4. \A p \in Places : Entry(p).name \in Names /\ p \in Replaced => p \in Replaced'
    <3> SUFFICES ASSUME NEW p \in Places, Entry(p).name \in Names, p \in Replaced
                 PROVE  p \in Replaced'
      OBVIOUS
    <3>1. pc \in {"free_old", "free_new"} /\ p = at  BY <1>1 DEF Replaced, Frees
    <3>2. CASE pc = "free_old"
      <4>1. at' = at /\ pc' \in {"entry", "alloc"}  BY <1>4, <3>2, AfterSlotType
      <4> QED  BY <3>1, <4>1 DEF Replaced
    <3>3. CASE pc = "free_new"
      <4>1. Entry(at).name \in {op.name, END, DELETED} /\ Entry(at).name # op.name
        BY <3>3 DEF SlotInv, Replaces
      <4> QED  BY <3>1, <4>1, NamesAssumption
    <3> QED  BY <3>1, <3>2, <3>3
  <2> HIDE DEF X
  <2> QED  BY <1>1, <1>7, <2>1, <2>2, <2>3, <2>4, Quiet
<1>9. Files' = Files /\ Range(Work') = {} /\ Loose' = {} /\ WorkInv' /\ SlotInv' /\ SpaceInv'
  <2>1. CASE pc = "free_old"
    <3>1. /\ pc' = AfterSlot(op'.size) /\ op' = op /\ at' = at /\ first' = first
          /\ count' = count /\ pc' \in {"entry", "alloc"}
      BY <1>4, <2>1, AfterSlotType
    <3>2. first' = 0 /\ count' = 0  BY <2>1, <3>1 DEF WorkInv, Builds
    <3>3. Replaced' = Replaced /\ Loose' = {}  BY <2>1, <3>1 DEF Replaced, Loose
    <3>4. Files' = Files  BY <1>8, <3>3 DEF Files
    <3>5. WorkInv' /\ Range(Work') = {}  BY <1>7, <3>1, <3>2, <3>3, AfterSlotWork
    <3>6. SlotInv' /\ (pc \in Replaces => Entry(at)' = Entry(at))
      BY <1>8, <2>1, <3>1, SlotFrame DEF Extends, Replaces
    <3>7. SpaceInv'
      <4>1. cur \in Data  BY <1>5, <2>1 DEF WorkInv
      <4>2. FreeData' = FreeData \cup {cur}
        <5>1. \A y \in Clusters : fat'[1][y] = FREE <=> fat[1][y] = FREE \/ y = cur
          BY <1>2, <1>3
        <5> QED  BY <1>2, <4>1, <5>1 DEF FreeEntries, FreeData
      <4>3. op.size \in Nat  BY Bounds DEF FatType
      <4>4. op.size <= Cardinality(FreeData')  BY <1>1, <2>1, <4>2
      <4> QED  BY <3>1, <3>2, <4>3, <4>4 DEF SpaceInv
    <3> QED  BY <3>3, <3>4, <3>5, <3>6, <3>7
  <2>2. CASE pc # "free_old"
    <3>1. pc' = "idle" /\ first' = 0 /\ count' = 0  BY <1>4, <2>2 DEF Return
    <3>2. Replaced' = {} /\ Loose' = {}  BY <3>1 DEF Replaced, Loose
    <3>3. Files' = Files
      <4>1. \A p \in Files : p \notin Replaced'  BY <3>2
      <4> QED  BY <1>8, <4>1
    <3>4. pc' \notin Builds \cup Frees /\ pc' \notin Replaces \cup Extends
      BY <3>1 DEF Builds, Frees, Replaces, Extends
    <3>5. Work' = <<>> /\ Path(fat'[1], Anchor', Work') /\ Range(Work') = {}
      BY <1>7, <3>4, NoWork
    <3>6. WorkInv'  BY <3>1, <3>2, <3>4, <3>5 DEF WorkInv, Builds
    <3>7. SlotInv' /\ SpaceInv'  BY <3>1, <3>4 DEF SlotInv, SpaceInv
    <3> QED  BY <3>2, <3>3, <3>5, <3>6, <3>7
  <2> QED  BY <2>1, <2>2
<1>10. Apart'
  <2>1. \A p \in Files' : Owned(p) \cap (Range(Work') \cup Loose') = {}  BY <1>9
  <2>2. Range(Dir) \cap (Range(Work') \cup Loose') = {} /\ Range(Work') \cap Loose' = {}
    BY <1>9
  <2> QED  BY <1>8, <1>9, <2>1, <2>2, ApartFrame
<1>11. NothingLost'  BY <1>6 DEF NothingLost
<1> QED  BY <1>7, <1>8, <1>9, <1>10, <1>11

-----------------------------------------------------------------------------
(* The steps that change the directory.                                    *)

\* One slot of the directory is written.
LEMMA EntrySet ==
  ASSUME FatType, DirInv, NEW p \in Places, NEW e \in Slots, fat' = fat,
         sector' = [sector EXCEPT ![p[1]].slots[p[2]] = e],
         pc # "ext_zero", pc' \notin Extends
  PROVE  /\ sector' \in [Data -> Dirs \cup Blocks]
         /\ Dir' = Dir /\ Readable' = Readable /\ DirInv'
         /\ Places' = Places /\ DirectorySlots' = DirectorySlots /\ Entry(p)' = e
         /\ \A q \in Places : q # p => Entry(q)' = Entry(q)
         /\ \A x \in Data \ Range(Dir) : sector'[x] = sector[x]
<1>1. /\ p = <<p[1], p[2]>> /\ p[1] \in Range(Readable) /\ p[1] \in Data
      /\ p[2] \in 1..SlotsPerCluster /\ sector[p[1]] \in Dirs
  BY EntryType DEF DirInv
<1> DEFINE a == p[1]  b == p[2]  d == [sector[a] EXCEPT !.slots[b] = e]
<1>2. sector' = [sector EXCEPT ![a] = d] /\ sector \in [Data -> Dirs \cup Blocks]
  BY DEF FatType
<1>3. d \in Dirs /\ d.slots = [sector[a].slots EXCEPT ![b] = e]
      /\ sector[a].slots \in [1..SlotsPerCluster -> Slots]
  BY <1>1 DEF Dirs
<1>4. d.slots[b] = e /\ \A j \in 1..SlotsPerCluster : j # b => d.slots[j] = sector[a].slots[j]
  BY <1>1, <1>3
<1> HIDE DEF d
<1>5. /\ sector' \in [Data -> Dirs \cup Blocks] /\ sector'[a] = d
      /\ \A x \in Data : x # a => sector'[x] = sector[x]
  BY <1>1, <1>2, <1>3
<1>6. Dir' = Dir  BY DEF Dir, Chain
<1>7. Readable' = Readable
  <2>1. pc' # "ext_zero"  BY DEF Extends
  <2>2. Readable' = IF Dir[Len(Dir)] \in Data THEN Dir ELSE SubSeq(Dir, 1, Len(Dir) - 1)
    BY <1>6, <2>1, ReadableCleared
  <2>3. Readable = IF pc # "ext_zero" /\ Dir[Len(Dir)] \in Data THEN Dir
                   ELSE SubSeq(Dir, 1, Len(Dir) - 1)
    BY DirFacts
  <2> QED  BY <2>2, <2>3
<1>8. Places' = Places /\ DirectorySlots' = DirectorySlots
  BY <1>7 DEF Places, DirectorySlots
<1>9. Range(Readable) \subseteq Data /\ Range(Readable) \subseteq Range(Dir)  BY DirFacts
<1>10. DirInv'
  <2>1. \A x \in Range(Readable') : sector'[x] \in Dirs
    BY <1>3, <1>5, <1>7, <1>9 DEF DirInv
  <2> QED  BY <1>6, <2>1 DEF DirInv, Extends
<1>11. Entry(p)' = e  BY <1>4, <1>5 DEF Entry
<1>12. ASSUME NEW q \in Places, q # p PROVE Entry(q)' = Entry(q)
  <2>1. q = <<q[1], q[2]>> /\ q[1] \in Data /\ q[2] \in 1..SlotsPerCluster  BY EntryType
  <2>2. q[1] # p[1] \/ q[2] # p[2]  BY <1>1, <1>12, <2>1
  <2> QED  BY <1>4, <1>5, <2>1, <2>2 DEF Entry
<1>13. \A x \in Data \ Range(Dir) : sector'[x] = sector[x]  BY <1>1, <1>5, <1>9
<1> QED  BY <1>5, <1>6, <1>7, <1>8, <1>10, <1>11, <1>12, <1>13

LEMMA KeepsEntry ==
  ASSUME FatInv, write_dir_entry
  PROVE  FatInv'
<1> USE DEF FatInv
<1> DEFINE e == Slot(op.name, first, op.size)
           F == [i \in 1..op.size |-> Block(op.name, op.value, i)]
<1>1. PICK p : p = at  OBVIOUS
<1>2. /\ pc = "entry" /\ second = <<>> /\ Return /\ fat' = fat /\ second' = second
      /\ faults' = faults /\ sector' = [sector EXCEPT ![p[1]].slots[p[2]] = e]
      /\ files' = [files EXCEPT ![op.name] = F]
  BY <1>1 DEF write_dir_entry, Step
<1>3. pc' = "idle" /\ first' = 0 /\ count' = 0  BY <1>2 DEF Return
<1>4. /\ op.name \in Names /\ op.value \in Values /\ op.size \in 0..MaxSize
      /\ first \in Links /\ files \in [Names -> Seq(Blocks)]
  BY <1>2, Consts DEF FatType, FREE
<1>5. e \in Slots /\ e.name = op.name /\ e.first = first /\ e.size = op.size
  BY <1>4 DEF Slot, Slots
<1>6. F \in Seq(Blocks)
  <2>1. op.size \in Nat  BY <1>4, Bounds
  <2>2. \A i \in 1..op.size : Block(op.name, op.value, i) \in Blocks
    BY <1>4, <2>1 DEF Block, Blocks
  <2> QED  BY <2>1, <2>2
<1>7. /\ p \in Places /\ Entry(p).name \in {op.name, END, DELETED}
      /\ \A q \in Places : q # p => Entry(q).name # op.name
      /\ Entry(p).name # op.name =>
            \A i, k \in DOMAIN DirectorySlots :
               DirectorySlots[k] = p /\ Before(i, k) => Entry(DirectorySlots[i]).name # END
  BY <1>1, <1>2 DEF SlotInv, Replaces
<1> HIDE DEF e, F
<1>8. /\ sector' \in [Data -> Dirs \cup Blocks]
      /\ Dir' = Dir /\ Readable' = Readable /\ DirInv'
      /\ Places' = Places /\ DirectorySlots' = DirectorySlots /\ Entry(p)' = e
      /\ (\A q \in Places : q # p => Entry(q)' = Entry(q))
      /\ (\A x \in Data \ Range(Dir) : sector'[x] = sector[x])
  BY <1>2, <1>3, <1>5, <1>7, EntrySet DEF Extends
<1>9. FatType'
  <2>1. NoOp \in [name : Names \cup {"none"}, value : Values \cup {"none"}, size : 0..MaxSize]
    BY Bounds DEF NoOp
  <2>2. 0 \in Links /\ 0 \in 0..MaxSize  BY Consts, Bounds DEF FREE
  <2>3. files' \in [Names -> Seq(Blocks)]  BY <1>2, <1>4, <1>6
  <2> QED  BY <1>2, <1>8, <2>1, <2>2, <2>3 DEF FatType, Return
<1>10. op.name \notin {END, DELETED} /\ \A n \in Names : n \notin {END, DELETED}
  BY <1>4, NamesAssumption
<1>11. NamesInv'
  <2>1. ASSUME NEW i \in DOMAIN DirectorySlots, NEW k \in DOMAIN DirectorySlots, Before(i, k),
               Entry(DirectorySlots[i])'.name = END
        PROVE  Entry(DirectorySlots[k])'.name = END
    <3> DEFINE a == DirectorySlots[i]  b == DirectorySlots[k]
    <3>1. a \in Places /\ b \in Places  BY SlotFacts
    <3>2. Entry(DirectorySlots[i])' = sector'[a[1]].slots[a[2]]
          /\ Entry(DirectorySlots[k])' = sector'[b[1]].slots[b[2]]
      BY <1>8 DEF Entry
    <3>3. \A q \in Places : q # p => sector'[q[1]].slots[q[2]] = Entry(q)
      BY <1>8 DEF Entry
    <3>4. sector'[p[1]].slots[p[2]] = e  BY <1>8 DEF Entry
    <3>5. a # p /\ Entry(a).name = END  BY <1>5, <1>10, <2>1, <3>1, <3>2, <3>3, <3>4
    <3>6. Entry(b).name = END  BY <2>1, <3>5 DEF NamesInv
    <3>7. b # p
      <4>1. SUFFICES ASSUME b = p PROVE FALSE  OBVIOUS
      <4>2. Entry(p).name # op.name  BY <3>6, <4>1, <1>10
      <4> QED  BY <1>7, <2>1, <3>5, <4>1, <4>2
    <3> QED  BY <3>1, <3>2, <3>3, <3>6, <3>7
  <2>2. ASSUME NEW q \in Places, NEW r \in Places, Entry(q)'.name \in Names,
               Entry(q)'.name = Entry(r)'.name
        PROVE  q = r
    <3>1. CASE q = p \/ r = p  BY <3>1, <1>5, <1>7, <1>8, <2>2
    <3>2. CASE q # p /\ r # p  BY <3>2, <1>8, <2>2 DEF NamesInv
    <3> QED  BY <3>1, <3>2
  <2> QED  BY <1>8, <2>1, <2>2 DEF NamesInv
<1>12. Replaced = {p} /\ Replaced' = {} /\ Loose = {} /\ Loose' = {} /\ Anchor = first
  BY <1>1, <1>2, <1>3 DEF Replaced, Loose, Anchor, Builds
<1>13. Files' = Files \cup {p} /\ p \notin Files
  <2>1. Files' = {q \in Places : Entry(q)'.name \in Names}  BY <1>8, <1>12 DEF Files
  <2>2. Files = {q \in Places : Entry(q).name \in Names} \ {p}  BY <1>12 DEF Files
  <2>3. Entry(p)'.name \in Names  BY <1>4, <1>5, <1>8
  <2> QED  BY <1>7, <1>8, <2>1, <2>2, <2>3
<1>14. /\ Path(fat[1], first, Work) /\ Work = ChainIn(fat[1], first) /\ Len(Work) = op.size
       /\ \A i \in 1..Len(Work) :
             Work[i] \in Data /\ sector[Work[i]] = Block(op.name, op.value, i)
  <2>1. /\ Path(fat[1], Anchor, Work) /\ Len(Work) = count /\ count = op.size
        /\ \A i \in 1..count :
              Work[i] \in Data /\ sector[Work[i]] = Block(op.name, op.value, i)
    BY <1>2 DEF WorkInv, Builds
  <2> QED  BY <1>12, <2>1 DEF Work, Chain
<1>15. Range(Work) = {Work[i] : i \in 1..Len(Work)} /\ Range(Work) \subseteq Data
       /\ Range(Work) \cap Range(Dir) = {}
  <2>1. Range(Work) = {Work[i] : i \in 1..Len(Work)}  BY <1>14, PathParts
  <2> QED  BY <1>14, <2>1 DEF Apart
<1>16. FileOK(p)' /\ Owned(p)' = Range(Work)
  <2>1. Chain(Entry(p).first)' = Work  BY <1>2, <1>5, <1>8, <1>14 DEF Chain
  <2>2. Path(fat'[1], Entry(p)'.first, Work)  BY <1>2, <1>5, <1>8, <1>14
  <2>3. \A i \in 1..Len(Work) : sector'[Work[i]] = Block(op.name, op.value, i)
    BY <1>8, <1>14, <1>15
  <2>4. files'[Entry(p)'.name] = [i \in 1..Len(Work) |-> sector'[Work[i]]]
    <3>1. files'[op.name] = F  BY <1>2, <1>4
    <3>2. F = [i \in 1..Len(Work) |-> sector'[Work[i]]]  BY <2>3, <1>14 DEF F
    <3> QED  BY <1>5, <1>8, <3>1, <3>2
  <2>5. Len(Work) = Entry(p)'.size  BY <1>5, <1>8, <1>14
  <2> QED  BY <2>1, <2>2, <2>4, <2>5, <1>15 DEF FileOK, Owned
<1>17. ASSUME NEW q \in Files PROVE FileOK(q)' /\ Owned(q)' = Owned(q)
  <2>1. q \in Places /\ q # p /\ Entry(q).name \in Names /\ Owned(q) \subseteq Data
    BY <1>13, FileParts
  <2>2. Entry(q)' = Entry(q) /\ Entry(q).name # op.name  BY <1>7, <1>8, <2>1
  <2>3. files'[Entry(q).name] = files[Entry(q).name]  BY <1>2, <1>4, <2>1, <2>2
  <2>4. \A x \in Owned(q) : fat'[1][x] = fat[1][x] /\ sector'[x] = sector[x]
    BY <1>2, <1>8, <2>1 DEF Apart
  <2> QED  BY <1>9, <2>2, <2>3, <2>4, FileKept
<1>18. FilesInv'
  <2>1. \A q \in Files' : FileOK(q)'  BY <1>13, <1>16, <1>17
  <2>2. ASSUME NEW n \in Names, \A q \in Places : Entry(q)'.name # n PROVE files'[n] = <<>>
    <3>1. n # op.name  BY <1>5, <1>7, <1>8, <2>2
    <3>2. \A q \in Places : Entry(q).name # n  BY <1>7, <1>8, <1>10, <2>2, <3>1
    <3> QED  BY <1>2, <1>4, <3>1, <3>2 DEF FilesInv
  <2> QED  BY <1>8, <2>1, <2>2 DEF FilesInv
<1>19. pc' \notin Builds \cup Frees /\ pc' \notin Replaces \cup Extends
  BY <1>3 DEF Builds, Frees, Replaces, Extends
<1>20. Work' = <<>> /\ Path(fat'[1], Anchor', Work') /\ Range(Work') = {}
  BY <1>9, <1>19, NoWork
<1>21. WorkInv'  BY <1>3, <1>12, <1>19, <1>20 DEF WorkInv, Builds
<1>22. SlotInv' /\ SpaceInv'  BY <1>3, <1>19 DEF SlotInv, SpaceInv
<1>23. Apart'
  <2>1. \A q, r \in Files' : q # r => Owned(q)' \cap Owned(r)' = {}
    BY <1>13, <1>16, <1>17 DEF Apart
  <2>2. \A q \in Files' : Owned(q)' \cap (Range(Dir') \cup Range(Work') \cup Loose') = {}
    BY <1>8, <1>12, <1>13, <1>15, <1>16, <1>17, <1>20 DEF Apart
  <2> QED  BY <1>12, <1>20, <2>1, <2>2 DEF Apart
<1>24. NothingLost'
  <2> DEFINE U == UNION {Owned(q) : q \in Files}
             V == UNION {Owned(q)' : q \in Files'}
  <2>1. V = U \cup Range(Work)
    <3>1. {Owned(q)' : q \in Files'} = {Owned(q) : q \in Files} \cup {Range(Work)}
      BY <1>13, <1>16, <1>17
    <3> QED  BY <3>1
  <2>2. faults = 0 => Clusters \ FreeEntries = Range(Dir) \cup Range(Work) \cup Loose \cup U
    BY DEF NothingLost
  <2>3. FreeEntries' = FreeEntries  BY <1>2, FatKept
  <2>4. faults' = 0 => fat'[1] = IF second' = <<>> THEN fat'[2]
                                  ELSE [fat'[2] EXCEPT ![second'[1]] = second'[2]]
    BY <1>2 DEF NothingLost
  <2>5. faults' = 0 => Clusters \ FreeEntries' = Range(Dir') \cup Range(Work') \cup Loose' \cup V
    <3> HIDE DEF U, V
    <3> QED  BY <1>2, <1>8, <1>12, <1>20, <2>1, <2>2, <2>3
  <2> QED  BY <2>4, <2>5 DEF NothingLost
<1> QED  BY <1>8, <1>9, <1>11, <1>18, <1>21, <1>22, <1>23, <1>24

LEMMA KeepsDelete ==
  ASSUME FatInv, NEW n \in Names, Delete(n)
  PROVE  FatInv'
<1> USE DEF FatInv
<1> DEFINE e == Slot(DELETED, 0, 0)
<1>1. PICK p \in find_entry(n) :
         /\ sector' = [sector EXCEPT ![p[1]].slots[p[2]] = e]
         /\ IF Entry(p).first >= 2
            THEN /\ cur' = Entry(p).first /\ pc' = "free_deleted"
                 /\ UNCHANGED <<op, at, first, prev, new, count>>
            ELSE Return
  BY DEF Delete
<1> DEFINE c == Entry(p).first
<1>2. /\ pc = "idle" /\ second = <<>> /\ fat' = fat /\ second' = second
      /\ faults' = faults /\ files' = [files EXCEPT ![n] = <<>>]
  BY DEF Delete, Idle
<1>3. p \in Places /\ Entry(p).name = n  BY <1>1, FindIs
<1>4. Work = <<>> /\ Range(Work) = {} /\ Loose = {} /\ Replaced = {} /\ first = 0 /\ count = 0
  BY <1>2, IdleFacts
<1>5. p \in Files  BY <1>3, <1>4 DEF Files
<1>6. /\ c \in Links /\ Path(fat[1], c, ChainIn(fat[1], c)) /\ Owned(p) = Range(ChainIn(fat[1], c))
      /\ Owned(p) \subseteq Data /\ (c >= 2 <=> c \in Clusters)
  BY <1>5, FileParts, LinkKinds
<1>7. e \in Slots /\ e.name = DELETED  BY Consts, Bounds DEF Slot, Slots, FREE
<1>8. /\ c \in Clusters => cur' = c /\ pc' = "free_deleted" /\ op' = op /\ first' = first
                           /\ prev' = prev /\ new' = new /\ count' = count
      /\ c \notin Clusters => Return
  BY <1>1, <1>6
<1>9. pc' \in {"idle", "free_deleted"} /\ first' = 0 /\ count' = 0
  BY <1>4, <1>8 DEF Return
<1> HIDE DEF e, c
<1>10. /\ sector' \in [Data -> Dirs \cup Blocks]
       /\ Dir' = Dir /\ Readable' = Readable /\ DirInv'
       /\ Places' = Places /\ DirectorySlots' = DirectorySlots /\ Entry(p)' = e
       /\ (\A q \in Places : q # p => Entry(q)' = Entry(q))
       /\ (\A x \in Data \ Range(Dir) : sector'[x] = sector[x])
  BY <1>1, <1>2, <1>3, <1>7, <1>9, EntrySet DEF Extends
<1>11. FatType'
  <2>1. NoOp \in [name : Names \cup {"none"}, value : Values \cup {"none"}, size : 0..MaxSize]
    BY Bounds DEF NoOp
  <2>2. 0 \in Links /\ 0 \in 0..MaxSize  BY Consts, Bounds DEF FREE
  <2>3. files' \in [Names -> Seq(Blocks)]
    <3>1. files \in [Names -> Seq(Blocks)] /\ <<>> \in Seq(Blocks)  BY DEF FatType
    <3> QED  BY <1>2, <3>1
  <2>4. CASE c \in Clusters
    <3>1. cur' \in Links /\ pc' = "free_deleted"  BY <1>6, <1>8, <2>4
    <3> QED  BY <1>2, <1>8, <1>10, <2>3, <2>4, <3>1 DEF FatType, Frees
  <2>5. CASE c \notin Clusters
    BY <1>2, <1>8, <1>10, <2>1, <2>2, <2>3, <2>5 DEF FatType, Return
  <2> QED  BY <2>4, <2>5
<1>12. DELETED # END /\ DELETED \notin Names /\ END \notin Names
  BY NamesAssumption DEF DELETED, END
<1>13. NamesInv'
  <2>1. ASSUME NEW i \in DOMAIN DirectorySlots, NEW k \in DOMAIN DirectorySlots, Before(i, k),
               Entry(DirectorySlots[i])'.name = END
        PROVE  Entry(DirectorySlots[k])'.name = END
    <3> DEFINE a == DirectorySlots[i]  b == DirectorySlots[k]
    <3>1. a \in Places /\ b \in Places  BY SlotFacts
    <3>2. Entry(DirectorySlots[i])' = sector'[a[1]].slots[a[2]]
          /\ Entry(DirectorySlots[k])' = sector'[b[1]].slots[b[2]]
      BY <1>10 DEF Entry
    <3>3. \A q \in Places : q # p => sector'[q[1]].slots[q[2]] = Entry(q)
      BY <1>10 DEF Entry
    <3>4. sector'[p[1]].slots[p[2]] = e  BY <1>10 DEF Entry
    <3>5. a # p /\ Entry(a).name = END  BY <1>7, <1>12, <2>1, <3>1, <3>2, <3>3, <3>4
    <3>6. Entry(b).name = END  BY <2>1, <3>5 DEF NamesInv
    <3>7. b # p  BY <1>3, <1>12, <3>6
    <3> QED  BY <3>1, <3>2, <3>3, <3>6, <3>7
  <2>2. ASSUME NEW q \in Places, NEW r \in Places, Entry(q)'.name \in Names,
               Entry(q)'.name = Entry(r)'.name
        PROVE  q = r
    <3>1. q # p /\ r # p  BY <1>7, <1>10, <1>12, <2>2
    <3> QED  BY <3>1, <1>10, <2>2 DEF NamesInv
  <2> QED  BY <1>10, <2>1, <2>2 DEF NamesInv
<1>14. Replaced' = {} /\ Loose' = {}  BY <1>9 DEF Replaced, Loose
<1>15. Files' = Files \ {p}
  <2>1. Files' = {q \in Places : Entry(q)'.name \in Names}  BY <1>10, <1>14 DEF Files
  <2>2. Files = {q \in Places : Entry(q).name \in Names}  BY <1>4 DEF Files
  <2>3. Entry(p)'.name \notin Names  BY <1>7, <1>10, <1>12
  <2> QED  BY <1>10, <2>1, <2>2, <2>3
<1>16. ASSUME NEW q \in Files \ {p} PROVE FileOK(q)' /\ Owned(q)' = Owned(q)
  <2>1. q \in Places /\ q # p /\ Entry(q).name \in Names /\ Owned(q) \subseteq Data
    BY FileParts
  <2>2. Entry(q)' = Entry(q) /\ Entry(q).name # n  BY <1>3, <1>10, <2>1 DEF NamesInv
  <2>3. files'[Entry(q).name] = files[Entry(q).name]
    <3>1. files \in [Names -> Seq(Blocks)]  BY DEF FatType
    <3> QED  BY <1>2, <2>1, <2>2, <3>1
  <2>4. \A x \in Owned(q) : fat'[1][x] = fat[1][x] /\ sector'[x] = sector[x]
    BY <1>2, <1>10, <2>1 DEF Apart
  <2> QED  BY <1>11, <2>2, <2>3, <2>4, FileKept
<1>17. FilesInv'
  <2>1. \A q \in Files' : FileOK(q)'  BY <1>15, <1>16
  <2>2. ASSUME NEW m \in Names, \A q \in Places : Entry(q)'.name # m PROVE files'[m] = <<>>
    <3>1. files \in [Names -> Seq(Blocks)]  BY DEF FatType
    <3>2. CASE m = n  BY <1>2, <3>1, <3>2
    <3>3. CASE m # n
      <4>1. \A q \in Places : Entry(q).name # m  BY <1>3, <1>10, <2>2, <3>3
      <4> QED  BY <1>2, <3>1, <3>3, <4>1 DEF FilesInv
    <3> QED  BY <3>2, <3>3
  <2> QED  BY <1>10, <2>1, <2>2 DEF FilesInv
<1>18. pc' \notin Builds \cup {"free_new"} /\ pc' \notin Replaces \cup Extends
  BY <1>9 DEF Builds, Replaces, Extends
<1>19. WorkInv' /\ Range(Work') = Owned(p)
  <2>1. CASE c \in Clusters
    <3>1. pc' = "free_deleted" /\ Anchor' = c
      BY <1>8, <2>1 DEF Anchor, Builds, Frees
    <3>2. Work' = ChainIn(fat[1], c)  BY <3>1, <1>2 DEF Work, Chain
    <3>3. Path(fat'[1], Anchor', Work')  BY <1>2, <1>6, <3>1, <3>2
    <3> QED  BY <1>6, <1>8, <1>9, <1>14, <1>18, <2>1, <3>1, <3>2, <3>3 DEF WorkInv
  <2>2. CASE c \notin Clusters
    <3>1. pc' = "idle" /\ pc' \notin Frees  BY <1>8, <2>2 DEF Return, Frees
    <3>2. Work' = <<>> /\ Path(fat'[1], Anchor', Work') /\ Range(Work') = {}
      BY <1>11, <1>18, <3>1, NoWork
    <3>3. Range(ChainIn(fat[1], c)) = {}  BY <1>6, <2>2, PathParts
    <3> QED  BY <1>6, <1>9, <1>14, <1>18, <3>1, <3>2, <3>3 DEF WorkInv
  <2> QED  BY <2>1, <2>2
<1>20. SlotInv' /\ SpaceInv'  BY <1>9, <1>18 DEF SlotInv, SpaceInv
<1>21. Apart'
  <2>1. \A q \in Files' : q \in Files /\ q # p /\ Owned(q)' = Owned(q)  BY <1>15, <1>16
  <2>2. \A q \in Files' : Owned(q) \cap (Range(Work') \cup Loose') = {}
    BY <1>5, <1>14, <1>19, <2>1 DEF Apart
  <2>3. Range(Dir) \cap (Range(Work') \cup Loose') = {}
    BY <1>5, <1>14, <1>19 DEF Apart
  <2>4. Range(Work') \cap Loose' = {}  BY <1>14
  <2> QED  BY <2>1, <2>2, <2>3, <2>4, <1>10, ApartFrame
<1>22. NothingLost'
  <2> DEFINE U == UNION {Owned(q) : q \in Files}
             V == UNION {Owned(q)' : q \in Files'}
  <2>1. U = V \cup Owned(p)
    <3>1. {Owned(q) : q \in Files} = {Owned(q)' : q \in Files'} \cup {Owned(p)}
      BY <1>5, <1>15, <1>16
    <3> QED  BY <3>1
  <2>2. faults = 0 => Clusters \ FreeEntries = Range(Dir) \cup Range(Work) \cup Loose \cup U
    BY DEF NothingLost
  <2>3. FreeEntries' = FreeEntries  BY <1>2, FatKept
  <2>4. faults' = 0 => fat'[1] = IF second' = <<>> THEN fat'[2]
                                  ELSE [fat'[2] EXCEPT ![second'[1]] = second'[2]]
    BY <1>2 DEF NothingLost
  <2>5. faults' = 0 => Clusters \ FreeEntries' = Range(Dir') \cup Range(Work') \cup Loose' \cup V
    <3> HIDE DEF U, V
    <3> QED  BY <1>2, <1>4, <1>10, <1>14, <1>19, <2>1, <2>2, <2>3
  <2> QED  BY <2>4, <2>5 DEF NothingLost
<1> QED  BY <1>10, <1>11, <1>13, <1>17, <1>19, <1>20, <1>21, <1>22

LEMMA KeepsExtendZero ==
  ASSUME FatInv, ExtendZero
  PROVE  FatInv'
<1> USE DEF FatInv
<1> DEFINE L == Len(Dir)  S == 1..SlotsPerCluster  e == Slot(END, 0, 0)
<1>1. /\ pc = "ext_zero" /\ second = <<>> /\ new \in Data
      /\ sector' = [sector EXCEPT ![new] = EmptyDir] /\ at' = <<new, 1>>
      /\ pc' = AfterSlot(op'.size) /\ fat' = fat /\ op' = op /\ first' = first /\ prev' = prev
      /\ new' = new /\ cur' = cur /\ count' = count /\ second' = second /\ faults' = faults
      /\ files' = files
  BY DEF ExtendZero, Step
<1>2. pc' \in {"entry", "alloc"}  BY <1>1, AfterSlotType
<1>3. first' = 0 /\ count' = 0  BY <1>1 DEF WorkInv, Builds
<1>4. op.name \in Names /\ op.value \in Values  BY <1>1 DEF FatType
<1>5. sector \in [Data -> Dirs \cup Blocks]  BY DEF FatType
<1>6. sector' \in [Data -> Dirs \cup Blocks] /\ sector'[new] = EmptyDir
      /\ \A x \in Data : x # new => sector'[x] = sector[x]
  BY <1>1, <1>5, EmptyDirType
<1>7. FatType'  BY <1>1, <1>2, <1>4, <1>6 DEF FatType, Builds
<1>8. SlotsPerCluster \in Nat \ {0} /\ 1 \in S  BY Bounds
<1>9. /\ Dir \in Seq(Clusters) /\ L \in Nat \ {0}
      /\ Range(Dir) = {Dir[i] : i \in 1..L} /\ Range(Dir) \subseteq Clusters
      /\ Readable = SubSeq(Dir, 1, L - 1)
      /\ Range(Readable) = {Readable[i] : i \in 1..Len(Readable)}
      /\ Range(Readable) \subseteq Range(Dir) /\ Range(Readable) \subseteq Data
  BY <1>1, DirFacts
<1>10. Dir[L] = new /\ \A i \in 1 .. L - 1 : Dir[i] \in Data  BY <1>1 DEF DirInv
<1>11. \A i, j \in 1..L : Dir[i] = Dir[j] => i = j  BY DEF DirInv, Path
<1>12. Dir' = Dir  BY <1>1 DEF Dir, Chain
<1>13. Readable' = Dir
  <2>1. pc' # "ext_zero"  BY <1>2
  <2>2. Readable' = IF Dir[Len(Dir)] \in Data THEN Dir ELSE SubSeq(Dir, 1, Len(Dir) - 1)
    BY <1>12, <2>1, ReadableCleared
  <2> QED  BY <1>1, <1>10, <2>2
<1>14. /\ Len(Readable) = L - 1 /\ \A i \in 1 .. L - 1 : Readable[i] = Dir[i]
       /\ new \notin Range(Readable) /\ Range(Dir) = Range(Readable) \cup {new}
  <2>1. Dir # <<>>  BY <1>9
  <2>2. Readable = [i \in 1 .. L - 1 |-> Dir[i]] /\ Len(Readable) = L - 1
    BY <1>9, <2>1, FrontOf
  <2>3. \A i \in 1 .. L - 1 : Readable[i] = Dir[i]  BY <2>2
  <2>4. \A i \in 1..L : i = L \/ i \in 1 .. L - 1  BY <1>9
  <2>5. L \in 1..L /\ \A i \in 1 .. L - 1 : i \in 1..L /\ i # L  BY <1>9
  <2> HIDE DEF L
  <2>6. Range(Readable) = {Dir[i] : i \in 1 .. L - 1}  BY <1>9, <2>2, <2>3
  <2>7. new \notin Range(Readable)  BY <1>10, <1>11, <2>5, <2>6
  <2>8. Range(Dir) \subseteq Range(Readable) \cup {new}  BY <1>9, <1>10, <2>4, <2>6
  <2>9. new \in Range(Dir)  BY <1>9, <1>10, <2>5
  <2> QED  BY <1>9, <2>2, <2>3, <2>7, <2>8, <2>9
<1>15. Range(Dir) \subseteq Data  BY <1>1, <1>9, <1>14
<1>16. DirInv'
  <2>1. \A x \in Range(Readable') : sector'[x] \in Dirs
    <3> SUFFICES ASSUME NEW x \in Range(Dir) PROVE sector'[x] \in Dirs  BY <1>13
    <3>1. CASE x = new  BY <1>6, <3>1, EmptyDirType
    <3>2. CASE x # new  BY <1>6, <1>9, <1>14, <3>2 DEF DirInv
    <3> QED  BY <3>1, <3>2
  <2> QED  BY <1>1, <1>2, <1>12, <2>1 DEF DirInv
<1>17. \A i \in S : EmptyDir.slots[i] = e  BY DEF EmptyDir
<1>18. e.name = END  BY DEF Slot
<1> HIDE DEF e, L, S
<1>19. Places = Range(Readable) \X S /\ Places' = Range(Dir) \X S
  BY <1>13 DEF Places, S
<1>20. ASSUME NEW q \in Places PROVE q \in Places' /\ Entry(q)' = Entry(q) /\ q[1] # new
  <2>1. q = <<q[1], q[2]>> /\ q[1] \in Range(Readable) /\ q[2] \in S  BY <1>19
  <2>2. q[1] \in Data /\ q[1] # new /\ q[1] \in Range(Dir)  BY <1>9, <1>14, <2>1
  <2>3. q \in Places'  BY <1>19, <2>1, <2>2
  <2> QED  BY <1>6, <2>2, <2>3 DEF Entry
<1>21. ASSUME NEW q \in Places', q \notin Places PROVE q[1] = new /\ Entry(q)' = e
  <2>1. q = <<q[1], q[2]>> /\ q[1] \in Range(Dir) /\ q[2] \in S  BY <1>19
  <2>2. q[1] = new
    <3>1. SUFFICES ASSUME q[1] \in Range(Readable) PROVE FALSE  BY <1>14, <2>1
    <3> QED  BY <1>19, <1>21, <2>1, <3>1
  <2> QED  BY <1>6, <1>17, <2>1, <2>2 DEF Entry
<1>22. \A q \in Places : Entry(q).name \in Names \ {op.name}
  BY <1>1 DEF SlotInv, Extends
<1>23. END \notin Names /\ op.name # END  BY <1>4, NamesAssumption
<1> DEFINE K == (1..L) \X S
<1>24. DOMAIN DirectorySlots' = K /\ \A k \in K : DirectorySlots'[k] = <<Dir[k[1]], k[2]>>
  <2>1. DirectorySlots' = [k \in (1..Len(Readable')) \X S |-> <<Readable'[k[1]], k[2]>>]
    BY DEF DirectorySlots, S
  <2> QED  BY <1>13, <2>1 DEF L
<1>25. ASSUME NEW k \in K
       PROVE  /\ k[1] \in 1..L /\ k[2] \in S /\ k = <<k[1], k[2]>>
              /\ k[1] # L => DirectorySlots'[k] \in Places
              /\ k[1] = L => DirectorySlots'[k] \in Places' /\ DirectorySlots'[k] \notin Places
  <2>1. k[1] \in 1..L /\ k[2] \in S /\ k = <<k[1], k[2]>>  OBVIOUS
  <2>2. DirectorySlots'[k] = <<Dir[k[1]], k[2]>>  BY <1>24
  <2>3. k[1] # L => DirectorySlots'[k] \in Places
    <3> SUFFICES ASSUME k[1] # L PROVE <<Dir[k[1]], k[2]>> \in Places  BY <2>2
    <3>1. k[1] \in 1 .. L - 1 /\ Len(Readable) = L - 1  BY <1>9, <1>14, <2>1
    <3>2. Dir[k[1]] \in Range(Readable)  BY <1>9, <1>14, <3>1
    <3> QED  BY <1>19, <2>1, <3>2
  <2>4. k[1] = L => DirectorySlots'[k] \in Places' /\ DirectorySlots'[k] \notin Places
    <3> SUFFICES ASSUME k[1] = L
                 PROVE  <<Dir[k[1]], k[2]>> \in Places' /\ <<Dir[k[1]], k[2]>> \notin Places
      BY <2>2
    <3>1. Dir[k[1]] = new /\ new \in Range(Dir) /\ new \notin Range(Readable)
      BY <1>10, <1>14
    <3> QED  BY <1>19, <2>1, <3>1
  <2> QED  BY <2>1, <2>3, <2>4
<1>26. ASSUME NEW k \in K
       PROVE  /\ k[1] # L => Entry(DirectorySlots[k])'.name \in Names
              /\ k[1] = L => Entry(DirectorySlots[k])'.name = END
  <2> DEFINE q == DirectorySlots'[k]
  <2>1. Entry(DirectorySlots[k])' = sector'[q[1]].slots[q[2]]  BY DEF Entry
  <2>2. \A r \in Places : sector'[r[1]].slots[r[2]] = Entry(r)  BY <1>20 DEF Entry
  <2>3. \A r \in Places' : r \notin Places => sector'[r[1]].slots[r[2]] = e  BY <1>21 DEF Entry
  <2>4. k[1] # L => Entry(DirectorySlots[k])'.name \in Names
    BY <1>22, <1>25, <2>1, <2>2
  <2>5. k[1] = L => Entry(DirectorySlots[k])'.name = END
    BY <1>18, <1>25, <2>1, <2>3
  <2> QED  BY <2>4, <2>5
<1>27. NamesInv'
  <2>1. ASSUME NEW i \in K, NEW k \in K, Before(i, k), Entry(DirectorySlots[i])'.name = END
        PROVE  Entry(DirectorySlots[k])'.name = END
    <3>1. i[1] = L  BY <1>23, <1>26, <2>1
    <3>2. i[1] \in 1..L /\ k[1] \in 1..L /\ L \in Nat  BY <1>9, <1>25 DEF L
    <3>3. k[1] = L  BY <2>1, <3>1, <3>2 DEF Before
    <3> QED  BY <1>26, <3>3
  <2>2. ASSUME NEW q \in Places', NEW r \in Places', Entry(q)'.name \in Names,
               Entry(q)'.name = Entry(r)'.name
        PROVE  q = r
    <3>1. q \in Places /\ r \in Places  BY <1>18, <1>21, <1>23, <2>2
    <3> QED  BY <1>20, <2>2, <3>1 DEF NamesInv
  <2> HIDE DEF K
  <2> QED  BY <1>24, <2>1, <2>2 DEF NamesInv
<1>28. at' \in Places' /\ at' \notin Places /\ Entry(at)' = e
  <2>1. PICK q : q = at'  OBVIOUS
  <2>2. q = <<new, 1>> /\ q[1] = new /\ new \in Range(Dir)  BY <1>1, <1>14, <2>1
  <2>3. q \in Places' /\ q \notin Places  BY <1>8, <1>14, <1>19, <2>2
  <2>4. Entry(q)' = e  BY <1>21, <2>3
  <2> QED  BY <2>1, <2>3, <2>4 DEF Entry
<1>29. SlotInv'
  <2>1. \A q \in Places' : Entry(q)'.name # op'.name
    BY <1>1, <1>18, <1>20, <1>21, <1>22, <1>23
  <2>2. ASSUME NEW i \in K, NEW k \in K, DirectorySlots'[k] = at', Before(i, k)
        PROVE  Entry(DirectorySlots[i])'.name # END
    <3>1. k[1] = L  BY <1>25, <1>28, <2>2
    <3>2. DirectorySlots'[k] = <<Dir[k[1]], k[2]>>  BY <1>24
    <3>3. k[2] = 1  BY <1>1, <2>2, <3>2
    <3>4. i[1] \in 1..L /\ i[2] \in S /\ L \in Nat /\ SlotsPerCluster \in Nat
      BY <1>8, <1>9, <1>25 DEF L
    <3>5. i[1] # L  BY <2>2, <3>1, <3>3, <3>4 DEF Before, S
    <3> QED  BY <1>23, <1>26, <3>5
  <2>3. pc' \notin Extends /\ pc' \notin {"free_old", "free_new"}  BY <1>2 DEF Extends
  <2> HIDE DEF K
  <2> QED  BY <1>18, <1>24, <1>28, <2>1, <2>2, <2>3 DEF SlotInv
<1>30. Replaced = {} /\ Replaced' = {at'} /\ Loose = {} /\ Loose' = {}
  BY <1>1, <1>2 DEF Replaced, Loose
<1>31. Files' = Files
  <2>1. Files = {q \in Places : Entry(q).name \in Names}  BY <1>30 DEF Files
  <2>2. Files' = {q \in Places' : Entry(q)'.name \in Names} \ {at'}  BY <1>30 DEF Files
  <2> QED  BY <1>18, <1>20, <1>21, <1>23, <1>28, <2>1, <2>2
<1>32. ASSUME NEW q \in Files PROVE FileOK(q)' /\ Owned(q)' = Owned(q)
  <2>1. q \in Places /\ Owned(q) \subseteq Data  BY FileParts
  <2>2. Entry(q)' = Entry(q)  BY <1>20, <2>1
  <2>3. \A x \in Owned(q) : fat'[1][x] = fat[1][x] /\ sector'[x] = sector[x]
    BY <1>1, <1>6, <1>14, <2>1 DEF Apart
  <2> QED  BY <1>1, <1>7, <2>2, <2>3, FileKept
<1>33. FilesInv'
  <2>1. ASSUME NEW n \in Names, \A q \in Places' : Entry(q)'.name # n PROVE files'[n] = <<>>
    <3>1. \A q \in Places : Entry(q).name # n  BY <1>20, <2>1
    <3> QED  BY <1>1, <3>1 DEF FilesInv
  <2> QED  BY <1>31, <1>32, <2>1 DEF FilesInv
<1>34. WorkInv' /\ Work' = <<>> /\ Range(Work') = {}
  BY <1>1, <1>3, <1>7, <1>30, AfterSlotWork
<1>35. Range(Work) = {}
  <2>1. Anchor = FREE  BY <1>1 DEF Anchor, Builds, Frees
  <2>2. Path(fat[1], FREE, Work)  BY <2>1 DEF WorkInv
  <2> QED  BY <2>2, PathParts, Consts
<1>36. Apart'  BY <1>12, <1>30, <1>31, <1>32, <1>34, ApartFrame
<1>37. SpaceInv'  BY <1>1, <1>18, <1>23, <1>28 DEF SpaceInv
<1>38. NothingLost'
  <2>1. faults' = 0 => fat'[1] = IF second' = <<>> THEN fat'[2]
                                  ELSE [fat'[2] EXCEPT ![second'[1]] = second'[2]]
    BY <1>1 DEF NothingLost
  <2> QED  BY <1>1, <1>12, <1>30, <1>31, <1>32, <1>34, <1>35, <2>1, FatKept, LostStill
<1> QED  BY <1>7, <1>16, <1>27, <1>29, <1>33, <1>34, <1>36, <1>37, <1>38
-----------------------------------------------------------------------------
(* The invariant holds.                                                    *)

LEMMA FatInvInit ==
  ASSUME Init
  PROVE  FatInv
<1>1. /\ fat = [k \in 1..2 |->
                  [x \in Clusters |-> IF x = root_cluster THEN FAT_EOC ELSE FREE]]
      /\ sector = [x \in Data |-> EmptyDir]
      /\ pc = "idle" /\ second = <<>> /\ faults = 0 /\ op = NoOp /\ at = <<>>
      /\ first = 0 /\ prev = 0 /\ new = 0 /\ cur = 0 /\ count = 0
      /\ files = [n \in Names |-> <<>>]
  BY DEF Init
<1> DEFINE f == [x \in Clusters |-> IF x = root_cluster THEN FAT_EOC ELSE FREE]
<1>2. fat[1] = f /\ fat[2] = f  BY <1>1
<1>3. f \in [Clusters -> Links]  BY Consts
<1>4. f[root_cluster] = FAT_EOC /\ \A x \in Clusters : f[x] = FREE <=> x # root_cluster
  BY Consts
<1> HIDE DEF f
<1>5. FatType
  <2>1. NoOp \in [name : Names \cup {"none"}, value : Values \cup {"none"}, size : 0..MaxSize]
    BY Bounds DEF NoOp
  <2>2. FREE = 0 /\ 0 \in Links /\ 0 \in 0..MaxSize  BY Consts, Bounds DEF FREE
  <2>3. fat \in [1..2 -> [Clusters -> Links]]  BY <1>1, <1>3 DEF f
  <2>4. sector \in [Data -> Dirs \cup Blocks]  BY <1>1, EmptyDirType
  <2>5. files \in [Names -> Seq(Blocks)]  BY <1>1
  <2> QED  BY <1>1, <2>1, <2>2, <2>3, <2>4, <2>5 DEF FatType
<1>6. Dir = <<root_cluster>> /\ Path(fat[1], root_cluster, Dir)
  <2>1. ChainIn(f, root_cluster) = <<root_cluster>> /\ Path(f, root_cluster, <<root_cluster>>)
    BY <1>3, <1>4, Consts, ChainOne
  <2> QED  BY <1>2, <2>1 DEF Dir, Chain
<1>7. Len(Dir) = 1 /\ Dir[1] = root_cluster /\ Dir \in Seq(Clusters) /\ Dir # <<>>
      /\ Range(Dir) = {root_cluster}
  BY <1>6, Consts DEF Range
<1>8. Readable = Dir
  <2>1. Readable = Legible(Dir, FALSE, new)  BY <1>1, ReadableNow
  <2>2. \A i \in 1 .. Len(Dir) - 1 : Dir[i] \in Data /\ (FALSE => Dir[i] # new)  BY <1>7
  <2> QED  BY <1>7, <2>1, <2>2, LegibleIs, Consts
<1>9. DirInv
  <2>1. \A x \in Range(Readable) : sector[x] \in Dirs
    BY <1>1, <1>7, <1>8, EmptyDirType, Consts
  <2> QED  BY <1>1, <1>6, <1>7, <2>1 DEF DirInv
<1>10. \A p \in Places : Entry(p) = Slot(END, 0, 0)
  <2> SUFFICES ASSUME NEW p \in Places PROVE Entry(p) = Slot(END, 0, 0)  OBVIOUS
  <2>1. p[1] \in Data /\ p[2] \in 1..SlotsPerCluster  BY <1>5, <1>9, EntryType
  <2>2. sector[p[1]].slots = [i \in 1..SlotsPerCluster |-> Slot(END, 0, 0)]
    BY <1>1, <2>1 DEF EmptyDir
  <2> QED  BY <2>1, <2>2 DEF Entry
<1>11. \A p \in Places : Entry(p).name = END /\ Entry(p).name \notin Names
  BY <1>10, NamesAssumption DEF Slot
<1>12. NamesInv
  <2>1. \A k \in DOMAIN DirectorySlots : DirectorySlots[k] \in Places
    BY <1>5, <1>9, SlotFacts
  <2> QED  BY <1>11, <2>1 DEF NamesInv
<1>13. Files = {}  BY <1>11 DEF Files
<1>14. Work = <<>> /\ Path(fat[1], Anchor, Work) /\ Range(Work) = {} /\ Loose = {}
  <2>1. Anchor = FREE /\ Loose = {}  BY <1>1 DEF Anchor, Loose, Builds, Frees
  <2>2. ChainIn(f, FREE) = <<>> /\ Path(f, FREE, <<>>)  BY <1>3, Consts, ChainNone
  <2> QED  BY <1>2, <2>1, <2>2 DEF Work, Chain, Range
<1>15. SlotInv  BY <1>1 DEF SlotInv, Extends, Replaces
<1>16. WorkInv  BY <1>1, <1>14 DEF WorkInv, Builds, Frees
<1>17. FilesInv  BY <1>1, <1>13 DEF FilesInv
<1>18. Apart  BY <1>13, <1>14 DEF Apart
<1>19. SpaceInv  BY <1>1 DEF SpaceInv, Replaces
<1>20. NothingLost
  <2>1. FreeEntries = Clusters \ {root_cluster}  BY <1>2, <1>4 DEF FreeEntries
  <2>2. Clusters \ FreeEntries = {root_cluster}  BY <2>1, Consts
  <2>3. UNION {Owned(p) : p \in Files} = {}  BY <1>13
  <2> QED  BY <1>1, <1>2, <1>7, <1>14, <2>2, <2>3 DEF NothingLost
<1> QED  BY <1>5, <1>9, <1>12, <1>15, <1>16, <1>17, <1>18, <1>19, <1>20 DEF FatInv

LEMMA KeepsStutter ==
  ASSUME FatInv, UNCHANGED vars
  PROVE  FatInv'
<1>1. UNCHANGED <<fat, sector, pc, op, at, first, prev, new, cur, count, second, failed,
                  faults, files>>
  BY DEF vars, local
<1>2. /\ Dir' = Dir /\ Readable' = Readable /\ Places' = Places /\ Work' = Work
      /\ Anchor' = Anchor /\ Loose' = Loose /\ Replaced' = Replaced
      /\ FreeEntries' = FreeEntries /\ FreeData' = FreeData
      /\ DirectorySlots' = DirectorySlots /\ \A p : Entry(p)' = Entry(p)
      /\ \A c : Chain(c)' = Chain(c)
  BY <1>1 DEF Dir, Chain, Readable, Places, Work, Anchor, Loose, Replaced, FreeEntries,
     FreeData, DirectorySlots, Entry
<1>3. Files' = Files /\ \A p : Owned(p)' = Owned(p) /\ FileOK(p)' = FileOK(p)
  BY <1>1, <1>2 DEF Files, Owned, FileOK
<1>4. FatType'  BY <1>1 DEF FatInv, FatType
<1>5. DirInv' /\ NamesInv'  BY <1>1, <1>2 DEF FatInv, DirInv, NamesInv
<1>6. SlotInv'  BY <1>1, <1>2 DEF FatInv, SlotInv
<1>7. WorkInv'  BY <1>1, <1>2 DEF FatInv, WorkInv
<1>8. FilesInv' /\ Apart'  BY <1>1, <1>2, <1>3 DEF FatInv, FilesInv, Apart
<1>9. SpaceInv' /\ NothingLost'  BY <1>1, <1>2, <1>3 DEF FatInv, SpaceInv, NothingLost
<1> QED  BY <1>4, <1>5, <1>6, <1>7, <1>8, <1>9 DEF FatInv

LEMMA FatInvNext ==
  ASSUME Room, ~FaultsAnywhere, FatInv, [Next]_vars
  PROVE  FatInv'
<1>1. CASE Call
  <2>1. PICK n \in Names, v \in Values, s \in 0..MaxSize :
           WriteExisting(n, v, s) \/ WriteNew(n, v, s) \/ WriteExtending(n, v, s)
    BY <1>1 DEF Call
  <2> QED  BY <2>1, KeepsExisting, KeepsNew, KeepsExtending
<1>2. ASSUME NEW n \in Names, Delete(n) PROVE FatInv'  BY <1>2, KeepsDelete
<1>3. CASE Proceed
  BY <1>3, KeepsSecond, KeepsExtendAlloc, KeepsExtendLink, KeepsExtendZero,
     KeepsExtendFails, KeepsFree, KeepsAlloc, KeepsLink, KeepsData, KeepsNoSpace,
     KeepsEntry
     DEF Proceed
<1>4. CASE Faults
  BY <1>4, KeepsAbandon, KeepsErrorFreesChain, KeepsFreeCutShort
     DEF Faults, Crash, ErrorReturns
<1>5. CASE UNCHANGED vars  BY <1>5, KeepsStutter
<1> QED  BY <1>1, <1>2, <1>3, <1>4, <1>5 DEF Next

LEMMA FatInvHolds ==
  ASSUME Room, ~FaultsAnywhere
  PROVE  Spec => []FatInv
<1>1. Init => FatInv  BY FatInvInit
<1>2. FatInv /\ [Next]_vars => FatInv'  BY FatInvNext
<1> QED  BY <1>1, <1>2, PTL DEF Spec

-----------------------------------------------------------------------------
(* The copies of the FAT.                                                  *)

\* What a step does to the FAT.
WritesFirst == /\ second = <<>> /\ faults' \in {faults, faults + 1}
               /\ \E x, v : SetFirstCopy(x, v)
Forgets == fat' = fat /\ second' = <<>> /\ faults' = faults + 1
Spares == fat' = fat /\ second' = second /\ faults' = faults

LEMMA FatSteps ==
  ASSUME FatType, [Next]_vars
  PROVE  WritesFirst \/ SetSecondCopy \/ Forgets \/ Spares
<1> USE DEF WritesFirst, Forgets, Spares
<1>1. CASE Call
  BY <1>1 DEF Call, WriteExisting, WriteNew, WriteExtending, Begin
<1>2. ASSUME NEW n \in Names, Delete(n) PROVE Spares  BY <1>2 DEF Delete
<1>3. CASE Proceed
  <2>1. CASE SetSecondCopy  BY <2>1
  <2>2. CASE ExtendAlloc  BY <2>2 DEF ExtendAlloc, Step, fat_alloc_cluster
  <2>3. CASE ExtendLink  BY <2>3 DEF ExtendLink, Step
  <2>4. CASE ExtendZero \/ ExtendFails  BY <2>4 DEF ExtendZero, ExtendFails
  <2>5. CASE FreeCluster  BY <2>5 DEF FreeCluster
  <2>6. CASE AllocCluster  BY <2>6 DEF AllocCluster, Step, fat_alloc_cluster
  <2>7. CASE LinkCluster  BY <2>7 DEF LinkCluster, Step
  <2>8. CASE WriteData \/ NoSpace \/ write_dir_entry
    BY <2>8 DEF WriteData, NoSpace, write_dir_entry
  <2> QED  BY <1>3, <2>1, <2>2, <2>3, <2>4, <2>5, <2>6, <2>7, <2>8 DEF Proceed
<1>4. CASE Faults
  <2>1. CASE Crash \/ ErrorReturns  BY <2>1 DEF Crash, ErrorReturns, Fault, Abandon
  <2>2. CASE ErrorFreesChain  BY <2>2 DEF ErrorFreesChain, Fault
  <2>3. CASE FreeCutShort  BY <2>3 DEF FreeCutShort
  <2> QED  BY <1>4, <2>1, <2>2, <2>3 DEF Faults
<1>5. CASE UNCHANGED vars  BY <1>5 DEF vars
<1> QED  BY <1>1, <1>2, <1>3, <1>4, <1>5 DEF Next

\* A set with at most one more element.
LEMMA CardGrows ==
  ASSUME NEW A, NEW B, NEW x, IsFiniteSet(B), A \subseteq B \cup {x}
  PROVE  /\ Cardinality(A) \in Nat /\ Cardinality(B) \in Nat
         /\ Cardinality(A) <= Cardinality(B) + 1
         /\ A \subseteq B => Cardinality(A) <= Cardinality(B)
<1>1. /\ IsFiniteSet(B \cup {x}) /\ Cardinality(B) \in Nat
      /\ Cardinality(B \cup {x}) = IF x \in B THEN Cardinality(B) ELSE Cardinality(B) + 1
  BY FS_AddElement, FS_CardinalityType
<1>2. IsFiniteSet(A) /\ Cardinality(A) <= Cardinality(B \cup {x})  BY <1>1, FS_Subset
<1>3. Cardinality(A) \in Nat  BY <1>2, FS_CardinalityType
<1>4. A \subseteq B => Cardinality(A) <= Cardinality(B)  BY FS_Subset
<1> QED  BY <1>1, <1>2, <1>3, <1>4

LEMMA CopiesNext ==
  ASSUME FatType, FatType', CopiesInv, [Next]_vars
  PROVE  CopiesInv'
<1> DEFINE D == Differing \ Pending  E == Differing' \ Pending'
<1>1. IsFiniteSet(D)
  <2>1. D \subseteq Clusters  BY DEF Differing
  <2> QED  BY <2>1, Consts, FS_Subset
<1>2. faults \in Nat /\ Cardinality(D) \in Nat /\ Cardinality(D) <= faults
  BY <1>1, FS_CardinalityType DEF FatType, CopiesInv
<1>3. fat \in [1..2 -> [Clusters -> Links]] /\ fat' \in [1..2 -> [Clusters -> Links]]
  BY DEF FatType
<1>4. CASE WritesFirst
  <2>1. PICK x, v : SetFirstCopy(x, v)  BY <1>4 DEF WritesFirst
  <2>2. second = <<>> /\ faults' \in {faults, faults + 1}  BY <1>4 DEF WritesFirst
  <2>3. second' = <<x, v>>  BY <2>1 DEF SetFirstCopy
  <2>4. second' # <<>> /\ second' \in Clusters \X Links
    <3>1. Len(<<x, v>>) = 2 /\ Len(<<>>) = 0  OBVIOUS
    <3>2. second' # <<>>  BY <2>3, <3>1
    <3> QED  BY <3>2 DEF FatType
  <2>5. x \in Clusters /\ v \in Links /\ second'[1] = x /\ second'[2] = v  BY <2>3, <2>4
  <2>6. /\ fat'[1] = [fat[1] EXCEPT ![x] = v] /\ fat'[2] = fat[2]
        /\ fat[1] \in [Clusters -> Links]
    BY <2>1, <2>5, SetFirst
  <2>7. Pending' = {x}  BY <2>4, <2>5 DEF Pending
  <2>8. Pending = {}  BY <2>2 DEF Pending
  <2>9. E \subseteq D  BY <2>6, <2>7, <2>8 DEF Differing
  <2>10. Cardinality(E) \in Nat /\ Cardinality(E) <= Cardinality(D)
    <3>1. E \subseteq D \cup {x}  BY <2>9
    <3> HIDE DEF D, E
    <3> QED  BY <1>1, <2>9, <3>1, CardGrows
  <2>11. fat'[1][second'[1]] = second'[2]  BY <2>5, <2>6
  <2>12. Cardinality(E) <= faults'  BY <1>2, <2>2, <2>10
  <2> QED  BY <2>11, <2>12 DEF CopiesInv
<1>5. CASE SetSecondCopy
  <2>1. /\ second # <<>> /\ fat' = [fat EXCEPT ![2][second[1]] = second[2]]
        /\ second' = <<>> /\ faults' = faults
    BY <1>5 DEF SetSecondCopy
  <2>2. second[1] \in Clusters /\ second[2] \in Links /\ fat[1][second[1]] = second[2]
    BY <2>1 DEF FatType, CopiesInv
  <2>3. fat'[1] = fat[1] /\ fat'[2] = [fat[2] EXCEPT ![second[1]] = second[2]]
    BY <1>3, <2>1
  <2>4. fat[2] \in [Clusters -> Links]  BY <1>3
  <2>5. E \subseteq D
    <3>1. Pending' = {} /\ Pending = {second[1]}  BY <2>1 DEF Pending
    <3> QED  BY <2>2, <2>3, <2>4, <3>1 DEF Differing
  <2>6. Cardinality(E) \in Nat /\ Cardinality(E) <= Cardinality(D)
    <3>1. E \subseteq D \cup {0}  BY <2>5
    <3> HIDE DEF D, E
    <3> QED  BY <1>1, <2>5, <3>1, CardGrows
  <2>7. Cardinality(E) <= faults'  BY <1>2, <2>1, <2>6
  <2> QED  BY <2>1, <2>7 DEF CopiesInv
<1>6. CASE Forgets
  <2>1. fat' = fat /\ second' = <<>> /\ faults' = faults + 1  BY <1>6 DEF Forgets
  <2>2. E \subseteq D \cup {second[1]}
    BY <2>1 DEF Pending, Differing
  <2>3. Cardinality(E) \in Nat /\ Cardinality(E) <= Cardinality(D) + 1
    <3> HIDE DEF D, E
    <3> QED  BY <1>1, <2>2, CardGrows
  <2>4. Cardinality(E) <= faults'  BY <1>2, <2>1, <2>3
  <2> QED  BY <2>1, <2>4 DEF CopiesInv
<1>7. CASE Spares
  BY <1>7 DEF Spares, CopiesInv, Differing, Pending
<1> QED  BY <1>4, <1>5, <1>6, <1>7, FatSteps

LEMMA CopiesHold ==
  ASSUME Room, ~FaultsAnywhere
  PROVE  Spec => []CopiesInv
<1>1. Init => CopiesInv
  <2> SUFFICES ASSUME Init PROVE CopiesInv  OBVIOUS
  <2>1. second = <<>> /\ faults = 0 /\ fat[1] = fat[2]  BY DEF Init
  <2>2. Differing \ Pending = {}  BY <2>1 DEF Differing
  <2>3. Cardinality(Differing \ Pending) = 0
    <3>1. Cardinality({}) = 0  BY FS_EmptySet
    <3> QED  BY <2>2, <3>1, Zenon
  <2> QED  BY <2>1, <2>3 DEF CopiesInv
<1>2. FatInv /\ FatInv' /\ CopiesInv /\ [Next]_vars => CopiesInv'
  BY CopiesNext DEF FatInv
<1> QED  BY <1>1, <1>2, FatInvHolds, PTL DEF Spec

-----------------------------------------------------------------------------
(* The properties.                                                         *)

\* The entries the searches find are those of the files and the one replaced.
LEMMA LiveIs ==
  ASSUME FatInv
  PROVE  /\ Live = {p \in Places : Entry(p).name \in Names}
         /\ Settled = Files
<1>1. \A n \in Names : find_entry(n) = {p \in Places : Entry(p).name = n}
  BY FindIs DEF FatInv
<1>2. Live = {p \in Places : Entry(p).name \in Names}  BY <1>1 DEF Live
<1> QED  BY <1>2 DEF Settled, Files

\* For any disk, any names and any sizes: at every write of a sector no
\* cluster belongs to two files, to a file and the directory, or to a file
\* and the chain that fat32_write_file is building, also after the machine has
\* stopped or a sector has failed in the middle of a write or a deletion
\* (fat32.c:56-114, 366-442).
THEOREM ClustersNotShared ==
  ASSUME Room, ~FaultsAnywhere
  PROVE  Spec => []NoSharedCluster
<1>1. FatInv => NoSharedCluster
  <2> SUFFICES ASSUME FatInv PROVE NoSharedCluster  OBVIOUS
  <2>1. Settled = Files  BY LiveIs
  <2>2. Building \subseteq Range(Work)
    BY DEF Building, Work, Anchor, Builds
  <2>3. Range(Chain(root_cluster)) = Range(Dir)  BY DEF Dir
  <2> QED  BY <2>1, <2>2, <2>3 DEF FatInv, Apart, NoSharedCluster
<1> QED  BY <1>1, FatInvHolds, PTL

\* Every file but the one being replaced reads back as the last write that
\* committed left it, whatever is allocated, freed, linked or extended around
\* it, and whichever of these steps fails (fat32.c:366-466, 500-524).
THEOREM FilesKeepTheirContents ==
  ASSUME Room, ~FaultsAnywhere
  PROVE  Spec => []ContentsKept
<1>1. FatInv => ContentsKept
  <2> SUFFICES ASSUME FatInv, NEW n \in Names, find_entry(n) \cap Replaced = {}
               PROVE  IF find_entry(n) = {} THEN files[n] = <<>>
                      ELSE \A p \in find_entry(n) : Contents(p) = files[n]
    BY DEF ContentsKept
  <2>1. find_entry(n) = {p \in Places : Entry(p).name = n}  BY FindIs DEF FatInv
  <2>2. CASE find_entry(n) = {}  BY <2>1, <2>2 DEF FatInv, FilesInv
  <2>3. ASSUME NEW p \in find_entry(n) PROVE Contents(p) = files[n]
    <3>1. p \in Files /\ Entry(p).name = n  BY <2>1, <2>3 DEF Files
    <3>2. FileOK(p)  BY <3>1 DEF FatInv, FilesInv
    <3> DEFINE s == Chain(Entry(p).first)
    <3>3. Len(s) = Entry(p).size /\ files[n] = [i \in 1..Len(s) |-> sector[s[i]]]
      BY <3>1, <3>2 DEF FileOK
    <3> QED  BY <3>3 DEF Contents
  <2> QED  BY <2>2, <2>3
<1> QED  BY <1>1, FatInvHolds, PTL

\* Between operations the two copies of the FAT differ in at most as many
\* entries as there were faults; and without a fault every cluster in use is
\* reached from the directory or from the entry of a file: neither a write that
\* finds the disk full nor a deletion loses one (fat32.c:56-114, 366-466).
THEOREM VolumeStaysConsistent ==
  ASSUME Room, ~FaultsAnywhere
  PROVE  Spec => []VolumeConsistent
<1>1. FatInv /\ CopiesInv => VolumeConsistent
  <2> SUFFICES ASSUME FatInv, CopiesInv, Idle
               PROVE  /\ Cardinality({x \in Clusters : fat[1][x] # fat[2][x]}) <= faults
                      /\ faults = 0 =>
                           Clusters \ FreeEntries
                             = Range(Chain(root_cluster)) \cup UNION {Owned(p) : p \in Live}
    BY DEF VolumeConsistent
  <2>1. pc = "idle" /\ second = <<>>  BY DEF Idle
  <2>2. Range(Work) = {} /\ Loose = {} /\ Replaced = {}  BY <2>1, IdleFacts
  <2>3. Live = Files  BY <2>2, LiveIs DEF Settled
  <2>4. Range(Chain(root_cluster)) = Range(Dir)  BY DEF Dir
  <2>5. Cardinality(Differing) <= faults
    <3>1. Differing \ Pending = Differing  BY <2>1 DEF Pending
    <3> QED  BY <3>1 DEF CopiesInv
  <2>6. ASSUME faults = 0
        PROVE  Clusters \ FreeEntries
                 = Range(Dir) \cup Range(Work) \cup Loose \cup UNION {Owned(p) : p \in Files}
    BY <2>6 DEF FatInv, NothingLost
  <2> QED  BY <2>2, <2>3, <2>4, <2>5, <2>6 DEF Differing
<1> QED  BY <1>1, FatInvHolds, CopiesHold, PTL
=============================================================================
