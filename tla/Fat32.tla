------------------------------- MODULE Fat32 -------------------------------
(***************************************************************************)
(* drivers/fat32.c: files in the root directory of a FAT32 volume.  A step *)
(* ends with the write of one sector, so that the machine may stop between *)
(* any two writes; reads belong to the step that uses them.  Every read    *)
(* and write of the FAT, of data and of an entry may fail; the reads of    *)
(* the searches through the directory do not.  A write that fails left the *)
(* sector as it was; one that fails after it reached the disk is the write *)
(* followed by a fault.  A cluster is one sector (scripts/make_disk.py),   *)
(* and file sizes are in clusters.                                         *)
(*                                                                         *)
(* The FAT has more entries than the disk has clusters: fat_size is        *)
(* rounded up to sectors, and make_disk.py computes it before it takes the *)
(* FATs off the data area.  The driver takes every entry for a cluster;    *)
(* reading or writing one of the Slack clusters fails.                     *)
(***************************************************************************)
EXTENDS Integers, Sequences, FiniteSets, SequencesExt

CONSTANTS
    Data,           \* clusters that exist, numbers from 2
    Slack,          \* FAT entries beyond the end of the disk
    Names, Values,  \* short names; contents
    MaxSize,        \* bound: clusters of a file
    SlotsPerCluster,    \* directory entries in a cluster (16 in the code)
    Room,           \* whether overwrites that do not fit are kept out
    FaultsAnywhere, \* whether faults may hit an overwrite and the clearing of
                    \* a new directory cluster, too
    MaxFaults       \* bound: stops of the machine and sectors that fail

root_cluster == 2
FAT_EOC == 0 - 1        \* any value from 0x0FFFFFF8
FREE == 0

Clusters == Data \cup Slack

ASSUME ClustersAssumption ==
    /\ Clusters \subseteq Nat \ {0, 1} /\ IsFiniteSet(Clusters)
    /\ root_cluster \in Data /\ \A x \in Data, y \in Slack : x < y
ASSUME BoundsAssumption ==
    /\ {MaxSize, MaxFaults} \subseteq Nat /\ SlotsPerCluster \in Nat \ {0}
ASSUME SwitchesAssumption == {Room, FaultsAnywhere} \subseteq BOOLEAN

END == "end"            \* first byte 0x00: no entry here or after
DELETED == "deleted"    \* first byte 0xE5
ASSUME NamesAssumption == Names \cap {END, DELETED, "none"} = {}

VARIABLES
    fat,            \* the two copies of the FAT
    sector,         \* what each cluster holds
    pc, op,         \* step and arguments of the operation
    at,             \* the directory slot it uses: <<cluster, index>>
    first, prev, new,   \* clusters of the chain it builds
    cur,            \* the cluster fat_free_chain has reached
    count,          \* clusters written
    second,         \* the FAT entry whose second copy is still to be written
    failed,         \* the last operation failed although there was room
    faults,         \* how often the machine stopped or a sector failed
    files           \* what the operations that committed made of each file

local == <<op, at, first, prev, new, cur, count>>
vars == <<fat, sector, pc, local, second, failed, faults, files>>

NoOp == [name |-> "none", value |-> "none", size |-> 0]

\* The operation returns.
Return ==
    /\ pc' = "idle" /\ op' = NoOp /\ at' = <<>>
    /\ first' = 0 /\ prev' = 0 /\ new' = 0 /\ cur' = 0 /\ count' = 0

Slot(n, f, s) == [name |-> n, first |-> f, size |-> s]
EmptyDir == [slots |-> [i \in 1..SlotsPerCluster |-> Slot(END, 0, 0)]]
Block(n, v, i) == [name |-> n, value |-> v, index |-> i]
Idle == pc = "idle" /\ second = <<>>

\* The clusters a loop over fat_next_cluster visits from c on, in the FAT f.
Links == Clusters \cup {FREE, FAT_EOC}
ChainIn(f, c) ==
    LET visit[n \in 0..Cardinality(Clusters)] ==
            [x \in Links |-> IF n = 0 \/ x \notin Clusters THEN <<>>
                             ELSE <<x>> \o visit[n - 1][f[x]]]
    IN  visit[Cardinality(Clusters)][c]
Chain(c) == ChainIn(fat[1], c)

\* The clusters of the directory up to the first that cannot be read.  No
\* operation reads the directory while a new cluster of it is not yet cleared.
Readable ==
    LET d == Chain(root_cluster)
        good(i) == d[i] \in Data /\ (pc = "ext_zero" => d[i] # new)
    IN  SubSeq(d, 1, CHOOSE n \in 0..Len(d) :
                        (\A i \in 1..n : good(i)) /\ (n < Len(d) => ~good(n + 1)))

\* The slots find_entry_location and find_free_dir_slot read, by the number of
\* the cluster and the index in it, and their order.
DirectorySlots ==
    LET r == Readable
    IN  [k \in (1..Len(r)) \X (1..SlotsPerCluster) |-> <<r[k[1]], k[2]>>]
Before(i, k) == i[1] < k[1] \/ (i[1] = k[1] /\ i[2] < k[2])
Entry(p) == sector[p[1]].slots[p[2]]

\* The first slot with a name of N, unless one of Stop comes before it.
FirstSlot(N, Stop) ==
    LET s == DirectorySlots
    IN  {s[k] : k \in {k \in DOMAIN s :
            /\ Entry(s[k]).name \in N
            /\ \A i \in DOMAIN s : Before(i, k) => Entry(s[i]).name \notin N \cup Stop}}

find_entry(n) == FirstSlot({n}, {END})
FreeSlot == FirstSlot({END, DELETED}, {})

\* fat32_free_space
FreeEntries == {x \in Clusters : fat[1][x] = FREE}
FreeData == FreeEntries \cap Data

\* fat32_read_file: what the chain of an entry holds, up to its size.
Contents(p) ==
    LET ch == Chain(Entry(p).first)
        n == IF Len(ch) < Entry(p).size THEN Len(ch) ELSE Entry(p).size
    IN  [i \in 1..n |-> sector[ch[i]]]

(***************************************************************************)
(* fat_set_entry writes the entry in both copies of the FAT.               *)
(***************************************************************************)
SetFirstCopy(x, v) ==
    /\ fat' = [fat EXCEPT ![1][x] = v]
    /\ second' = <<x, v>>

SetSecondCopy ==
    /\ second # <<>>
    /\ fat' = [fat EXCEPT ![2][second[1]] = second[2]]
    /\ second' = <<>>
    /\ UNCHANGED <<sector, pc, local, failed, faults, files>>

Step(from) == pc = from /\ second = <<>>

Lowest(S) == CHOOSE x \in S : \A y \in S : x <= y

\* Mutant: the entry is not marked.
fat_alloc_unmarked(x) ==
    /\ FreeEntries # {} /\ x = Lowest(FreeEntries)
    /\ UNCHANGED <<fat, second>>

\* fat_alloc_cluster, when an entry is free.
fat_alloc_cluster(x) ==
    /\ FreeEntries # {} /\ x = Lowest(FreeEntries)
    /\ SetFirstCopy(x, FAT_EOC)

(***************************************************************************)
(* fat32_write_file.                                                       *)
(***************************************************************************)
\* Where a write goes on once its slot is known.
AfterSlot(n) == IF n = 0 THEN "entry" ELSE "alloc"

Fits(n, p) == n <= Cardinality(FreeData) + Len(Chain(Entry(p).first))

Begin(n, v, s) ==
    /\ op' = [name |-> n, value |-> v, size |-> s]
    /\ failed' = FALSE
    /\ UNCHANGED <<fat, sector, first, prev, new, count, second, faults, files>>

WriteExisting(n, v, s) ==
    /\ Idle
    /\ at' \in find_entry(n) /\ (Room => Fits(s, at'))
    /\ cur' = Entry(at').first
    /\ pc' = IF cur' >= 2 THEN "free_old" ELSE AfterSlot(s)
    /\ Begin(n, v, s)

WriteNew(n, v, s) ==
    /\ Idle
    /\ find_entry(n) = {}
    /\ at' \in FreeSlot
    /\ pc' = AfterSlot(s)
    /\ cur' = 0
    /\ Begin(n, v, s)

\* No slot is free and every cluster of the directory could be read.
WriteExtending(n, v, s) ==
    /\ Idle
    /\ find_entry(n) = {} /\ FreeSlot = {}
    /\ Len(Readable) = Len(Chain(root_cluster))
    /\ pc' = "ext_alloc"
    /\ at' = <<>> /\ cur' = 0
    /\ Begin(n, v, s)

ExtendAlloc ==
    /\ Step("ext_alloc")
    /\ \E x \in Clusters : fat_alloc_cluster(x) /\ new' = x
    /\ pc' = "ext_link"
    /\ UNCHANGED <<sector, op, at, first, prev, cur, count, failed, faults, files>>

ExtendLink ==
    /\ Step("ext_link")
    /\ SetFirstCopy(Last(Chain(root_cluster)), new)
    /\ pc' = "ext_zero"
    /\ UNCHANGED <<sector, local, failed, faults, files>>

ExtendZero ==
    /\ Step("ext_zero") /\ new \in Data
    /\ sector' = [sector EXCEPT ![new] = EmptyDir]
    /\ at' = <<new, 1>>
    /\ pc' = AfterSlot(op.size)
    /\ UNCHANGED <<fat, op, first, prev, new, cur, count, second, failed, faults, files>>

\* "Root directory is full": no cluster, or its write failed.
ExtendFails ==
    /\ \/ Step("ext_alloc") /\ FreeEntries = {}
       \/ Step("ext_zero") /\ new \in Slack
    /\ Return
    /\ UNCHANGED <<fat, sector, second, failed, faults, files>>

\* Mutant: the next cluster is read after the entry has been cleared.
FreeOneCluster ==
    /\ pc \in {"free_old", "free_new", "free_deleted"} /\ second = <<>>
    /\ cur \in Clusters
    /\ SetFirstCopy(cur, FREE)
    /\ IF pc = "free_old"
       THEN /\ cur' = FREE
            /\ pc' = AfterSlot(op.size)
            /\ UNCHANGED <<op, at, first, prev, new, count>>
       ELSE Return
    /\ UNCHANGED <<sector, failed, faults, files>>

\* Mutant: the chain is followed for ever.
FreeSameCluster ==
    /\ pc \in {"free_old", "free_new", "free_deleted"} /\ second = <<>>
    /\ cur \in Clusters
    /\ SetFirstCopy(cur, FREE)
    /\ UNCHANGED <<sector, pc, local, failed, faults, files>>

\* One turn of fat_free_chain.
FreeCluster ==
    /\ pc \in {"free_old", "free_new", "free_deleted"} /\ second = <<>>
    /\ cur \in Clusters
    /\ SetFirstCopy(cur, FREE)
    /\ IF fat[1][cur] \in Clusters \/ pc = "free_old"
       THEN /\ cur' = fat[1][cur]
            /\ pc' = IF cur' \in Clusters THEN pc ELSE AfterSlot(op.size)
            /\ UNCHANGED <<op, at, first, prev, new, count>>
       ELSE Return
    /\ UNCHANGED <<sector, failed, faults, files>>

AllocCluster ==
    /\ Step("alloc")
    /\ \E x \in Clusters : fat_alloc_cluster(x) /\ new' = x
    /\ IF first = 0 THEN first' = new' /\ pc' = "data"
                    ELSE UNCHANGED first /\ pc' = "link"
    /\ UNCHANGED <<sector, op, at, prev, cur, count, failed, faults, files>>

LinkCluster ==
    /\ Step("link")
    /\ SetFirstCopy(prev, new)
    /\ pc' = "data"
    /\ UNCHANGED <<sector, local, failed, faults, files>>

WriteData ==
    /\ Step("data") /\ new \in Data
    /\ sector' = [sector EXCEPT ![new] = Block(op.name, op.value, count + 1)]
    /\ prev' = new
    /\ count' = count + 1
    /\ pc' = IF count' = op.size THEN "entry" ELSE "alloc"
    /\ UNCHANGED <<fat, op, at, first, new, cur, second, failed, faults, files>>

\* No free entry, or the write of a sector failed: the chain is freed.
NoSpace ==
    /\ \/ Step("alloc") /\ FreeEntries = {}
       \/ Step("data") /\ new \in Slack
    /\ IF first = 0 THEN Return
       ELSE cur' = first /\ pc' = "free_new" /\ UNCHANGED <<op, at, first, prev, new, count>>
    /\ failed' = (Cardinality(FreeEntries \cup Range(Chain(first))) >= op.size)
    /\ UNCHANGED <<fat, sector, second, faults, files>>

write_dir_entry ==
    /\ Step("entry")
    /\ sector' = [sector EXCEPT ![at[1]].slots[at[2]] = Slot(op.name, first, op.size)]
    /\ files' = [files EXCEPT ![op.name] =
                    [i \in 1..op.size |-> Block(op.name, op.value, i)]]
    /\ Return
    /\ UNCHANGED <<fat, second, failed, faults>>

(***************************************************************************)
(* fat32_delete_file.                                                      *)
(***************************************************************************)
\* Mutant: the chain is freed and the entry stays.
DeleteUnmarked(n) ==
    /\ Idle /\ find_entry(n) # {}
    /\ \E p \in find_entry(n) :
          IF Entry(p).first >= 2
          THEN /\ cur' = Entry(p).first /\ pc' = "free_deleted"
               /\ UNCHANGED <<op, at, first, prev, new, count>>
          ELSE Return
    /\ files' = [files EXCEPT ![n] = <<>>]
    /\ UNCHANGED <<fat, sector, second, failed, faults>>

Delete(n) ==
    /\ Idle /\ find_entry(n) # {}
    /\ \E p \in find_entry(n) :
          /\ sector' = [sector EXCEPT ![p[1]].slots[p[2]] = Slot(DELETED, 0, 0)]
          /\ IF Entry(p).first >= 2
             THEN /\ cur' = Entry(p).first /\ pc' = "free_deleted"
                  /\ UNCHANGED <<op, at, first, prev, new, count>>
             ELSE Return
    /\ files' = [files EXCEPT ![n] = <<>>]
    /\ UNCHANGED <<fat, second, failed, faults>>

(***************************************************************************)
(* Faults: the machine stops, or ata_read_sectors or ata_write_sectors     *)
(* returns -1.                                                             *)
(***************************************************************************)
\* Unless FaultsAnywhere, a fault spares the replacing of an existing file, which
\* would leave its entry with freed clusters, and a new directory cluster that
\* is linked and not yet cleared: old data would be read as entries.
Fault ==
    /\ faults < MaxFaults /\ ~Idle
    /\ FaultsAnywhere \/ (find_entry(op.name) = {} /\ pc # "ext_zero")
    /\ faults' = faults + 1

\* The operation is over; the disk stays as it is.
Abandon == Return /\ second' = <<>> /\ UNCHANGED <<fat, sector, failed, files>>

Crash == Fault /\ Abandon

\* The errors after which an operation returns at once, with -2, -3, -4, -6 or
\* -8, or, in fat_alloc_cluster for the first cluster, with -5: what it has
\* marked in the FAT so far is lost.
ErrorReturns ==
    /\ Fault
    /\ \/ pc \notin {"alloc", "link", "data"}
       \/ Step("link")
       \/ pc = "data" /\ second # <<>>
       \/ pc = "alloc" /\ first = 0
    /\ Abandon

\* A cluster cannot be allocated or written (-5, -7): the chain so far is freed.
\* The cluster whose second FAT entry failed is not in it.
ErrorFreesChain ==
    /\ Fault
    /\ \/ Step("alloc") /\ first # 0
       \/ Step("data")
       \/ pc = "link" /\ second # <<>>
    /\ cur' = first /\ pc' = "free_new" /\ second' = <<>>
    /\ UNCHANGED <<fat, sector, op, at, first, prev, new, count, failed, files>>

\* The FAT cannot be read in fat_next_cluster, which then answers FAT_EOC: the
\* rest of the chain is not freed, and the operation goes on.
FreeCutShort ==
    /\ pc \in {"free_old", "free_new", "free_deleted"} /\ second = <<>>
    /\ faults < MaxFaults /\ faults' = faults + 1
    /\ pc = "free_old" /\ Room => op.size <= Cardinality(FreeData \cup {cur})
    /\ SetFirstCopy(cur, FREE)
    /\ IF pc = "free_old"
       THEN /\ cur' = FAT_EOC /\ pc' = AfterSlot(op.size)
            /\ UNCHANGED <<op, at, first, prev, new, count>>
       ELSE Return
    /\ UNCHANGED <<sector, failed, files>>

(***************************************************************************)
(* The specification, from the volume make_disk.py makes, without files.   *)
(***************************************************************************)
Init ==
    /\ fat = [k \in 1..2 |->
                 [x \in Clusters |-> IF x = root_cluster THEN FAT_EOC ELSE FREE]]
    /\ sector = [x \in Data |-> EmptyDir]
    /\ pc = "idle" /\ second = <<>> /\ failed = FALSE /\ faults = 0
    /\ op = NoOp /\ at = <<>>
    /\ first = 0 /\ prev = 0 /\ new = 0 /\ cur = 0 /\ count = 0
    /\ files = [n \in Names |-> <<>>]

Call ==
    \E n \in Names, v \in Values, s \in 0..MaxSize :
        WriteExisting(n, v, s) \/ WriteNew(n, v, s) \/ WriteExtending(n, v, s)

Proceed ==
    \/ SetSecondCopy
    \/ ExtendAlloc \/ ExtendLink \/ ExtendZero \/ ExtendFails
    \/ FreeCluster \/ AllocCluster \/ LinkCluster \/ WriteData \/ NoSpace
    \/ write_dir_entry

Faults == Crash \/ ErrorReturns \/ ErrorFreesChain \/ FreeCutShort

Next == Call \/ (\E n \in Names : Delete(n)) \/ Proceed \/ Faults

Spec == Init /\ [][Next]_vars
FairSpec == Spec /\ WF_vars(Proceed)

(***************************************************************************)
(* Properties.                                                             *)
(***************************************************************************)
\* The types.
TypeOK ==
    /\ fat \in [1..2 -> [Clusters -> Links]]
    /\ DOMAIN sector = Data
    /\ {first, prev, new} \subseteq Clusters \cup {0}
    /\ cur \in Links
    /\ count \in 0..MaxSize /\ failed \in BOOLEAN
    /\ second = <<>> \/ second \in Clusters \X Links

\* The entry that a write is about to replace.
Replaced == IF pc \in {"free_old", "alloc", "link", "data", "entry", "free_new"}
            THEN {at} ELSE {}
Live == UNION {find_entry(n) : n \in Names}
Settled == Live \ Replaced

Building == IF pc \in {"alloc", "link", "data", "entry"} THEN Range(Chain(first)) ELSE {}
Owned(p) == Range(Chain(Entry(p).first))

\* At every write of a sector: no cluster belongs to two files, to a file and
\* to the directory, or to a file and to the chain that is being built.
NoSharedCluster ==
    /\ \A p, q \in Settled : p # q => Owned(p) \cap Owned(q) = {}
    /\ \A p \in Settled :
          Owned(p) \cap (Building \cup Range(Chain(root_cluster))) = {}

\* Every file but the one being replaced reads back as it was written last,
\* at every write of a sector.
ContentsKept ==
    \A n \in Names : find_entry(n) \cap Replaced = {} =>
        IF find_entry(n) = {} THEN files[n] = <<>>
        ELSE \A p \in find_entry(n) : Contents(p) = files[n]

\* Between operations the two copies of the FAT differ in at most as many
\* entries as there were faults; and if there was none, neither a stop nor a
\* sector that failed, every cluster in use belongs to a file or to the
\* directory: nothing is lost (fat32.c:56-77, 105-114).
VolumeConsistent ==
    Idle =>
        /\ Cardinality({x \in Clusters : fat[1][x] # fat[2][x]}) <= faults
        /\ faults = 0 => Clusters \ FreeEntries
                           = Range(Chain(root_cluster)) \cup UNION {Owned(p) : p \in Live}

\* Every cluster of the directory can be read.
DirectoryReadable == Range(Chain(root_cluster)) \subseteq Data

\* A write fails for want of space only if fat32_free_space reports less
\* space than it needs.
FreeSpaceUsable == ~failed

\* An operation comes to its end: no chain is followed for ever.
OperationEnds == (pc # "idle") ~> Idle
=============================================================================
