----------------------------- MODULE AtaProofs -----------------------------
(***************************************************************************)
(* Proofs about Ata, for any drive, sector size and number of sectors in a *)
(* call: what one client reads and writes.  The drive may be slow, stop    *)
(* answering, fail a command before it has its data, show its old status  *)
(* after a command and lose the power.                                     *)
(***************************************************************************)
EXTENDS Ata, FiniteSetTheorems, TLAPS

-----------------------------------------------------------------------------
(* The invariants.                                                         *)

Contents == Values \cup {Blank}
AllWords == Contents \cup {Garbage}
Wholes == {Sector(v) : v \in Contents}
Ops == {"read", "write"}
Arguments == [op : Ops \cup {"none"}, lba : Nat, count : Nat, value : Contents]
Labels == {"init", "init_status", "init_drq", "idle", "issue", "command",
           "drq", "transfer", "settle", "sent", "flush"}
Statuses == {"idle", "busy", "drq", "err"}
Drives == [st : Statuses, cmd : Ops \cup {"none", "identify", "flush"},
           lba : Nat, left : Nat, data : Seq(AllWords)]

AtaType ==
    /\ disk \in {"probing", "present", "absent"}
    /\ pc \in [Clients -> Labels] /\ call \in [Clients -> Arguments]
    /\ buf \in [Clients -> Seq(AllWords)]
    /\ regs \in [lba : Nat, count : Nat]
    /\ kind \in {"ata", "atapi", "none"}
    /\ drive \in Drives /\ shown \in Statuses
    /\ cache \in [Sectors -> Wholes \cup {NONE}]
    /\ medium \in [Sectors -> Wholes]
    /\ allowed \in [Sectors -> SUBSET Wholes]

\* Everything the drive holds, or is about to store, may be there.
Lawful(l) ==
    LOST \notin lags => /\ Stored(l) \in allowed[l]
                        /\ UNFLUSHED \notin lags => medium[l] \in allowed[l]

Justified ==
    /\ \A l \in Sectors : Lawful(l)
    /\ drive.cmd \in Ops => drive.left >= 1
    /\ drive.cmd = "write" /\ drive.st = "busy" /\ drive.data # NONE =>
          drive.lba \in Sectors /\ drive.data \in allowed[drive.lba]

InCall == {"issue", "command", "drq", "transfer", "settle", "sent", "flush"}

\* The call under way, the words moved by it, and the first d of its sectors.
K == call[Shell]
Moving == Len(buf[Shell])
Kept(d) ==
    \A l \in K.lba .. K.lba + d - 1 : l \in Sectors /\ Stored(l) = Sector(K.value)

\* A command that has ended, with all sectors or with an error.
Ended(d) == d = K.count /\ drive = Idle
Failed(d) == d < K.count /\ drive.st = "err"

\* A command given to a drive that still flushes is not heard.
Flushing == drive.cmd = "flush" /\ drive.st = "busy"
Ignored(d) == d = 0 /\ (drive = Idle \/ Flushing)

\* A write that has got d sectors: the drive has yet to store the last of them,
\* or waits for the next, or has part of it.
Pending(d) ==
    /\ d >= 1 /\ d <= K.count
    /\ drive.st = "busy" /\ drive.cmd = "write" /\ drive.data = Sector(K.value)
    /\ drive.lba = K.lba + d - 1 /\ drive.left = K.count - d + 1
    /\ drive.lba \in Sectors /\ Kept(d - 1)
Waiting(d) ==
    /\ d < K.count
    /\ drive.st \in {"busy", "drq"} /\ drive.cmd = "write" /\ drive.data = NONE
    /\ drive.lba = K.lba + d /\ drive.left = K.count - d
    /\ drive.st = "drq" => drive.lba \in Sectors
    /\ Kept(d)
Taking(d) ==
    /\ d < K.count
    /\ drive.st = "drq" /\ drive.cmd = "write"
    /\ Len(drive.data) < Words /\ \A i \in 1..Len(drive.data) : drive.data[i] = K.value
    /\ drive.lba = K.lba + d /\ drive.left = K.count - d
    /\ drive.lba \in Sectors /\ Kept(d)
    /\ Moving = d * Words + Len(drive.data)

WriteInv ==
    /\ pc[Shell] \in InCall =>
          \A l \in Sectors : l \in Span(K) => Sector(K.value) \in allowed[l]
    /\ pc[Shell] = "drq" => \E d \in Nat :
          /\ Moving = d * Words /\ d < K.count
          /\ Pending(d) \/ Waiting(d) \/ Failed(d) \/ Ignored(d)
    /\ pc[Shell] = "transfer" => \E d \in Nat : Taking(d)
    /\ pc[Shell] = "settle" => \E d \in Nat :
          /\ Moving = d * Words /\ d <= K.count
          /\ Pending(d) \/ Waiting(d) \/ Failed(d) \/ (Ended(d) /\ Kept(d))
    /\ pc[Shell] = "sent" => Pending(K.count) \/ (Ended(K.count) /\ Kept(K.count))
    /\ pc[Shell] = "flush" =>
          /\ Kept(K.count)
          /\ Flushing \/ (drive = Idle /\ \A l \in Sectors : cache[l] = NONE)

\* A read that has brought d sectors: the drive looks for the next, or offers
\* what is left of it.
Looking(d) ==
    /\ d < K.count
    /\ drive.cmd = "read" /\ drive.lba = K.lba + d /\ drive.left = K.count - d
    /\ \/ drive.st = "busy" /\ drive.data = NONE
       \/ drive.st = "drq" /\ drive.lba \in Sectors /\ drive.data = Stored(drive.lba)
Offering(d) ==
    /\ d < K.count
    /\ drive.cmd = "read" /\ drive.lba = K.lba + d /\ drive.left = K.count - d
    /\ drive.st = "drq" /\ drive.lba \in Sectors
    /\ Len(drive.data) \in 1..Words /\ Moving = d * Words + (Words - Len(drive.data))
    /\ \A j \in 1..Len(drive.data) :
          drive.data[j] = Stored(drive.lba)[Words - Len(drive.data) + j]

\* The i-th word of the buffer is the one it should be.
Right(i) ==
    LET l == K.lba + (i - 1) \div Words
    IN  l \in Sectors /\ buf[Shell][i] = Stored(l)[((i - 1) % Words) + 1]

ReadInv ==
    /\ pc[Shell] = "drq" => \E d \in Nat :
          /\ Moving = d * Words /\ d < K.count
          /\ Looking(d) \/ Failed(d) \/ Ignored(d)
    /\ pc[Shell] = "transfer" => \E d \in Nat : Offering(d)
    /\ pc[Shell] = "settle" => \E d \in Nat :
          /\ Moving = d * Words /\ d <= K.count
          /\ Looking(d) \/ Failed(d) \/ Ended(d)
    /\ pc[Shell] \notin {"sent", "flush"}
    /\ \A i \in 1..Moving : Right(i)

\* The status port shows the drive, or still what was before the last command;
\* between two calls the last command is a flush.
Lagging == drive.st = "busy" /\ shown \in {"idle", "err"}
StatusInv ==
    /\ pc[Shell] \notin {"transfer", "settle"} => shown = drive.st \/ Lagging
    /\ pc[Shell] \in {"idle", "issue", "command"} => (Lagging => drive.cmd = "flush")
    /\ pc[Shell] \in {"init", "init_status", "init_drq", "sent"} => shown = drive.st

\* Where a client is in a call, and what it has told the drive.
CallInv ==
    /\ pc[Shell] \in InCall =>
          K.op \in Ops /\ K.count > 0 /\ K.lba \in Lbas /\ disk = "present"
    /\ pc[Shell] \notin {"drq", "transfer", "settle", "sent", "flush"} => Moving = 0
    /\ pc[Shell] = "command" => /\ drive.st = "busy" => drive.cmd = "flush"
                                /\ regs = [lba |-> K.lba, count |-> K.count]
    /\ StatusInv
    /\ K.op = "write" => WriteInv
    /\ K.op = "read" => ReadInv

AtaInv == AtaType /\ Justified /\ CallInv

\* All is well until the DRQ of a transfer that was given up has misled a call.
AtaSound == STALE \notin lags => AtaInv
-----------------------------------------------------------------------------
(* Sectors and words.                                                      *)

LEMMA WordsNat == Words \in Nat \ {0} /\ MaxCount \in Nat \ {0}
  BY NumbersAssumption

LEMMA SectorFacts ==
  ASSUME NEW v \in Contents
  PROVE  /\ Sector(v) \in Seq(AllWords) /\ Len(Sector(v)) = Words /\ Sector(v) # NONE
         /\ \A i \in 1..Words : Sector(v)[i] = v
<1> DEFINE s == Sector(v)
<1>1. s = [i \in 1..Words |-> v]  BY DEF Sector
<1>2. v \in AllWords  BY DEF AllWords
<1> HIDE DEF s
<1>3. s \in [1..Words -> AllWords] /\ DOMAIN s = 1..Words /\ \A i \in 1..Words : s[i] = v
  BY <1>1, <1>2
<1>4. s \in Seq(AllWords)  BY <1>3, WordsNat
<1>5. DOMAIN s = 1..Len(s) /\ Len(s) \in Nat  BY <1>4
<1>6. Len(s) = Words  BY <1>3, <1>5, WordsNat
<1>7. s # NONE  BY <1>4, <1>6, WordsNat DEF NONE
<1> QED  BY <1>3, <1>4, <1>6, <1>7 DEF s

LEMMA WholeFacts ==
  ASSUME NEW s \in Wholes
  PROVE  s \in Seq(AllWords) /\ Len(s) = Words /\ s # NONE
  BY SectorFacts DEF Wholes

\* A sector's worth of the same word.
LEMMA FullSector ==
  ASSUME NEW v \in Contents, NEW s \in Seq(AllWords), Len(s) = Words,
         \A i \in 1..Words : s[i] = v
  PROVE  s = Sector(v)
<1>1. s = [i \in 1..Words |-> s[i]]  BY WordsNat
<1> QED  BY <1>1 DEF Sector

LEMMA StoredWhole ==
  ASSUME AtaType, NEW l \in Sectors
  PROVE  Stored(l) \in Wholes
  BY DEF AtaType, Stored

\* Counting words.
LEMMA CountWords ==
  ASSUME NEW d \in Nat, NEW m \in 0 .. Words - 1
  PROVE  (d * Words + m) \div Words = d /\ (d * Words + m) % Words = m
  BY WordsNat

LEMMA CountSectors ==
  ASSUME NEW d \in Nat
  PROVE  /\ (d + 1) * Words = d * Words + Words /\ d * Words \in Nat
         /\ ((d + 1) * Words) % Words = 0
<1>1. (d + 1) * Words = d * Words + Words /\ d * Words \in Nat  BY WordsNat
<1>2. d + 1 \in Nat /\ 0 \in 0 .. Words - 1  BY WordsNat
<1>3. ((d + 1) * Words + 0) % Words = 0  BY <1>2, CountWords
<1>4. (d + 1) * Words + 0 = (d + 1) * Words  BY <1>1, WordsNat
<1> QED  BY <1>1, <1>3, <1>4

LEMMA SameCount ==
  ASSUME NEW d \in Nat, NEW e \in Nat, d * Words = Words * e
  PROVE  d = e
<1>1. d * Words = e * Words  BY WordsNat
<1>2. (d * Words + 0) \div Words = d /\ (e * Words + 0) \div Words = e
  BY WordsNat, CountWords
<1>3. d * Words + 0 = e * Words + 0  BY <1>1, WordsNat
<1> QED  BY <1>2, <1>3

-----------------------------------------------------------------------------
(* The types, and what the drive may hold.                                 *)

LEMMA IdleDrive ==
  /\ Idle \in Drives /\ Idle.st = "idle" /\ Idle.cmd = "none" /\ Idle.data = NONE
  /\ LET e == [Idle EXCEPT !.st = "err"]
     IN  e \in Drives /\ e.st = "err" /\ e.cmd = "none" /\ e.data = NONE
<1>1. NONE \in Seq(AllWords)  BY DEF NONE
<1>2. "idle" \in Statuses /\ "err" \in Statuses /\ "none" \in Ops \cup {"none", "identify", "flush"}
  BY DEF Statuses
<1>3. Idle \in Drives  BY <1>1, <1>2 DEF Idle, Drives
<1>4. Idle.st = "idle" /\ Idle.cmd = "none" /\ Idle.data = NONE  BY DEF Idle
<1> DEFINE e == [Idle EXCEPT !.st = "err"]
<1>5. e \in Drives /\ e.st = "err" /\ e.cmd = Idle.cmd /\ e.data = Idle.data
  BY <1>2, <1>3 DEF Drives
<1> QED  BY <1>3, <1>4, <1>5

DriveWith(d, s, t) == [d EXCEPT !.st = s, !.data = t]

LEMMA DriveSet ==
  ASSUME NEW d \in Drives, NEW s \in Statuses, NEW t \in Seq(AllWords)
  PROVE  /\ DriveWith(d, s, t) \in Drives
         /\ DriveWith(d, s, t).st = s /\ DriveWith(d, s, t).data = t
         /\ DriveWith(d, s, t).cmd = d.cmd
         /\ DriveWith(d, s, t).lba = d.lba /\ DriveWith(d, s, t).left = d.left
<1> DEFINE e == [d EXCEPT !.st = s]
           n == [e EXCEPT !.data = t]
<1>1. e \in Drives /\ e.st = s /\ e.cmd = d.cmd /\ e.lba = d.lba /\ e.left = d.left
  BY DEF Drives
<1>2. /\ n \in Drives /\ n.st = e.st /\ n.data = t
      /\ n.cmd = e.cmd /\ n.lba = e.lba /\ n.left = e.left
  <2> HIDE DEF e
  <2> QED  BY <1>1 DEF Drives
<1>3. n = DriveWith(d, s, t)  BY DEF DriveWith
<1> HIDE DEF e, n
<1> QED  BY <1>1, <1>2, <1>3

\* On to the next sector.
LEMMA DriveNext ==
  ASSUME NEW d \in Drives, d.left >= 1, d.left # 1
  PROVE  LET n == [d EXCEPT !.lba = @ + 1, !.left = @ - 1, !.data = NONE]
         IN  /\ n \in Drives /\ n.st = d.st /\ n.data = NONE /\ n.cmd = d.cmd
             /\ n.lba = d.lba + 1 /\ n.left = d.left - 1 /\ n.left >= 1
<1> DEFINE e == [d EXCEPT !.lba = d.lba + 1]
           f == [e EXCEPT !.left = d.left - 1]
           n == [f EXCEPT !.data = NONE]
<1>0. d.lba + 1 \in Nat /\ d.left - 1 \in Nat /\ d.left - 1 >= 1 /\ NONE \in Seq(AllWords)
  BY DEF Drives, NONE
<1>1. e \in Drives /\ e.lba = d.lba + 1 /\ e.cmd = d.cmd /\ e.st = d.st
  BY <1>0 DEF Drives
<1>2. f \in Drives /\ f.lba = e.lba /\ f.cmd = e.cmd /\ f.st = e.st /\ f.left = d.left - 1
  <2> HIDE DEF e
  <2> QED  BY <1>0, <1>1 DEF Drives
<1>3. /\ n \in Drives /\ n.lba = f.lba /\ n.cmd = f.cmd /\ n.st = f.st /\ n.left = f.left
      /\ n.data = NONE
  <2> HIDE DEF f
  <2> QED  BY <1>0, <1>2 DEF Drives
<1>4. n = [d EXCEPT !.lba = @ + 1, !.left = @ - 1, !.data = NONE]  OBVIOUS
<1> HIDE DEF e, f, n
<1> QED  BY <1>0, <1>1, <1>2, <1>3, <1>4

LEMMA GotoType ==
  ASSUME pc \in [Clients -> Labels], NEW c \in Clients, NEW s \in Labels, Goto(c, s)
  PROVE  pc' \in [Clients -> Labels] /\ pc'[c] = s
  BY DEF Goto

LEMMA ReturnType ==
  ASSUME AtaType, NEW c \in Clients, Return(c)
  PROVE  /\ pc' \in [Clients -> Labels] /\ pc'[c] = "idle"
         /\ call' \in [Clients -> Arguments]
         /\ call'[c] = NoCall
         /\ buf' \in [Clients -> Seq(AllWords)] /\ buf'[c] = <<>>
<1>1. pc' \in [Clients -> Labels] /\ pc'[c] = "idle"
  BY GotoType DEF Return, AtaType, Labels
<1>2. NoCall \in Arguments
  BY DEF NoCall, Contents, Arguments
<1>3. <<>> \in Seq(AllWords)  OBVIOUS
<1> QED  BY <1>1, <1>2, <1>3 DEF Return, AtaType

LEMMA DriveHolds ==
  ASSUME AtaType, Justified, LateErrors = FALSE, Drive
  PROVE  AtaType' /\ Justified'
<1> USE DEF client, bounds
<1>a. ASSUME NEW d \in Drives, DriveStep(d),
             cache' \in [Sectors -> Wholes \cup {NONE}], medium' \in [Sectors -> Wholes]
      PROVE  AtaType'
  <2>1. d.st \in Statuses  BY DEF Drives
  <2> QED  BY <1>a, <2>1 DEF DriveStep, AtaType
<1>1. drive \in Drives /\ cache \in [Sectors -> Wholes \cup {NONE}] /\ medium \in [Sectors -> Wholes]
  BY DEF AtaType
<1>2. CASE DriveReady
  <2> DEFINE t == IF drive.cmd = "write" THEN NONE ELSE Stored(drive.lba)
             d == DriveWith(drive, "drq", t)
  <2>1. t \in Seq(AllWords)
    BY <1>2, StoredWhole, WholeFacts DEF DriveReady, NONE
  <2>2. DriveStep(d) /\ UNCHANGED <<cache, medium, lags>>  BY <1>2 DEF DriveReady, DriveWith
  <2> HIDE DEF t
  <2>0. "drq" \in Statuses  BY DEF Statuses
  <2>3. d \in Drives /\ d.st = "drq" /\ d.cmd = drive.cmd /\ d.left = drive.left
    BY <1>1, <2>0, <2>1, DriveSet
  <2> HIDE DEF d
  <2>4. AtaType'  BY <1>a, <1>1, <2>2, <2>3
  <2>5. Justified'  BY <2>2, <2>3 DEF DriveStep, Justified, Lawful, Stored
  <2> QED  BY <2>4, <2>5
<1>3. CASE DriveStores
  <2> DEFINE n == [drive EXCEPT !.lba = @ + 1, !.left = @ - 1, !.data = NONE]
             d == IF drive.left = 1 THEN Idle ELSE n
  <2>1. /\ DriveStep(d) /\ UNCHANGED <<medium, lags>>
        /\ cache' = [cache EXCEPT ![drive.lba] = drive.data]
    BY <1>3 DEF DriveStores
  <2>2. drive.st = "busy" /\ drive.cmd = "write" /\ Len(drive.data) = Words
    BY <1>3 DEF DriveStores, DriveStep
  <2>3. drive.data # NONE  BY <2>2, WordsNat DEF NONE
  <2>4. drive.lba \in Sectors /\ drive.data \in allowed[drive.lba] /\ drive.left >= 1
    BY <2>2, <2>3 DEF Justified, Ops
  <2>5. allowed[drive.lba] \subseteq Wholes  BY <2>4 DEF AtaType
  <2>6. cache' \in [Sectors -> Wholes \cup {NONE}]  BY <1>1, <2>1, <2>4, <2>5
  <2>7. drive.left # 1 => n \in Drives /\ n.data = NONE /\ n.left >= 1
    BY <1>1, <2>4, DriveNext
  <2>8. /\ d \in Drives /\ d.data = NONE
        /\ d.cmd \in Ops => d.left >= 1
    <3> HIDE DEF n
    <3> QED  BY <2>7, IdleDrive DEF Idle, Ops
  <2> HIDE DEF d
  <2>9. AtaType'  BY <1>a, <1>1, <2>1, <2>6, <2>8
  <2>10. ASSUME NEW l \in Sectors PROVE Lawful(l)'
    <3>1. Stored(l)' = IF l = drive.lba THEN drive.data ELSE Stored(l)
      BY <1>1, <2>1, <2>3, <2>4 DEF Stored
    <3>2. Lawful(l)  BY DEF Justified
    <3> QED  BY <2>1, <2>4, <3>1, <3>2 DEF DriveStep, Lawful
  <2>11. Justified'  BY <2>1, <2>8, <2>10 DEF DriveStep, Justified
  <2> QED  BY <2>9, <2>11
<1>4. CASE DriveFlushes
  <2>1. /\ DriveStep(Idle) /\ medium' = [l \in Sectors |-> Stored(l)]
        /\ cache' = [l \in Sectors |-> NONE] /\ lags' = lags \ {UNFLUSHED}
    BY <1>4 DEF DriveFlushes
  <2>2. medium' \in [Sectors -> Wholes]  BY <2>1, StoredWhole
  <2>3. cache' \in [Sectors -> Wholes \cup {NONE}]  BY <2>1
  <2>4. AtaType'  BY <1>a, <2>1, <2>2, <2>3, IdleDrive
  <2>6. ASSUME NEW l \in Sectors PROVE Lawful(l)'
    <3>1. cache'[l] = NONE /\ medium'[l] = Stored(l)  BY <2>1
    <3>2. Stored(l)' = Stored(l)  BY <3>1 DEF Stored
    <3>3. LOST \notin lags' => LOST \notin lags  BY <2>1 DEF LOST, UNFLUSHED
    <3>4. LOST \notin lags => Stored(l) \in allowed[l]  BY DEF Justified, Lawful
    <3> QED  BY <2>1, <3>1, <3>2, <3>3, <3>4 DEF DriveStep, Lawful
  <2>7. Justified'  BY <2>1, <2>6 DEF DriveStep, Justified, Idle, Ops
  <2> QED  BY <2>4, <2>7
<1>5. CASE DriveFails
  <2> DEFINE d == [Idle EXCEPT !.st = "err"]
  <2>1. DriveStep(d) /\ UNCHANGED <<cache, medium, lags>>  BY <1>5 DEF DriveFails
  <2>2. d \in Drives /\ d.cmd = "none"  BY IdleDrive
  <2> HIDE DEF d
  <2>3. AtaType'  BY <1>a, <1>1, <2>1, <2>2
  <2>4. Justified'  BY <2>1, <2>2 DEF DriveStep, Justified, Lawful, Stored, Ops
  <2> QED  BY <2>3, <2>4
<1>6. ASSUME NEW l \in Sectors, DriveWritesBack(l) PROVE AtaType' /\ Justified'
  <2>1. /\ cache[l] # NONE /\ medium' = [medium EXCEPT ![l] = cache[l]]
        /\ cache' = [cache EXCEPT ![l] = NONE]
        /\ UNCHANGED <<disk, pc, call, buf, regs, kind, drive, shown, allowed, lags>>
    BY <1>6 DEF DriveWritesBack
  <2>2. cache[l] \in Wholes  BY <1>1, <2>1
  <2>3. medium' \in [Sectors -> Wholes] /\ cache' \in [Sectors -> Wholes \cup {NONE}]
    BY <1>1, <2>1, <2>2
  <2>4. AtaType'  BY <2>1, <2>3 DEF AtaType
  <2>5. ASSUME NEW m \in Sectors PROVE Lawful(m)'
    <3>1. m = l => cache'[m] = NONE /\ medium'[m] = Stored(m)
      BY <1>1, <2>1 DEF Stored
    <3>2. m # l => cache'[m] = cache[m] /\ medium'[m] = medium[m]  BY <1>1, <2>1
    <3>3. Stored(m)' = Stored(m)  BY <3>1, <3>2 DEF Stored
    <3> QED  BY <2>1, <3>1, <3>2, <3>3 DEF Justified, Lawful
  <2>6. Justified'  BY <2>1, <2>5 DEF Justified
  <2> QED  BY <2>4, <2>6
<1>7. CASE StatusCatchesUp
  <2>1. drive.st \in Statuses  BY <1>1 DEF Drives
  <2> QED  BY <1>7, <2>1 DEF StatusCatchesUp, AtaType, Justified, Lawful, Stored
<1> QED  BY <1>2, <1>3, <1>4, <1>5, <1>6, <1>7 DEF Drive

-----------------------------------------------------------------------------
(* One client, and a drive that fails only before it has its data.         *)
Alone == Clients = {Shell} /\ LateErrors = FALSE

LEMMA LbasNat == Lbas \subseteq Nat
<1>1. Cardinality(Sectors) \in Nat  BY FS_CardinalityType, SectorsAssumption
<1> QED  BY <1>1, SectorsAssumption DEF Lbas

\* What the registers take of an address is all of it.
LEMMA LbaFits ==
  ASSUME NEW l \in Lbas
  PROVE  l \in Nat /\ l % LBA28 = l
<1>1. l \in 0 .. LBA28 - 1 /\ LBA28 \in Nat  BY LbasAssumption
<1> QED  BY <1>1

LEMMA IdentifyDrive ==
  LET e == [Idle EXCEPT !.st = "busy", !.cmd = "identify", !.left = 1]
  IN  e \in Drives /\ e.st = "busy" /\ e.cmd = "identify"
<1> DEFINE e == [Idle EXCEPT !.st = "busy", !.cmd = "identify", !.left = 1]
           f == [Idle EXCEPT !.st = "busy"]
           g == [f EXCEPT !.cmd = "identify"]
           h == [g EXCEPT !.left = 1]
<1>1. "busy" \in Statuses /\ "identify" \in Ops \cup {"none", "identify", "flush"}
  BY DEF Statuses
<1>2. f \in Drives /\ f.st = "busy"
  BY <1>1, IdleDrive DEF Drives
<1>3. g \in Drives /\ g.st = "busy" /\ g.cmd = "identify"
  <2> HIDE DEF f
  <2> QED  BY <1>1, <1>2 DEF Drives
<1>4. h \in Drives /\ h.st = "busy" /\ h.cmd = "identify"
  <2> HIDE DEF g
  <2> QED  BY <1>1, <1>3 DEF Drives
<1>5. h = e  OBVIOUS
<1> HIDE DEF e, f, g, h
<1> QED  BY <1>4, <1>5 DEF e

LEMMA InitHolds ==
  ASSUME AtaType, Justified, ata_init
  PROVE  AtaType' /\ Justified'
<1> USE DEF device, bounds
<1>0. Shell \in Clients  BY ClientsAssumption
<1>1. CASE InitIdentify
  <2>1. drive' \in Drives /\ drive'.cmd \notin Ops
    BY <1>1, IdleDrive, IdentifyDrive DEF InitIdentify, Ops
  <2>2. shown' \in Statuses  BY <1>1, <2>1 DEF InitIdentify, Drives
  <2>3. pc' \in [Clients -> Labels]
    BY <1>0, <1>1, GotoType DEF InitIdentify, AtaType, Labels
  <2>4. AtaType'  BY <1>1, <2>1, <2>2, <2>3 DEF InitIdentify, AtaType
  <2>5. Justified'  BY <1>1, <2>1 DEF InitIdentify, Justified, Lawful, Stored, Ops
  <2> QED  BY <2>4, <2>5
<1>2. CASE InitGivesUp
  <2>1. pc' \in [Clients -> Labels]
    BY <1>0, <1>2, GotoType DEF InitGivesUp, Absent, AtaType, Labels
  <2>2. AtaType'  BY <1>2, <2>1 DEF InitGivesUp, Absent, AtaType
  <2>3. Justified'  BY <1>2 DEF InitGivesUp, Justified, Lawful, Stored
  <2> QED  BY <2>2, <2>3
<1>3. CASE InitNotBusy
  <2>1. pc' \in [Clients -> Labels]
    BY <1>0, <1>3, GotoType DEF InitNotBusy, AtaType, Labels
  <2>2. AtaType'  BY <1>3, <2>1 DEF InitNotBusy, AtaType
  <2>3. Justified'  BY <1>3 DEF InitNotBusy, Justified, Lawful, Stored
  <2> QED  BY <2>2, <2>3
<1>4. CASE InitReads
  <2>1. pc' \in [Clients -> Labels]
    BY <1>0, <1>4, GotoType DEF InitReads, AtaType, Labels
  <2>2. drive' \in Drives /\ drive'.cmd \notin Ops /\ shown' \in Statuses
    BY <1>4, IdleDrive DEF InitReads, Ops, Statuses
  <2>3. AtaType'  BY <1>4, <2>1, <2>2 DEF InitReads, AtaType
  <2>4. Justified'  BY <1>4, <2>2 DEF InitReads, Justified, Lawful, Stored, Ops
  <2> QED  BY <2>3, <2>4
<1> QED  BY <1>1, <1>2, <1>3, <1>4 DEF ata_init

LEMMA NoCallType == NoCall \in Arguments /\ NoCall.op = "none"
  BY DEF NoCall, Contents, Arguments

LEMMA CrashHolds ==
  ASSUME AtaType, Justified, Crash
  PROVE  AtaType' /\ Justified'
<1>1. pc' \in [Clients -> Labels]  BY DEF Crash, Labels
<1>2. call' \in [Clients -> Arguments]  BY NoCallType DEF Crash
<1>3. buf' \in [Clients -> Seq(AllWords)]  BY DEF Crash
<1>4. drive' \in Drives /\ drive'.cmd \notin Ops /\ shown' \in Statuses
  BY IdleDrive DEF Crash, Ops, Statuses
<1>5. cache' = [l \in Sectors |-> NONE]  BY DEF Crash
<1>6. AtaType'  BY <1>1, <1>2, <1>3, <1>4, <1>5 DEF Crash, AtaType
<1>7. ASSUME NEW l \in Sectors PROVE Lawful(l)'
  <2>1. cache'[l] = NONE /\ medium' = medium /\ allowed' = allowed  BY <1>5 DEF Crash
  <2>2. Stored(l)' = medium[l]  BY <2>1 DEF Stored
  <2>3. LOST \notin lags' => LOST \notin lags /\ UNFLUSHED \notin lags
    BY DEF Crash, LOST, UNFLUSHED
  <2> QED  BY <2>1, <2>2, <2>3 DEF Justified, Lawful
<1>8. Justified'  BY <1>4, <1>7 DEF Justified, Ops
<1> QED  BY <1>6, <1>8

LEMMA CallHolds ==
  ASSUME AtaType, Justified, NEW c \in Clients, Calls(c)
  PROVE  /\ AtaType' /\ Justified'
         /\ pc[c] = "idle" /\ disk' = "present" /\ disk = "present" /\ pc'[c] = "issue"
         /\ call'[c].op \in Ops /\ call'[c].count > 0 /\ call'[c].lba \in Lbas
         /\ UNCHANGED <<buf, drive, shown>>
         /\ call'[c].op = "write" =>
              \A l \in Sectors : l \in Span(call'[c]) => Sector(call'[c].value) \in allowed'[l]
<1> USE DEF device
<1>1. PICK op \in Ops, l \in Lbas, n \in 1..MaxCount, v \in Contents : Call(c, op, l, n, v)
  BY DEF Calls, Ops, Contents
<1> DEFINE k == [op |-> op, lba |-> l, count |-> n, value |-> v]
<1>2. l \in Nat /\ n \in Nat /\ n > 0  BY LbasNat, WordsNat
<1>3. k \in Arguments /\ k.op = op /\ k.lba = l /\ k.count = n /\ k.value = v
  BY <1>2 DEF Arguments
<1>4. call' = [call EXCEPT ![c] = k] /\ pc[c] = "idle" /\ disk = "present"
  BY <1>1 DEF Call
<1> HIDE DEF k
<1>5. call' \in [Clients -> Arguments] /\ call'[c] = k
  BY <1>3, <1>4 DEF AtaType
<1>6. pc' \in [Clients -> Labels] /\ pc'[c] = "issue"
  BY <1>1, GotoType DEF Call, AtaType, Labels
<1>7. allowed' = [x \in Sectors |-> IF op = "write" /\ x \in Span(k)
                                   THEN allowed[x] \cup {Sector(v)} ELSE allowed[x]]
  <2>1. allowed' = [x \in Sectors |-> IF op = "write" /\ x \in Span(call'[c])
                                     THEN allowed[x] \cup {Sector(v)} ELSE allowed[x]]
    BY <1>1, Zenon DEF Call
  <2>2. Span(call'[c]) = Span(k)  BY <1>5
  <2> QED  BY <2>1, <2>2, Zenon
<1>8. Sector(v) \in Wholes  BY DEF Wholes
<1>9. allowed' \in [Sectors -> SUBSET Wholes] /\ \A x \in Sectors : allowed[x] \subseteq allowed'[x]
  BY <1>7, <1>8 DEF AtaType
<1>10. UNCHANGED <<disk, buf, regs, kind, drive, shown, cache, medium, lags>>  BY <1>1 DEF Call
<1>11. AtaType'  BY <1>5, <1>6, <1>9, <1>10 DEF AtaType
<1>12. Justified'
  <2>1. ASSUME NEW x \in Sectors PROVE Lawful(x)'
    BY <1>9, <1>10 DEF Justified, Lawful, Stored
  <2> QED  BY <1>9, <1>10, <2>1 DEF Justified
<1>13. op = "write" => \A x \in Sectors : x \in Span(k) => Sector(v) \in allowed'[x]
  BY <1>7
<1> QED  BY <1>2, <1>3, <1>4, <1>5, <1>6, <1>10, <1>11, <1>12, <1>13

-----------------------------------------------------------------------------
(* A word is moved.                                                        *)

LEMMA ShellTypes ==
  ASSUME AtaType
  PROVE  /\ Shell \in Clients /\ K \in Arguments /\ K.count \in Nat /\ K.lba \in Nat
         /\ K.value \in Contents /\ K.value \in AllWords
         /\ buf[Shell] \in Seq(AllWords) /\ Moving \in Nat
         /\ drive.lba \in Nat /\ drive.left \in Nat /\ drive.data \in Seq(AllWords)
         /\ Len(drive.data) \in Nat
<1>1. Shell \in Clients  BY ClientsAssumption
<1>2. K \in Arguments /\ buf[Shell] \in Seq(AllWords)  BY <1>1 DEF AtaType, K
<1>3. K.count \in Nat /\ K.lba \in Nat /\ K.value \in Contents
  BY <1>2 DEF Arguments
<1>4. K.value \in AllWords  BY <1>3 DEF AllWords
<1>5. drive.lba \in Nat /\ drive.left \in Nat /\ drive.data \in Seq(AllWords)
  BY DEF AtaType, Drives
<1>6. Len(drive.data) \in Nat /\ Moving \in Nat  BY <1>2, <1>5 DEF Moving
<1> QED  BY <1>1, <1>2, <1>3, <1>4, <1>5, <1>6

LEMMA SameKept ==
  ASSUME call' = call, cache' = cache, medium' = medium, NEW d \in Nat, Kept(d)
  PROVE  Kept(d)'
  BY DEF Kept, K, Stored

\* The word that goes out or comes in is one more in the buffer.
LEMMA BufferGrows ==
  ASSUME AtaType, NEW word \in AllWords,
         buf' = [buf EXCEPT ![Shell] = Append(@, word)],
         Goto(Shell, IF Len(buf'[Shell]) % Words = 0 THEN "settle" ELSE "transfer")
  PROVE  /\ buf' \in [Clients -> Seq(AllWords)] /\ pc' \in [Clients -> Labels]
         /\ buf'[Shell] = Append(buf[Shell], word) /\ Moving' = Moving + 1
         /\ pc'[Shell] = IF Moving' % Words = 0 THEN "settle" ELSE "transfer"
<1>1. buf'[Shell] = Append(buf[Shell], word) /\ buf' \in [Clients -> Seq(AllWords)]
  BY ShellTypes DEF AtaType
<1>2. Len(buf'[Shell]) = Moving + 1 /\ Moving' = Len(buf'[Shell])
  BY <1>1, ShellTypes DEF Moving
<1> DEFINE s == IF Len(buf'[Shell]) % Words = 0 THEN "settle" ELSE "transfer"
<1>3. s \in Labels  BY DEF Labels
<1>4. Goto(Shell, s)  OBVIOUS
<1> HIDE DEF s
<1>5. pc' \in [Clients -> Labels] /\ pc'[Shell] = s
  BY <1>3, <1>4, GotoType, ShellTypes DEF AtaType
<1> QED  BY <1>1, <1>2, <1>5 DEF s

LEMMA TransferWrites ==
  ASSUME AtaType, NEW d \in Nat, Taking(d), K.op = "write", TransferWord(Shell)
  PROVE  /\ buf' \in [Clients -> Seq(AllWords)] /\ pc' \in [Clients -> Labels]
         /\ drive' \in Drives /\ drive'.cmd = "write" /\ drive'.left = drive.left
         /\ \/ pc'[Shell] = "transfer" /\ Taking(d)'
            \/ pc'[Shell] = "settle" /\ Pending(d + 1)' /\ Moving' = (d + 1) * Words
<1> DEFINE t == Append(drive.data, K.value)
           e == [drive EXCEPT !.data = t]
           f == [e EXCEPT !.st = "busy"]
<1>1. /\ drive.st = "drq" /\ drive.cmd = "write" /\ Len(drive.data) < Words
      /\ \A i \in 1..Len(drive.data) : drive.data[i] = K.value
      /\ Kept(d) /\ Moving = d * Words + Len(drive.data)
  BY DEF Taking
<1>2. Offers(K.op)  BY <1>1 DEF Offers
<1>3. /\ buf' = [buf EXCEPT ![Shell] = Append(@, K.value)] /\ drive' = Moved(e)
      /\ Goto(Shell, IF Len(buf'[Shell]) % Words = 0 THEN "settle" ELSE "transfer")
      /\ UNCHANGED <<call, cache, medium>>
  BY <1>2 DEF TransferWord, K
<1>4. /\ t \in Seq(AllWords) /\ Len(t) = Len(drive.data) + 1
      /\ \A i \in 1..Len(t) : t[i] = K.value
  <2>1. t \in Seq(AllWords) /\ Len(t) = Len(drive.data) + 1  BY ShellTypes
  <2>2. ASSUME NEW i \in 1..Len(t) PROVE t[i] = K.value
    <3>1. CASE i = Len(t)  BY <2>1, <3>1, ShellTypes
    <3>2. CASE i # Len(t)
      <4>1. i \in 1..Len(drive.data)  BY <2>1, <3>2, ShellTypes
      <4> QED  BY <1>1, <4>1, ShellTypes
    <3> QED  BY <3>1, <3>2
  <2> QED  BY <2>1, <2>2
<1>5. /\ e \in Drives /\ e.st = "drq" /\ e.cmd = "write" /\ e.data = t
      /\ e.lba = drive.lba /\ e.left = drive.left
  <2> HIDE DEF t
  <2> QED  BY <1>1, <1>4 DEF AtaType, Drives
<1>6. /\ f \in Drives /\ f.st = "busy" /\ f.cmd = "write" /\ f.data = t
      /\ f.lba = drive.lba /\ f.left = drive.left
  <2>1. "busy" \in Statuses  BY DEF Statuses
  <2> HIDE DEF e, t
  <2> QED  BY <1>5, <2>1 DEF Drives
<1>7. drive' = IF Len(t) = Words THEN f ELSE e
  <2>1. AfterSector = "busy"  BY <1>1 DEF AfterSector
  <2> HIDE DEF e, t
  <2> QED  BY <1>3, <1>5, <2>1 DEF Moved, SectorMoved
<1>8. /\ buf' \in [Clients -> Seq(AllWords)] /\ pc' \in [Clients -> Labels]
      /\ Moving' = Moving + 1
      /\ pc'[Shell] = IF Moving' % Words = 0 THEN "settle" ELSE "transfer"
  BY <1>3, BufferGrows, ShellTypes
<1>9. d * Words \in Nat /\ Moving' = d * Words + Len(t)
  <2> DEFINE p == d * Words
  <2>1. p \in Nat /\ Moving = p + Len(drive.data)  BY <1>1, CountSectors
  <2> HIDE DEF p, t
  <2>2. Moving' = p + Len(t)  BY <1>4, <1>8, <2>1, ShellTypes
  <2> QED  BY <2>1, <2>2 DEF p
<1>10. K' = K /\ Kept(d)'  BY <1>1, <1>3, SameKept DEF K
<1> HIDE DEF e, f, t
<1>11. CASE Len(t) = Words
  <2>1. Moving' = (d + 1) * Words /\ Moving' % Words = 0
    BY <1>9, <1>11, CountSectors
  <2>2. t = Sector(K.value)  BY <1>4, <1>11, FullSector, ShellTypes
  <2>3. drive' = f  BY <1>7, <1>11
  <2>4. Pending(d + 1)'
    <3>1. d + 1 >= 1 /\ d + 1 <= K.count /\ (d + 1) - 1 = d
      BY ShellTypes DEF Taking
    <3>2. /\ f.lba = K.lba + (d + 1) - 1 /\ f.left = K.count - (d + 1) + 1
          /\ f.lba \in Sectors
      BY <1>6, ShellTypes DEF Taking
    <3> QED  BY <1>6, <1>10, <2>2, <2>3, <3>1, <3>2 DEF Pending
  <2> QED  BY <1>6, <1>8, <2>1, <2>3, <2>4
<1>12. CASE Len(t) # Words
  <2>1. Len(t) \in 0 .. Words - 1  BY <1>1, <1>4, <1>12, WordsNat, ShellTypes
  <2>2. Moving' % Words # 0
    <3>1. (d * Words + Len(t)) % Words = Len(t)  BY <2>1, CountWords
    <3>2. Len(t) # 0  BY <1>4, ShellTypes
    <3> QED  BY <1>9, <3>1, <3>2
  <2>3. drive' = e  BY <1>7, <1>12
  <2>4. Len(t) < Words  BY <2>1, WordsNat
  <2>5. Taking(d)'
    BY <1>4, <1>5, <1>9, <1>10, <2>3, <2>4 DEF Taking
  <2> QED  BY <1>5, <1>8, <2>2, <2>3, <2>5
<1> QED  BY <1>11, <1>12

LEMMA FirstAndRest ==
  ASSUME NEW S, NEW t \in Seq(S), Len(t) >= 1
  PROVE  /\ Head(t) = t[1] /\ Head(t) \in S
         /\ Tail(t) \in Seq(S) /\ Len(Tail(t)) = Len(t) - 1
         /\ \A j \in 1..Len(t) - 1 : Tail(t)[j] = t[j + 1]
<1>1. t # <<>> /\ 1 \in DOMAIN t  OBVIOUS
<1> QED  BY <1>1

\* The drive goes on to look for the next sector.
LEMMA DriveLooks ==
  ASSUME NEW e \in Drives, e.left > 1
  PROVE  LET n == [e EXCEPT !.st = "busy", !.lba = @ + 1, !.left = @ - 1, !.data = NONE]
         IN  /\ n \in Drives /\ n.st = "busy" /\ n.data = NONE /\ n.cmd = e.cmd
             /\ n.lba = e.lba + 1 /\ n.left = e.left - 1
<1> DEFINE b == [e EXCEPT !.st = "busy"]
           n == [b EXCEPT !.lba = @ + 1, !.left = @ - 1, !.data = NONE]
<1>1. "busy" \in Statuses /\ e.left \in Nat  BY DEF Statuses, Drives
<1>2. b \in Drives /\ b.st = "busy" /\ b.cmd = e.cmd /\ b.lba = e.lba /\ b.left = e.left
  BY <1>1 DEF Drives
<1>3. /\ n \in Drives /\ n.st = b.st /\ n.data = NONE /\ n.cmd = b.cmd
      /\ n.lba = b.lba + 1 /\ n.left = b.left - 1
  <2>1. b.left >= 1 /\ b.left # 1  BY <1>1, <1>2
  <2> HIDE DEF b
  <2> QED  BY <1>2, <2>1, DriveNext
<1>4. n = [e EXCEPT !.st = "busy", !.lba = @ + 1, !.left = @ - 1, !.data = NONE]  OBVIOUS
<1> HIDE DEF b, n
<1> QED  BY <1>2, <1>3, <1>4

LEMMA TransferReads ==
  ASSUME AtaType, NEW d \in Nat, Offering(d), K.op = "read", TransferWord(Shell),
         \A i \in 1..Moving : Right(i)
  PROVE  /\ buf' \in [Clients -> Seq(AllWords)] /\ pc' \in [Clients -> Labels]
         /\ drive' \in Drives /\ drive'.cmd # "write"
         /\ drive'.cmd \in Ops => drive'.left >= 1
         /\ \A i \in 1..Moving' : Right(i)'
         /\ \/ pc'[Shell] = "transfer" /\ Offering(d)'
            \/ /\ pc'[Shell] = "settle" /\ Moving' = (d + 1) * Words /\ d + 1 <= K'.count
               /\ Looking(d + 1)' \/ Ended(d + 1)'
<1> DEFINE n == Len(drive.data)
           p == d * Words
           word == Head(drive.data)
           t == Tail(drive.data)
           e == [drive EXCEPT !.data = t]
           f == [e EXCEPT !.st = "busy", !.lba = @ + 1, !.left = @ - 1, !.data = NONE]
           l == K.lba + d
<1>1. /\ drive.st = "drq" /\ drive.cmd = "read" /\ n \in 1..Words /\ d < K.count
      /\ drive.lba = l /\ l \in Sectors /\ drive.left = K.count - d
      /\ Moving = p + (Words - n)
      /\ \A j \in 1..n : drive.data[j] = Stored(l)[Words - n + j]
  BY DEF Offering
<1>a. Moving = p + (Words - n)  BY <1>1
<1>2. Offers(K.op) /\ Offers("read")  BY <1>1 DEF Offers
<1>3. /\ buf' = [buf EXCEPT ![Shell] = Append(@, word)] /\ drive' = Moved(e)
      /\ Goto(Shell, IF Len(buf'[Shell]) % Words = 0 THEN "settle" ELSE "transfer")
      /\ UNCHANGED <<call, cache, medium>>
  BY <1>2 DEF TransferWord, K
<1>4. p \in Nat /\ n \in Nat /\ n >= 1 /\ n <= Words /\ Moving \in Nat
  BY <1>1, CountSectors, ShellTypes, WordsNat
<1>5. /\ word = drive.data[1] /\ word \in AllWords
      /\ t \in Seq(AllWords) /\ Len(t) = n - 1
      /\ \A j \in 1..n - 1 : t[j] = drive.data[j + 1]
  BY <1>4, FirstAndRest, ShellTypes
<1> HIDE DEF word, t, p
<1>6. /\ e \in Drives /\ e.st = "drq" /\ e.cmd = "read" /\ e.data = t
      /\ e.lba = l /\ e.left = drive.left
  BY <1>1, <1>5 DEF AtaType, Drives
<1>7. /\ buf' \in [Clients -> Seq(AllWords)] /\ pc' \in [Clients -> Labels]
      /\ buf'[Shell] = Append(buf[Shell], word) /\ Moving' = Moving + 1
      /\ pc'[Shell] = IF Moving' % Words = 0 THEN "settle" ELSE "transfer"
  BY <1>3, <1>5, BufferGrows
<1>8. K' = K /\ \A x : Stored(x)' = Stored(x)  BY <1>3 DEF K, Stored
<1>9. word = Stored(l)[Words - n + 1]  BY <1>1, <1>4, <1>5
<1>10. ASSUME NEW i \in 1..Moving' PROVE Right(i)'
  <2>1. CASE i = Moving + 1
    <3>1. i - 1 = p + (Words - n) /\ Words - n \in 0 .. Words - 1
      <4> HIDE DEF n
      <4> QED  BY <1>a, <1>4, <2>1, WordsNat
    <3>2. (p + (Words - n)) \div Words = d /\ (p + (Words - n)) % Words = Words - n
      BY <3>1, CountWords DEF p
    <3>3. (i - 1) \div Words = d /\ (i - 1) % Words = Words - n
      BY <3>1, <3>2
    <3>4. buf'[Shell][i] = word  BY <1>7, <2>1, ShellTypes DEF Moving
    <3> QED  BY <1>1, <1>8, <1>9, <3>3, <3>4 DEF Right
  <2>2. CASE i # Moving + 1
    <3>1. i \in 1..Moving  BY <1>4, <1>7, <2>2
    <3>2. buf'[Shell][i] = buf[Shell][i]  BY <1>7, <3>1, ShellTypes DEF Moving
    <3>3. Right(i)  BY <3>1
    <3> HIDE DEF l
    <3> QED  BY <1>8, <3>2, <3>3 DEF Right
  <2> QED  BY <2>1, <2>2
<1>11. drive' = IF Len(t) # 0 THEN e ELSE IF drive.left > 1 THEN f ELSE Idle
  <2>1. AfterSector = IF drive.left > 1 THEN "busy" ELSE "idle"
    BY <1>1 DEF AfterSector
  <2> HIDE DEF e
  <2> QED  BY <1>3, <1>6, <2>1 DEF Moved, SectorMoved
<1>12. e.left > 1 => /\ f \in Drives /\ f.st = "busy" /\ f.data = NONE /\ f.cmd = e.cmd
                     /\ f.lba = e.lba + 1 /\ f.left = e.left - 1
  <2> HIDE DEF e
  <2> QED  BY <1>6, DriveLooks
<1> HIDE DEF e, f
<1>13. CASE n = 1
  <2>1. Moving' = (d + 1) * Words /\ Moving' % Words = 0
    <3>1. Moving' = p + Words  BY <1>1, <1>4, <1>7, <1>13, WordsNat
    <3>2. (d + 1) * Words = p + Words /\ ((d + 1) * Words) % Words = 0
      BY CountSectors DEF p
    <3> QED  BY <3>1, <3>2
  <2>2. d + 1 <= K.count  BY <1>1, ShellTypes
  <2>3. drive' = IF drive.left > 1 THEN f ELSE Idle  BY <1>5, <1>11, <1>13
  <2>4. CASE drive.left > 1
    <3>1. /\ f \in Drives /\ f.st = "busy" /\ f.data = NONE /\ f.cmd = "read"
          /\ f.lba = l + 1 /\ f.left = drive.left - 1 /\ drive' = f
      BY <1>6, <1>12, <2>3, <2>4
    <3>2. /\ f.lba = K.lba + (d + 1) /\ f.left = K.count - (d + 1) /\ d + 1 < K.count
          /\ f.left >= 1
      <4>1. /\ f.lba = l + 1 /\ f.left = drive.left - 1 /\ drive.left > 1
            /\ drive.left = K.count - d /\ K.count \in Nat /\ K.lba \in Nat
        BY <1>1, <2>4, <3>1, ShellTypes
      <4> QED  BY <4>1
    <3>3. Looking(d + 1)'  BY <1>8, <3>1, <3>2 DEF Looking
    <3> QED  BY <1>7, <1>8, <1>10, <2>1, <2>2, <3>1, <3>2, <3>3
  <2>5. CASE ~(drive.left > 1)
    <3>1. drive' = Idle  BY <2>3, <2>5
    <3>2. d + 1 = K.count  BY <1>1, <2>5, ShellTypes
    <3>3. Ended(d + 1)'  BY <1>8, <3>1, <3>2 DEF Ended, Idle
    <3>4. drive' \in Drives /\ drive'.cmd = "none"  BY <3>1, IdleDrive
    <3> QED  BY <1>7, <1>8, <1>10, <2>1, <2>2, <3>3, <3>4 DEF Ops
  <2> QED  BY <2>4, <2>5
<1>14. CASE n # 1
  <2>1. drive' = e  BY <1>4, <1>5, <1>11, <1>14
  <2>2. Moving' = p + (Words - (n - 1)) /\ Words - (n - 1) \in 0 .. Words - 1
    <3>1. Moving' = Moving + 1  BY <1>7
    <3> HIDE DEF n
    <3> QED  BY <1>a, <1>4, <1>14, <3>1, WordsNat
  <2>3. (p + (Words - (n - 1))) % Words = Words - (n - 1)
    BY <2>2, CountWords DEF p
  <2>4. Words - (n - 1) # 0  BY <1>4, WordsNat
  <2>5. pc'[Shell] = "transfer"  BY <1>7, <2>2, <2>3, <2>4
  <2>6. ASSUME NEW j \in 1..Len(t) PROVE t[j] = Stored(l)[Words - Len(t) + j]
    <3>1. j + 1 \in 1..n /\ j \in 1..n - 1  BY <1>4, <1>5
    <3>2. t[j] = drive.data[j + 1]  BY <1>5, <3>1
    <3>3. drive.data[j + 1] = Stored(l)[Words - n + (j + 1)]  BY <1>1, <3>1
    <3>4. Words - n + (j + 1) = Words - Len(t) + j  BY <1>4, <1>5, WordsNat
    <3> QED  BY <3>2, <3>3, <3>4
  <2>7. Len(t) \in 1..Words /\ Moving' = p + (Words - Len(t))
    BY <1>4, <1>5, <1>14, <2>2, WordsNat
  <2>8. Offering(d)'
    <3>1. Moving' = d * Words + (Words - Len(t))  BY <2>7 DEF p
    <3> QED  BY <1>1, <1>6, <1>8, <2>1, <2>6, <2>7, <3>1 DEF Offering
  <2>9. e.left >= 1  BY <1>1, <1>6, ShellTypes
  <2> QED  BY <1>6, <1>7, <1>10, <2>1, <2>5, <2>8, <2>9
<1> QED  BY <1>13, <1>14

-----------------------------------------------------------------------------
(* The steps of a call: types, and what the drive may hold.                *)

\* A command is taken: the drive is not busy.
LEMMA CommandTaken ==
  ASSUME AtaType, drive.st # "busy",
         NEW cmd \in Ops \cup {"flush"}, Command(cmd)
  PROVE  /\ drive' \in Drives /\ drive'.st = "busy"
         /\ drive'.cmd = cmd /\ drive'.lba = regs.lba /\ drive'.left = regs.count
         /\ drive'.data = NONE
<1>1. drive' = [st |-> "busy", cmd |-> cmd, lba |-> regs.lba, left |-> regs.count, data |-> NONE]
  BY DEF Command
<1>2. regs.lba \in Nat /\ regs.count \in Nat  BY DEF AtaType
<1>3. NONE \in Seq(AllWords) /\ "busy" \in Statuses  BY DEF NONE, Statuses
<1>4. drive' \in Drives  BY <1>1, <1>2, <1>3 DEF Drives
<1> QED  BY <1>1, <1>4

\* The status may stay as it was, but the DRQ of an old transfer does not.
LEMMA CommandShows ==
  ASSUME AtaType, NEW cmd, Command(cmd), STALE \notin lags', shown = drive.st \/ Lagging
  PROVE  /\ lags' = lags /\ shown' \in Statuses /\ shown' # "drq"
         /\ drive.st = "busy" => drive' = drive
<1>1. shown \in Statuses /\ "busy" \in Statuses  BY DEF AtaType, Statuses
<1>2. shown' \in {shown, "busy"} /\ (drive.st = "busy" => drive' = drive)  BY DEF Command
<1>3. /\ lags' = IF drive.st = "drq" /\ shown' = "drq" THEN lags \cup {STALE} ELSE lags
      /\ ~(drive.st = "drq" /\ shown' = "drq")
  BY DEF Command
<1>4. shown = "drq" => drive.st = "drq"  BY DEF Lagging
<1> QED  BY <1>1, <1>2, <1>3, <1>4

LEMMA QuietHolds ==
  ASSUME AtaType, Justified,
         pc' \in [Clients -> Labels], call' \in [Clients -> Arguments],
         buf' \in [Clients -> Seq(AllWords)], regs' \in [lba : Nat, count : Nat],
         shown' \in {shown, drive.st},
         UNCHANGED <<disk, kind, drive, cache, medium, allowed, lags>>
  PROVE  AtaType' /\ Justified'
<1>1. shown' \in Statuses  BY DEF AtaType, Drives
<1> QED  BY <1>1 DEF AtaType, Justified, Lawful, Stored

\* When a write returns, the drive has its sectors; it has them on the medium,
\* or still flushes.
LEMMA WriteDone ==
  ASSUME AtaType, CallInv, WriteReturns(Shell)
  PROVE  /\ Flushing \/ (drive = Idle /\ \A l \in Sectors : cache[l] = NONE)
         /\ \A l \in Span(K) : l \in Sectors /\ Stored(l) = Sector(K.value)
<1>1. pc[Shell] = "flush"  BY DEF WriteReturns
<1>2. K.op = "write"
  BY <1>1 DEF CallInv, ReadInv, Ops, InCall
<1>3. WriteInv  BY <1>1, <1>2 DEF CallInv
<1> QED  BY <1>1, <1>3 DEF WriteInv, Kept, Span

LEMMA ClientHolds ==
  ASSUME AtaInv, ClientStep(Shell), STALE \notin lags'
  PROVE  AtaType' /\ Justified'
<1> USE DEF device, bounds
<1>0. AtaType /\ Justified /\ CallInv /\ Shell \in Clients  BY ShellTypes DEF AtaInv
<1>a. ASSUME NEW s \in Labels, Goto(Shell, s) PROVE pc' \in [Clients -> Labels]
  BY <1>0, <1>a, GotoType DEF AtaType
<1>b. {"command", "drq", "transfer", "settle", "sent", "flush"} \subseteq Labels
  BY DEF Labels
<1>1. CASE IssueRegisters(Shell)
  <2>0. K.lba \in Lbas /\ K.count \in Nat
    BY <1>0, <1>1, ShellTypes DEF IssueRegisters, CallInv, InCall
  <2>1. pc' \in [Clients -> Labels] /\ regs' \in [lba : Nat, count : Nat]
    BY <1>1, <1>a, <1>b, <2>0, LbaFits DEF IssueRegisters, K
  <2>2. UNCHANGED <<disk, call, buf, kind, drive, shown, cache, medium, allowed, lags>>
    BY <1>1 DEF IssueRegisters
  <2> QED  BY <1>0, <2>1, <2>2, QuietHolds DEF AtaType
<1>2. CASE IssueCommand(Shell)
  <2>1. /\ regs = [lba |-> K.lba, count |-> K.count] /\ K.count > 0 /\ K.op \in Ops
        /\ shown = drive.st \/ Lagging
    BY <1>0, <1>2 DEF IssueCommand, CallInv, StatusInv, InCall
  <2>2. UNCHANGED <<disk, call, buf, regs, kind, cache, medium, allowed>> /\ Command(K.op)
    BY <1>2 DEF IssueCommand, K
  <2>3. lags' = lags /\ shown' \in Statuses /\ (drive.st = "busy" => drive' = drive)
    BY <1>0, <2>1, <2>2, CommandShows
  <2>4. drive.st # "busy" => drive' \in Drives /\ drive'.left = K.count /\ drive'.data = NONE
    BY <1>0, <2>1, <2>2, CommandTaken
  <2>5. pc' \in [Clients -> Labels]  BY <1>2, <1>a, <1>b DEF IssueCommand
  <2>6. AtaType'  BY <1>0, <2>2, <2>3, <2>4, <2>5 DEF AtaType
  <2>7. K.count >= 1  BY <1>0, <2>1, ShellTypes
  <2>8. Justified'  BY <1>0, <2>2, <2>3, <2>4, <2>7 DEF Justified, Lawful, Stored
  <2> QED  BY <2>6, <2>8
<1>3. CASE WaitDrq(Shell)
  <2>1. pc' \in [Clients -> Labels]  BY <1>3, <1>a, <1>b DEF WaitDrq
  <2>2. UNCHANGED <<disk, call, buf, regs, kind, drive, shown, cache, medium, allowed, lags>>
    BY <1>3 DEF WaitDrq
  <2> QED  BY <1>0, <2>1, <2>2, QuietHolds DEF AtaType
<1>4. CASE CallFails(Shell) \/ Timeout(Shell)
  <2>1. /\ pc' \in [Clients -> Labels] /\ call' \in [Clients -> Arguments]
        /\ buf' \in [Clients -> Seq(AllWords)]
    BY <1>0, <1>4, ReturnType DEF CallFails, Timeout
  <2>2. UNCHANGED <<disk, regs, kind, drive, cache, medium, allowed, lags>> /\ shown' = drive.st
    BY <1>4 DEF CallFails, Timeout, LagPasses
  <2> QED  BY <1>0, <2>1, <2>2, QuietHolds DEF AtaType
<1>5. CASE TransferWord(Shell)
  <2>1. /\ pc[Shell] = "transfer" /\ shown' \in {shown, drive'.st}
        /\ UNCHANGED <<disk, call, regs, kind, cache, medium, allowed, lags>>
    BY <1>5 DEF TransferWord
  <2>b. \A l \in Sectors : Lawful(l)'  BY <1>0, <2>1 DEF Justified, Lawful, Stored
  <2>2. K.op \in Ops  BY <1>0, <2>1 DEF CallInv, InCall
  <2>a. ASSUME drive' \in Drives, pc' \in [Clients -> Labels], buf' \in [Clients -> Seq(AllWords)]
        PROVE  AtaType'
    <3>1. shown' \in Statuses  BY <1>0, <2>1, <2>a DEF AtaType, Drives
    <3> QED  BY <1>0, <2>1, <2>a, <3>1 DEF AtaType
  <2>3. CASE K.op = "write"
    <3>1. WriteInv  BY <1>0, <2>3 DEF CallInv
    <3>2. PICK d \in Nat : Taking(d)  BY <2>1, <3>1 DEF WriteInv
    <3>3. /\ buf' \in [Clients -> Seq(AllWords)] /\ pc' \in [Clients -> Labels]
          /\ drive' \in Drives /\ drive'.cmd = "write" /\ drive'.left = drive.left
          /\ \/ pc'[Shell] = "transfer" /\ Taking(d)'
             \/ pc'[Shell] = "settle" /\ Pending(d + 1)' /\ Moving' = (d + 1) * Words
      BY <1>0, <1>5, <2>3, <3>2, TransferWrites
    <3>4. AtaType'  BY <2>a, <3>3
    <3>5. drive'.left >= 1
      BY <1>0, <3>2, <3>3, ShellTypes DEF Taking
    <3>6. K' = K  BY <2>1 DEF K
    <3>7. CASE Taking(d)'
      <4>1. drive'.st = "drq"  BY <3>7 DEF Taking
      <4> QED  BY <2>b, <3>4, <3>5, <4>1 DEF Justified
    <3>8. CASE Pending(d + 1)'
      <4>1. /\ drive'.data = Sector(K.value) /\ drive'.lba = K.lba + (d + 1) - 1
            /\ d + 1 <= K.count /\ drive'.lba \in Sectors
        BY <3>6, <3>8 DEF Pending
      <4>2. drive'.lba \in Span(K)  BY <1>0, <4>1, ShellTypes DEF Span
      <4>3. Sector(K.value) \in allowed[drive'.lba]
        BY <2>1, <3>1, <4>1, <4>2 DEF WriteInv, InCall
      <4> QED  BY <2>1, <2>b, <3>4, <3>5, <4>1, <4>3 DEF Justified
    <3> QED  BY <3>3, <3>7, <3>8
  <2>4. CASE K.op = "read"
    <3>1. ReadInv  BY <1>0, <2>4 DEF CallInv
    <3>2. PICK d \in Nat : Offering(d)  BY <2>1, <3>1 DEF ReadInv
    <3>3. /\ buf' \in [Clients -> Seq(AllWords)] /\ pc' \in [Clients -> Labels]
          /\ drive' \in Drives /\ drive'.cmd # "write"
          /\ drive'.cmd \in Ops => drive'.left >= 1
      BY <1>0, <1>5, <2>4, <3>1, <3>2, TransferReads DEF ReadInv
    <3>4. AtaType'  BY <2>a, <3>3
    <3> QED  BY <2>b, <3>3, <3>4 DEF Justified
  <2> QED  BY <2>2, <2>3, <2>4 DEF Ops
<1>6. CASE NextSector(Shell) \/ DataSent(Shell)
  <2>1. pc' \in [Clients -> Labels]  BY <1>6, <1>a, <1>b DEF NextSector, DataSent
  <2>2. UNCHANGED <<disk, call, buf, regs, kind, drive, cache, medium, allowed, lags>>
        /\ shown' = drive.st
    BY <1>6 DEF NextSector, DataSent, ata_io_wait
  <2> QED  BY <1>0, <2>1, <2>2, QuietHolds DEF AtaType
<1>7. CASE ReadReturns(Shell)
  <2>1. /\ pc' \in [Clients -> Labels] /\ call' \in [Clients -> Arguments]
        /\ buf' \in [Clients -> Seq(AllWords)]
    BY <1>0, <1>7, ReturnType DEF ReadReturns
  <2>2. UNCHANGED <<disk, regs, kind, drive, cache, medium, allowed, lags>> /\ shown' = drive.st
    BY <1>7 DEF ReadReturns, ata_io_wait
  <2> QED  BY <1>0, <2>1, <2>2, QuietHolds DEF AtaType
<1>8. CASE Flush(Shell)
  <2>1. drive.st # "busy" /\ shown = drive.st
    BY <1>0, <1>8 DEF Flush, CallInv, StatusInv
  <2>2. drive' \in Drives /\ drive'.cmd = "flush"
    BY <1>0, <1>8, <2>1, CommandTaken DEF Flush
  <2>3. lags' = lags /\ shown' \in Statuses
    BY <1>0, <1>8, <2>1, CommandShows DEF Flush
  <2>4. pc' \in [Clients -> Labels]  BY <1>8, <1>a, <1>b DEF Flush
  <2>5. UNCHANGED <<disk, call, buf, regs, kind, cache, medium, allowed>>
    BY <1>8 DEF Flush
  <2>6. AtaType'  BY <1>0, <2>2, <2>3, <2>4, <2>5 DEF AtaType
  <2>7. Justified'  BY <1>0, <2>2, <2>3, <2>5 DEF Justified, Lawful, Stored, Ops
  <2> QED  BY <2>6, <2>7
<1>9. CASE WriteReturns(Shell)
  <2>1. /\ pc' \in [Clients -> Labels] /\ call' \in [Clients -> Arguments]
        /\ buf' \in [Clients -> Seq(AllWords)]
    BY <1>0, <1>9, ReturnType DEF WriteReturns
  <2>2. UNCHANGED <<disk, regs, kind, drive, shown, cache, medium>>
    BY <1>9 DEF WriteReturns
  <2>3. allowed' = [l \in Sectors |-> IF l \in Span(K) THEN {Sector(K.value)} ELSE allowed[l]]
    BY <1>9 DEF WriteReturns, K
  <2>4. Sector(K.value) \in Wholes  BY <1>0, ShellTypes DEF Wholes
  <2>5. allowed' \in [Sectors -> SUBSET Wholes]  BY <1>0, <2>3, <2>4 DEF AtaType
  <2>6. AtaType'  BY <1>0, <2>1, <2>2, <2>5 DEF AtaType
  <2>7. /\ Flushing \/ (drive = Idle /\ \A l \in Sectors : cache[l] = NONE)
        /\ \A l \in Span(K) : l \in Sectors /\ Stored(l) = Sector(K.value)
    BY <1>0, <1>9, WriteDone
  <2>8. ASSUME NEW l \in Sectors PROVE Lawful(l)'
    <3>1. lags' = IF drive.st = "busy" THEN lags \cup {UNFLUSHED} ELSE lags
      BY <1>9 DEF WriteReturns
    <3>2. LOST \notin lags' => LOST \notin lags  BY <3>1
    <3>3. Stored(l)' = Stored(l) /\ medium'[l] = medium[l]  BY <2>2 DEF Stored
    <3>4. LOST \notin lags => Stored(l) \in allowed'[l]
      BY <1>0, <2>3, <2>7 DEF Justified, Lawful
    <3>5. UNFLUSHED \notin lags' => medium[l] = Stored(l)
      <4>1. UNFLUSHED \notin lags' => drive.st # "busy"  BY <3>1
      <4>2. drive.st # "busy" => cache[l] = NONE  BY <2>7 DEF Flushing
      <4> QED  BY <4>1, <4>2 DEF Stored
    <3> QED  BY <3>2, <3>3, <3>4, <3>5 DEF Lawful
  <2>9. drive.cmd \notin Ops  BY <2>7, IdleDrive DEF Flushing, Ops
  <2>10. Justified'  BY <2>2, <2>8, <2>9 DEF Justified, Ops
  <2> QED  BY <2>6, <2>10
<1> QED
  BY <1>1, <1>2, <1>3, <1>4, <1>5, <1>6, <1>7, <1>8, <1>9 DEF ClientStep

-----------------------------------------------------------------------------
(* A step of the drive, as a call sees it.                                 *)

SameStored == \A l \in Sectors : Stored(l)' = Stored(l)

LEMMA ReadyStep ==
  ASSUME AtaType, DriveReady
  PROVE  /\ drive.st = "busy" /\ drive.data = NONE /\ drive.cmd # "flush"
         /\ drive.lba \in Sectors /\ SameStored
         /\ drive'.st = "drq" /\ drive'.cmd = drive.cmd
         /\ drive'.lba = drive.lba /\ drive'.left = drive.left
         /\ drive'.data = IF drive.cmd = "write" THEN NONE ELSE Stored(drive.lba)
<1> DEFINE t == IF drive.cmd = "write" THEN NONE ELSE Stored(drive.lba)
<1>1. t \in Seq(AllWords)  BY StoredWhole, WholeFacts DEF DriveReady, NONE
<1>2. drive \in Drives /\ "drq" \in Statuses  BY DEF AtaType, Statuses
<1>3. drive' = DriveWith(drive, "drq", t)  BY DEF DriveReady, DriveStep, DriveWith
<1>4. drive.st = "busy" /\ drive.data = NONE /\ drive.cmd # "flush" /\ drive.lba \in Sectors
  BY DEF DriveReady, DriveStep
<1>5. SameStored  BY DEF DriveReady, SameStored, Stored
<1> HIDE DEF t
<1>6. /\ drive'.st = "drq" /\ drive'.cmd = drive.cmd
      /\ drive'.lba = drive.lba /\ drive'.left = drive.left /\ drive'.data = t
  BY <1>1, <1>2, <1>3, DriveSet
<1> QED  BY <1>4, <1>5, <1>6 DEF t

LEMMA StoresStep ==
  ASSUME AtaType, Justified, DriveStores
  PROVE  /\ drive.st = "busy" /\ drive.cmd = "write" /\ drive.data # NONE
         /\ drive.lba \in Sectors
         /\ \A l \in Sectors : Stored(l)' = IF l = drive.lba THEN drive.data ELSE Stored(l)
         /\ drive.left = 1 => drive' = Idle
         /\ drive.left # 1 =>
              /\ drive'.st = "busy" /\ drive'.cmd = "write" /\ drive'.data = NONE
              /\ drive'.lba = drive.lba + 1 /\ drive'.left = drive.left - 1
<1> DEFINE n == [drive EXCEPT !.lba = @ + 1, !.left = @ - 1, !.data = NONE]
<1>1. /\ drive.st = "busy" /\ drive.cmd = "write" /\ Len(drive.data) = Words
      /\ drive' = IF drive.left = 1 THEN Idle ELSE n
      /\ cache' = [cache EXCEPT ![drive.lba] = drive.data] /\ medium' = medium
  BY DEF DriveStores, DriveStep
<1>2. drive.data # NONE  BY <1>1, WordsNat DEF NONE
<1>3. drive.lba \in Sectors /\ drive.left >= 1  BY <1>1, <1>2 DEF Justified, Ops
<1>4. drive.left # 1 => /\ n.st = drive.st /\ n.cmd = drive.cmd /\ n.data = NONE
                        /\ n.lba = drive.lba + 1 /\ n.left = drive.left - 1
  BY <1>3, DriveNext DEF AtaType
<1> HIDE DEF n
<1>5. \A l \in Sectors : Stored(l)' = IF l = drive.lba THEN drive.data ELSE Stored(l)
  BY <1>1, <1>2 DEF AtaType, Stored
<1> QED  BY <1>1, <1>2, <1>3, <1>4, <1>5

LEMMA SameKeptStored ==
  ASSUME SameStored, call' = call, NEW d, Kept(d)
  PROVE  Kept(d)'
  BY DEF SameStored, Kept, K

\* Where a step of the drive takes a call that has moved d sectors.
Progress(d) ==
    /\ Pending(d) => Waiting(d)' \/ (Ended(d) /\ Kept(d))'
    /\ Waiting(d) => Waiting(d)' \/ Failed(d)'
    /\ Looking(d) => Looking(d)' \/ Failed(d)'
    /\ Ignored(d) => Ignored(d)'
    /\ ~Failed(d) /\ ~Taking(d) /\ ~Offering(d) /\ ~Ended(d)

LEMMA NotBusy ==
  ASSUME NEW d, drive.st = "busy"
  PROVE  ~Failed(d) /\ ~Taking(d) /\ ~Offering(d) /\ ~Ended(d)
  BY IdleDrive DEF Failed, Taking, Offering, Ended

LEMMA IgnoredFlushes ==
  ASSUME NEW d, drive.st = "busy", drive.cmd # "flush"
  PROVE  ~Ignored(d)
  BY IdleDrive DEF Ignored, Flushing

LEMMA ReadyProgress ==
  ASSUME AtaType, DriveReady, call' = call, NEW d \in Nat
  PROVE  Progress(d)
<1>1. /\ drive.st = "busy" /\ drive.data = NONE
      /\ drive.lba \in Sectors /\ SameStored
      /\ drive'.st = "drq" /\ drive'.cmd = drive.cmd
      /\ drive'.lba = drive.lba /\ drive'.left = drive.left
      /\ drive'.data = IF drive.cmd = "write" THEN NONE ELSE Stored(drive.lba)
  BY ReadyStep
<1>2. K' = K  BY DEF K
<1>3. ~Pending(d)
  <2>1. Sector(K.value) # NONE  BY ShellTypes, SectorFacts
  <2> QED  BY <1>1, <2>1 DEF Pending
<1>4. Waiting(d) => Waiting(d)'
  BY <1>1, <1>2, SameKeptStored DEF Waiting
<1>5. Looking(d) => Looking(d)'
  <2> SUFFICES ASSUME Looking(d) PROVE Looking(d)'
    OBVIOUS
  <2>1. drive'.data = Stored(drive.lba) /\ drive.cmd = "read"  BY <1>1 DEF Looking
  <2> SUFFICES ASSUME NEW l \in Sectors, l = drive.lba PROVE Looking(d)'
    BY <1>1
  <2>2. drive'.lba = l /\ drive'.data = Stored(l)'  BY <1>1, <2>1 DEF SameStored
  <2>3. (drive.lba \in Sectors /\ drive.data = Stored(drive.lba))'
    BY <2>2 DEF Stored
  <2> QED  BY <1>1, <1>2, <2>3 DEF Looking
<1>6. ~Ignored(d)  BY ReadyStep, IgnoredFlushes
<1> QED  BY <1>1, <1>3, <1>4, <1>5, <1>6, NotBusy DEF Progress

LEMMA StoresProgress ==
  ASSUME AtaType, Justified, DriveStores, call' = call, NEW d \in Nat
  PROVE  Progress(d)
<1>1. /\ drive.st = "busy" /\ drive.cmd = "write" /\ drive.data # NONE
      /\ drive.lba \in Sectors
      /\ \A l \in Sectors : Stored(l)' = IF l = drive.lba THEN drive.data ELSE Stored(l)
      /\ drive.left = 1 => drive' = Idle
      /\ drive.left # 1 =>
           /\ drive'.st = "busy" /\ drive'.cmd = "write" /\ drive'.data = NONE
           /\ drive'.lba = drive.lba + 1 /\ drive'.left = drive.left - 1
  BY StoresStep
<1>2. K' = K  BY DEF K
<1>3. ~Waiting(d) /\ ~Looking(d)  BY <1>1 DEF Waiting, Looking
<1>4. ASSUME Pending(d) PROVE Waiting(d)' \/ (Ended(d) /\ Kept(d))'
  <2>1. /\ d >= 1 /\ d <= K.count /\ drive.data = Sector(K.value)
        /\ drive.lba = K.lba + d - 1 /\ drive.left = K.count - d + 1 /\ Kept(d - 1)
    BY <1>4 DEF Pending
  <2>2. Kept(d)'
    <3> SUFFICES ASSUME NEW l \in K.lba .. K.lba + d - 1
                 PROVE  l \in Sectors /\ Stored(l)' = Sector(K.value)
      BY <1>2 DEF Kept
    <3>1. CASE l = drive.lba  BY <1>1, <2>1, <3>1
    <3>2. CASE l # drive.lba
      <4>1. l \in K.lba .. K.lba + (d - 1) - 1  BY <2>1, <3>2, ShellTypes
      <4>2. l \in Sectors /\ Stored(l) = Sector(K.value)  BY <2>1, <4>1 DEF Kept
      <4> QED  BY <1>1, <3>2, <4>2
    <3> QED  BY <3>1, <3>2
  <2>3. CASE drive.left = 1
    <3>1. d = K.count  BY <2>1, <2>3, ShellTypes
    <3>2. drive' = Idle  BY <1>1, <2>3
    <3> QED  BY <1>2, <2>2, <3>1, <3>2 DEF Ended, Idle
  <2>4. CASE drive.left # 1
    <3>0. K.count \in Nat /\ K.lba \in Nat /\ d <= K.count
      BY <2>1, ShellTypes
    <3>a. drive.lba = K.lba + d - 1 /\ drive.left = K.count - d + 1 /\ drive.left # 1
      BY <2>1, <2>4
    <3>1. d < K.count /\ drive.lba + 1 = K.lba + d /\ drive.left - 1 = K.count - d
      BY <3>0, <3>a
    <3>2. Waiting(d)'  BY <1>1, <1>2, <2>2, <2>4, <3>1 DEF Waiting
    <3> QED  BY <3>2
  <2> QED  BY <2>3, <2>4
<1> QED  BY <1>1, <1>3, <1>4, NotBusy, IgnoredFlushes DEF Progress

LEMMA FailsProgress ==
  ASSUME AtaType, Alone, DriveFails, call' = call, NEW d \in Nat
  PROVE  Progress(d) /\ drive.cmd # "flush" /\ drive.data = NONE
<1>1. drive.st = "busy" /\ drive.data = NONE /\ drive.cmd # "flush" /\ drive'.st = "err"
  BY IdleDrive DEF DriveFails, DriveStep, Alone
<1>2. K' = K  BY DEF K
<1>3. ~Pending(d)
  <2>1. Sector(K.value) # NONE  BY ShellTypes, SectorFacts
  <2> QED  BY <1>1, <2>1 DEF Pending
<1>4. Waiting(d) \/ Looking(d) => Failed(d)'
  BY <1>1, <1>2 DEF Waiting, Looking, Failed
<1> QED  BY <1>1, <1>3, <1>4, NotBusy, IgnoredFlushes DEF Progress

\* Nothing but the place where a sector is kept, or the status shown.
LEMMA QuietProgress ==
  ASSUME SameStored, call' = call, buf' = buf, drive' = drive, NEW d \in Nat
  PROVE  /\ Pending(d) => Pending(d)'
         /\ Waiting(d) => Waiting(d)'
         /\ Taking(d) => Taking(d)'
         /\ Looking(d) => Looking(d)'
         /\ Offering(d) => Offering(d)'
         /\ Failed(d) => Failed(d)'
         /\ Ended(d) => Ended(d)'
         /\ Ignored(d) => Ignored(d)'
         /\ Kept(d) => Kept(d)'
<1>1. K' = K /\ Moving' = Moving  BY DEF K, Moving
<1>2. ASSUME NEW n, Kept(n) PROVE Kept(n)'  BY <1>2, SameKeptStored
<1>3. ASSUME drive.lba \in Sectors PROVE Stored(drive.lba)' = Stored(drive.lba)
  BY <1>3 DEF SameStored
<1>4. Pending(d) => Pending(d)'  BY <1>1, <1>2 DEF Pending
<1>5. Waiting(d) => Waiting(d)'  BY <1>1, <1>2 DEF Waiting
<1>6. Taking(d) => Taking(d)'  BY <1>1, <1>2 DEF Taking
<1>7. Looking(d) => Looking(d)'  BY <1>1, <1>3 DEF Looking
<1>8. Offering(d) => Offering(d)'  BY <1>1, <1>3 DEF Offering
<1>9. (Failed(d) => Failed(d)') /\ (Ended(d) => Ended(d)') /\ (Ignored(d) => Ignored(d)')
  BY <1>1 DEF Failed, Ended, Ignored, Flushing, Idle
<1> QED  BY <1>2, <1>4, <1>5, <1>6, <1>7, <1>8, <1>9

\* A step that ends what the drive is busy with, and one that changes nothing
\* of the command under way.
Finishes ==
    /\ drive.st = "busy" /\ shown' = drive'.st
    /\ \A d \in Nat : Progress(d)
    /\ drive.cmd # "write" => SameStored
    /\ drive.cmd = "flush" => drive' = Idle /\ \A l \in Sectors : cache'[l] = NONE

Quiet ==
    /\ drive' = drive /\ SameStored /\ shown' \in {shown, drive.st}
    /\ \A l \in Sectors : cache[l] = NONE => cache'[l] = NONE

LEMMA DriveKinds ==
  ASSUME AtaType, Justified, Alone, Drive
  PROVE  /\ UNCHANGED <<disk, pc, call, buf, regs, allowed>>
         /\ Finishes \/ Quiet
<1> USE DEF client
<1>1. CASE DriveReady
  <2>1. UNCHANGED <<disk, pc, call, buf, regs, allowed>> /\ shown' = drive'.st
    BY <1>1 DEF DriveReady, DriveStep
  <2>2. SameStored /\ drive.st = "busy" /\ drive.cmd # "flush"  BY <1>1, ReadyStep
  <2>3. \A d \in Nat : Progress(d)  BY <1>1, <2>1, ReadyProgress
  <2> QED  BY <2>1, <2>2, <2>3 DEF Finishes
<1>2. CASE DriveStores
  <2>1. UNCHANGED <<disk, pc, call, buf, regs, allowed>> /\ shown' = drive'.st
    BY <1>2 DEF DriveStores, DriveStep
  <2>2. drive.st = "busy" /\ drive.cmd = "write"  BY <1>2 DEF DriveStores, DriveStep
  <2>3. \A d \in Nat : Progress(d)  BY <1>2, <2>1, StoresProgress
  <2> QED  BY <2>1, <2>2, <2>3 DEF Finishes
<1>3. CASE DriveFlushes
  <2>1. /\ UNCHANGED <<disk, pc, call, buf, regs, allowed>> /\ shown' = drive'.st
        /\ drive.st = "busy" /\ drive.cmd = "flush" /\ drive' = Idle
        /\ medium' = [l \in Sectors |-> Stored(l)] /\ cache' = [l \in Sectors |-> NONE]
    BY <1>3 DEF DriveFlushes, DriveStep
  <2>2. SameStored
    <3> SUFFICES ASSUME NEW l \in Sectors PROVE Stored(l)' = Stored(l)
      BY DEF SameStored
    <3>1. cache'[l] = NONE /\ medium'[l] = Stored(l)  BY <2>1
    <3>2. Stored(l)' = medium'[l]  BY <3>1 DEF Stored
    <3> QED  BY <3>1, <3>2
  <2>3. ASSUME NEW d \in Nat PROVE Progress(d)
    BY <2>1, NotBusy DEF Progress, Pending, Waiting, Looking, Ignored, Idle
  <2>4. \A l \in Sectors : cache'[l] = NONE  BY <2>1
  <2> QED  BY <2>1, <2>2, <2>3, <2>4 DEF Finishes
<1>4. CASE DriveFails
  <2>1. /\ UNCHANGED <<disk, pc, call, buf, regs, allowed, cache, medium>>
        /\ shown' = drive'.st /\ drive.st = "busy"
    BY <1>4 DEF DriveFails, DriveStep
  <2>2. SameStored  BY <2>1 DEF SameStored, Stored
  <2>3. drive.cmd # "flush"  BY <1>4 DEF DriveFails, Alone
  <2>4. \A d \in Nat : Progress(d)  BY <1>4, <2>1, FailsProgress
  <2> QED  BY <2>1, <2>2, <2>3, <2>4 DEF Finishes
<1>5. ASSUME NEW l \in Sectors, DriveWritesBack(l)
      PROVE  UNCHANGED <<disk, pc, call, buf, regs, allowed>> /\ Quiet
  <2>1. /\ cache[l] # NONE /\ medium' = [medium EXCEPT ![l] = cache[l]]
        /\ cache' = [cache EXCEPT ![l] = NONE]
        /\ UNCHANGED <<disk, pc, call, buf, regs, drive, shown, allowed>>
    BY <1>5 DEF DriveWritesBack
  <2>2. \A m \in Sectors : cache[m] = NONE => cache'[m] = NONE  BY <2>1 DEF AtaType
  <2>3. SameStored
    <3> SUFFICES ASSUME NEW m \in Sectors PROVE Stored(m)' = Stored(m)
      BY DEF SameStored
    <3>1. CASE m = l
      <4>1. cache'[m] = NONE /\ medium'[m] = cache[m]  BY <2>1, <3>1 DEF AtaType
      <4> QED  BY <2>1, <3>1, <4>1 DEF Stored
    <3>2. CASE m # l
      <4>1. cache'[m] = cache[m] /\ medium'[m] = medium[m]  BY <2>1, <3>2 DEF AtaType
      <4> QED  BY <4>1 DEF Stored
    <3> QED  BY <3>1, <3>2
  <2> QED  BY <2>1, <2>2, <2>3 DEF Quiet
<1>6. CASE StatusCatchesUp
  <2>1. UNCHANGED <<disk, pc, call, buf, regs, drive, cache, medium, allowed>>
        /\ shown' = drive.st
    BY <1>6 DEF StatusCatchesUp
  <2> QED  BY <2>1 DEF Quiet, SameStored, Stored
<1> QED  BY <1>1, <1>2, <1>3, <1>4, <1>5, <1>6 DEF Drive

LEMMA DriveWriteInv ==
  ASSUME AtaInv, Alone, Drive, K.op = "write"
  PROVE  WriteInv'
<1>0. AtaType /\ Justified /\ WriteInv  BY DEF AtaInv, CallInv
<1>1. UNCHANGED <<pc, call, buf, allowed>> /\ (Finishes \/ Quiet)
  BY <1>0, DriveKinds
<1>2. K' = K /\ Moving' = Moving  BY <1>1 DEF K, Moving
<1>q. ASSUME Quiet, NEW d \in Nat
      PROVE  /\ Pending(d) => Pending(d)'
             /\ Waiting(d) => Waiting(d)'
             /\ Taking(d) => Taking(d)'
             /\ Failed(d) => Failed(d)'
             /\ Ended(d) => Ended(d)'
             /\ Ignored(d) => Ignored(d)'
             /\ Kept(d) => Kept(d)'
  BY <1>1, <1>q, QuietProgress DEF Quiet
<1>p. ASSUME Finishes, NEW d \in Nat
      PROVE  Progress(d)
  BY <1>p DEF Finishes
<1>n. ASSUME NEW d \in Nat, Ended(d) \/ Ended(d)' PROVE d = K.count
  BY <1>2, <1>n DEF Ended
<1>w. ASSUME NEW d \in Nat, Waiting(d)' PROVE d < K.count
  BY <1>2, <1>w DEF Waiting
<1>3. pc[Shell] = "drq" => \E d \in Nat :
          /\ Moving = d * Words /\ d < K.count
          /\ Pending(d)' \/ Waiting(d)' \/ Failed(d)' \/ Ignored(d)'
  <2> SUFFICES ASSUME pc[Shell] = "drq"
               PROVE  \E d \in Nat : /\ Moving = d * Words /\ d < K.count
                                     /\ Pending(d)' \/ Waiting(d)' \/ Failed(d)' \/ Ignored(d)'
    OBVIOUS
  <2>1. PICK d \in Nat : /\ Moving = d * Words /\ d < K.count
                         /\ Pending(d) \/ Waiting(d) \/ Failed(d) \/ Ignored(d)
    BY <1>0 DEF WriteInv
  <2>2. d # K.count  BY <1>0, <2>1, ShellTypes
  <2>3. Pending(d)' \/ Waiting(d)' \/ Failed(d)' \/ Ignored(d)'
    BY <1>1, <1>q, <1>p, <1>n, <2>1, <2>2 DEF Progress
  <2> QED  BY <2>1, <2>3
<1>4. pc[Shell] = "transfer" => \E d \in Nat : Taking(d)'
  BY <1>0, <1>1, <1>q, <1>p DEF WriteInv, Progress
<1>5. pc[Shell] = "settle" => \E d \in Nat :
          /\ Moving = d * Words /\ d <= K.count
          /\ Pending(d)' \/ Waiting(d)' \/ Failed(d)' \/ (Ended(d) /\ Kept(d))'
  <2> SUFFICES ASSUME pc[Shell] = "settle"
               PROVE  \E d \in Nat :
                        /\ Moving = d * Words /\ d <= K.count
                        /\ Pending(d)' \/ Waiting(d)' \/ Failed(d)' \/ (Ended(d) /\ Kept(d))'
    OBVIOUS
  <2>1. PICK d \in Nat :
          /\ Moving = d * Words /\ d <= K.count
          /\ Pending(d) \/ Waiting(d) \/ Failed(d) \/ (Ended(d) /\ Kept(d))
    BY <1>0 DEF WriteInv
  <2>2. Pending(d)' \/ Waiting(d)' \/ Failed(d)' \/ (Ended(d) /\ Kept(d))'
    BY <1>1, <1>q, <1>p, <2>1 DEF Progress
  <2> QED  BY <2>1, <2>2
<1>6. pc[Shell] = "sent" =>
         Pending(K.count)' \/ (Ended(K.count) /\ Kept(K.count))'
  <2> SUFFICES ASSUME pc[Shell] = "sent", NEW d \in Nat, d = K.count
               PROVE  Pending(d)' \/ (Ended(d) /\ Kept(d))'
    BY <1>0, <1>2, ShellTypes
  <2>1. Pending(d) \/ (Ended(d) /\ Kept(d))  BY <1>0 DEF WriteInv
  <2>2. ~Waiting(d)'  BY <1>0, <1>w, ShellTypes
  <2> QED  BY <1>1, <1>q, <1>p, <2>1, <2>2 DEF Progress
<1>7. pc[Shell] = "flush" =>
          /\ Kept(K.count)'
          /\ Flushing' \/ (drive' = Idle /\ \A l \in Sectors : cache'[l] = NONE)
  <2> SUFFICES ASSUME pc[Shell] = "flush", NEW d \in Nat, d = K.count
               PROVE  /\ Kept(d)'
                      /\ Flushing' \/ (drive' = Idle /\ \A l \in Sectors : cache'[l] = NONE)
    BY <1>0, <1>2, ShellTypes
  <2>1. /\ Kept(d)
        /\ Flushing \/ (drive = Idle /\ \A l \in Sectors : cache[l] = NONE)
    BY <1>0 DEF WriteInv
  <2>2. CASE Quiet  BY <1>q, <2>1, <2>2 DEF Quiet, Flushing
  <2>3. CASE Finishes
    <3>1. drive.cmd = "flush"  BY <2>1, <2>3, IdleDrive DEF Finishes, Flushing
    <3>2. SameStored /\ drive' = Idle /\ \A l \in Sectors : cache'[l] = NONE
      BY <2>3, <3>1 DEF Finishes
    <3>3. Kept(d)'  BY <1>1, <2>1, <3>2, SameKeptStored
    <3> QED  BY <3>2, <3>3
  <2> QED  BY <1>1, <2>2, <2>3
<1>8. pc[Shell] \in InCall =>
          \A l \in Sectors : l \in Span(K) => Sector(K.value) \in allowed[l]
  BY <1>0 DEF WriteInv
<1> QED
  BY <1>1, <1>2, <1>3, <1>4, <1>5, <1>6, <1>7, <1>8 DEF WriteInv, Idle

LEMMA DriveReadInv ==
  ASSUME AtaInv, Alone, Drive, K.op = "read"
  PROVE  ReadInv'
<1>0. AtaType /\ Justified /\ ReadInv /\ CallInv  BY DEF AtaInv, CallInv
<1>1. UNCHANGED <<pc, call, buf>> /\ (Finishes \/ Quiet)
  BY <1>0, DriveKinds
<1>2. K' = K /\ Moving' = Moving  BY <1>1 DEF K, Moving
<1>q. ASSUME Quiet, NEW d \in Nat
      PROVE  /\ Looking(d) => Looking(d)'
             /\ Offering(d) => Offering(d)'
             /\ Failed(d) => Failed(d)'
             /\ Ended(d) => Ended(d)'
             /\ Ignored(d) => Ignored(d)'
  BY <1>1, <1>q, QuietProgress DEF Quiet
<1>p. ASSUME Finishes, NEW d \in Nat
      PROVE  Progress(d)
  BY <1>p DEF Finishes
<1>3. pc[Shell] = "drq" => \E d \in Nat :
          /\ Moving = d * Words /\ d < K.count
          /\ Looking(d)' \/ Failed(d)' \/ Ignored(d)'
  BY <1>0, <1>1, <1>q, <1>p DEF ReadInv, Progress
<1>4. pc[Shell] = "transfer" => \E d \in Nat : Offering(d)'
  BY <1>0, <1>1, <1>q, <1>p DEF ReadInv, Progress
<1>5. pc[Shell] = "settle" => \E d \in Nat :
          /\ Moving = d * Words /\ d <= K.count
          /\ Looking(d)' \/ Failed(d)' \/ Ended(d)'
  BY <1>0, <1>1, <1>q, <1>p DEF ReadInv, Progress
<1>6. ASSUME NEW i \in 1..Moving PROVE Right(i)'
  <2>1. Right(i)  BY <1>0 DEF ReadInv
  <2>2. SameStored
    <3>1. CASE Quiet  BY <3>1 DEF Quiet
    <3>2. CASE Finishes
      <4>1. Moving # 0  BY <1>0, ShellTypes
      <4>2. pc[Shell] \in {"drq", "transfer", "settle"}
        BY <1>0, <4>1 DEF CallInv, ReadInv
      <4>3. \A d \in Nat : ~Failed(d) /\ ~Offering(d) /\ ~Ended(d)
        BY <3>2, NotBusy DEF Finishes
      <4>a. ASSUME NEW d \in Nat, Moving = d * Words PROVE ~Ignored(d)
        BY <4>1, <4>a, WordsNat DEF Ignored
      <4>4. PICK d \in Nat : Looking(d)  BY <1>0, <4>2, <4>3, <4>a DEF ReadInv
      <4>5. drive.cmd # "write"  BY <4>4 DEF Looking
      <4> QED  BY <3>2, <4>5 DEF Finishes
    <3> QED  BY <1>1, <3>1, <3>2
  <2> QED  BY <1>1, <1>2, <2>1, <2>2 DEF Right, SameStored
<1> QED
  BY <1>0, <1>1, <1>2, <1>3, <1>4, <1>5, <1>6 DEF ReadInv

LEMMA DriveKeeps ==
  ASSUME AtaInv, Alone, Drive
  PROVE  CallInv'
<1>0. AtaType /\ Justified /\ CallInv  BY DEF AtaInv
<1>1. UNCHANGED <<disk, pc, call, buf, regs>> /\ (Finishes \/ Quiet)
  BY <1>0, DriveKinds
<1>2. K' = K /\ Moving' = Moving  BY <1>1 DEF K, Moving
<1>3. StatusInv'
  BY <1>0, <1>1 DEF CallInv, StatusInv, Lagging, Finishes, Quiet
<1>4. pc[Shell] = "command" => (drive'.st = "busy" => drive'.cmd = "flush")
  BY <1>0, <1>1, IdleDrive DEF CallInv, Finishes, Quiet
<1>5. K.op = "write" => WriteInv'  BY DriveWriteInv
<1>6. K.op = "read" => ReadInv'  BY DriveReadInv
<1>7. /\ pc[Shell] \in InCall =>
            K.op \in Ops /\ K.count > 0 /\ K.lba \in Lbas /\ disk = "present"
      /\ pc[Shell] \notin {"drq", "transfer", "settle", "sent", "flush"} => Moving = 0
      /\ pc[Shell] = "command" => regs = [lba |-> K.lba, count |-> K.count]
  BY <1>0 DEF CallInv
<1> QED  BY <1>1, <1>2, <1>3, <1>4, <1>5, <1>6, <1>7 DEF CallInv

-----------------------------------------------------------------------------
(* The steps of a call: how far it is.                                     *)

\* Before a command is given, and outside of calls.
LEMMA NoCommand ==
  ASSUME AtaType', pc'[Shell] \in {"init", "init_status", "init_drq", "idle", "issue"},
         Moving' = 0,
         \/ shown' = drive'.st
         \/ pc'[Shell] \in {"idle", "issue"} /\ Lagging' /\ drive'.cmd = "flush",
         pc'[Shell] = "issue" =>
            /\ K'.op \in Ops /\ K'.count > 0 /\ K'.lba \in Lbas /\ disk' = "present"
            /\ K'.op = "write" =>
                 \A l \in Sectors : l \in Span(K') => Sector(K'.value) \in allowed'[l]
  PROVE  CallInv'
<1>1. pc'[Shell] \notin {"drq", "transfer", "settle", "sent", "flush", "command"}
  OBVIOUS
<1>2. pc'[Shell] \in InCall => pc'[Shell] = "issue"  BY DEF InCall
<1>3. K'.op = "write" => WriteInv'
  BY <1>1, <1>2 DEF WriteInv
<1>4. K'.op = "read" => ReadInv'
  BY <1>1 DEF ReadInv
<1>5. StatusInv'  BY <1>1 DEF StatusInv, Lagging
<1> QED  BY <1>1, <1>2, <1>3, <1>4, <1>5 DEF CallInv

LEMMA InitKeeps ==
  ASSUME AtaInv, ata_init
  PROVE  CallInv'
<1>0. AtaType /\ Justified /\ CallInv /\ AtaType' /\ Shell \in Clients
  BY InitHolds, ShellTypes DEF AtaInv
<1>1. pc[Shell] \in {"init", "init_status", "init_drq"} /\ buf' = buf
  BY DEF ata_init, InitIdentify, InitGivesUp, InitNotBusy, InitReads
<1>2. Moving' = 0 /\ shown = drive.st  BY <1>0, <1>1 DEF CallInv, StatusInv, Moving
<1>3. pc'[Shell] \in {"init_status", "init_drq", "idle"}
  BY <1>0 DEF ata_init, InitIdentify, InitGivesUp, InitNotBusy, InitReads, Absent, Goto, AtaType
<1>4. shown' = drive'.st
  BY <1>2, IdleDrive DEF ata_init, InitIdentify, InitGivesUp, InitNotBusy, InitReads, device
<1> QED  BY <1>0, <1>2, <1>3, <1>4, NoCommand

LEMMA CrashKeeps ==
  ASSUME AtaInv, Crash
  PROVE  CallInv'
<1>0. AtaType' /\ Shell \in Clients  BY CrashHolds, ShellTypes DEF AtaInv
<1>1. pc'[Shell] = "init" /\ buf'[Shell] = <<>>  BY <1>0 DEF Crash
<1>2. Moving' = 0  BY <1>1 DEF Moving
<1>3. shown' = drive'.st  BY IdleDrive DEF Crash
<1> QED  BY <1>0, <1>1, <1>2, <1>3, NoCommand

LEMMA CallKeeps ==
  ASSUME AtaInv, Calls(Shell)
  PROVE  CallInv'
<1>0. AtaType /\ Justified /\ CallInv /\ Shell \in Clients
  BY ShellTypes DEF AtaInv
<1>1. /\ AtaType'
      /\ pc[Shell] = "idle" /\ disk' = "present" /\ pc'[Shell] = "issue"
      /\ call'[Shell].op \in Ops /\ call'[Shell].count > 0 /\ call'[Shell].lba \in Lbas
      /\ UNCHANGED <<buf, drive, shown>>
      /\ call'[Shell].op = "write" =>
           \A l \in Sectors : l \in Span(call'[Shell]) => Sector(call'[Shell].value) \in allowed'[l]
  BY <1>0, CallHolds
<1>2. Moving' = 0  BY <1>0, <1>1 DEF CallInv, Moving
<1>3. shown' = drive'.st \/ (Lagging' /\ drive'.cmd = "flush")
  BY <1>0, <1>1 DEF CallInv, StatusInv, Lagging
<1> QED  BY <1>1, <1>2, <1>3, NoCommand DEF K

\* The call returns.
LEMMA ReturnKeeps ==
  ASSUME AtaInv, AtaType', Return(Shell),
         shown' = drive'.st \/ (Lagging' /\ drive'.cmd = "flush")
  PROVE  CallInv'
<1>1. pc'[Shell] = "idle" /\ buf'[Shell] = <<>>
  BY ShellTypes, ReturnType DEF AtaInv
<1>2. Moving' = 0  BY <1>1 DEF Moving
<1> QED  BY <1>1, <1>2, NoCommand

\* What a client's own step does not touch.
LEMMA SameCall ==
  ASSUME call' = call, disk' = disk, allowed' = allowed, CallInv, pc[Shell] \in InCall
  PROVE  /\ K' = K /\ K.op \in Ops /\ K.count > 0 /\ K.lba \in Lbas /\ disk' = "present"
         /\ K.op = "write" => WriteInv /\
              \A l \in Sectors : l \in Span(K') => Sector(K'.value) \in allowed'[l]
         /\ K.op = "read" => ReadInv
  BY DEF CallInv, WriteInv, K

LEMMA IssueRegistersKeeps ==
  ASSUME AtaInv, AtaType', IssueRegisters(Shell)
  PROVE  CallInv'
<1> USE DEF device
<1>0. AtaType /\ CallInv /\ Shell \in Clients  BY ShellTypes DEF AtaInv
<1>1. /\ pc[Shell] = "issue" /\ shown # "busy"
      /\ regs' = [lba |-> K.lba % LBA28, count |-> K.count]
      /\ UNCHANGED <<disk, call, buf, drive, shown, allowed>>
  BY DEF IssueRegisters, K
<1>2. pc'[Shell] = "command"  BY <1>0 DEF IssueRegisters, Goto, AtaType
<1>3. /\ Moving' = 0 /\ (drive'.st = "busy" => drive'.cmd = "flush")
      /\ StatusInv'
  BY <1>0, <1>1, <1>2 DEF CallInv, StatusInv, Lagging, Moving
<1>4. /\ K' = K /\ K.op \in Ops /\ K.count > 0 /\ K.lba \in Lbas /\ disk' = "present"
      /\ K.op = "write" =>
           \A l \in Sectors : l \in Span(K') => Sector(K'.value) \in allowed'[l]
  BY <1>0, <1>1, SameCall DEF InCall
<1>5. K'.op = "write" => WriteInv'  BY <1>2, <1>4 DEF WriteInv
<1>6. K'.op = "read" => ReadInv'  BY <1>2, <1>3 DEF ReadInv
<1>7. regs' = [lba |-> K'.lba, count |-> K'.count]  BY <1>1, <1>4, LbaFits
<1> QED  BY <1>2, <1>3, <1>4, <1>5, <1>6, <1>7 DEF CallInv

LEMMA IssueCommandKeeps ==
  ASSUME AtaInv, AtaType', IssueCommand(Shell), STALE \notin lags'
  PROVE  CallInv'
<1>0. AtaType /\ CallInv /\ Shell \in Clients  BY ShellTypes DEF AtaInv
<1>1. pc[Shell] = "command" /\ Command(K.op) /\ UNCHANGED <<disk, call, buf, allowed>>
  BY DEF IssueCommand, K
<1>2. pc'[Shell] = "drq"  BY <1>0 DEF IssueCommand, Goto, AtaType
<1>3. /\ Moving' = 0 /\ regs = [lba |-> K.lba, count |-> K.count]
      /\ drive.st = "busy" => drive.cmd = "flush"
      /\ shown = drive.st \/ Lagging
  BY <1>0, <1>1 DEF CallInv, StatusInv, Moving
<1>4. /\ K' = K /\ K.op \in Ops /\ K.count > 0 /\ K.lba \in Lbas /\ disk' = "present"
      /\ K.op = "write" =>
           \A l \in Sectors : l \in Span(K') => Sector(K'.value) \in allowed'[l]
  BY <1>0, <1>1, SameCall DEF InCall
<1>5. drive.st # "busy" =>
        /\ drive'.st = "busy" /\ drive'.data = NONE
        /\ drive'.cmd = K'.op /\ drive'.lba = K'.lba /\ drive'.left = K'.count
  <2>1. K.op \in Ops \cup {"flush"}  BY <1>4
  <2>2. regs.lba = K.lba /\ regs.count = K.count  BY <1>3
  <2> QED  BY <1>0, <1>1, <1>4, <2>1, <2>2, CommandTaken
<1>6. 0 \in Nat /\ Moving' = 0 * Words /\ 0 < K'.count /\ K'.lba \in Nat /\ K'.count \in Nat
  BY <1>0, <1>3, <1>4, ShellTypes, WordsNat
<1>a. drive.st = "busy" => Ignored(0)'
  <2>1. drive.st = "busy" => drive' = drive  BY <1>1 DEF Command
  <2> QED  BY <1>3, <2>1 DEF Ignored, Flushing
<1>b. StatusInv'
  <2>1. drive'.st = "busy" /\ shown' \in Statuses /\ shown' # "drq"
    BY <1>0, <1>1, <1>3, <1>5, CommandShows
  <2> QED  BY <1>2, <2>1 DEF StatusInv, Lagging, Statuses
<1>7. K'.op = "write" => WriteInv'
  <2> SUFFICES ASSUME K'.op = "write" PROVE WriteInv'
    OBVIOUS
  <2>1. K'.lba .. K'.lba + 0 - 1 = {}  BY <1>6
  <2>2. Kept(0)'  BY <2>1 DEF Kept
  <2>3. drive.st # "busy" => Waiting(0)'  BY <1>5, <1>6, <2>2 DEF Waiting
  <2>4. \E d \in Nat : /\ Moving' = d * Words /\ d < K'.count
                       /\ Pending(d)' \/ Waiting(d)' \/ Failed(d)' \/ Ignored(d)'
    BY <1>6, <1>a, <2>3
  <2>5. pc'[Shell] \notin {"transfer", "settle", "sent", "flush"}  BY <1>2
  <2> QED  BY <1>4, <2>4, <2>5, Zenon DEF WriteInv
<1>8. K'.op = "read" => ReadInv'
  <2> SUFFICES ASSUME K'.op = "read" PROVE ReadInv'
    OBVIOUS
  <2>1. drive.st # "busy" => Looking(0)'  BY <1>5, <1>6 DEF Looking
  <2>2. \E d \in Nat : /\ Moving' = d * Words /\ d < K'.count
                       /\ Looking(d)' \/ Failed(d)' \/ Ignored(d)'
    BY <1>6, <1>a, <2>1
  <2>3. pc'[Shell] \notin {"transfer", "settle", "sent", "flush"}  BY <1>2
  <2>4. \A i \in 1..Moving' : Right(i)'  BY <1>3
  <2> QED  BY <2>2, <2>3, <2>4, Zenon DEF ReadInv
<1> QED  BY <1>2, <1>4, <1>7, <1>8, <1>b DEF CallInv

LEMMA WaitDrqKeeps ==
  ASSUME AtaInv, AtaType', WaitDrq(Shell)
  PROVE  CallInv'
<1> USE DEF device
<1>0. AtaType /\ CallInv /\ Shell \in Clients  BY ShellTypes DEF AtaInv
<1>1. pc[Shell] = "drq" /\ shown = "drq"
      /\ UNCHANGED <<disk, call, buf, drive, shown, cache, medium, allowed>>
  BY DEF WaitDrq, DataReady
<1>2. pc'[Shell] = "transfer"  BY <1>0 DEF WaitDrq, Goto, AtaType
<1>3. drive.st = "drq"  BY <1>0, <1>1 DEF CallInv, StatusInv, Lagging
<1>a. ~Ignored(0)  BY <1>3, IdleDrive DEF Ignored, Flushing
<1>4. /\ K' = K /\ K.op \in Ops /\ K.count > 0 /\ K.lba \in Lbas /\ disk' = "present"
      /\ K.op = "write" => WriteInv /\
           \A l \in Sectors : l \in Span(K') => Sector(K'.value) \in allowed'[l]
      /\ K.op = "read" => ReadInv
  BY <1>0, <1>1, SameCall DEF InCall
<1>5. Moving' = Moving /\ \A x : Stored(x)' = Stored(x)  BY <1>1 DEF Moving, Stored
<1>6. K.op = "write" => WriteInv'
  <2> SUFFICES ASSUME K.op = "write" PROVE WriteInv'
    OBVIOUS
  <2>1. PICK d \in Nat : /\ Moving = d * Words
                         /\ Pending(d) \/ Waiting(d) \/ Failed(d) \/ Ignored(d)
    BY <1>1, <1>4 DEF WriteInv
  <2>2. Waiting(d)  BY <1>3, <1>a, <2>1 DEF Pending, Failed, Ignored
  <2>3. Kept(d)'  BY <1>1, <2>2, SameKept DEF Waiting
  <2>4. Len(drive.data) = 0  BY <2>2 DEF Waiting, NONE
  <2>5. d * Words \in Nat  BY CountSectors
  <2>6. Moving' = d * Words + Len(drive.data) /\ Len(drive.data) < Words
    BY <1>5, <2>1, <2>4, <2>5, WordsNat
  <2>7. Taking(d)'  BY <1>1, <1>3, <1>4, <2>2, <2>3, <2>4, <2>6 DEF Waiting, Taking
  <2> QED  BY <1>2, <1>4, <2>7 DEF WriteInv
<1>7. K.op = "read" => ReadInv'
  <2> SUFFICES ASSUME K.op = "read" PROVE ReadInv'
    OBVIOUS
  <2>1. PICK d \in Nat : Moving = d * Words /\ (Looking(d) \/ Failed(d) \/ Ignored(d))
    BY <1>1, <1>4 DEF ReadInv
  <2>2. Looking(d)  BY <1>3, <1>a, <2>1 DEF Failed, Ignored
  <2>3. drive.lba \in Sectors /\ drive.data = Stored(drive.lba)
    BY <1>3, <2>2 DEF Looking
  <2>4. Len(drive.data) = Words  BY <1>0, <2>3, StoredWhole, WholeFacts
  <2>5. d * Words \in Nat  BY CountSectors
  <2>6. /\ Moving' = d * Words + (Words - Len(drive.data)) /\ Len(drive.data) \in 1..Words
        /\ \A j \in 1..Len(drive.data) : Words - Len(drive.data) + j = j
    BY <1>5, <2>1, <2>4, <2>5, WordsNat
  <2>7. \A j \in 1..Len(drive.data) :
           drive.data[j] = Stored(drive.lba)[Words - Len(drive.data) + j]
    BY <2>3, <2>6
  <2>8. Stored(drive.lba)' = Stored(drive.lba)  BY <1>1 DEF Stored
  <2>9. Offering(d)'
    BY <1>1, <1>3, <1>4, <2>2, <2>3, <2>6, <2>7, <2>8 DEF Looking, Offering
  <2>10. \A i \in 1..Moving' : Right(i)'
    BY <1>1, <1>4, <1>5 DEF ReadInv, Right
  <2> QED  BY <1>2, <2>9, <2>10 DEF ReadInv
<1> QED  BY <1>2, <1>4, <1>6, <1>7 DEF CallInv, StatusInv

LEMMA TransferWordKeeps ==
  ASSUME AtaInv, AtaType', TransferWord(Shell)
  PROVE  CallInv'
<1>0. AtaType /\ CallInv  BY DEF AtaInv
<1>1. pc[Shell] = "transfer" /\ UNCHANGED <<disk, call, allowed>>
  BY DEF TransferWord
<1>2. /\ K' = K /\ K.op \in Ops /\ K.count > 0 /\ K.lba \in Lbas /\ disk' = "present"
      /\ K.op = "write" => WriteInv /\
           \A l \in Sectors : l \in Span(K') => Sector(K'.value) \in allowed'[l]
      /\ K.op = "read" => ReadInv
  BY <1>0, <1>1, SameCall DEF InCall
<1>3. CASE K.op = "write"
  <2>1. PICK d \in Nat : Taking(d)  BY <1>1, <1>2, <1>3 DEF WriteInv
  <2>2. \/ pc'[Shell] = "transfer" /\ Taking(d)'
        \/ pc'[Shell] = "settle" /\ Pending(d + 1)' /\ Moving' = (d + 1) * Words
    BY <1>0, <1>3, <2>1, TransferWrites
  <2>3. pc'[Shell] \in {"transfer", "settle"}  BY <2>2
  <2>4. pc'[Shell] = "transfer" => \E e \in Nat : Taking(e)'  BY <2>2
  <2>5. pc'[Shell] = "settle" => \E e \in Nat :
          /\ Moving' = e * Words /\ e <= K'.count
          /\ Pending(e)' \/ Waiting(e)' \/ Failed(e)' \/ (Ended(e) /\ Kept(e))'
    <3> SUFFICES ASSUME pc'[Shell] = "settle"
                 PROVE  /\ d + 1 \in Nat /\ d + 1 <= K'.count
                        /\ Moving' = (d + 1) * Words /\ Pending(d + 1)'
      <4> DEFINE e == d + 1
      <4> HIDE DEF e
      <4>1. SUFFICES ASSUME e \in Nat, e <= K'.count, Moving' = e * Words, Pending(e)'
                     PROVE  \E x \in Nat :
                              /\ Moving' = x * Words /\ x <= K'.count
                              /\ Pending(x)' \/ Waiting(x)' \/ Failed(x)' \/ (Ended(x) /\ Kept(x))'
        BY DEF e
      <4> QED  BY <4>1
    <3>1. Pending(d + 1)' /\ Moving' = (d + 1) * Words  BY <2>2
    <3>2. d + 1 \in Nat /\ d + 1 <= K'.count  BY <3>1 DEF Pending
    <3> QED  BY <3>1, <3>2
  <2>6. WriteInv'
    <3>1. pc'[Shell] \notin {"drq", "sent", "flush"}  BY <2>3
    <3> QED  BY <1>2, <1>3, <2>4, <2>5, <3>1 DEF WriteInv
  <2> QED  BY <1>2, <1>3, <2>3, <2>6 DEF CallInv, StatusInv
<1>4. CASE K.op = "read"
  <2>1. PICK d \in Nat : Offering(d)  BY <1>1, <1>2, <1>4 DEF ReadInv
  <2>2. /\ \A i \in 1..Moving' : Right(i)'
        /\ \/ pc'[Shell] = "transfer" /\ Offering(d)'
           \/ /\ pc'[Shell] = "settle" /\ Moving' = (d + 1) * Words /\ d + 1 <= K'.count
              /\ Looking(d + 1)' \/ Ended(d + 1)'
    BY <1>0, <1>2, <1>4, <2>1, TransferReads DEF ReadInv
  <2>3. pc'[Shell] \in {"transfer", "settle"}  BY <2>2
  <2>4. pc'[Shell] = "transfer" => \E e \in Nat : Offering(e)'  BY <2>2
  <2>5. pc'[Shell] = "settle" => \E e \in Nat :
          /\ Moving' = e * Words /\ e <= K'.count
          /\ Looking(e)' \/ Failed(e)' \/ Ended(e)'
    <3> DEFINE e == d + 1
    <3>1. e \in Nat  OBVIOUS
    <3>2. pc'[Shell] = "settle" =>
            Moving' = e * Words /\ e <= K'.count /\ (Looking(e)' \/ Ended(e)')
      BY <2>2
    <3> HIDE DEF e
    <3> QED  BY <3>1, <3>2
  <2>6. ReadInv'
    <3>1. pc'[Shell] \notin {"drq", "sent", "flush"}  BY <2>3
    <3> QED  BY <2>2, <2>4, <2>5, <3>1 DEF ReadInv
  <2> QED  BY <1>2, <1>4, <2>3, <2>6 DEF CallInv, StatusInv
<1> QED  BY <1>2, <1>3, <1>4 DEF Ops

LEMMA NextSectorKeeps ==
  ASSUME AtaInv, AtaType', NextSector(Shell)
  PROVE  CallInv'
<1>0. AtaType /\ CallInv /\ Shell \in Clients  BY ShellTypes DEF AtaInv
<1>1. /\ pc[Shell] = "settle" /\ shown' = drive.st /\ ~AllMoved(Shell)
      /\ UNCHANGED <<disk, call, buf, drive, cache, medium, allowed>>
  BY DEF NextSector, ata_io_wait
<1>2. pc'[Shell] = "drq"  BY <1>0 DEF NextSector, Goto, AtaType
<1>3. /\ K' = K /\ K.op \in Ops /\ K.count > 0 /\ K.lba \in Lbas /\ disk' = "present"
      /\ K.op = "write" => WriteInv /\
           \A l \in Sectors : l \in Span(K') => Sector(K'.value) \in allowed'[l]
      /\ K.op = "read" => ReadInv
  BY <1>0, <1>1, SameCall DEF InCall
<1>4. SameStored /\ Moving' = Moving  BY <1>1 DEF SameStored, Stored, Moving
<1>5. ASSUME NEW d \in Nat, Moving = d * Words, d <= K.count
      PROVE  d < K.count /\ ~Ended(d)
  <2>1. d # K.count
    <3> SUFFICES ASSUME d = K.count PROVE FALSE
      OBVIOUS
    <3>1. Moving = Words * K.count  BY <1>5, WordsNat
    <3> QED  BY <1>1, <3>1 DEF AllMoved, Moving, K
  <2> QED  BY <1>0, <1>5, <2>1, ShellTypes DEF Ended
<1>6. ASSUME NEW d \in Nat
      PROVE  /\ Pending(d) => Pending(d)'
             /\ Waiting(d) => Waiting(d)'
             /\ Failed(d) => Failed(d)'
             /\ Looking(d) => Looking(d)'
  BY <1>1, <1>4, QuietProgress
<1>7. pc'[Shell] \notin {"transfer", "settle", "sent", "flush"}  BY <1>2
<1>8. K.op = "write" => WriteInv'
  <2> SUFFICES ASSUME K.op = "write" PROVE WriteInv'
    OBVIOUS
  <2>1. PICK d \in Nat :
          /\ Moving = d * Words /\ d <= K.count
          /\ Pending(d) \/ Waiting(d) \/ Failed(d) \/ (Ended(d) /\ Kept(d))
    BY <1>1, <1>3 DEF WriteInv
  <2>2. /\ Moving' = d * Words /\ d < K'.count
        /\ Pending(d)' \/ Waiting(d)' \/ Failed(d)'
    BY <1>3, <1>4, <1>5, <1>6, <2>1
  <2> QED  BY <1>3, <1>7, <2>2 DEF WriteInv
<1>9. K.op = "read" => ReadInv'
  <2> SUFFICES ASSUME K.op = "read" PROVE ReadInv'
    OBVIOUS
  <2>1. PICK d \in Nat :
          /\ Moving = d * Words /\ d <= K.count
          /\ Looking(d) \/ Failed(d) \/ Ended(d)
    BY <1>1, <1>3 DEF ReadInv
  <2>2. /\ Moving' = d * Words /\ d < K'.count
        /\ Looking(d)' \/ Failed(d)'
    BY <1>3, <1>4, <1>5, <1>6, <2>1
  <2>3. \A i \in 1..Moving' : Right(i)'
    BY <1>1, <1>3, <1>4 DEF ReadInv, Right, SameStored
  <2> QED  BY <1>7, <2>2, <2>3 DEF ReadInv
<1>10. StatusInv'  BY <1>1, <1>2 DEF StatusInv
<1> QED  BY <1>2, <1>3, <1>8, <1>9, <1>10 DEF CallInv

LEMMA DataSentKeeps ==
  ASSUME AtaInv, AtaType', DataSent(Shell)
  PROVE  CallInv'
<1>0. AtaType /\ CallInv /\ Shell \in Clients  BY ShellTypes DEF AtaInv
<1>1. /\ pc[Shell] = "settle" /\ shown' = drive.st /\ AllMoved(Shell) /\ K.op = "write"
      /\ UNCHANGED <<disk, call, buf, drive, cache, medium, allowed>>
  BY DEF DataSent, ata_io_wait, K
<1>2. pc'[Shell] = "sent"  BY <1>0 DEF DataSent, Goto, AtaType
<1>3. /\ K' = K /\ K.op \in Ops /\ K.count > 0 /\ K.lba \in Lbas /\ disk' = "present" /\ WriteInv
      /\ \A l \in Sectors : l \in Span(K') => Sector(K'.value) \in allowed'[l]
  BY <1>0, <1>1, SameCall DEF InCall
<1>4. SameStored  BY <1>1 DEF SameStored, Stored
<1>5. PICK d \in Nat :
        /\ Moving = d * Words /\ d <= K.count
        /\ Pending(d) \/ Waiting(d) \/ Failed(d) \/ (Ended(d) /\ Kept(d))
  BY <1>1, <1>3 DEF WriteInv
<1>6. d = K.count
  <2>1. d * Words = Words * K.count  BY <1>1, <1>5 DEF AllMoved, Moving, K
  <2> QED  BY <1>0, <2>1, SameCount, ShellTypes
<1>7. ~Waiting(d) /\ ~Failed(d)
  BY <1>0, <1>6, ShellTypes DEF Waiting, Failed
<1>8. Pending(d)' \/ (Ended(d) /\ Kept(d))'
  BY <1>1, <1>4, <1>5, <1>7, QuietProgress
<1>9. Pending(K.count)' \/ (Ended(K.count) /\ Kept(K.count))'
  BY <1>3, <1>6, <1>8
<1>10. WriteInv'
  <2>1. pc'[Shell] \notin {"drq", "transfer", "settle", "flush"}  BY <1>2
  <2> QED  BY <1>3, <1>9, <2>1 DEF WriteInv
<1>11. StatusInv'  BY <1>1, <1>2 DEF StatusInv
<1> QED  BY <1>1, <1>2, <1>3, <1>10, <1>11 DEF CallInv

LEMMA FlushKeeps ==
  ASSUME AtaInv, AtaType', Flush(Shell), STALE \notin lags'
  PROVE  CallInv'
<1>0. AtaType /\ CallInv /\ Shell \in Clients  BY ShellTypes DEF AtaInv
<1>1. /\ pc[Shell] = "sent" /\ shown # "busy" /\ Command("flush")
      /\ UNCHANGED <<disk, call, buf, cache, medium, allowed>>
  BY DEF Flush
<1>2. pc'[Shell] = "flush"  BY <1>0 DEF Flush, Goto, AtaType
<1>3. drive.st # "busy" /\ shown = drive.st  BY <1>0, <1>1 DEF CallInv, StatusInv
<1>4. drive'.st = "busy" /\ drive'.cmd = "flush" /\ shown' \in Statuses /\ shown' # "drq"
  BY <1>0, <1>1, <1>3, CommandTaken, CommandShows
<1>5. /\ K' = K /\ K.op \in Ops /\ K.count > 0 /\ K.lba \in Lbas /\ disk' = "present"
      /\ K.op = "write" => WriteInv /\
           \A l \in Sectors : l \in Span(K') => Sector(K'.value) \in allowed'[l]
      /\ K.op = "read" => ReadInv
  BY <1>0, <1>1, SameCall DEF InCall
<1>6. K.op = "write"  BY <1>1, <1>5 DEF ReadInv, Ops
<1>7. Kept(K.count)  BY <1>1, <1>3, <1>5, <1>6 DEF WriteInv, Pending
<1>8. Kept(K.count)'
  <2> SUFFICES ASSUME NEW d \in Nat, d = K.count PROVE Kept(d)'
    BY <1>0, <1>5, ShellTypes
  <2> QED  BY <1>1, <1>7, SameKept
<1>9. WriteInv'
  <2>1. pc'[Shell] \notin {"drq", "transfer", "settle", "sent"}  BY <1>2
  <2> QED  BY <1>4, <1>5, <1>6, <1>8, <2>1 DEF WriteInv, Flushing
<1>10. StatusInv'  BY <1>2, <1>4 DEF StatusInv, Lagging, Statuses
<1> QED  BY <1>2, <1>5, <1>6, <1>9, <1>10 DEF CallInv

LEMMA ClientKeeps ==
  ASSUME AtaInv, AtaType', ClientStep(Shell), STALE \notin lags'
  PROVE  CallInv'
<1>0. CallInv  BY DEF AtaInv
<1>1. CASE CallFails(Shell) \/ Timeout(Shell)
  BY <1>1, ReturnKeeps DEF CallFails, Timeout, LagPasses
<1>3. CASE WriteReturns(Shell)
  <2>1. /\ pc[Shell] = "flush" /\ shown # "busy"
        /\ Return(Shell) /\ drive' = drive /\ shown' = shown
    BY <1>3 DEF WriteReturns, device
  <2>2. shown = drive.st \/ Lagging  BY <1>0, <2>1 DEF CallInv, StatusInv
  <2>3. Flushing \/ drive = Idle  BY <1>3, WriteDone DEF AtaInv
  <2>4. Lagging => drive.cmd = "flush"  BY <2>3, IdleDrive DEF Lagging, Flushing
  <2>5. shown' = drive'.st \/ (Lagging' /\ drive'.cmd = "flush")
    BY <2>1, <2>2, <2>4 DEF Lagging
  <2> QED  BY <2>1, <2>5, ReturnKeeps
<1>2. CASE ReadReturns(Shell)
  BY <1>2, ReturnKeeps DEF ReadReturns, ata_io_wait
<1> QED
  BY <1>1, <1>2, <1>3, IssueRegistersKeeps, IssueCommandKeeps, WaitDrqKeeps,
     TransferWordKeeps, NextSectorKeeps, DataSentKeeps, FlushKeeps
  DEF ClientStep

-----------------------------------------------------------------------------
(* The theorems.                                                           *)

\* A call that was misled stays in the history.
LEMMA StaleStays ==
  ASSUME [Next]_vars, STALE \in lags
  PROVE  STALE \in lags'
<1> USE DEF STALE, UNFLUSHED, LOST
<1>1. CASE Drive
  BY <1>1 DEF Drive, DriveReady, DriveStores, DriveFlushes, DriveFails, DriveWritesBack,
    StatusCatchesUp
<1>2. CASE ata_init
  BY <1>2 DEF ata_init, InitIdentify, InitGivesUp, InitNotBusy, InitReads
<1>3. CASE Crash  BY <1>3 DEF Crash
<1>4. ASSUME NEW c \in Clients, Calls(c) PROVE STALE \in lags'
  BY <1>4 DEF Calls, Call
<1>5. ASSUME NEW c \in Clients, ClientStep(c) PROVE STALE \in lags'
  BY <1>5 DEF ClientStep, IssueRegisters, IssueCommand, WaitDrq, CallFails, TransferWord,
    NextSector, ReadReturns, DataSent, Flush, WriteReturns, Timeout, LagPasses, Command
<1>6. CASE UNCHANGED vars  BY <1>6 DEF vars
<1> QED  BY <1>1, <1>2, <1>3, <1>4, <1>5, <1>6 DEF Next

LEMMA AtaInvHolds ==
  ASSUME Alone
  PROVE  Spec => []AtaSound
<1>1. Init => AtaSound
  <2> SUFFICES ASSUME Init PROVE AtaInv
    BY DEF AtaSound
  <2> USE DEF Init
  <2>0. Shell \in Clients  BY ClientsAssumption
  <2>1. pc \in [Clients -> Labels]  BY DEF Labels
  <2>2. call \in [Clients -> Arguments]  BY NoCallType
  <2>3. buf \in [Clients -> Seq(AllWords)]  OBVIOUS
  <2>4. drive \in Drives /\ drive.cmd \notin Ops /\ shown \in Statuses
    BY IdleDrive DEF Ops, Statuses
  <2>5. Sector(Blank) \in Wholes  BY DEF Wholes, Contents
  <2>6. /\ cache \in [Sectors -> Wholes \cup {NONE}] /\ medium \in [Sectors -> Wholes]
        /\ allowed \in [Sectors -> SUBSET Wholes]
    BY <2>5
  <2>7. AtaType  BY <2>1, <2>2, <2>3, <2>4, <2>6 DEF AtaType
  <2>8. Justified  BY <2>4 DEF Justified, Lawful, Stored, Ops
  <2>9. CallInv
    <3>1. pc[Shell] = "init" /\ buf[Shell] = <<>> /\ call[Shell] = NoCall  BY <2>0
    <3>2. Moving = 0 /\ K.op = "none"  BY <3>1, NoCallType DEF Moving, K
    <3>3. shown = drive.st  BY IdleDrive
    <3>4. StatusInv  BY <3>1, <3>3 DEF StatusInv
    <3> QED  BY <3>1, <3>2, <3>4 DEF CallInv, InCall
  <2> QED  BY <2>7, <2>8, <2>9 DEF AtaInv
<1>2. AtaSound /\ [Next]_vars => AtaSound'
  <2> SUFFICES ASSUME AtaInv, [Next]_vars, STALE \notin lags' PROVE AtaInv'
    BY StaleStays DEF AtaSound
  <2>0. AtaType /\ Justified  BY DEF AtaInv
  <2>1. CASE Drive  BY <2>0, <2>1, DriveHolds, DriveKeeps DEF AtaInv, Alone
  <2>2. CASE ata_init  BY <2>0, <2>2, InitHolds, InitKeeps DEF AtaInv
  <2>3. CASE Crash  BY <2>0, <2>3, CrashHolds, CrashKeeps DEF AtaInv
  <2>4. CASE Calls(Shell)
    BY <2>0, <2>4, ClientsAssumption, CallHolds, CallKeeps DEF AtaInv
  <2>5. CASE ClientStep(Shell)  BY <2>5, ClientHolds, ClientKeeps DEF AtaInv
  <2>6. CASE UNCHANGED vars
    <3>1. UNCHANGED <<disk, pc, call, buf, regs, kind, drive, shown, cache, medium, allowed, lags>>
      BY <2>6 DEF vars, client, device
    <3>2. AtaType' /\ Justified'  BY <2>0, <3>1 DEF AtaType, Justified, Lawful, Stored
    <3>3. K' = K /\ Moving' = Moving /\ SameStored
      BY <3>1 DEF K, Moving, SameStored, Stored
    <3>4. CallInv'
      BY <3>1 DEF AtaInv, CallInv, StatusInv, Lagging, WriteInv, ReadInv, K, Moving, Kept,
        Stored, Pending, Waiting, Taking, Ended, Failed, Ignored, Flushing, Looking,
        Offering, Right
    <3> QED  BY <3>2, <3>4 DEF AtaInv
  <2> QED  BY <2>1, <2>2, <2>3, <2>4, <2>5, <2>6 DEF Next, Alone
<1> QED  BY <1>1, <1>2, PTL DEF Spec

\* For any drive whose errors come before it has the data, and any calls of one
\* client: every sector is whole, and the drive holds of it what the last write
\* that returned 0 put there or what a later one that failed meant to, also
\* after timeouts, errors and losses of power.  It has it on the medium unless
\* the flush was still under way when a write returned.  Excepted are the two
\* cases the statement names: a DRQ of a transfer that was given up has been
\* taken for a new one, and the power went before such a flush had ended
\* (ata.c:167-196).
THEOREM SectorsStayAsWritten ==
  ASSUME Alone
  PROVE  Spec => []SectorsAsWritten
<1>1. AtaSound => SectorsAsWritten
  BY DEF AtaSound, AtaInv, Justified, Lawful, SectorsAsWritten
<1> QED  BY <1>1, AtaInvHolds, PTL

\* One client, errors that come before the data, and no old DRQ taken for a new
\* one so far: a read that returns 0 has brought exactly the sectors it was
\* asked for (ata.c:144-165).
THEOREM ReadsTheRightSectors ==
  ASSUME Alone
  PROVE  Spec => ReadsTheseSectors
<1> DEFINE Brings ==
      STALE \notin lags => \A c \in Clients : ReadReturns(c) => BroughtItsSectors(c)
<1>1. AtaSound => Brings
  <2> SUFFICES ASSUME AtaInv, ReadReturns(Shell), NEW i \in DOMAIN buf[Shell]
               PROVE  Right(i)
    BY DEF Alone, AtaSound, BroughtItsSectors, Right, K
  <2>1. K.op = "read"  BY DEF ReadReturns, K
  <2>2. ReadInv  BY <2>1 DEF AtaInv, CallInv
  <2>3. i \in 1..Moving  BY ShellTypes DEF AtaInv, Moving
  <2> QED  BY <2>2, <2>3 DEF ReadInv
<1>2. AtaSound /\ [Next]_vars => [Brings]_vars  BY <1>1
<1> QED  BY <1>2, AtaInvHolds, PTL DEF Spec, ReadsTheseSectors
=============================================================================
