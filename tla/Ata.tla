-------------------------------- MODULE Ata --------------------------------
(***************************************************************************)
(* drivers/ata.c: sectors read and written through the ports of an ATA     *)
(* drive, word by word and with polling.  Every port access that the drive *)
(* or another process can answer or disturb is a step of its own; a loop   *)
(* that polls the status is one step that leaves it, or the one that gives *)
(* up after 4,000,000 turns.                                               *)
(*                                                                         *)
(* The drive is external.  It may be slow or stop answering, fail a        *)
(* command, and lose what it has not yet put on the medium when the power  *)
(* goes.  After a command, and after the last word of a sector, the status *)
(* port may still show the old status for a moment; ata_io_wait lets it    *)
(* pass, where the code calls it.                                          *)
(***************************************************************************)
EXTENDS Integers, Sequences, FiniteSets

CONSTANTS
    Clients, Shell,     \* processes that use the disk; the one that boots
    Writers,            \* the clients that write
    Sectors,            \* sectors of the drive: 0..n
    Values,             \* what a client writes
    Words,              \* words of a sector (256 in the code)
    MaxCount,           \* sectors of one call
    LBA28,              \* what the address registers count to (2^28)
    LateErrors,         \* whether the drive may fail after it took the data
    MaxCalls, MaxCrashes    \* bounds: calls, losses of power

ASSUME ClientsAssumption == Shell \in Clients /\ Writers \subseteq Clients
ASSUME SectorsAssumption == IsFiniteSet(Sectors) /\ Sectors \subseteq Nat
ASSUME NumbersAssumption ==
    {Words, MaxCount} \subseteq Nat \ {0} /\ {MaxCalls, MaxCrashes} \subseteq Nat
ASSUME ErrorsAssumption == LateErrors \in BOOLEAN

\* One sector beyond the end may be asked for: the FAT names such clusters.  All
\* are within the reach of the registers.
Lbas == Sectors \cup {Cardinality(Sectors)}
ASSUME LbasAssumption == LBA28 \in Nat /\ Lbas \subseteq 0 .. LBA28 - 1

VARIABLES
    disk,           \* disk_present: "probing" until ata_init has ended
    pc, call, buf,  \* of each client: step, arguments, words moved so far
    regs,           \* LBA and sector count registers
    kind,           \* what is on the channel: "ata", "atapi" or "none"
    drive,          \* command under way: [st, cmd, lba, left, data]
    shown,          \* the status the port shows
    cache, medium,  \* what the drive holds of each sector
    allowed,        \* the values a sector may have, from the calls so far
    lags,           \* what a status that was shown too long has done (below)
    calls, crashes

client == <<disk, pc, call, buf, regs>>
device == <<kind, drive, shown, cache, medium>>
bounds == <<calls, crashes>>
vars == <<client, device, allowed, lags, bounds>>

Blank == "blank"        \* what a sector holds before it is written
Garbage == "garbage"    \* a word from a drive that offers none
NONE == <<>>

\* History: the DRQ of a transfer that was given up showed after a new command;
\* a write has returned 0 before the drive had flushed; and then the power went.
STALE == "stale_drq"
UNFLUSHED == "unflushed"
LOST == "lost"

Sector(v) == [i \in 1..Words |-> v]
Stored(l) == IF cache[l] # NONE THEN cache[l] ELSE medium[l]
Idle == [st |-> "idle", cmd |-> "none", lba |-> 0, left |-> 0, data |-> NONE]
NoCall == [op |-> "none", lba |-> 0, count |-> 0, value |-> Blank]
Goto(c, step) == pc' = [pc EXCEPT ![c] = step]

(***************************************************************************)
(* The drive (hardware).                                                   *)
(***************************************************************************)
\* A write to the command register.  A busy drive takes no notice; a transfer
\* under way is given up.
Command(cmd) ==
    /\ drive' = IF drive.st = "busy" THEN drive
                ELSE [st |-> "busy", cmd |-> cmd, lba |-> regs.lba,
                      left |-> regs.count, data |-> NONE]
    /\ shown' \in {shown, "busy"}
    /\ lags' = IF drive.st = "drq" /\ shown' = "drq" THEN lags \cup {STALE} ELSE lags

\* The status after the host has moved the last word of a sector.
AfterSector == IF drive.cmd = "write" \/ drive.left > 1 THEN "busy" ELSE "idle"

\* The drive ends the step it is busy with.
DriveStep(d) == /\ drive.st = "busy" /\ drive' = d /\ shown' = d.st
                /\ UNCHANGED <<client, kind, allowed, bounds>>

\* What IDENTIFY brings is not told apart from a sector.
DriveReady ==
    /\ drive.cmd \in {"read", "write", "identify"} /\ drive.data = NONE
    /\ drive.cmd = "identify" => kind = "ata"
    /\ drive.lba \in Sectors
    /\ DriveStep([drive EXCEPT !.st = "drq",
                     !.data = IF drive.cmd = "write" THEN NONE ELSE Stored(drive.lba)])
    /\ UNCHANGED <<cache, medium, lags>>

DriveStores ==
    /\ drive.cmd = "write" /\ Len(drive.data) = Words
    /\ cache' = [cache EXCEPT ![drive.lba] = drive.data]
    /\ DriveStep(IF drive.left = 1 THEN Idle
                 ELSE [drive EXCEPT !.lba = @ + 1, !.left = @ - 1, !.data = NONE])
    /\ UNCHANGED <<medium, lags>>

DriveFlushes ==
    /\ drive.cmd = "flush"
    /\ medium' = [l \in Sectors |-> Stored(l)]
    /\ cache' = [l \in Sectors |-> NONE]
    /\ lags' = lags \ {UNFLUSHED}
    /\ DriveStep(Idle)

\* A sector beyond the end, a bad one, a command the device does not know; with
\* LateErrors also a sector that cannot be written, or a flush that fails.
DriveFails ==
    /\ LateErrors \/ (drive.cmd # "flush" /\ drive.data = NONE)
    /\ DriveStep([Idle EXCEPT !.st = "err"])
    /\ UNCHANGED <<cache, medium, lags>>

\* The drive may write a sector back at any time.
DriveWritesBack(l) ==
    /\ cache[l] # NONE
    /\ medium' = [medium EXCEPT ![l] = cache[l]]
    /\ cache' = [cache EXCEPT ![l] = NONE]
    /\ UNCHANGED <<client, kind, drive, shown, allowed, lags, bounds>>

StatusCatchesUp ==
    /\ shown # drive.st /\ shown' = drive.st
    /\ UNCHANGED <<client, kind, drive, cache, medium, allowed, lags, bounds>>

Drive == \/ DriveReady \/ DriveStores \/ DriveFlushes \/ DriveFails
         \/ StatusCatchesUp \/ \E l \in Sectors : DriveWritesBack(l)

(***************************************************************************)
(* ata_init.                                                               *)
(***************************************************************************)
Absent == disk' = "absent" /\ Goto(Shell, "idle")

\* The registers are cleared, IDENTIFY is sent and the status awaited.
InitIdentify ==
    /\ pc[Shell] = "init" /\ Goto(Shell, "init_status")
    /\ regs' = [lba |-> 0, count |-> 0]
    /\ drive' = IF kind = "none" THEN Idle
                ELSE [Idle EXCEPT !.st = "busy", !.cmd = "identify", !.left = 1]
    /\ shown' = drive'.st
    /\ UNCHANGED <<disk, call, buf, kind, cache, medium, allowed, lags, bounds>>

\* No drive; a drive that stays busy; one that is no disk; a failed IDENTIFY.
InitGivesUp ==
    /\ \/ pc[Shell] = "init_status" /\ kind = "none"
       \/ pc[Shell] = "init_status" /\ kind # "none" /\ shown = "busy"
       \/ pc[Shell] = "init_status" /\ shown # "busy" /\ kind = "atapi"
       \/ pc[Shell] = "init_drq" /\ shown # "drq"
    /\ Absent
    /\ UNCHANGED <<call, buf, regs, device, allowed, lags, bounds>>

InitNotBusy ==
    /\ pc[Shell] = "init_status" /\ kind = "ata" /\ shown # "busy"
    /\ Goto(Shell, "init_drq")
    /\ UNCHANGED <<disk, call, buf, regs, device, allowed, lags, bounds>>

\* The 256 words are read; nobody else uses the ports yet.
InitReads ==
    /\ pc[Shell] = "init_drq" /\ shown = "drq"
    /\ disk' = "present" /\ Goto(Shell, "idle")
    /\ drive' = Idle /\ shown' = "idle"
    /\ UNCHANGED <<call, buf, regs, kind, cache, medium, allowed, lags, bounds>>

ata_init == InitIdentify \/ InitGivesUp \/ InitNotBusy \/ InitReads

(***************************************************************************)
(* ata_read_sectors and ata_write_sectors.                                 *)
(***************************************************************************)
Return(c) == /\ Goto(c, "idle")
             /\ call' = [call EXCEPT ![c] = NoCall]
             /\ buf' = [buf EXCEPT ![c] = <<>>]

Span(k) == k.lba .. k.lba + k.count - 1

\* Without a disk, and for no sectors, the call returns -1 at once.
Call(c, op, l, n, v) ==
    /\ calls < MaxCalls /\ calls' = calls + 1
    /\ pc[c] = "idle" /\ disk = "present"
    /\ Goto(c, "issue")
    /\ call' = [call EXCEPT ![c] = [op |-> op, lba |-> l, count |-> n, value |-> v]]
    /\ allowed' = [x \in Sectors |-> IF op = "write" /\ x \in Span(call'[c])
                                     THEN allowed[x] \cup {Sector(v)} ELSE allowed[x]]
    /\ UNCHANGED <<disk, buf, regs, device, lags, crashes>>

\* ata_issue: the drive does not look busy; its registers take 28 bits.
IssueRegisters(c) ==
    /\ pc[c] = "issue" /\ shown # "busy" /\ Goto(c, "command")
    /\ regs' = [lba |-> call[c].lba % LBA28, count |-> call[c].count]
    /\ UNCHANGED <<disk, call, buf, device, allowed, lags, bounds>>

IssueCommand(c) ==
    /\ pc[c] = "command" /\ Goto(c, "drq")
    /\ Command(call[c].op)
    /\ UNCHANGED <<disk, call, buf, regs, kind, cache, medium, allowed, bounds>>

\* Mutant: the end of BSY is taken for DRQ.
NotBusyIsReady(c) == pc[c] = "drq" /\ shown # "busy"

DataReady(c) == pc[c] = "drq" /\ shown = "drq"

WaitDrq(c) ==
    /\ DataReady(c) /\ Goto(c, "transfer")
    /\ UNCHANGED <<disk, call, buf, regs, device, allowed, lags, bounds>>

\* The message, or millions of polls, take longer than the old status shows.
LagPasses ==
    /\ shown' = drive.st
    /\ UNCHANGED <<disk, regs, kind, drive, cache, medium, allowed, lags, bounds>>

\* ata_wait_drq sees ERR, of this command or still of the one before.
CallFails(c) == pc[c] = "drq" /\ shown = "err" /\ Return(c) /\ LagPasses

Offers(cmd) == drive.st = "drq" /\ drive.cmd = cmd

\* What the last word of a sector does to the drive.
SectorMoved(d) == d.st = "drq" /\ Len(d.data) = IF d.cmd = "write" THEN Words ELSE 0
Moved(d) ==
    IF ~SectorMoved(d) THEN d
    ELSE IF AfterSector = "idle" THEN Idle
    ELSE IF d.cmd = "write" THEN [d EXCEPT !.st = "busy"]
    ELSE [d EXCEPT !.st = "busy", !.lba = @ + 1, !.left = @ - 1, !.data = NONE]

\* One inw or outw.  The status port may lag behind.
TransferWord(c) ==
    /\ pc[c] = "transfer"
    /\ LET op == call[c].op
           word == IF op = "write" THEN call[c].value
                   ELSE IF Offers("read") THEN Head(drive.data) ELSE Garbage
       IN /\ buf' = [buf EXCEPT ![c] = Append(@, word)]
          /\ drive' = IF ~Offers(op) THEN drive
                      ELSE Moved([drive EXCEPT !.data = IF op = "write" THEN Append(@, word)
                                                       ELSE Tail(@)])
    /\ shown' \in {shown, drive'.st}
    /\ Goto(c, IF Len(buf'[c]) % Words = 0 THEN "settle" ELSE "transfer")
    /\ UNCHANGED <<disk, call, regs, kind, cache, medium, allowed, lags, bounds>>

\* Mutant: no wait after the last word of a sector.
StatusAsShown == shown' = shown

\* ata_io_wait: the status port shows the state of the drive.
ata_io_wait == shown' = drive.st

AllMoved(c) == Len(buf[c]) = Words * call[c].count

NextSector(c) ==
    /\ pc[c] = "settle" /\ ~AllMoved(c) /\ ata_io_wait /\ Goto(c, "drq")
    /\ UNCHANGED <<disk, call, buf, regs, kind, drive, cache, medium, allowed, lags, bounds>>

ReadReturns(c) ==
    /\ pc[c] = "settle" /\ AllMoved(c) /\ call[c].op = "read" /\ ata_io_wait
    /\ Return(c)
    /\ UNCHANGED <<disk, regs, kind, drive, cache, medium, allowed, lags, bounds>>

DataSent(c) ==
    /\ pc[c] = "settle" /\ AllMoved(c) /\ call[c].op = "write" /\ ata_io_wait
    /\ Goto(c, "sent")
    /\ UNCHANGED <<disk, call, buf, regs, kind, drive, cache, medium, allowed, lags, bounds>>

Flush(c) ==
    /\ pc[c] = "sent" /\ shown # "busy" /\ Goto(c, "flush")
    /\ Command("flush")
    /\ UNCHANGED <<disk, call, buf, regs, kind, cache, medium, allowed, bounds>>

\* The status is not awaited after FLUSH: the drive may look idle before it has
\* begun.  The call returns 0: from now on its sectors hold what it wrote.
WriteReturns(c) ==
    /\ pc[c] = "flush" /\ shown # "busy"
    /\ allowed' = [l \in Sectors |-> IF l \in Span(call[c]) THEN {Sector(call[c].value)}
                                     ELSE allowed[l]]
    /\ lags' = IF drive.st = "busy" THEN lags \cup {UNFLUSHED} ELSE lags
    /\ Return(c)
    /\ UNCHANGED <<disk, regs, device, bounds>>

\* Mutant: ata_wait_not_busy waits for ever.
WaitsForEver(c) == pc[c] = "drq" /\ shown \in {"busy", "idle"}

\* A loop of 4,000,000 polls ends without what it waits for.
TimedOut(c) == \/ pc[c] \in {"issue", "sent", "flush"} /\ shown = "busy"
               \/ pc[c] = "drq" /\ shown \in {"busy", "idle"}

Timeout(c) == TimedOut(c) /\ Return(c) /\ LagPasses

(***************************************************************************)
(* The power goes; the machine boots again.                                *)
(***************************************************************************)
Crash ==
    /\ crashes < MaxCrashes /\ crashes' = crashes + 1
    /\ disk = "present"
    /\ disk' = "probing"
    /\ pc' = [c \in Clients |-> IF c = Shell THEN "init" ELSE "idle"]
    /\ call' = [c \in Clients |-> NoCall]
    /\ buf' = [c \in Clients |-> <<>>]
    /\ drive' = Idle /\ shown' = "idle"
    /\ cache' = [l \in Sectors |-> NONE]
    /\ lags' = (lags \ {UNFLUSHED}) \cup (IF UNFLUSHED \in lags THEN {LOST} ELSE {})
    /\ UNCHANGED <<regs, kind, medium, allowed, calls>>

Init ==
    /\ disk = "probing"
    /\ pc = [c \in Clients |-> IF c = Shell THEN "init" ELSE "idle"]
    /\ call = [c \in Clients |-> NoCall] /\ buf = [c \in Clients |-> <<>>]
    /\ regs = [lba |-> 0, count |-> 0]
    /\ kind \in {"ata", "atapi", "none"}
    /\ drive = Idle /\ shown = "idle"
    /\ cache = [l \in Sectors |-> NONE]
    /\ medium = [l \in Sectors |-> Sector(Blank)]
    /\ allowed = [l \in Sectors |-> {Sector(Blank)}]
    /\ lags = {} /\ calls = 0 /\ crashes = 0

Calls(c) ==
    \E l \in Lbas, n \in 1..MaxCount :
        \/ Call(c, "read", l, n, Blank)
        \/ c \in Writers /\ \E v \in Values : Call(c, "write", l, n, v)

ClientStep(c) ==
    \/ IssueRegisters(c) \/ IssueCommand(c) \/ WaitDrq(c) \/ CallFails(c)
    \/ TransferWord(c) \/ NextSector(c) \/ ReadReturns(c) \/ DataSent(c)
    \/ Flush(c) \/ WriteReturns(c) \/ Timeout(c)

Next == Drive \/ ata_init \/ Crash \/ \E c \in Clients : Calls(c) \/ ClientStep(c)

Spec == Init /\ [][Next]_vars

\* The CPU comes back to every process, and a polling loop ends.  Nothing is
\* assumed of the drive.
FairSpec == Spec /\ WF_vars(ata_init) /\ \A c \in Clients : WF_vars(ClientStep(c))

(***************************************************************************)
(* Properties.                                                             *)
(***************************************************************************)
\* The drive holds whole sectors: of each what the last write that returned 0
\* put there, or what a later one that failed meant to put there, also after
\* timeouts, aborted commands and losses of power.  It is on the medium unless
\* a write has just returned too early.  Left out is what follows when a
\* transfer that was given up still showed its DRQ after a command, or when the
\* power went after an early return (ata.c:167-196, ata.h:27).
SectorsAsWritten ==
    \A l \in Sectors :
        /\ lags \cap {STALE, LOST} = {} => Stored(l) \in allowed[l]
        /\ lags = {} => medium[l] \in allowed[l]

\* The words of the buffer are those of the sectors asked for.
BroughtItsSectors(c) ==
    \A i \in DOMAIN buf[c] :
        LET l == call[c].lba + (i - 1) \div Words
        IN  l \in Sectors /\ buf[c][i] = Stored(l)[((i - 1) % Words) + 1]

\* A read that returns 0 brings the sectors it was asked for, whatever command
\* was given up before it, unless the DRQ of a transfer that was given up has
\* shown after a later command (ata.c:144-165).
ReadsTheseSectors ==
    [][STALE \notin lags =>
          \A c \in Clients : ReadReturns(c) => BroughtItsSectors(c)]_vars

\* What the comments say.  TLC refutes both, because neither ata_issue nor the
\* flush waits for the status to follow a command: a write returns 0 with its
\* data in the drive's cache only (ata.c:190), and a read that comes after one
\* that timed out takes the old DRQ for its own and returns 0 with words that
\* are no data (ata.h:24).
FlushedOnReturn == \A l \in Sectors : medium[l] \in allowed[l]
ReadAlwaysRight ==
    [][\A c \in Clients : ReadReturns(c) => BroughtItsSectors(c)]_vars

\* Every call returns, although the drive may stop answering at any point
\* (ata.c:47-65).
CallEnds == \A c \in Clients : (pc[c] # "idle") ~> (pc[c] = "idle")
=============================================================================
