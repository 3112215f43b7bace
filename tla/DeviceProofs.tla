---------------------------- MODULE DeviceProofs ----------------------------
(***************************************************************************)
(* The devices and the servers next to them, for every size and limit:     *)
(*  - the disk server writes only where it was asked to, whoever asks,     *)
(*    takes no interrupt for another and delivers what it was asked for,   *)
(*    whether or not waitfor() times out;                                  *)
(*  - the file system server over it delivers the bytes of the file and    *)
(*    opens what the directory names, on every medium that is well formed; *)
(*  - the ring of scan codes: what is never wrong, and what cannot go      *)
(*    wrong on the first lap.                                              *)
(***************************************************************************)
EXTENDS FileSystem, KeyBuffer, SequenceTheorems, WellFoundedInduction, TLAPS

\* Some process sends a request, when there is none.
ClientAsks == /\ call = NoCall
              /\ call' \in Calls
              /\ UNCHANGED <<disk, int, drive, medium, mem>>

DiskSpec == DiskInit /\ [][DiskNext \/ ClientAsks]_diskVars

-----------------------------------------------------------------------------
(* The invariant: while the server works on a request, what it has moved   *)
(* and what it has still to move make up what was asked for.               *)

Locals(d) == {"pc", "bytes", "off"} \subseteq DOMAIN d /\ d.bytes \in Nat /\ d.off \in Nat

Remains ==
    disk.pc # "receive" =>
       /\ call # NoCall /\ call \in Calls
       /\ disk.off >= call.off
       /\ disk.off + disk.bytes = call.off + call.count
       /\ call.fn = "INFO" => disk.off = call.off

DiskInv == Locals(disk) /\ Remains /\ (call # NoCall => call \in Calls)

-----------------------------------------------------------------------------

\* UnitsOf() yields as many units as it is asked for.
LEMMA UnitsOfLen ==
    ASSUME NEW f, NEW from, NEW n \in Nat
    PROVE  /\ UnitsOf(f, from, n) \in Seq({f[from + k - 1] : k \in 1 .. n})
           /\ Len(UnitsOf(f, from, n)) = n
<1> DEFINE S == {f[from + k - 1] : k \in 1 .. n}
<1>1. UnitsOf(f, from, n) \in [1 .. n -> S]
    BY DEF UnitsOf
<1> HIDE DEF S
<1>2. UnitsOf(f, from, n) \in Seq(S)
    BY <1>1
<1>3. Len(UnitsOf(f, from, n)) = n
    BY <1>1, <1>2, LenProperties
<1> QED BY <1>2, <1>3 DEF S

\* phys_copy() to the right area and place changes nothing outside the request.
LEMMA CopyKeepsTo ==
    ASSUME NEW off \in Nat, NEW s, Len(s) \in Nat, call \in Calls,
           mem' = Copied(call.area, off, s),
           off >= call.off, off + Len(s) <= call.off + call.count,
           NEW a \in DOMAIN mem, NEW i \in DOMAIN mem[a], mem'[a][i] # mem[a][i]
    PROVE  a = call.area /\ i \in call.off .. call.off + call.count - 1
<1> DEFINE g == [j \in DOMAIN mem[a] |->
                    IF j \in off .. off + Len(s) - 1 THEN s[j - off + 1] ELSE mem[a][j]]
<1>1. CASE a # call.area
    BY <1>1 DEF Copied
<1>2. CASE a = call.area
    <2>1. mem'[a] = g
        BY <1>2 DEF Copied
    <2>2. i \in off .. off + Len(s) - 1
        BY <2>1
    <2> QED BY <1>2, <2>2 DEF Calls
<1> QED BY <1>1, <1>2

\* Onward() only decides where the server goes on.
LEMMA OnwardKeeps ==
    ASSUME NEW d, Locals(d), NEW fn
    PROVE  /\ Locals(Onward(d, fn))
           /\ Onward(d, fn).bytes = d.bytes /\ Onward(d, fn).off = d.off
           /\ Onward(d, fn).pc # "receive"
BY DEF Onward, Locals

-----------------------------------------------------------------------------
(* The steps.                                                              *)

LEMMA TakeCallInv == DiskInv /\ TakeCall => DiskInv'
<1> SUFFICES ASSUME DiskInv, TakeCall
             PROVE  DiskInv'
    OBVIOUS
<1>1. call # NoCall /\ call \in Calls /\ call' = call
    BY DEF DiskInv, TakeCall
<1>2. PICK left :
          disk' = Onward([disk EXCEPT !.head = call.head, !.count = 0,
                             !.bytes = call.count, !.off = call.off, !.late = FALSE,
                             !.missed = FALSE, !.left = left], call.fn)
    BY DEF TakeCall
<1> DEFINE d == [disk EXCEPT !.head = call.head, !.count = 0, !.bytes = call.count,
                             !.off = call.off, !.late = FALSE, !.missed = FALSE,
                             !.left = left]
<1>3. Locals(d) /\ d.bytes = call.count /\ d.off = call.off
    BY <1>1 DEF Calls, DiskInv, Locals
<1> HIDE DEF d
<1>4. disk' = Onward(d, call.fn)
    BY <1>2 DEF d
<1> QED BY <1>1, <1>3, <1>4, OnwardKeeps DEF DiskInv, Remains, Calls, Locals

LEMMA IssueInv == DiskInv /\ (CmdOut \/ CmdTimeout) => DiskInv'
<1> SUFFICES ASSUME DiskInv, CmdOut \/ CmdTimeout
             PROVE  DiskInv'
    OBVIOUS
<1>1. PICK n, late :
          disk' = Onward([disk EXCEPT !.head = @ + n, !.left = @ - n, !.count = n,
                                      !.late = late], call.fn)
    BY DEF CmdOut, CmdTimeout, Issue
<1> DEFINE d == [disk EXCEPT !.head = @ + n, !.left = @ - n, !.count = n, !.late = late]
<1>2. disk.pc = "command" /\ call' = call
    BY DEF CmdOut, CmdTimeout, Issue
<1>3. Locals(d) /\ d.bytes = disk.bytes /\ d.off = disk.off
    BY DEF DiskInv, Locals
<1> HIDE DEF d
<1>4. disk' = Onward(d, call.fn)
    BY <1>1 DEF d
<1> QED BY <1>2, <1>3, <1>4, OnwardKeeps DEF DiskInv, Remains, Locals

\* The sector just moved, or what of it was asked for, is taken off the rest.
LEMMA SectorDoneInv ==
    ASSUME DiskInv, disk.pc = "interrupt", call.fn # "INFO",
           SectorDone(Bytes(disk)), call' = call
    PROVE  DiskInv'
<1> DEFINE n == Bytes(disk)
           d == [disk EXCEPT !.count = @ - 1, !.bytes = @ - n, !.off = @ + n]
<1>1. n \in Nat /\ n <= disk.bytes
    BY DiskAssumption DEF DiskInv, Locals, Bytes, Least
<1>2. disk' = Onward(d, call.fn)
    BY DEF SectorDone
<1> HIDE DEF n
<1>3. Locals(d) /\ d.bytes = disk.bytes - n /\ d.off = disk.off + n
    BY <1>1 DEF DiskInv, Locals
<1> HIDE DEF d
<1>4. call \in Calls /\ disk.bytes \in Nat /\ disk.off \in Nat /\ disk.off >= call.off
      /\ disk.off + disk.bytes = call.off + call.count
    BY DEF DiskInv, Locals, Remains
<1>5. d.off >= call.off /\ d.off + d.bytes = call.off + call.count
    BY <1>1, <1>3, <1>4 DEF Calls
<1> QED BY <1>2, <1>3, <1>4, <1>5, OnwardKeeps DEF DiskInv, Remains, Locals

LEMMA DiskStep == DiskInv /\ [DiskNext \/ ClientAsks]_diskVars => DiskInv'
<1> SUFFICES ASSUME DiskInv, [DiskNext \/ ClientAsks]_diskVars
             PROVE  DiskInv'
    OBVIOUS
<1> USE DEF DiskInv, Remains, Locals
<1>1. CASE TakeCall
    BY <1>1, TakeCallInv
<1>2. CASE DropInterrupt
    BY <1>2 DEF DropInterrupt
<1>3. CASE CmdOut \/ CmdTimeout
    BY <1>3, IssueInv
<1>4. CASE ReadSector
    BY <1>4, SectorDoneInv DEF ReadSector, Interrupted
<1>5. CASE FeedSector
    BY <1>5 DEF FeedSector
<1>6. CASE FeedTimeout
    BY <1>6 DEF FeedTimeout
<1>7. CASE SectorWritten
    BY <1>7, SectorDoneInv DEF SectorWritten, Interrupted
<1>8. CASE ReadInfo
    BY <1>8 DEF ReadInfo, Interrupted
<1>9. CASE AnswerCall
    BY <1>9 DEF AnswerCall
<1>10. CASE Controller
    <2>1. call' = call /\ (disk' = disk \/ \E m : disk' = [disk EXCEPT !.missed = m])
        BY <1>10 DEF Controller, SpunUp, SectorReady, AsksForData, StoresSector, Interrupt
    <2>2. CASE disk' = disk
        BY <2>1, <2>2
    <2>3. CASE \E m : disk' = [disk EXCEPT !.missed = m]
        BY <2>1, <2>3
    <2> QED BY <2>1, <2>2, <2>3
<1>11. CASE ClientAsks
    BY <1>11 DEF ClientAsks
<1>12. CASE UNCHANGED diskVars
    BY <1>12 DEF diskVars
<1> QED
    BY <1>1, <1>2, <1>3, <1>4, <1>5, <1>6, <1>7, <1>8, <1>9, <1>10, <1>11, <1>12
       DEF DiskNext, Server

-----------------------------------------------------------------------------
(* The theorem.                                                            *)

Kept == \A a \in DOMAIN mem : \A i \in DOMAIN mem[a] :
            mem'[a][i] # mem[a][i] =>
               a = call.area /\ i \in call.off .. call.off + call.count - 1

\* disk_read(): of the last sector only the rest of the request is copied.
LEMMA ReadSectorKept == DiskInv /\ ReadSector => Kept
<1> SUFFICES ASSUME DiskInv, ReadSector
             PROVE  Kept
    OBVIOUS
<1> DEFINE n == Bytes(disk)
           s == SubSeq(PortUnits, 1, n)
<1>1. n \in Nat /\ n <= disk.bytes /\ n <= SECTOR_SIZE
    BY DiskAssumption DEF DiskInv, Locals, Bytes, Least
<1>2. PICK S : PortUnits \in Seq(S) /\ Len(PortUnits) = SECTOR_SIZE
    <2>1. CASE drive.st = "data" /\ drive.fn = "READ"
        BY <2>1, UnitsOfLen, DiskAssumption DEF PortUnits
    <2>2. CASE ~(drive.st = "data" /\ drive.fn = "READ")
        <3>1. PortUnits = [k \in 1 .. SECTOR_SIZE |-> Junk]
            BY <2>2 DEF PortUnits
        <3>2. PortUnits \in Seq({Junk}) /\ Len(PortUnits) = SECTOR_SIZE
            BY <3>1, DiskAssumption
        <3> QED BY <3>2
    <2> QED BY <2>1, <2>2
<1>3. Len(s) = n
    BY <1>1, <1>2, DiskAssumption
<1>4. mem' = Copied(call.area, disk.off, s)
    BY DEF ReadSector
<1>5. /\ call \in Calls /\ disk.off \in Nat /\ disk.bytes \in Nat
      /\ disk.off >= call.off /\ disk.off + disk.bytes = call.off + call.count
    BY DEF ReadSector, Interrupted, DiskInv, Remains, Locals
<1> HIDE DEF n, s
<1>6. disk.off + Len(s) <= call.off + call.count
    BY <1>1, <1>3, <1>5 DEF Calls
<1>7. Len(s) \in Nat
    BY <1>1, <1>3
<1> QED BY <1>4, <1>5, <1>6, <1>7, CopyKeepsTo DEF Kept

\* disk_info(): the text is cut to what was asked for.
LEMMA ReadInfoKept == DiskInv /\ ReadInfo => Kept
<1> SUFFICES ASSUME DiskInv, ReadInfo
             PROVE  Kept
    OBVIOUS
<1> DEFINE n == Least(call.count, SECTOR_SIZE)
           s == UnitsOf([i \in Nat |-> InfoText], 0, n)
<1>1. call \in Calls /\ disk.off = call.off /\ disk.off \in Nat
    BY DEF ReadInfo, Interrupted, DiskInv, Remains, Locals
<1>2. n \in Nat /\ n <= call.count
    BY <1>1, DiskAssumption DEF Calls, Least
<1>3. mem' = Copied(call.area, disk.off, s)
    BY DEF ReadInfo
<1> HIDE DEF n
<1>4. Len(s) = n
    BY <1>2, UnitsOfLen
<1> HIDE DEF s
<1>5. disk.off >= call.off /\ disk.off + Len(s) <= call.off + call.count
    BY <1>1, <1>2, <1>4 DEF Calls
<1> QED BY <1>1, <1>2, <1>3, <1>4, <1>5, CopyKeepsTo DEF Kept

\* No other step writes the memory of a client.
LEMMA StepKept == DiskInv /\ [DiskNext \/ ClientAsks]_diskVars => [Kept]_mem
<1> SUFFICES ASSUME DiskInv, [DiskNext \/ ClientAsks]_diskVars
             PROVE  Kept \/ mem' = mem
    OBVIOUS
<1>1. CASE ReadSector
    BY <1>1, ReadSectorKept
<1>2. CASE ReadInfo
    BY <1>2, ReadInfoKept
<1>3. CASE Controller
    BY <1>3 DEF Controller
<1>4. CASE ClientAsks
    BY <1>4 DEF ClientAsks
<1>5. CASE UNCHANGED diskVars
    BY <1>5 DEF diskVars
<1>6. CASE \/ TakeCall \/ DropInterrupt \/ CmdOut \/ CmdTimeout
           \/ FeedSector \/ FeedTimeout \/ SectorWritten \/ AnswerCall
    BY <1>6 DEF TakeCall, DropInterrupt, CmdOut, CmdTimeout, Issue, FeedSector,
                FeedTimeout, SectorWritten, AnswerCall
<1> QED BY <1>1, <1>2, <1>3, <1>4, <1>5, <1>6 DEF DiskNext, Server

\* Whatever is asked of the disk server, disk_read() and disk_info() write
\* nothing outside the bytes they were asked for.
THEOREM BufferKept == DiskSpec => KeepsToBuffer
<1>1. DiskInit => DiskInv
    BY DEF DiskInit, DiskInv, Remains, Locals
<1>2. DiskSpec => []DiskInv
    BY <1>1, DiskStep, PTL DEF DiskSpec
<1> QED BY <1>2, StepKept, PTL DEF DiskSpec, KeepsToBuffer, Kept
-----------------------------------------------------------------------------
(* The server and the controller keep in step: where each of them stands   *)
(* for every place of the server in its program.                           *)

Places == {"receive", "command", "feed", "interrupt", "answer"}

LocalsOf == [pc : Places, head : Nat, left : Nat, count : Nat,
             bytes : Nat, off : Nat, late : BOOLEAN, missed : BOOLEAN]

Fields ==
    /\ disk \in LocalsOf
    /\ {"st", "fn", "lba", "left", "words"} \subseteq DOMAIN drive
    /\ DOMAIN medium = DOMAIN Medium

\* The controller raises no interrupt and none is pending.
Quiet == /\ ~int /\ drive.words = <<>>
         /\ drive.st # "idle" =>
               drive.fn = "WRITE" \/ (drive.fn = "NONE" /\ drive.st = "busy")

\* What the server moves next is what the controller moves next.
InStep == drive.lba = SectorDue /\ drive.left = disk.count /\ drive.fn = call.fn

\* The whole sector that lies at the server's place in memory.
Due == UnitsOf(mem[call.area], disk.off, SECTOR_SIZE)

Feeding == /\ call.fn = "WRITE" /\ Quiet
           /\ ~disk.late => InStep /\ drive.st \in {"busy", "data"}

AwaitsSector ==
    /\ call.fn \in {"READ", "INFO"} /\ ~disk.late /\ drive.words = <<>>
    /\ InStep
    /\ \/ drive.st = "busy" /\ ~int
       \/ drive.st = "data" /\ int

\* The controller has been fed: a part of a sector, for which no interrupt
\* will come, or all of it.
AwaitsStore ==
    /\ call.fn = "WRITE" /\ drive.fn = "WRITE" /\ ~int
    /\ \/ drive.st = "data"
       \/ /\ drive.st = "busy" /\ drive.words # <<>>
          /\ ~disk.late => InStep /\ drive.words = Due /\ disk.bytes >= SECTOR_SIZE

SeesStored ==
    /\ call.fn = "WRITE" /\ drive.fn = "WRITE" /\ int /\ drive.words = <<>>
    /\ drive.st \in {"data", "idle"}
    /\ ~disk.late =>
          /\ drive.lba = SectorDue + 1 /\ drive.left = disk.count - 1
          /\ disk.count > 1 => drive.st = "data"
          /\ UnitsOf(medium, SectorDue * SECTOR_SIZE, SECTOR_SIZE) = Due

\* After a time-out nobody may be there to raise the interrupt.
AwaitsNothing == disk.late /\ Quiet /\ call.fn \in {"READ", "WRITE", "INFO"}

InCommand == /\ disk.left > 0 /\ disk.count = 0 /\ Quiet
             /\ call.fn \in {"READ", "WRITE", "INFO"}
             /\ disk.late => call.fn = "WRITE"

\* disk_info() reads one sector; otherwise the sectors moved and the bytes
\* that remain make up the request, until none remain.
Progress ==
    /\ call.fn = "INFO" => disk.left + disk.count <= 1
    /\ call.fn = "WRITE" /\ disk.bytes > 0 =>
          SectorDue * SECTOR_SIZE + disk.bytes = call.head * SECTOR_SIZE + call.count

Sync ==
    /\ disk.pc \in {"receive", "answer"} => Quiet
    /\ disk.pc = "command" => InCommand
    /\ disk.pc = "feed" => Feeding
    /\ disk.pc = "interrupt" => AwaitsSector \/ AwaitsStore \/ SeesStored \/ AwaitsNothing
    /\ disk.pc \in {"feed", "interrupt"} => disk.count > 0
    /\ disk.pc # "receive" => SectorDue \in Nat /\ Progress

SyncInv == Fields /\ Sync

\* A write stays within the medium.
OnMedium ==
    call # NoCall /\ call.fn = "WRITE" =>
       call.head * SECTOR_SIZE .. call.head * SECTOR_SIZE + call.count - 1
          \subseteq DOMAIN Medium

-----------------------------------------------------------------------------

\* Unit k of sector n lies in sector n, at place k.
LEMMA PlaceInSector ==
    ASSUME NEW n \in Nat, NEW k \in 1 .. SECTOR_SIZE
    PROVE  /\ (n * SECTOR_SIZE + k - 1) \div SECTOR_SIZE = n
           /\ (n * SECTOR_SIZE + k - 1) % SECTOR_SIZE = k - 1
BY DiskAssumption, SMTT(30)

LEMMA SectorsNat == ASSUME NEW count \in Nat PROVE Sectors(count) \in Nat
BY DiskAssumption DEF Sectors

\* Where the server goes on when its counters are what they should be.
LEMMA OnwardSync ==
    ASSUME NEW d \in LocalsOf, NEW fn, NEW o, o = Onward(d, fn)
    PROVE  /\ o \in LocalsOf /\ o = [d EXCEPT !.pc = o.pc]
           /\ o.pc \in {"feed", "interrupt", "command", "answer"}
           /\ o.pc = "feed" <=> d.count > 0 /\ fn = "WRITE"
           /\ o.pc = "interrupt" <=> d.count > 0 /\ fn # "WRITE"
           /\ o.pc = "command" <=> d.count = 0 /\ d.left > 0
           /\ o.pc = "answer" <=> d.count = 0 /\ d.left = 0
<1> DEFINE p == IF d.count > 0 THEN IF fn = "WRITE" THEN "feed" ELSE "interrupt"
                ELSE IF d.left > 0 THEN "command" ELSE "answer"
<1>1. o = [d EXCEPT !.pc = p]
    BY DEF Onward
<1>2. d.count \in Nat /\ d.left \in Nat
    BY DEF LocalsOf
<1>3. p \in {"feed", "interrupt", "command", "answer"}
    OBVIOUS
<1>4. /\ p = "feed" <=> d.count > 0 /\ fn = "WRITE"
      /\ p = "interrupt" <=> d.count > 0 /\ fn # "WRITE"
    OBVIOUS
<1>5. /\ p = "command" <=> d.count = 0 /\ d.left > 0
      /\ p = "answer" <=> d.count = 0 /\ d.left = 0
    BY <1>2
<1> HIDE DEF p
<1>6. p \in Places
    BY <1>3 DEF Places
<1>7. o \in LocalsOf /\ o.pc = p
    BY <1>1, <1>6 DEF LocalsOf
<1> QED BY <1>1, <1>3, <1>4, <1>5, <1>7

\* disk_handler() may only find the server going to sleep.
LEMMA InterruptLocals ==
    ASSUME disk \in LocalsOf, Interrupt
    PROVE  /\ int' = TRUE /\ disk' \in LocalsOf
           /\ disk'.pc = disk.pc /\ disk'.head = disk.head /\ disk'.left = disk.left
           /\ disk'.count = disk.count /\ disk'.bytes = disk.bytes /\ disk'.off = disk.off
           /\ disk'.late = disk.late
BY DEF Interrupt, LocalsOf

LEMMA TakeCallSync == DiskInv /\ SyncInv /\ TakeCall => SyncInv'
<1> SUFFICES ASSUME DiskInv, SyncInv, TakeCall
             PROVE  SyncInv'
    OBVIOUS
<1> DEFINE left == CASE call.fn \in {"READ", "WRITE"} -> Sectors(call.count)
                     [] call.fn = "INFO" -> 1
                     [] OTHER -> 0
           d == [disk EXCEPT !.head = call.head, !.count = 0, !.bytes = call.count,
                             !.off = call.off, !.late = FALSE, !.missed = FALSE,
                             !.left = left]
<1>1. call \in Calls /\ call' = call /\ Quiet /\ UNCHANGED <<int, drive, medium, mem>>
    BY DEF TakeCall, DiskInv, SyncInv, Sync
<1>2. /\ left \in Nat
      /\ left > 0 => call.fn \in {"READ", "WRITE", "INFO"}
      /\ call.fn = "INFO" => left = 1
    BY <1>1, SectorsNat DEF Calls
<1>3. disk' = Onward(d, call.fn)
    BY DEF TakeCall
<1> HIDE DEF left
<1>4. /\ d \in LocalsOf
      /\ d.head = call.head /\ d.left = left /\ d.count = 0 /\ d.bytes = call.count
      /\ d.late = FALSE
    BY <1>1, <1>2 DEF Calls, SyncInv, Fields, LocalsOf
<1> HIDE DEF d
<1>5. /\ disk' \in LocalsOf
      /\ disk' = [d EXCEPT !.pc = disk'.pc]
      /\ disk'.pc \in {"command", "answer"} /\ (disk'.pc = "command" => left > 0)
    BY <1>3, <1>4, OnwardSync
<1>6. Fields'
    BY <1>1, <1>4, <1>5 DEF SyncInv, Fields
<1>7. SectorDue' = call.head /\ disk'.left = left /\ disk'.count = 0
      /\ disk'.bytes = call.count /\ disk'.late = FALSE
    BY <1>1, <1>4, <1>5 DEF SectorDue, Calls, LocalsOf
<1>8. Progress' /\ SectorDue' \in Nat
    BY <1>1, <1>2, <1>7 DEF Progress, Calls
<1>9. disk'.pc = "command" => InCommand'
    BY <1>1, <1>2, <1>5, <1>7 DEF InCommand, Quiet
<1> QED BY <1>1, <1>5, <1>6, <1>8, <1>9 DEF SyncInv, Sync, Quiet

\* A command, or none, since waitfor() has timed out.
LEMMA IssueSync ==
    ASSUME DiskInv, SyncInv, disk.pc = "command", NEW sent \in BOOLEAN, Issue(sent),
           sent <=> drive.st # "busy"
    PROVE  SyncInv'
<1> DEFINE n == Least(disk.left, MaxCount)
           d == [disk EXCEPT !.head = @ + n, !.left = @ - n, !.count = n,
                             !.late = @ \/ ~sent]
<1>1. disk \in LocalsOf /\ InCommand /\ Progress /\ SectorDue \in Nat
    BY DEF SyncInv, Fields, Sync
<1>2. n \in Nat /\ n > 0 /\ n <= disk.left
    BY <1>1, DiskAssumption DEF Least, InCommand, LocalsOf
<1>3. disk' = Onward(d, call.fn) /\ UNCHANGED <<call, int, medium, mem>>
    BY DEF Issue
<1>4. drive' = IF sent THEN [st |-> "busy", fn |-> call.fn, lba |-> disk.head,
                             left |-> n, words |-> <<>>]
               ELSE drive
    BY DEF Issue
<1> HIDE DEF n
<1>5. /\ d \in LocalsOf /\ d.head = disk.head + n /\ d.left = disk.left - n
      /\ d.count = n /\ d.bytes = disk.bytes /\ d.late = (disk.late \/ ~sent)
    <2> DEFINE late == disk.late \/ ~sent
    <2>1. disk.head + n \in Nat /\ disk.left - n \in Nat /\ late \in BOOLEAN
        BY <1>1, <1>2 DEF LocalsOf
    <2>2. d = [disk EXCEPT !.head = @ + n, !.left = @ - n, !.count = n, !.late = late]
        OBVIOUS
    <2> HIDE DEF d, late
    <2>3. /\ d \in LocalsOf /\ d.head = disk.head + n /\ d.left = disk.left - n
          /\ d.count = n /\ d.bytes = disk.bytes /\ d.late = late
        BY <1>1, <1>2, <2>1, <2>2 DEF LocalsOf
    <2> QED BY <2>3 DEF late
<1> HIDE DEF d
<1>6. /\ disk' \in LocalsOf /\ disk' = [d EXCEPT !.pc = disk'.pc]
      /\ disk'.pc \in {"feed", "interrupt"}
      /\ disk'.pc = "feed" <=> call.fn = "WRITE"
    BY <1>2, <1>3, <1>5, OnwardSync
<1>7. /\ disk'.head = disk.head + n /\ disk'.left = disk.left - n /\ disk'.count = n
      /\ disk'.bytes = disk.bytes /\ disk'.late = (disk.late \/ ~sent)
    BY <1>1, <1>5, <1>6 DEF LocalsOf
<1>8. Fields'
    BY <1>3, <1>4, <1>6 DEF SyncInv, Fields
<1>9. SectorDue' = disk.head /\ SectorDue = disk.head
    BY <1>1, <1>2, <1>7 DEF SectorDue, InCommand, LocalsOf
<1>10. SectorDue' \in Nat /\ Progress'
    BY <1>1, <1>2, <1>3, <1>7, <1>9 DEF Progress, InCommand, LocalsOf
<1>11. CASE sent
    <2>1. drive'.st = "busy" /\ drive'.words = <<>> /\ InStep' /\ int' = FALSE
        BY <1>1, <1>3, <1>4, <1>7, <1>9, <1>11 DEF InStep, InCommand, Quiet
    <2>2. disk'.pc = "feed" => Feeding'
        BY <1>3, <1>6, <2>1 DEF Feeding, Quiet, InStep
    <2>3. disk'.pc = "interrupt" => AwaitsSector'
        BY <1>1, <1>3, <1>6, <1>7, <1>11, <2>1 DEF AwaitsSector, InCommand
    <2> QED BY <1>2, <1>6, <1>7, <1>8, <1>10, <2>2, <2>3 DEF SyncInv, Sync
<1>12. CASE ~sent
    <2>1. Quiet' /\ disk'.late /\ call' = call
        BY <1>1, <1>3, <1>4, <1>7, <1>12 DEF Quiet, InCommand
    <2>2. disk'.pc = "feed" => Feeding'
        BY <1>3, <1>6, <2>1 DEF Feeding
    <2>3. disk'.pc = "interrupt" => AwaitsNothing'
        BY <1>1, <2>1 DEF AwaitsNothing, InCommand
    <2> QED BY <1>2, <1>6, <1>7, <1>8, <1>10, <2>2, <2>3 DEF SyncInv, Sync
<1> QED BY <1>11, <1>12

\* The counters after a sector has been moved, or what of it was asked for.
LEMMA SectorDoneSync ==
    ASSUME DiskInv, SyncInv, disk.pc = "interrupt", call.fn \in {"READ", "WRITE"},
           SectorDone(Bytes(disk)), call' = call
    PROVE  /\ disk' \in LocalsOf
           /\ disk'.count = disk.count - 1 /\ disk'.left = disk.left
           /\ disk'.late = disk.late
           /\ SectorDue' = SectorDue + 1 /\ Progress'
           /\ disk'.pc \in {"feed", "interrupt", "command", "answer"}
           /\ disk'.pc = "feed" <=> disk'.count > 0 /\ call.fn = "WRITE"
           /\ disk'.pc = "interrupt" <=> disk'.count > 0 /\ call.fn # "WRITE"
           /\ disk'.pc = "command" <=> disk'.count = 0 /\ disk'.left > 0
<1> DEFINE n == Bytes(disk)
           d == [disk EXCEPT !.count = @ - 1, !.bytes = @ - n, !.off = @ + n]
<1>1. /\ disk \in LocalsOf /\ disk.count > 0 /\ disk.bytes \in Nat /\ disk.count \in Nat
      /\ disk.head \in Nat /\ SectorDue \in Nat /\ Progress
    BY DEF SyncInv, Fields, Sync, LocalsOf
<1>2. n \in Nat /\ n <= disk.bytes /\ (n < disk.bytes => n = SECTOR_SIZE)
    BY <1>1, DiskAssumption DEF Bytes, Least
<1>3. disk' = Onward(d, call.fn)
    BY DEF SectorDone
<1> HIDE DEF n
<1>4. /\ d \in LocalsOf /\ d.head = disk.head /\ d.left = disk.left
      /\ d.count = disk.count - 1 /\ d.bytes = disk.bytes - n /\ d.late = disk.late
    <2>1. disk.count - 1 \in Nat /\ disk.bytes - n \in Nat /\ disk.off + n \in Nat
        BY <1>1, <1>2 DEF LocalsOf
    <2> QED BY <1>1, <2>1 DEF LocalsOf
<1> HIDE DEF d
<1>5. /\ disk' \in LocalsOf /\ disk' = [d EXCEPT !.pc = disk'.pc]
      /\ disk'.pc \in {"feed", "interrupt", "command", "answer"}
      /\ disk'.pc = "feed" <=> d.count > 0 /\ call.fn = "WRITE"
      /\ disk'.pc = "interrupt" <=> d.count > 0 /\ call.fn # "WRITE"
      /\ disk'.pc = "command" <=> d.count = 0 /\ d.left > 0
    BY <1>3, <1>4, OnwardSync
<1>6. /\ disk'.head = disk.head /\ disk'.left = disk.left /\ disk'.count = disk.count - 1
      /\ disk'.bytes = disk.bytes - n /\ disk'.late = disk.late
      /\ d.count = disk'.count /\ d.left = disk'.left
    BY <1>4, <1>5 DEF LocalsOf
<1>7. SectorDue' = SectorDue + 1
    BY <1>1, <1>6 DEF SectorDue
<1>8. Progress'
    <2>1. ASSUME call.fn = "WRITE", disk'.bytes > 0
          PROVE  SectorDue' * SECTOR_SIZE + disk'.bytes
                    = call.head * SECTOR_SIZE + call.count
        <3>1. n = SECTOR_SIZE /\ disk.bytes > 0
            BY <1>1, <1>2, <1>6, <2>1
        <3>2. SectorDue * SECTOR_SIZE + disk.bytes = call.head * SECTOR_SIZE + call.count
            BY <1>1, <2>1, <3>1 DEF Progress
        <3>3. (SectorDue + 1) * SECTOR_SIZE = SectorDue * SECTOR_SIZE + SECTOR_SIZE
            BY <1>1, DiskAssumption
        <3>4. SectorDue * SECTOR_SIZE \in Int
            BY <1>1, DiskAssumption
        <3>5. disk'.bytes = disk.bytes - SECTOR_SIZE
            BY <1>6, <3>1
        <3> DEFINE here == SectorDue * SECTOR_SIZE
        <3> HIDE DEF here
        <3>6. SectorDue' * SECTOR_SIZE + disk'.bytes = here + disk.bytes
            BY <1>1, <1>7, <3>3, <3>4, <3>5, DiskAssumption DEF here
        <3> QED BY <3>2, <3>6 DEF here
    <2> QED BY <2>1, call' = call, call.fn # "INFO" DEF Progress
<1> QED BY <1>5, <1>6, <1>7, <1>8

LEMMA ReadSectorSync == DiskInv /\ SyncInv /\ ReadSector => SyncInv'
<1> SUFFICES ASSUME DiskInv, SyncInv, ReadSector
             PROVE  SyncInv'
    OBVIOUS
<1>1. /\ disk.pc = "interrupt" /\ int /\ call.fn = "READ" /\ int' = FALSE
      /\ UNCHANGED <<call, medium>>
      /\ drive' = (IF drive.st = "data" THEN Drained ELSE drive)
      /\ SectorDone(Bytes(disk))
    BY DEF ReadSector, Interrupted
<1>2. /\ disk \in LocalsOf /\ disk.count > 0 /\ SectorDue \in Nat
      /\ AwaitsSector /\ drive.st = "data"
    BY <1>1 DEF SyncInv, Fields, Sync, AwaitsSector, AwaitsStore, SeesStored,
                AwaitsNothing, Quiet
<1>3. /\ drive'.lba = drive.lba + 1 /\ drive'.left = drive.left - 1
      /\ drive'.st = (IF drive.left > 1 THEN "busy" ELSE "idle")
      /\ drive'.fn = drive.fn /\ drive'.words = drive.words
      /\ {"st", "fn", "lba", "left", "words"} \subseteq DOMAIN drive'
    BY <1>1, <1>2 DEF Drained, SyncInv, Fields
<1>4. /\ disk' \in LocalsOf
      /\ disk'.count = disk.count - 1 /\ disk'.left = disk.left /\ disk'.late = disk.late
      /\ SectorDue' = SectorDue + 1 /\ Progress'
      /\ disk'.pc \in {"interrupt", "command", "answer"}
      /\ disk'.pc = "interrupt" <=> disk'.count > 0
      /\ disk'.pc = "command" <=> disk'.count = 0 /\ disk'.left > 0
    BY <1>1, SectorDoneSync
<1>5. Fields'
    BY <1>1, <1>3, <1>4 DEF Fields, SyncInv
<1>6. InStep' /\ drive'.words = <<>> /\ ~disk'.late
    BY <1>1, <1>2, <1>3, <1>4 DEF InStep, AwaitsSector
<1>7. disk'.pc = "interrupt" => AwaitsSector'
    BY <1>1, <1>2, <1>3, <1>4, <1>6 DEF AwaitsSector, InStep, LocalsOf
<1>8. disk'.pc # "interrupt" => Quiet'
    BY <1>1, <1>2, <1>3, <1>4, <1>6 DEF AwaitsSector, InStep, Quiet, LocalsOf
<1>9. disk'.pc = "command" => InCommand'
    BY <1>1, <1>4, <1>6, <1>8 DEF InCommand
<1> QED BY <1>2, <1>4, <1>5, <1>7, <1>8, <1>9 DEF SyncInv, Sync

LEMMA SectorWrittenSync == DiskInv /\ SyncInv /\ SectorWritten => SyncInv'
<1> SUFFICES ASSUME DiskInv, SyncInv, SectorWritten
             PROVE  SyncInv'
    OBVIOUS
<1>1. /\ disk.pc = "interrupt" /\ int /\ call.fn = "WRITE" /\ int' = FALSE
      /\ UNCHANGED <<call, drive, medium, mem>>
      /\ SectorDone(Bytes(disk))
    BY DEF SectorWritten, Interrupted
<1>2. /\ disk \in LocalsOf /\ disk.count > 0 /\ SectorDue \in Nat /\ SeesStored
    BY <1>1 DEF SyncInv, Fields, Sync, AwaitsSector, AwaitsStore, AwaitsNothing, Quiet
<1>3. /\ disk' \in LocalsOf
      /\ disk'.count = disk.count - 1 /\ disk'.left = disk.left /\ disk'.late = disk.late
      /\ SectorDue' = SectorDue + 1 /\ Progress'
      /\ disk'.pc \in {"feed", "command", "answer"}
      /\ disk'.pc = "feed" <=> disk'.count > 0
      /\ disk'.pc = "command" <=> disk'.count = 0 /\ disk'.left > 0
    BY <1>1, SectorDoneSync
<1>4. Fields'
    BY <1>1, <1>3 DEF Fields, SyncInv
<1>5. Quiet'
    BY <1>1, <1>2 DEF SeesStored, Quiet
<1>6. disk'.pc = "feed" => Feeding'
    <2> SUFFICES ASSUME disk'.pc = "feed"
                 PROVE  Feeding'
        OBVIOUS
    <2>1. disk.count > 1
        BY <1>2, <1>3 DEF LocalsOf
    <2>2. ~disk'.late => InStep' /\ drive'.st = "data"
        BY <1>1, <1>2, <1>3, <2>1 DEF SeesStored, InStep
    <2> QED BY <1>1, <1>5, <2>2 DEF Feeding
<1>7. disk'.pc = "command" => InCommand'
    BY <1>1, <1>3, <1>5 DEF InCommand
<1> QED BY <1>2, <1>3, <1>4, <1>5, <1>6, <1>7 DEF SyncInv, Sync

LEMMA ReadInfoSync == DiskInv /\ SyncInv /\ ReadInfo => SyncInv'
<1> SUFFICES ASSUME DiskInv, SyncInv, ReadInfo
             PROVE  SyncInv'
    OBVIOUS
<1>1. /\ disk.pc = "interrupt" /\ int /\ call.fn = "INFO" /\ int' = FALSE
      /\ UNCHANGED <<call, medium>>
      /\ drive' = (IF drive.st = "data" THEN Drained ELSE drive)
      /\ disk' = [disk EXCEPT !.count = 0, !.pc = "answer"]
    BY DEF ReadInfo, Interrupted
<1>2. /\ disk \in LocalsOf /\ disk.count > 0 /\ Progress
      /\ AwaitsSector /\ drive.st = "data"
    BY <1>1 DEF SyncInv, Fields, Sync, AwaitsSector, AwaitsStore, SeesStored,
                AwaitsNothing, Quiet
<1>3. drive.left = 1 /\ drive.words = <<>>
    BY <1>1, <1>2 DEF Progress, AwaitsSector, InStep, LocalsOf
<1>4. drive'.st = "idle" /\ drive'.words = <<>>
      /\ {"st", "fn", "lba", "left", "words"} \subseteq DOMAIN drive'
    BY <1>1, <1>2, <1>3 DEF Drained, SyncInv, Fields
<1>5. /\ disk' \in LocalsOf /\ disk'.pc = "answer" /\ disk'.count = 0
      /\ disk'.left = disk.left /\ disk'.head = disk.head
    BY <1>1, <1>2 DEF LocalsOf, Places
<1>6. Fields' /\ Quiet'
    BY <1>1, <1>4, <1>5 DEF Fields, Quiet, SyncInv
<1>7. SectorDue' \in Nat /\ Progress'
    BY <1>1, <1>2, <1>5 DEF SectorDue, Progress, LocalsOf
<1> QED BY <1>5, <1>6, <1>7 DEF SyncInv, Sync

LEMMA FeedSectorSync == DiskInv /\ SyncInv /\ FeedSector => SyncInv'
<1> SUFFICES ASSUME DiskInv, SyncInv, FeedSector
             PROVE  SyncInv'
    OBVIOUS
<1> DEFINE fed == UnitsOf(mem[call.area], disk.off, Bytes(disk))
           words == drive.words \o fed
<1>1. /\ disk.pc = "feed" /\ drive.st # "busy" /\ disk' = [disk EXCEPT !.pc = "interrupt"]
      /\ UNCHANGED <<call, int, medium, mem>>
      /\ drive' = IF drive.st # "data" THEN drive
                  ELSE [drive EXCEPT !.words = words,
                           !.st = IF Len(words) = SECTOR_SIZE THEN "busy" ELSE "data"]
    BY DEF FeedSector
<1>2. /\ disk \in LocalsOf /\ disk.count > 0 /\ SectorDue \in Nat /\ Progress /\ Feeding
    BY <1>1 DEF SyncInv, Fields, Sync
<1>3. /\ disk' \in LocalsOf /\ disk'.pc = "interrupt" /\ disk'.count = disk.count
      /\ disk'.head = disk.head /\ disk'.left = disk.left /\ disk'.off = disk.off
      /\ disk'.bytes = disk.bytes /\ disk'.late = disk.late
    BY <1>1, <1>2 DEF LocalsOf, Places
<1>4. SectorDue' = SectorDue /\ Progress' /\ Due' = Due
    BY <1>1, <1>2, <1>3 DEF SectorDue, Progress, Due
<1>5. Bytes(disk) \in Nat /\ (Bytes(disk) = SECTOR_SIZE => disk.bytes >= SECTOR_SIZE)
    BY <1>2, DiskAssumption DEF Bytes, Least, LocalsOf
<1>6. fed \in Seq({mem[call.area][disk.off + k - 1] : k \in 1 .. Bytes(disk)})
      /\ Len(fed) = Bytes(disk)
    BY <1>5, UnitsOfLen
<1> HIDE DEF fed
<1>7. words = fed
    BY <1>2, <1>6 DEF Feeding, Quiet
<1> HIDE DEF words
<1>8. CASE drive.st # "data"
    <2>1. drive' = drive /\ disk'.late /\ Quiet'
        BY <1>1, <1>2, <1>3, <1>8 DEF Feeding, Quiet
    <2>2. AwaitsNothing' /\ Fields'
        BY <1>1, <1>2, <1>3, <2>1 DEF AwaitsNothing, Feeding, Fields, SyncInv
    <2> QED BY <1>2, <1>3, <1>4, <2>2 DEF SyncInv, Sync
<1>9. CASE drive.st = "data"
    <2>1. /\ drive'.words = fed /\ drive'.fn = drive.fn /\ drive'.lba = drive.lba
          /\ drive'.left = drive.left
          /\ drive'.st = (IF Len(fed) = SECTOR_SIZE THEN "busy" ELSE "data")
          /\ {"st", "fn", "lba", "left", "words"} \subseteq DOMAIN drive'
        BY <1>1, <1>7, <1>9 DEF SyncInv, Fields
    <2>2. Fields'
        BY <1>1, <1>3, <2>1 DEF Fields, SyncInv
    <2>3. CASE Len(fed) # SECTOR_SIZE /\ drive.fn = "WRITE"
        <3>1. AwaitsStore'
            BY <1>1, <1>2, <2>1, <2>3 DEF AwaitsStore, Feeding, Quiet
        <3> QED BY <1>2, <1>3, <1>4, <2>2, <3>1 DEF SyncInv, Sync
    <2>4. CASE Len(fed) = SECTOR_SIZE /\ drive.fn = "WRITE"
        <3>1. fed = Due /\ disk.bytes >= SECTOR_SIZE
            BY <1>5, <1>6, <2>4 DEF fed, Due
        <3>2. fed # <<>>
            BY <2>4, DiskAssumption
        <3>3. ~disk'.late => InStep'
            BY <1>1, <1>2, <1>3, <1>4, <2>1 DEF Feeding, InStep
        <3>4. AwaitsStore'
            BY <1>1, <1>2, <1>3, <1>4, <2>1, <2>4, <3>1, <3>2, <3>3
               DEF AwaitsStore, Feeding, Quiet
        <3> QED BY <1>2, <1>3, <1>4, <2>2, <3>4 DEF SyncInv, Sync
    <2>5. drive.fn = "WRITE"
        BY <1>2, <1>9 DEF Feeding, Quiet
    <2> QED BY <2>3, <2>4, <2>5
<1> QED BY <1>8, <1>9

LEMMA OtherServerSync ==
    DiskInv /\ SyncInv /\ (DropInterrupt \/ FeedTimeout \/ AnswerCall) => SyncInv'
<1> SUFFICES ASSUME DiskInv, SyncInv, DropInterrupt \/ FeedTimeout \/ AnswerCall
             PROVE  SyncInv'
    OBVIOUS
<1>1. CASE DropInterrupt
    BY <1>1 DEF DropInterrupt, SyncInv, Sync, Quiet
<1>2. CASE FeedTimeout
    <2>1. disk \in LocalsOf /\ SectorDue \in Nat /\ Progress /\ Quiet
        BY <1>2 DEF FeedTimeout, SyncInv, Fields, Sync, Feeding
    <2>2. /\ disk' \in LocalsOf /\ disk'.pc = "answer" /\ disk'.count = disk.count
          /\ disk'.head = disk.head /\ disk'.left = disk.left /\ disk'.bytes = disk.bytes
        BY <1>2, <2>1 DEF FeedTimeout, LocalsOf, Places
    <2>3. Fields' /\ SectorDue' = SectorDue /\ Progress' /\ Quiet'
        BY <1>2, <2>1, <2>2 DEF FeedTimeout, SyncInv, Fields, SectorDue, Progress, Quiet
    <2> QED BY <2>1, <2>2, <2>3 DEF SyncInv, Sync
<1>3. CASE AnswerCall
    <2>1. disk \in LocalsOf /\ Quiet
        BY <1>3 DEF AnswerCall, SyncInv, Fields, Sync
    <2>2. disk' \in LocalsOf /\ disk'.pc = "receive"
        BY <1>3, <2>1 DEF AnswerCall, LocalsOf, Places
    <2>3. Fields' /\ Quiet'
        BY <1>3, <2>1, <2>2 DEF AnswerCall, SyncInv, Fields, Quiet
    <2> QED BY <2>2, <2>3 DEF SyncInv, Sync
<1> QED BY <1>1, <1>2, <1>3

\* The controller without a sector of its own to move: the drive spins up, or
\* asks for what it is to write.
LEMMA AsksSync ==
    ASSUME DiskInv, SyncInv, UNCHANGED <<call, mem>>, SpunUp \/ AsksForData
    PROVE  SyncInv'
<1>1. /\ drive.st = "busy" /\ UNCHANGED <<disk, int, medium>>
      /\ {"st", "fn", "lba", "left", "words"} \subseteq DOMAIN drive'
      /\ drive'.fn = drive.fn /\ drive'.lba = drive.lba /\ drive'.left = drive.left
      /\ drive'.words = drive.words
      /\ \/ drive.fn = "NONE" /\ drive'.st = "idle"
         \/ drive.fn = "WRITE" /\ drive.words = <<>> /\ drive'.st = "data"
    BY DEF SpunUp, AsksForData, SyncInv, Fields
<1>2. Fields' /\ SectorDue' = SectorDue /\ (Progress => Progress')
    BY <1>1 DEF SyncInv, Fields, SectorDue, Progress
<1>3. Quiet => Quiet'
    BY <1>1 DEF Quiet
<1>4. Feeding => Feeding'
    BY <1>1, <1>2, <1>3 DEF Feeding, InStep
<1>5. ~AwaitsSector /\ ~AwaitsStore /\ ~SeesStored
    BY <1>1 DEF AwaitsSector, AwaitsStore, SeesStored, InStep
<1>6. AwaitsNothing => AwaitsNothing'
    BY <1>1, <1>3 DEF AwaitsNothing
<1>7. InCommand => InCommand'
    BY <1>1, <1>3 DEF InCommand
<1> QED BY <1>1, <1>2, <1>3, <1>4, <1>5, <1>6, <1>7 DEF SyncInv, Sync

LEMMA SectorReadySync ==
    ASSUME DiskInv, SyncInv, UNCHANGED <<call, mem>>, SectorReady
    PROVE  SyncInv'
<1>0. /\ disk \in LocalsOf /\ disk' \in LocalsOf
      /\ disk'.pc = disk.pc /\ disk'.head = disk.head /\ disk'.left = disk.left
      /\ disk'.count = disk.count /\ disk'.bytes = disk.bytes /\ disk'.off = disk.off
      /\ disk'.late = disk.late
    BY InterruptLocals DEF SectorReady, SyncInv, Fields
<1>1. /\ drive.st = "busy" /\ drive.fn \in {"READ", "INFO"} /\ medium' = medium
      /\ drive'.st = "data" /\ int'
      /\ {"st", "fn", "lba", "left", "words"} \subseteq DOMAIN drive'
      /\ drive'.fn = drive.fn /\ drive'.lba = drive.lba /\ drive'.left = drive.left
      /\ drive'.words = drive.words
    BY DEF SectorReady, Interrupt, SyncInv, Fields
<1>2. Fields' /\ SectorDue' = SectorDue /\ (Progress => Progress')
    BY <1>0, <1>1 DEF SyncInv, Fields, SectorDue, Progress
<1>3. ~Quiet
    BY <1>1 DEF Quiet
<1>4. disk.pc = "interrupt" /\ AwaitsSector
    BY <1>1, <1>3 DEF SyncInv, Fields, Sync, LocalsOf, Places, InCommand, Feeding,
                      AwaitsStore, SeesStored, AwaitsNothing
<1>5. AwaitsSector'
    BY <1>0, <1>1, <1>2, <1>4 DEF AwaitsSector, InStep
<1> QED BY <1>0, <1>2, <1>4, <1>5 DEF SyncInv, Sync

\* The controller stores the sector it was fed where the server wants it.
LEMMA StoresSectorSync ==
    ASSUME DiskInv, SyncInv, OnMedium, UNCHANGED <<call, mem>>, StoresSector
    PROVE  SyncInv'
<1>0. /\ disk \in LocalsOf /\ disk' \in LocalsOf
      /\ disk'.pc = disk.pc /\ disk'.head = disk.head /\ disk'.left = disk.left
      /\ disk'.count = disk.count /\ disk'.bytes = disk.bytes /\ disk'.off = disk.off
      /\ disk'.late = disk.late
    BY InterruptLocals DEF StoresSector, SyncInv, Fields
<1>1. /\ drive.st = "busy" /\ drive.words # <<>> /\ int'
      /\ {"st", "fn", "lba", "left", "words"} \subseteq DOMAIN drive'
      /\ drive'.st = (IF drive.left > 1 THEN "data" ELSE "idle")
      /\ drive'.fn = drive.fn /\ drive'.lba = drive.lba + 1
      /\ drive'.left = drive.left - 1 /\ drive'.words = <<>>
      /\ medium' = [i \in DOMAIN medium |->
                      IF i \div SECTOR_SIZE = drive.lba
                      THEN drive.words[(i % SECTOR_SIZE) + 1] ELSE medium[i]]
    BY DEF StoresSector, Interrupt, Drained, SyncInv, Fields
<1>2. /\ Fields' /\ SectorDue' = SectorDue /\ (Progress => Progress') /\ Due' = Due
      /\ disk \in LocalsOf
    BY <1>0, <1>1 DEF SyncInv, Fields, SectorDue, Progress, Due
<1>3. disk.pc = "interrupt" /\ AwaitsStore /\ disk.count > 0 /\ Progress /\ SectorDue \in Nat
    BY <1>1, <1>2 DEF SyncInv, Sync, LocalsOf, Places, InCommand, Feeding, Quiet,
                      AwaitsSector, SeesStored, AwaitsNothing
<1>4. ASSUME ~disk.late
      PROVE  UnitsOf(medium', SectorDue * SECTOR_SIZE, SECTOR_SIZE) = Due
    <2>1. drive.lba = SectorDue /\ drive.words = Due /\ disk.bytes >= SECTOR_SIZE
        BY <1>1, <1>3, <1>4 DEF AwaitsStore, InStep
    <2> DEFINE from == SectorDue * SECTOR_SIZE
    <2>2. \A k \in 1 .. SECTOR_SIZE : from + k - 1 \in DOMAIN medium
        <3>1. /\ call # NoCall /\ call.fn = "WRITE" /\ call.head \in Nat /\ call.count \in Nat
              /\ disk.bytes <= call.count /\ disk.bytes \in Nat
            BY <1>2, <1>3 DEF AwaitsStore, DiskInv, Remains, Calls, LocalsOf
        <3> DEFINE first == call.head * SECTOR_SIZE
        <3>2. from + disk.bytes = first + call.count
            BY <1>3, <2>1, <3>1, DiskAssumption DEF Progress
        <3>3. first .. first + call.count - 1 \subseteq DOMAIN medium
            BY <3>1 DEF OnMedium, SyncInv, Fields
        <3>4. from \in Nat /\ first \in Nat
            BY <1>3, <3>1, DiskAssumption
        <3> HIDE DEF from, first
        <3>5. \A k \in 1 .. SECTOR_SIZE : from + k - 1 \in first .. first + call.count - 1
            BY <2>1, <3>1, <3>2, <3>4, DiskAssumption
        <3> QED BY <3>3, <3>5
    <2>3. ASSUME NEW k \in 1 .. SECTOR_SIZE
          PROVE  medium'[from + k - 1] = Due[k]
        <3>1. (from + k - 1) \div SECTOR_SIZE = SectorDue
              /\ (from + k - 1) % SECTOR_SIZE = k - 1
            BY <1>3, PlaceInSector
        <3>2. from + k - 1 \in DOMAIN medium
            BY <2>2
        <3> HIDE DEF from
        <3>3. medium'[from + k - 1] = drive.words[((from + k - 1) % SECTOR_SIZE) + 1]
            BY <1>1, <2>1, <3>1, <3>2
        <3>4. (k - 1) + 1 = k
            OBVIOUS
        <3> QED BY <2>1, <3>1, <3>3, <3>4
    <2>4. \A k \in 1 .. SECTOR_SIZE : Due[k] = mem[call.area][disk.off + k - 1]
        BY DEF Due, UnitsOf
    <2> HIDE DEF from
    <2>5. UnitsOf(medium', from, SECTOR_SIZE) = UnitsOf(mem[call.area], disk.off, SECTOR_SIZE)
        BY <2>3, <2>4 DEF UnitsOf
    <2> QED BY <2>5 DEF from, Due
<1>5. SeesStored'
    <2>1. ~disk.late => /\ drive'.lba = SectorDue' + 1 /\ drive'.left = disk.count - 1
                        /\ disk.count > 1 => drive'.st = "data"
        BY <1>0, <1>1, <1>2, <1>3 DEF AwaitsStore, InStep
    <2> QED BY <1>0, <1>1, <1>2, <1>3, <1>4, <2>1 DEF SeesStored, AwaitsStore
<1> QED BY <1>0, <1>2, <1>3, <1>5 DEF SyncInv, Sync

LEMMA SyncStep ==
    DiskInv /\ SyncInv /\ OnMedium /\ [DiskNext \/ ClientAsks]_diskVars => SyncInv'
<1> SUFFICES ASSUME DiskInv, SyncInv, OnMedium, [DiskNext \/ ClientAsks]_diskVars
             PROVE  SyncInv'
    OBVIOUS
<1>1. CASE TakeCall
    BY <1>1, TakeCallSync
<1>2. CASE CmdOut
    BY <1>2, IssueSync DEF CmdOut
<1>3. CASE CmdTimeout
    BY <1>3, IssueSync DEF CmdTimeout
<1>4. CASE ReadSector
    BY <1>4, ReadSectorSync
<1>5. CASE FeedSector
    BY <1>5, FeedSectorSync
<1>6. CASE SectorWritten
    BY <1>6, SectorWrittenSync
<1>7. CASE ReadInfo
    BY <1>7, ReadInfoSync
<1>8. CASE DropInterrupt \/ FeedTimeout \/ AnswerCall
    BY <1>8, OtherServerSync
<1>9. CASE Controller
    BY <1>9, AsksSync, SectorReadySync, StoresSectorSync DEF Controller
<1>10. CASE ClientAsks
    <2>1. disk.pc = "receive"
        BY <1>10 DEF ClientAsks, DiskInv, Remains
    <2> QED BY <1>10, <2>1 DEF ClientAsks, SyncInv, Fields, Sync, Quiet
<1>11. CASE UNCHANGED diskVars
    BY <1>11 DEF diskVars, SyncInv, Fields, Sync, Quiet, InCommand, Feeding, InStep,
                 SectorDue, AwaitsSector, AwaitsStore, SeesStored, AwaitsNothing, Due,
                 Progress
<1> QED
    BY <1>1, <1>2, <1>3, <1>4, <1>5, <1>6, <1>7, <1>8, <1>9, <1>10, <1>11
       DEF DiskNext, Server

LEMMA InterruptIsSectors == DiskInv /\ SyncInv => InterruptMeansSector
<1> SUFFICES ASSUME DiskInv, SyncInv, Interrupted, ~disk.late
             PROVE  InterruptMeansSector
    BY DEF InterruptMeansSector
<1>1. disk.pc = "interrupt" /\ int /\ (AwaitsSector \/ SeesStored)
    BY DEF Interrupted, SyncInv, Sync, AwaitsStore, AwaitsNothing
<1>2. CASE AwaitsSector
    BY <1>1, <1>2 DEF AwaitsSector, InStep, InterruptMeansSector
<1>3. CASE SeesStored
    BY <1>3 DEF SeesStored, Due, InterruptMeansSector
<1> QED BY <1>1, <1>2, <1>3

\* Whatever is asked of the disk server, an interrupt that it acts on is the
\* one for the sector it is about to move, as long as waitfor() has not timed
\* out and no write goes beyond the medium.
THEOREM SectorOfInterrupt == DiskSpec /\ []OnMedium => []InterruptMeansSector
<1>1. DiskInit => DiskInv
    BY DEF DiskInit, DiskInv, Remains, Locals
<1>2. DiskInit => SyncInv
    BY DEF DiskInit, SyncInv, Fields, LocalsOf, Places, Sync, Quiet
<1>3. DiskInv /\ SyncInv => InterruptMeansSector
    BY InterruptIsSectors
<1> QED BY <1>1, <1>2, <1>3, DiskStep, SyncStep, PTL DEF DiskSpec

-----------------------------------------------------------------------------
(* What a request has moved when it is answered.                           *)

\* The commands of a read or write go through the sectors of the request.
Commands ==
    disk.pc # "receive" /\ call.fn \in {"READ", "WRITE"} =>
       /\ disk.head + disk.left = call.head + Sectors(call.count)
       /\ disk.head >= call.head

\* The first n units of what a request asks for are in its buffer.
Moved(n) ==
    \A j \in 0 .. n - 1 :
        call.off + j \in DOMAIN mem[call.area] =>
           mem[call.area][call.off + j] = medium[call.head * SECTOR_SIZE + j]

\* A read leaves no sector out.
Reading ==
    disk.pc # "receive" /\ call.fn = "READ" =>
       /\ disk.left + disk.count = Sectors(disk.bytes)
       /\ disk.pc = "answer" => disk.left = 0 /\ disk.count = 0
       /\ disk.bytes > 0 =>
             SectorDue * SECTOR_SIZE + call.off = call.head * SECTOR_SIZE + disk.off
       /\ Moved(disk.off - call.off)

MoveInv == /\ Commands /\ Reading
           /\ DOMAIN mem = DOMAIN Memory
           /\ \A a \in DOMAIN mem : DOMAIN mem[a] = DOMAIN Memory[a]

-----------------------------------------------------------------------------

LEMMA SectorsFacts ==
    ASSUME NEW count \in Nat
    PROVE  /\ Sectors(count) \in Nat
           /\ Sectors(count) = 0 <=> count = 0
           /\ count > 0 => Sectors(count - Least(count, SECTOR_SIZE)) = Sectors(count) - 1
<1>1. SECTOR_SIZE \in Nat \ {0}
    BY DiskAssumption
<1>2. CASE count = 0
    <2>1. (SECTOR_SIZE - 1) \div SECTOR_SIZE = 0
        BY <1>1, SMTT(30)
    <2>2. count + SECTOR_SIZE - 1 = SECTOR_SIZE - 1
        BY <1>1, <1>2
    <2> QED BY <1>2, <2>1, <2>2 DEF Sectors
<1>3. CASE count # 0
    <2> DEFINE q == (count - 1) \div SECTOR_SIZE
               r == (count - 1) % SECTOR_SIZE
    <2>1. q \in Nat /\ r \in 0 .. SECTOR_SIZE - 1 /\ count - 1 = q * SECTOR_SIZE + r
        BY <1>1, <1>3, SMTT(30)
    <2>2. ASSUME NEW n \in Nat
          PROVE  (n * SECTOR_SIZE + r) \div SECTOR_SIZE = n
        <3>1. r + 1 \in 1 .. SECTOR_SIZE /\ n * SECTOR_SIZE \in Nat
            BY <1>1, <2>1
        <3>2. (n * SECTOR_SIZE + (r + 1) - 1) \div SECTOR_SIZE = n
            BY <3>1, PlaceInSector
        <3>3. n * SECTOR_SIZE + (r + 1) - 1 = n * SECTOR_SIZE + r
            BY <2>1, <3>1
        <3> QED BY <3>2, <3>3
    <2> HIDE DEF q, r
    <2>3. count + SECTOR_SIZE - 1 = (q + 1) * SECTOR_SIZE + r
        BY <1>1, <2>1
    <2>4. Sectors(count) = q + 1
        BY <2>1, <2>2, <2>3 DEF Sectors
    <2>5. CASE count <= SECTOR_SIZE
        <3>1. q = 0
            <4>1. ASSUME q >= 1 PROVE q * SECTOR_SIZE >= SECTOR_SIZE
                BY <1>1, <2>1, <4>1
            <4> QED BY <1>1, <2>1, <2>5, <4>1
        <3>2. count - Least(count, SECTOR_SIZE) = 0
            BY <1>1, <2>5 DEF Least
        <3>3. Sectors(0) = 0
            <4>1. (SECTOR_SIZE - 1) \div SECTOR_SIZE = 0
                BY <1>1, SMTT(30)
            <4>2. 0 + SECTOR_SIZE - 1 = SECTOR_SIZE - 1
                BY <1>1
            <4> QED BY <4>1, <4>2 DEF Sectors
        <3> QED BY <1>3, <2>4, <3>1, <3>2, <3>3
    <2>6. CASE count > SECTOR_SIZE
        <3>1. count - Least(count, SECTOR_SIZE) = count - SECTOR_SIZE
            BY <1>1, <2>6 DEF Least
        <3>2. (count - SECTOR_SIZE) + SECTOR_SIZE - 1 = q * SECTOR_SIZE + r
            BY <1>1, <2>1
        <3>3. Sectors(count - SECTOR_SIZE) = q
            BY <2>1, <2>2, <3>2 DEF Sectors
        <3> QED BY <1>3, <2>1, <2>4, <3>1, <3>3
    <2> QED BY <1>1, <2>5, <2>6
<1> QED BY <1>2, <1>3

\* phys_copy() puts the sequence where it is told to, as far as there is room.
LEMMA CopiedUnits ==
    ASSUME NEW off \in Nat, NEW s, Len(s) \in Nat, NEW area \in DOMAIN mem,
           mem' = Copied(area, off, s)
    PROVE  /\ DOMAIN mem' = DOMAIN mem
           /\ \A a \in DOMAIN mem : DOMAIN mem'[a] = DOMAIN mem[a]
           /\ \A i \in DOMAIN mem[area] :
                 mem'[area][i] = IF i \in off .. off + Len(s) - 1 THEN s[i - off + 1]
                                 ELSE mem[area][i]
BY DEF Copied

-----------------------------------------------------------------------------
(* The steps.                                                              *)

\* A sector is only stored while a write waits for it.
LEMMA StoreAwaited ==
    ASSUME SyncInv, StoresSector
    PROVE  disk.pc = "interrupt" /\ AwaitsStore
BY DEF StoresSector, SyncInv, Fields, LocalsOf, Places, Sync, InCommand, Feeding, Quiet,
       AwaitsSector, SeesStored, AwaitsNothing

LEMMA TakeCallMove ==
    ASSUME DiskInv, SyncInv, MoveInv, TakeCall
    PROVE  MoveInv'
<1> DEFINE left == CASE call.fn \in {"READ", "WRITE"} -> Sectors(call.count)
                     [] call.fn = "INFO" -> 1
                     [] OTHER -> 0
           d == [disk EXCEPT !.head = call.head, !.count = 0, !.bytes = call.count,
                             !.off = call.off, !.late = FALSE, !.missed = FALSE,
                             !.left = left]
<1>1. call \in Calls /\ call' = call /\ UNCHANGED <<int, drive, medium, mem>>
    BY DEF TakeCall, DiskInv
<1>2. left \in Nat
    BY <1>1, SectorsFacts DEF Calls
<1>3. call.fn \in {"READ", "WRITE"} => left = Sectors(call.count)
    OBVIOUS
<1>4. disk' = Onward(d, call.fn)
    BY DEF TakeCall
<1> HIDE DEF left
<1>5. /\ d \in LocalsOf
      /\ d.head = call.head /\ d.left = left /\ d.count = 0 /\ d.bytes = call.count
      /\ d.off = call.off
    BY <1>1, <1>2 DEF Calls, SyncInv, Fields, LocalsOf
<1> HIDE DEF d
<1>6. /\ disk' = [d EXCEPT !.pc = disk'.pc]
      /\ disk'.pc = "answer" => d.left = 0
    BY <1>4, <1>5, OnwardSync
<1>7. /\ disk'.head = call.head /\ disk'.left = left /\ disk'.count = 0
      /\ disk'.bytes = call.count /\ disk'.off = call.off
    BY <1>5, <1>6 DEF LocalsOf
<1>8. SectorDue' = call.head /\ call.head \in Nat /\ call.off \in Nat /\ call.count \in Nat
    BY <1>1, <1>7 DEF SectorDue, Calls
<1>9. Commands'
    BY <1>1, <1>3, <1>7, <1>8, SectorsFacts DEF Commands
<1>10. Moved(disk.off - call.off)'
    BY <1>1, <1>7, <1>8 DEF Moved
<1>11. Reading'
    BY <1>1, <1>2, <1>3, <1>5, <1>6, <1>7, <1>8, <1>10, SectorsFacts DEF Reading
<1> QED BY <1>1, <1>9, <1>11 DEF MoveInv

LEMMA IssueMove ==
    ASSUME DiskInv, SyncInv, MoveInv, disk.pc = "command", NEW sent \in BOOLEAN, Issue(sent)
    PROVE  MoveInv'
<1> DEFINE n == Least(disk.left, MaxCount)
           late == disk.late \/ ~sent
           d == [disk EXCEPT !.head = @ + n, !.left = @ - n, !.count = n, !.late = late]
<1>1. disk \in LocalsOf /\ disk.left > 0 /\ disk.count = 0 /\ call \in Calls
      /\ UNCHANGED <<call, int, medium, mem>>
    BY DEF SyncInv, Fields, Sync, InCommand, DiskInv, Remains, Issue
<1>2. n \in Nat /\ n > 0 /\ n <= disk.left
    BY <1>1, DiskAssumption DEF Least, LocalsOf
<1>3. disk' = Onward(d, call.fn) /\ late \in BOOLEAN
    BY <1>1 DEF Issue, LocalsOf
<1> HIDE DEF n, late
<1>4. /\ d \in LocalsOf /\ d.head = disk.head + n /\ d.left = disk.left - n
      /\ d.count = n /\ d.bytes = disk.bytes /\ d.off = disk.off
    <2>1. disk.head + n \in Nat /\ disk.left - n \in Nat
        BY <1>1, <1>2 DEF LocalsOf
    <2> QED BY <1>1, <1>2, <1>3, <2>1 DEF LocalsOf
<1> HIDE DEF d
<1>5. disk' = [d EXCEPT !.pc = disk'.pc] /\ disk'.pc \notin {"receive", "answer"}
    BY <1>2, <1>3, <1>4, OnwardSync
<1>6. /\ disk'.head = disk.head + n /\ disk'.left = disk.left - n /\ disk'.count = n
      /\ disk'.bytes = disk.bytes /\ disk'.off = disk.off
    BY <1>4, <1>5 DEF LocalsOf
<1>7. disk.head \in Nat /\ disk.left \in Nat /\ call.head \in Nat
    BY <1>1 DEF LocalsOf, Calls
<1>8. SectorDue' = SectorDue
    BY <1>1, <1>2, <1>6, <1>7 DEF SectorDue
<1>9. Commands'
    BY <1>1, <1>2, <1>6, <1>7 DEF MoveInv, Commands
<1>10. Moved(disk.off - call.off) => Moved(disk.off - call.off)'
    BY <1>1, <1>6 DEF Moved
<1>11. Reading'
    BY <1>1, <1>2, <1>5, <1>6, <1>7, <1>8, <1>10 DEF MoveInv, Reading
<1> QED BY <1>1, <1>9, <1>11 DEF MoveInv

LEMMA SectorMove ==
    ASSUME DiskInv, SyncInv, MoveInv, disk.pc = "interrupt", call.fn \in {"READ", "WRITE"},
           SectorDone(Bytes(disk)), call' = call
    PROVE  /\ Commands'
           /\ disk'.off = disk.off + Bytes(disk) /\ disk'.bytes = disk.bytes - Bytes(disk)
           /\ SectorDue' = SectorDue + 1
           /\ call.fn = "READ" => /\ disk'.left + disk'.count = Sectors(disk'.bytes)
                                  /\ disk'.pc = "answer" => disk'.left = 0 /\ disk'.count = 0
<1> DEFINE n == Bytes(disk)
           d == [disk EXCEPT !.count = @ - 1, !.bytes = @ - n, !.off = @ + n]
<1>1. /\ disk \in LocalsOf /\ disk.count > 0 /\ disk.bytes \in Nat /\ disk.count \in Nat
      /\ disk.left \in Nat /\ disk.off \in Nat
    BY DEF SyncInv, Fields, Sync, LocalsOf
<1>2. n \in Nat /\ n <= disk.bytes /\ n = Least(disk.bytes, SECTOR_SIZE)
    BY <1>1, DiskAssumption DEF Bytes, Least
<1>3. disk' = Onward(d, call.fn)
    BY DEF SectorDone
<1> HIDE DEF n
<1>4. /\ d \in LocalsOf /\ d.head = disk.head /\ d.left = disk.left /\ d.off = disk.off + n
      /\ d.count = disk.count - 1 /\ d.bytes = disk.bytes - n
    <2>1. disk.count - 1 \in Nat /\ disk.bytes - n \in Nat /\ disk.off + n \in Nat
        BY <1>1, <1>2
    <2> QED BY <1>1, <2>1 DEF LocalsOf
<1> HIDE DEF d
<1>5. /\ disk' = [d EXCEPT !.pc = disk'.pc]
      /\ disk'.pc = "answer" => d.count = 0 /\ d.left = 0
    BY <1>3, <1>4, OnwardSync
<1>6. /\ disk'.head = disk.head /\ disk'.left = disk.left /\ disk'.off = disk.off + n
      /\ disk'.count = disk.count - 1 /\ disk'.bytes = disk.bytes - n
      /\ d.count = disk'.count /\ d.left = disk'.left
    BY <1>4, <1>5 DEF LocalsOf
<1>7. Commands'
    BY <1>6 DEF MoveInv, Commands
<1>8. ASSUME call.fn = "READ"
      PROVE  disk'.left + disk'.count = Sectors(disk'.bytes)
    <2>1. disk.left + disk.count = Sectors(disk.bytes)
        BY <1>8 DEF MoveInv, Reading
    <2>2. disk.bytes > 0
        BY <1>1, <2>1, SectorsFacts
    <2>3. Sectors(disk.bytes - n) = Sectors(disk.bytes) - 1
        BY <1>1, <1>2, <2>2, SectorsFacts
    <2> QED BY <1>1, <1>6, <2>1, <2>3
<1>9. SectorDue' = SectorDue + 1
    BY <1>1, <1>6 DEF SectorDue, LocalsOf
<1> QED BY <1>5, <1>6, <1>7, <1>8, <1>9 DEF n

LEMMA ReadSectorMove ==
    ASSUME DiskInv, SyncInv, MoveInv, ReadSector
    PROVE  MoveInv'
<1> DEFINE n == Bytes(disk)
           s == SubSeq(PortUnits, 1, n)
           here == SectorDue * SECTOR_SIZE
           first == call.head * SECTOR_SIZE
<1>1. /\ disk.pc = "interrupt" /\ int /\ call.fn = "READ" /\ UNCHANGED <<call, medium>>
      /\ mem' = Copied(call.area, disk.off, s)
      /\ SectorDone(n)
    BY DEF ReadSector, Interrupted
<1>2. /\ disk \in LocalsOf /\ SectorDue \in Nat /\ drive.st = "data" /\ drive.fn = "READ"
      /\ drive.lba = SectorDue
    BY <1>1 DEF SyncInv, Fields, Sync, AwaitsSector, AwaitsStore, SeesStored, InStep,
                AwaitsNothing, Quiet
<1>3. /\ call \in Calls /\ disk.off \in Nat /\ disk.bytes \in Nat
      /\ disk.off >= call.off /\ call.off \in Nat /\ call.head \in Nat
      /\ call.area \in DOMAIN mem
    BY <1>1 DEF DiskInv, Remains, Locals, Calls, MoveInv
<1>4. n \in Nat /\ n <= SECTOR_SIZE /\ n <= disk.bytes /\ (n < disk.bytes => n = SECTOR_SIZE)
    BY <1>3, DiskAssumption DEF Bytes, Least
<1>5. /\ Commands'
      /\ disk'.off = disk.off + n /\ disk'.bytes = disk.bytes - n /\ SectorDue' = SectorDue + 1
      /\ disk'.left + disk'.count = Sectors(disk'.bytes)
      /\ disk'.pc = "answer" => disk'.left = 0 /\ disk'.count = 0
    BY <1>1, SectorMove
<1>6. here \in Nat /\ first \in Nat
    BY <1>2, <1>3, DiskAssumption
<1>7. PortUnits = UnitsOf(medium, here, SECTOR_SIZE)
    BY <1>2 DEF PortUnits
<1> HIDE DEF n, here
<1>8. Len(s) = n /\ \A k \in 1 .. n : s[k] = medium[here + k - 1]
    <2>1. /\ PortUnits \in Seq({medium[here + k - 1] : k \in 1 .. SECTOR_SIZE})
          /\ Len(PortUnits) = SECTOR_SIZE
        BY <1>7, UnitsOfLen, DiskAssumption
    <2>2. Len(s) = n /\ \A k \in 1 .. n : s[k] = PortUnits[k]
        BY <1>4, <2>1, DiskAssumption
    <2>3. \A k \in 1 .. n : PortUnits[k] = medium[here + k - 1]
        BY <1>4, <1>7, DiskAssumption DEF UnitsOf
    <2> QED BY <2>2, <2>3
<1> HIDE DEF s, first
<1>9. /\ DOMAIN mem' = DOMAIN mem
      /\ \A a \in DOMAIN mem : DOMAIN mem'[a] = DOMAIN mem[a]
      /\ \A i \in DOMAIN mem[call.area] :
            mem'[call.area][i] = IF i \in disk.off .. disk.off + n - 1 THEN s[i - disk.off + 1]
                                 ELSE mem[call.area][i]
    <2>1. Len(s) \in Nat
        BY <1>4, <1>8
    <2>2. /\ DOMAIN mem' = DOMAIN mem
          /\ \A a \in DOMAIN mem : DOMAIN mem'[a] = DOMAIN mem[a]
          /\ \A i \in DOMAIN mem[call.area] :
                mem'[call.area][i] = IF i \in disk.off .. disk.off + Len(s) - 1
                                     THEN s[i - disk.off + 1] ELSE mem[call.area][i]
        BY <1>1, <1>3, <2>1, CopiedUnits
    <2> QED BY <1>8, <2>2
<1>10. /\ disk.bytes > 0 => here + call.off = first + disk.off
       /\ Moved(disk.off - call.off)
    BY <1>1 DEF MoveInv, Reading, here, first
<1>11. Moved(disk.off - call.off)'
    <2> SUFFICES ASSUME NEW j \in 0 .. disk'.off - call.off - 1,
                        call.off + j \in DOMAIN mem'[call.area]
                 PROVE  mem'[call.area][call.off + j] = medium[first + j]
        BY <1>1 DEF Moved, first
    <2> DEFINE i == call.off + j
    <2>1. i \in DOMAIN mem[call.area] /\ j \in Nat /\ i \in Nat
        BY <1>3, <1>9
    <2>2. CASE i < disk.off
        <3>1. j \in 0 .. disk.off - call.off - 1
            BY <1>3, <2>1, <2>2
        <3>2. mem[call.area][i] = medium[first + j]
            BY <1>10, <2>1, <3>1 DEF Moved, first
        <3>3. mem'[call.area][i] = mem[call.area][i]
            BY <1>3, <1>9, <2>1, <2>2
        <3> QED BY <3>2, <3>3
    <2>3. CASE i >= disk.off
        <3> DEFINE k == i - disk.off + 1
        <3>1. i \in disk.off .. disk.off + n - 1 /\ k \in 1 .. n
            BY <1>3, <1>4, <1>5, <2>1, <2>3
        <3>2. here + k - 1 = first + j
            BY <1>3, <1>4, <1>6, <1>10, <2>1, <3>1
        <3>3. mem'[call.area][i] = s[k]
            BY <1>9, <2>1, <3>1
        <3> HIDE DEF k
        <3> QED BY <1>8, <3>1, <3>2, <3>3
    <2> QED BY <1>3, <2>1, <2>2, <2>3
<1>12. disk'.bytes > 0 =>
          SectorDue' * SECTOR_SIZE + call'.off = call'.head * SECTOR_SIZE + disk'.off
    <2> SUFFICES ASSUME disk'.bytes > 0
                 PROVE  SectorDue' * SECTOR_SIZE + call.off = first + disk'.off
        BY <1>1 DEF first
    <2>1. n = SECTOR_SIZE /\ disk.bytes > 0
        BY <1>3, <1>4, <1>5
    <2>2. (SectorDue + 1) * SECTOR_SIZE = here + SECTOR_SIZE
        BY <1>2, DiskAssumption DEF here
    <2>3. SectorDue' * SECTOR_SIZE = here + n
        BY <1>5, <2>1, <2>2
    <2> HIDE DEF first
    <2>4. here + n + call.off = first + disk'.off
        BY <1>3, <1>4, <1>5, <1>6, <1>10, <2>1
    <2> QED BY <2>3, <2>4
<1>13. Reading'
    BY <1>1, <1>5, <1>11, <1>12 DEF Reading
<1> QED BY <1>5, <1>9, <1>13 DEF MoveInv

LEMMA ReadInfoMove ==
    ASSUME DiskInv, MoveInv, ReadInfo
    PROVE  MoveInv'
<1> DEFINE n == Least(call.count, SECTOR_SIZE)
           s == UnitsOf([i \in Nat |-> InfoText], 0, n)
<1>1. /\ call \in Calls /\ disk.off \in Nat /\ call.area \in DOMAIN mem
      /\ call.fn = "INFO" /\ call' = call /\ mem' = Copied(call.area, disk.off, s)
    BY DEF ReadInfo, Interrupted, DiskInv, Remains, Locals, Calls, MoveInv
<1>2. n \in Nat
    BY <1>1, DiskAssumption DEF Calls, Least
<1> HIDE DEF n
<1>3. Len(s) \in Nat
    BY <1>2, UnitsOfLen
<1> HIDE DEF s
<1>4. /\ DOMAIN mem' = DOMAIN mem
      /\ \A a \in DOMAIN mem : DOMAIN mem'[a] = DOMAIN mem[a]
    BY <1>1, <1>3, CopiedUnits
<1> QED BY <1>1, <1>4 DEF MoveInv, Commands, Reading

LEMMA MoveStep ==
    ASSUME DiskInv, SyncInv, MoveInv, [DiskNext \/ ClientAsks]_diskVars
    PROVE  MoveInv'
<1>1. CASE TakeCall
    BY <1>1, TakeCallMove
<1>2. CASE DropInterrupt
    BY <1>2 DEF DropInterrupt, MoveInv, Commands, Reading
<1>3. CASE CmdOut
    BY <1>3, IssueMove DEF CmdOut
<1>4. CASE CmdTimeout
    BY <1>4, IssueMove DEF CmdTimeout
<1>5. CASE ReadSector
    BY <1>5, ReadSectorMove
<1>6. CASE FeedSector
    <2>1. call.fn = "WRITE" /\ disk \in LocalsOf
        BY <1>6 DEF FeedSector, SyncInv, Fields, Sync, Feeding
    <2>2. /\ disk'.head = disk.head /\ disk'.left = disk.left /\ disk.pc # "receive"
          /\ UNCHANGED <<call, mem>>
        BY <1>6, <2>1 DEF FeedSector, LocalsOf
    <2> QED BY <2>1, <2>2 DEF MoveInv, Commands, Reading
<1>7. CASE FeedTimeout
    <2>1. call.fn = "WRITE" /\ disk \in LocalsOf
        BY <1>7 DEF FeedTimeout, SyncInv, Fields, Sync, Feeding
    <2>2. /\ disk'.head = disk.head /\ disk'.left = disk.left /\ disk.pc # "receive"
          /\ UNCHANGED <<call, mem>>
        BY <1>7, <2>1 DEF FeedTimeout, LocalsOf
    <2> QED BY <2>1, <2>2 DEF MoveInv, Commands, Reading
<1>8. CASE SectorWritten
    <2>1. Commands' /\ call.fn = "WRITE" /\ UNCHANGED <<call, mem>>
        BY <1>8, SectorMove DEF SectorWritten, Interrupted
    <2> QED BY <2>1 DEF MoveInv, Reading
<1>9. CASE ReadInfo
    BY <1>9, ReadInfoMove
<1>10. CASE AnswerCall
    <2>1. disk \in LocalsOf
        BY DEF SyncInv, Fields
    <2>2. disk'.pc = "receive" /\ mem' = mem
        BY <1>10, <2>1 DEF AnswerCall, LocalsOf
    <2> QED BY <2>2 DEF MoveInv, Commands, Reading
<1>11. ASSUME UNCHANGED <<disk, call, mem, medium>>
       PROVE  MoveInv'
    BY <1>11 DEF MoveInv, Commands, Reading, Moved, SectorDue
<1>12. CASE Controller
    <2>1. UNCHANGED <<call, mem>> /\ disk \in LocalsOf
        BY <1>12 DEF Controller, SyncInv, Fields
    <2>2. CASE SpunUp \/ AsksForData
        BY <1>11, <2>1, <2>2 DEF SpunUp, AsksForData
    <2>i. ASSUME Interrupt
          PROVE  /\ disk'.pc = disk.pc /\ disk'.head = disk.head /\ disk'.left = disk.left
                 /\ disk'.count = disk.count /\ disk'.bytes = disk.bytes
                 /\ disk'.off = disk.off
        BY <2>1, <2>i, InterruptLocals
    <2>4. CASE SectorReady
        <3>1. medium' = medium
            BY <2>4 DEF SectorReady
        <3> QED BY <2>1, <2>i, <2>4, <3>1
                DEF SectorReady, MoveInv, Commands, Reading, Moved, SectorDue
    <2>3. CASE StoresSector
        <3>1. call.fn = "WRITE"
            BY <2>3, StoreAwaited DEF AwaitsStore
        <3> QED BY <2>1, <2>i, <2>3, <3>1 DEF StoresSector, MoveInv, Commands, Reading
    <2> QED BY <1>12, <2>2, <2>3, <2>4 DEF Controller
<1>13. CASE ClientAsks
    <2>1. disk.pc = "receive"
        BY <1>13 DEF ClientAsks, DiskInv, Remains
    <2> QED BY <1>13, <2>1 DEF ClientAsks, MoveInv, Commands, Reading
<1>14. CASE UNCHANGED diskVars
    BY <1>11, <1>14 DEF diskVars
<1> QED
    BY <1>1, <1>2, <1>3, <1>4, <1>5, <1>6, <1>7, <1>8, <1>9, <1>10, <1>12, <1>13, <1>14
       DEF DiskNext, Server

\* A read that is answered has been done.
LEMMA AnswerMoved ==
    ASSUME DiskInv, SyncInv, MoveInv, AnswerCall, call.fn = "READ"
    PROVE  Moved(call.count)
<1>1. /\ disk.off + disk.bytes = call.off + call.count /\ call \in Calls
      /\ disk.bytes \in Nat /\ disk.off \in Nat /\ Sectors(disk.bytes) = 0
      /\ Moved(disk.off - call.off)
    BY DEF AnswerCall, DiskInv, Remains, Locals, MoveInv, Reading
<1>2. disk.off - call.off = call.count
    BY <1>1, SectorsFacts DEF Calls
<1> QED BY <1>1, <1>2

LEMMA DiskStart == DiskInit => DiskInv /\ SyncInv /\ MoveInv
BY DEF DiskInit, DiskInv, Remains, Locals, SyncInv, Fields, LocalsOf, Places, Sync, Quiet,
       MoveInv, Commands, Reading

-----------------------------------------------------------------------------
(* The invariant of the file system server.  Whatever it asks of the disk  *)
(* is in the part of the medium that stays as it is; what it has read so   *)
(* far of the tables and of the file is what the medium says; and a call   *)
(* that is not answered yet is the one that follows from where it stands.  *)

ReadOf(block, area, off, count) ==
    [fn |-> "READ", head |-> B2S(block), count |-> count, area |-> area, off |-> off]

Ipg == DiskSuper.inodes_per_group

\* The medium is only changed by the other callers of the disk server.
Undisturbed == \A i \in Lasting : medium[i] = Medium[i]

\* A command to write, the drive keeps to what one of them has asked for.
DriveKeeps ==
    drive.fn = "WRITE" =>
       /\ drive.left \in Nat /\ drive.lba \in Nat
       /\ drive.st # "idle" => drive.left > 0
       /\ \E c \in OtherCalls :
             /\ c.fn = "WRITE" /\ drive.lba >= c.head
             /\ drive.lba + drive.left <= c.head + Sectors(c.count)

Lower == DiskInv /\ SyncInv /\ MoveInv /\ DriveKeeps /\ Undisturbed

OnlyOthersWrite == call # NoCall /\ call.fn = "WRITE" => call \in OtherCalls

-----------------------------------------------------------------------------

LEMMA Others ==
    ASSUME NEW c \in OtherCalls
    PROVE  /\ c \in Calls /\ c.area = "other" /\ c # NoCall
           /\ c.fn = "WRITE" =>
                 c.head * SECTOR_SIZE .. c.head * SECTOR_SIZE + c.count - 1 \subseteq DOMAIN Medium
BY FilesAssumption

LEMMA WritesOnMedium == OnlyOthersWrite => OnMedium
BY Others DEF OnlyOthersWrite, OnMedium

LEMMA DriveStep ==
    ASSUME Lower, OnlyOthersWrite, [DiskNext \/ ClientAsks]_diskVars
    PROVE  DriveKeeps'
<1> USE DEF Lower
<1>1. CASE CmdOut
    <2> DEFINE n == Least(disk.left, MaxCount)
    <2>1. disk \in LocalsOf /\ disk.left > 0 /\ call # NoCall /\ call \in Calls
        BY <1>1 DEF CmdOut, SyncInv, Fields, Sync, InCommand, DiskInv, Remains
    <2>2. n \in Nat /\ n > 0 /\ n <= disk.left
        BY <2>1, DiskAssumption DEF Least, LocalsOf
    <2>3. drive' = [st |-> "busy", fn |-> call.fn, lba |-> disk.head, left |-> n,
                    words |-> <<>>]
        BY <1>1 DEF CmdOut, Issue
    <2> HIDE DEF n
    <2> SUFFICES ASSUME call.fn = "WRITE"
                 PROVE  DriveKeeps'
        BY <2>3 DEF DriveKeeps
    <2>4. call \in OtherCalls
        BY <2>1 DEF OnlyOthersWrite
    <2>5. disk.head + disk.left = call.head + Sectors(call.count) /\ disk.head >= call.head
        BY <1>1 DEF CmdOut, MoveInv, Commands
    <2>6. disk.head \in Nat /\ disk.head + n <= call.head + Sectors(call.count)
        BY <2>1, <2>2, <2>5 DEF LocalsOf
    <2> QED BY <2>2, <2>3, <2>4, <2>5, <2>6 DEF DriveKeeps
<1>2. CASE ReadSector \/ ReadInfo
    <2>1. /\ drive.fn \in {"READ", "INFO"}
          /\ {"st", "fn", "lba", "left", "words"} \subseteq DOMAIN drive
        BY <1>2 DEF ReadSector, ReadInfo, Interrupted, SyncInv, Fields, Sync, AwaitsSector,
                    AwaitsStore, SeesStored, InStep, AwaitsNothing, Quiet
    <2>2. drive'.fn = drive.fn
        BY <1>2, <2>1 DEF ReadSector, ReadInfo, Drained
    <2> QED BY <2>1, <2>2 DEF DriveKeeps
<1>3. CASE FeedSector
    <2>1. /\ drive'.fn = drive.fn /\ drive'.lba = drive.lba /\ drive'.left = drive.left
          /\ drive'.st # "idle" => drive.st # "idle"
        BY <1>3 DEF FeedSector, SyncInv, Fields
    <2> QED BY <2>1 DEF DriveKeeps
<1>4. CASE SpunUp \/ SectorReady \/ AsksForData
    <2>1. /\ drive'.fn = drive.fn /\ drive'.lba = drive.lba /\ drive'.left = drive.left
          /\ drive.st # "idle"
        BY <1>4 DEF SpunUp, SectorReady, AsksForData, SyncInv, Fields
    <2> QED BY <2>1 DEF DriveKeeps
<1>5. CASE StoresSector
    <2>1. /\ drive.fn = "WRITE" /\ drive.st = "busy"
          /\ drive'.lba = drive.lba + 1 /\ drive'.left = drive.left - 1
          /\ drive'.st # "idle" => drive.left > 1
        BY <1>5 DEF StoresSector, Drained, SyncInv, Fields
    <2>2. drive.left \in Nat /\ drive.lba \in Nat /\ drive.left > 0
        BY <2>1 DEF DriveKeeps
    <2>3. PICK c \in OtherCalls : /\ c.fn = "WRITE" /\ drive.lba >= c.head
                                  /\ drive.lba + drive.left <= c.head + Sectors(c.count)
        BY <2>1 DEF DriveKeeps
    <2>4. c.head \in Nat
        BY Others DEF Calls
    <2>5. drive'.lba >= c.head /\ drive'.lba + drive'.left <= c.head + Sectors(c.count)
        BY <2>1, <2>2, <2>3, <2>4
    <2> QED BY <2>1, <2>2, <2>3, <2>5 DEF DriveKeeps
<1>6. CASE \/ TakeCall \/ DropInterrupt \/ CmdTimeout \/ FeedTimeout \/ SectorWritten \/ AnswerCall
           \/ ClientAsks \/ UNCHANGED diskVars
    <2>1. drive' = drive
        BY <1>6 DEF TakeCall, DropInterrupt, CmdTimeout, Issue, FeedTimeout, SectorWritten,
                    AnswerCall, ClientAsks, diskVars
    <2> QED BY <2>1 DEF DriveKeeps
<1> QED BY <1>1, <1>2, <1>3, <1>4, <1>5, <1>6 DEF DiskNext, Server, Controller

LEMMA MediumStep ==
    ASSUME Lower, OnlyOthersWrite, [DiskNext \/ ClientAsks]_diskVars
    PROVE  Undisturbed'
<1>1. CASE StoresSector
    <2>1. /\ drive.fn = "WRITE" /\ drive.st = "busy"
          /\ medium' = [i \in DOMAIN medium |->
                          IF i \div SECTOR_SIZE = drive.lba
                          THEN drive.words[(i % SECTOR_SIZE) + 1] ELSE medium[i]]
        BY <1>1 DEF StoresSector
    <2>2. drive.left \in Nat /\ drive.lba \in Nat /\ drive.left > 0
        BY <2>1 DEF Lower, DriveKeeps
    <2>3. PICK c \in OtherCalls : /\ c.fn = "WRITE" /\ drive.lba >= c.head
                                  /\ drive.lba + drive.left <= c.head + Sectors(c.count)
        BY <2>1 DEF Lower, DriveKeeps
    <2>4. c.head \in Nat /\ Sectors(c.count) \in Nat
        BY Others, SectorsFacts DEF Calls
    <2>5. drive.lba \in c.head .. c.head + Sectors(c.count) - 1
        BY <2>2, <2>3, <2>4
    <2>6. DOMAIN medium = DOMAIN Medium
        BY DEF Lower, SyncInv, Fields
    <2>7. ASSUME NEW i \in Lasting
          PROVE  i \in DOMAIN medium /\ i \div SECTOR_SIZE # drive.lba
        BY <2>3, <2>5, <2>6 DEF Lasting, Written
    <2> QED BY <2>1, <2>7 DEF Lower, Undisturbed
<1>2. CASE ~StoresSector
    <2>1. medium' = medium
        BY <1>2 DEF DiskNext, Server, Controller, SpunUp, SectorReady, AsksForData, TakeCall,
                    DropInterrupt, CmdOut, CmdTimeout, Issue, ReadSector, FeedSector,
                    FeedTimeout, SectorWritten, ReadInfo, AnswerCall, ClientAsks, diskVars
    <2> QED BY <2>1 DEF Lower, Undisturbed
<1> QED BY <1>1, <1>2

LEMMA LowerStep ==
    ASSUME Lower, OnlyOthersWrite, [DiskNext \/ ClientAsks]_diskVars
    PROVE  Lower'
<1>1. OnMedium
    BY WritesOnMedium
<1> QED BY <1>1, DiskStep, SyncStep, MoveStep, DriveStep, MediumStep DEF Lower

LEMMA LowerStart == DiskInit => Lower
BY DiskStart DEF Lower, DriveKeeps, Undisturbed, DiskInit

-----------------------------------------------------------------------------
(* What a step of the disk server is to the file system.                   *)

\* Memory changes at most where the request that is not answered yet points.
Aside(c) == \A a \in DOMAIN Memory : \A i \in DOMAIN Memory[a] :
               ~(a = c.area /\ i \in c.off .. c.off + c.count - 1) => mem'[a][i] = mem[a][i]

\* An answered read has brought what the medium says.
Brought(c) == \A j \in 0 .. c.count - 1 :
                 c.off + j \in DOMAIN Memory[c.area] =>
                    mem[c.area][c.off + j] = medium[c.head * SECTOR_SIZE + j]

LEMMA DiskSteps ==
    ASSUME Lower, DiskNext
    PROVE  \/ call' = call /\ (mem' = mem \/ (call # NoCall /\ Aside(call)))
           \/ /\ call # NoCall /\ call' = NoCall /\ mem' = mem
              /\ call.fn = "READ" => Brought(call)
<1> USE DEF Lower
<1>1. CASE AnswerCall
    <2>1. call # NoCall /\ call' = NoCall /\ mem' = mem /\ call.area \in DOMAIN mem
        BY <1>1 DEF AnswerCall, DiskInv, Remains, Calls, MoveInv
    <2>2. call.fn = "READ" => Brought(call)
        BY <1>1, <2>1, AnswerMoved DEF Moved, Brought, MoveInv
    <2> QED BY <2>1, <2>2
<1>2. CASE ~AnswerCall
    <2>1. call' = call
        BY <1>2 DEF DiskNext, Server, Controller, TakeCall, DropInterrupt, CmdOut, CmdTimeout,
                    Issue, ReadSector, FeedSector, FeedTimeout, SectorWritten, ReadInfo
    <2>2. Kept \/ mem' = mem
        BY StepKept
    <2>3. CASE call = NoCall
        <3>1. disk.pc = "receive"
            BY <2>3 DEF DiskInv, Remains
        <3>2. mem' = mem
            BY <1>2, <2>3, <3>1
               DEF DiskNext, Server, Controller, TakeCall, DropInterrupt, CmdOut, CmdTimeout,
                   ReadSector, FeedSector, FeedTimeout, SectorWritten, ReadInfo, Interrupted
        <3> QED BY <2>1, <3>2
    <2>4. CASE call # NoCall
        BY <2>1, <2>2, <2>4 DEF Kept, Aside, MoveInv
    <2> QED BY <2>3, <2>4
<1> QED BY <1>1, <1>2

-----------------------------------------------------------------------------
(* The medium.                                                             *)

LEMMA Sizes ==
    /\ SECTOR_SIZE \in Nat \ {0} /\ BLOCK_SIZE \in Nat \ {0} /\ BLOCK_SIZE = 2 * SECTOR_SIZE
    /\ Ipg \in Nat \ {0} /\ DiskGroups \in Nat \ {0}
    /\ NDIRECT \in Nat /\ DIRET_BUF_SIZE \in Nat /\ MM_BLOCK_SIZE \in Nat
    /\ DiskSuper.inodes_count \in Nat /\ DiskSuper.inodes_count >= 3
    /\ DiskSuper.inodes_count <= DiskGroups * Ipg
<1>1. /\ DiskSuper.blocks_count \in Nat /\ DiskSuper.blocks_per_group \in Nat \ {0}
      /\ Ipg \in Nat \ {0}
      /\ DiskSuper.inodes_count \in 3 .. DiskGroups * Ipg
      /\ NDIRECT \in Nat /\ DIRET_BUF_SIZE \in Nat /\ MM_BLOCK_SIZE \in Nat
    BY FilesAssumption DEF Ipg
<1>2. DiskGroups \in Nat
    BY <1>1, SMTT(30) DEF DiskGroups
<1>3. DiskGroups # 0
    BY <1>1
<1> QED BY <1>1, <1>2, <1>3, DiskAssumption DEF BLOCK_SIZE

LEMMA BlockStart ==
    ASSUME NEW b \in Nat
    PROVE  /\ B2S(b) \in Nat /\ B2S(b) * SECTOR_SIZE = b * BLOCK_SIZE
           /\ b * BLOCK_SIZE \in Nat
<1>1. B2S(b) \in Nat
    BY DEF B2S
<1>2. b * 2 * SECTOR_SIZE = b * (2 * SECTOR_SIZE)
    BY Sizes
<1> QED BY <1>1, <1>2, Sizes DEF B2S

LEMMA ReadIsCall ==
    ASSUME NEW b \in Nat, NEW area \in DOMAIN Memory, NEW off \in Nat, NEW n \in Nat
    PROVE  /\ ReadOf(b, area, off, n) \in Calls /\ ReadOf(b, area, off, n) # NoCall
           /\ ReadOf(b, area, off, n).fn = "READ" /\ ReadOf(b, area, off, n).area = area
           /\ ReadOf(b, area, off, n).off = off /\ ReadOf(b, area, off, n).count = n
<1>1. ReadOf(b, area, off, n) \in Calls
    <2>1. B2S(b) \in Nat
        BY BlockStart
    <2> QED BY <2>1 DEF ReadOf, Calls
<1>2. NoCall \notin Calls
    BY FilesAssumption
<1> QED BY <1>1, <1>2 DEF ReadOf

LEMMA GroupFacts ==
    ASSUME NEW i \in 0 .. DiskGroups - 1
    PROVE  /\ DiskGroup(i).block_bitmap \in Nat /\ DiskGroup(i).inode_bitmap \in Nat
           /\ DiskGroup(i).inode_table \in Nat /\ i < BLOCK_SIZE
           /\ \A k \in 0 .. Ipg - 1 : DiskGroup(i).inode_table * BLOCK_SIZE + k \in Lasting
<1>1. DiskGroups <= BLOCK_SIZE
    BY FilesAssumption
<1>2. /\ DiskGroup(i).block_bitmap \in Nat /\ DiskGroup(i).inode_bitmap \in Nat
      /\ DiskGroup(i).inode_table \in Nat
      /\ \A k \in 0 .. Ipg - 1 : DiskGroup(i).inode_table * BLOCK_SIZE + k \in Lasting
    BY FilesAssumption DEF Ipg
<1> QED BY <1>1, <1>2, Sizes

\* Inode n + 1 is entry n % Ipg of the table of group n \div Ipg.
LEMMA InodePlace ==
    ASSUME NEW n \in 0 .. DiskSuper.inodes_count - 2
    PROVE  /\ n \div Ipg \in 0 .. DiskGroups - 1 /\ n % Ipg \in 0 .. Ipg - 1
           /\ n = (n \div Ipg) * Ipg + (n % Ipg)
<1> DEFINE q == n \div Ipg
           r == n % Ipg
<1>1. n \in Nat /\ n < DiskGroups * Ipg
    BY Sizes
<1>2. q \in Nat /\ r \in 0 .. Ipg - 1 /\ n = q * Ipg + r
    BY <1>1, Sizes, SMTT(30)
<1> HIDE DEF q, r
<1>3. q < DiskGroups
    <2>1. SUFFICES ASSUME q >= DiskGroups PROVE FALSE
        BY <1>2, Sizes
    <2>2. q * Ipg >= DiskGroups * Ipg
        BY <1>2, <2>1, Sizes
    <2> QED BY <1>1, <1>2, <2>2, Sizes
<1> QED BY <1>2, <1>3, Sizes DEF q, r

\* What an inode of the tables promises.
LEMMA InodeFacts ==
    ASSUME NEW n \in 0 .. DiskSuper.inodes_count - 2
    PROVE  /\ WholeInode(TableUnit(n))
           /\ TableUnit(n) = Medium[DiskGroup(n \div Ipg).inode_table * BLOCK_SIZE + (n % Ipg)]
BY FilesAssumption DEF TableUnit, Ipg

\* A set of numbers has a least one.
LEMMA LeastNumber ==
    ASSUME NEW T \in SUBSET Nat, T # {}
    PROVE  \E x \in T : \A y \in T : x <= y
<1> DEFINE R == {ss \in Nat \X Nat : ss[1] < ss[2]}
<1>1. IsWellFoundedOn(R, Nat)
  BY NatLessThanWellFounded, Zenon DEF OpToRel
<1>2. PICK x \in T : \A y \in T : ~ (<<y, x>> \in R)
  <2> HIDE DEF R
  <2> QED  BY <1>1, WFMin, Zenon
<1>3. \A y \in T : ~ (y < x)
  BY <1>2
<1> QED  BY <1>3

\* g lists where the step function F leads from a in up to N steps.
IsOrbit(g, S, F, a, N) ==
    g \in [0 .. N -> S] /\ g[0] = a /\ \A n \in 1 .. N : g[n] = F[g[n - 1]]

\* From any starting point a step function can be followed N times.
LEMMA Orbit ==
    ASSUME NEW S, NEW F \in [S -> S], NEW a \in S, NEW N \in Nat
    PROVE  \E g : IsOrbit(g, S, F, a, N)
<1> DEFINE Good(K) == \E g : IsOrbit(g, S, F, a, K)
           Bad == {K \in Nat : ~ Good(K)}
<1>1. SUFFICES ASSUME Bad # {} PROVE FALSE
  BY <1>1
<1>2. PICK K \in Bad : \A M \in Bad : K <= M
  <2>1. Bad \in SUBSET Nat
    OBVIOUS
  <2> HIDE DEF Bad
  <2> QED  BY <1>1, <2>1, LeastNumber
<1>3. K \in Nat /\ ~ Good(K)
  BY <1>2
<1>4. CASE K = 0
  <2> DEFINE g == [n \in 0 .. 0 |-> a]
  <2>1. IsOrbit(g, S, F, a, K)
    BY <1>4 DEF IsOrbit
  <2> QED  BY <1>3, <2>1
<1>5. CASE K # 0
  <2>1. K - 1 \in Nat /\ Good(K - 1)
    <3> HIDE DEF Good
    <3>1. K - 1 \in Nat /\ ~ (K <= K - 1)
      BY <1>3, <1>5
    <3> QED  BY <1>2, <3>1
  <2>2. PICK g : IsOrbit(g, S, F, a, K - 1)
    BY <2>1
  <2> DEFINE h == [n \in 0 .. K |-> IF n = K THEN F[g[K - 1]] ELSE g[n]]
  <2>3. h \in [0 .. K -> S]
    BY <1>3, <2>1, <2>2 DEF IsOrbit
  <2>4. h[0] = a /\ \A n \in 1 .. K : h[n] = F[h[n - 1]]
    BY <1>3, <1>5, <2>1, <2>2 DEF IsOrbit
  <2> HIDE DEF h
  <2> QED  BY <1>3, <2>3, <2>4 DEF IsOrbit
<1> QED  BY <1>4, <1>5

\* The entries that are looked at are units of the buffer.
LEMMA EntriesFacts ==
    ASSUME NEW units, NEW limit \in Nat, NEW max \in Nat,
           \A i \in 0 .. limit - 1 : AsEntry(units[i]).rec_len \in Nat,
           NEW e \in Entries(units, limit, max)
    PROVE  \E i \in 0 .. limit - 1 : e = AsEntry(units[i])
<1> DEFINE F == [x \in Nat |-> IF x >= limit THEN limit ELSE x + AsEntry(units[x]).rec_len]
           Visits(at) == at = [k \in 0 .. max |->
                             IF k = 0 THEN 0 ELSE IF at[k - 1] >= limit THEN limit
                             ELSE at[k - 1] + AsEntry(units[at[k - 1]]).rec_len]
           at == CHOOSE g : Visits(g)
<1>1. F \in [Nat -> Nat]
    <2>1. ASSUME NEW x \in Nat
          PROVE  (IF x >= limit THEN limit ELSE x + AsEntry(units[x]).rec_len) \in Nat
        <3>1. x < limit => AsEntry(units[x]).rec_len \in Nat
            OBVIOUS
        <3> QED BY <3>1
    <2> QED BY <2>1
<1>2. \E g : Visits(g)
    <2> HIDE DEF F
    <2>1. PICK g : IsOrbit(g, Nat, F, 0, max)
        BY <1>1, Orbit
    <2>2. g \in [0 .. max -> Nat] /\ g[0] = 0 /\ \A k \in 1 .. max : g[k] = F[g[k - 1]]
        BY <2>1 DEF IsOrbit
    <2>3. ASSUME NEW k \in 0 .. max
          PROVE  g[k] = IF k = 0 THEN 0 ELSE IF g[k - 1] >= limit THEN limit
                        ELSE g[k - 1] + AsEntry(units[g[k - 1]]).rec_len
        <3>1. k # 0 => k \in 1 .. max /\ g[k - 1] \in Nat
            BY <2>2
        <3>2. k # 0 => g[k] = F[g[k - 1]]
            BY <2>2, <3>1
        <3> QED BY <2>2, <3>1, <3>2 DEF F
    <2>4. g = [k \in 0 .. max |->
                 IF k = 0 THEN 0 ELSE IF g[k - 1] >= limit THEN limit
                 ELSE g[k - 1] + AsEntry(units[g[k - 1]]).rec_len]
        BY <2>2, <2>3
    <2> QED BY <2>4
<1>3. Visits(at)
    <2> HIDE DEF Visits
    <2> QED BY <1>2
<1>4. DOMAIN at = 0 .. max
    <2> HIDE DEF at
    <2> QED BY <1>3
<1>5. Entries(units, limit, max)
         = {AsEntry(units[at[k]]) : k \in {j \in 0 .. max - 1 : at[j] < limit}}
    BY DEF Entries
<1>6. PICK k \in 0 .. max - 1 : at[k] < limit /\ e = AsEntry(units[at[k]])
    <2> HIDE DEF at
    <2> QED BY <1>5
<1> HIDE DEF at
<1>7. \A j \in 0 .. max : at[j] \in Nat
    <2> DEFINE Bad == {j \in 0 .. max : at[j] \notin Nat}
    <2> SUFFICES ASSUME Bad # {} PROVE FALSE
        OBVIOUS
    <2>1. PICK j \in Bad : \A m \in Bad : j <= m
        <3>1. Bad \in SUBSET Nat
            OBVIOUS
        <3> HIDE DEF Bad
        <3> QED BY <3>1, LeastNumber
    <2>2. at[j] = IF j = 0 THEN 0 ELSE IF at[j - 1] >= limit THEN limit
                  ELSE at[j - 1] + AsEntry(units[at[j - 1]]).rec_len
        BY <1>3, <2>1
    <2>3. j # 0
        BY <2>1, <2>2
    <2>4. j - 1 \in 0 .. max /\ ~(j <= j - 1)
        BY <2>1, <2>3
    <2>5. at[j - 1] \in Nat
        BY <2>1, <2>4
    <2>6. at[j] \in Nat
        <3>1. at[j - 1] < limit => AsEntry(units[at[j - 1]]).rec_len \in Nat
            BY <2>5
        <3> QED BY <2>2, <2>3, <2>5, <3>1
    <2> QED BY <2>1, <2>6
<1>8. at[k] \in 0 .. limit - 1
    BY <1>6, <1>7
<1> QED BY <1>6, <1>8

-----------------------------------------------------------------------------
(* Where the file system server stands.                                    *)

\* The reads of FS_init(), in their order.
InitCall(step) ==
    LET i == (step - 2) \div 3
    IN  IF step = 0 THEN ReadOf(1, "superblock", 0, BLOCK_SIZE)
        ELSE IF step = 1 THEN ReadOf(2, "groups", 0, BLOCK_SIZE)
        ELSE IF step % 3 = 2
        THEN ReadOf(DiskGroup(i).block_bitmap, "bitmaps", 2 * i * BLOCK_SIZE, BLOCK_SIZE)
        ELSE IF step % 3 = 0
        THEN ReadOf(DiskGroup(i).inode_bitmap, "bitmaps", (2 * i + 1) * BLOCK_SIZE, BLOCK_SIZE)
        ELSE ReadOf(DiskGroup(i).inode_table, "inode_table", i * Ipg, Ipg)

LastStep == 2 + 3 * DiskGroups

\* How many of them have been answered.
Answers == IF fs.pc = "init" /\ call # NoCall THEN fs.step - 1 ELSE fs.step

TableAt(i) ==
    \A k \in 0 .. Ipg - 1 :
        mem["inode_table"][i * Ipg + k] = Medium[DiskGroup(i).inode_table * BLOCK_SIZE + k]

TablesRead ==
    /\ Answers >= 1 => mem["superblock"][0] = DiskSuper
    /\ Answers >= 2 => \A i \in 0 .. DiskGroups - 1 : mem["groups"][i] = DiskGroup(i)
    /\ \A i \in 0 .. DiskGroups - 1 : Answers >= 3 * i + 5 => TableAt(i)

FsFields ==
    fs \in [pc : {"init", "receive", "read", "open", "answer"}, step : Nat, left : Nat,
            off : Nat, block : Nat, indirect : BOOLEAN, result : {0, 1},
            then : {"answer", "open"}]

Asks == [fn : {"ROOT", "CD", "OPENFILE", "READ"}, fd : {"directory_fd", "file_fd"},
         area : {"directory_buffer", "MM_buffer"}, count : Nat, name : Names \cup {""}]

\* A request is worked on until it is answered; only FS_CD goes on with
\* FS_OPENFILE.
AskInv ==
    /\ fs.pc \in {"read", "open", "answer"} => ask # NoAsk
    /\ ask # NoAsk =>
          /\ ask \in Asks
          /\ ask.area = "directory_buffer" => ask.count = DIRET_BUF_SIZE
          /\ ask.area = "MM_buffer" => ask.count = MM_BLOCK_SIZE /\ ask.fn = "READ"
    /\ fs.pc = "open" \/ (fs.pc = "read" /\ fs.then = "open") => ask.fn = "CD"

\* Descriptors get their inodes from the tables.
Inodes == {NoInode} \cup {TableUnit(n) : n \in 0 .. DiskSuper.inodes_count - 2}

InodesInv ==
    /\ root \in Inodes /\ (fs.pc # "init" => root = TableUnit(1))
    /\ inodes \in [{"directory_fd", "file_fd"} -> Inodes]

Target(a, i) == call # NoCall /\ call.area = a /\ i \in call.off .. call.off + call.count - 1

FromMedium(u) == "rec_len" \notin DOMAIN u \/ \E j \in Lasting : u = Medium[j]

\* Whatever looks like an entry in the directory's buffer is from the medium.
BufferInv ==
    \A i \in 0 .. DIRET_BUF_SIZE - 1 :
        Target("directory_buffer", i) \/ FromMedium(mem["directory_buffer"][i])

-----------------------------------------------------------------------------
(* FS_read_file()                                                          *)

\* The next block of the file.
NextBlock == (IF fs.indirect THEN NDIRECT ELSE 0) + fs.block

DiskUnit(inode, i) ==
    Medium[DiskNumber(inode, i \div BLOCK_SIZE) * BLOCK_SIZE + (i % BLOCK_SIZE)]

\* The first n units of the file are in the buffer.
Has(n) == \A i \in 0 .. n - 1 : mem[ask.area][i] = DiskUnit(Inode, i)

HasIndex ==
    \A k \in 0 .. BLOCK_SIZE - 1 :
        mem["index"][k] = Medium[Inode.blocks[NDIRECT + 1] * BLOCK_SIZE + k]

Fresh == fs.off = 0 /\ fs.block = 0 /\ ~fs.indirect

ReadsIndex ==
    /\ fs.indirect /\ fs.block = 0
    /\ call = ReadOf(Inode.blocks[NDIRECT + 1], "index", 0, BLOCK_SIZE)

ReadsBlock ==
    LET b == NextBlock - 1
        n == fs.off - b * BLOCK_SIZE
    IN  /\ fs.block >= 1 /\ n \in 1 .. BLOCK_SIZE
        /\ call = ReadOf(DiskNumber(Inode, b), ask.area, b * BLOCK_SIZE, n)

FileInv ==
    fs.pc = "read" =>
       /\ fs.off + fs.left = Least(Inode.size, ask.count)
       /\ fs.block <= IF fs.indirect THEN BLOCK_SIZE ELSE NDIRECT
       /\ fs.left > 0 => fs.off = NextBlock * BLOCK_SIZE
       /\ fs.indirect => NDIRECT * BLOCK_SIZE < Inode.size /\ (HasIndex \/ ReadsIndex)
       /\ IF call = NoCall THEN Has(fs.off)
          ELSE \/ call \in OtherCalls /\ Fresh
               \/ ReadsIndex /\ Has(fs.off)
               \/ ReadsBlock /\ Has(call.off)

StandInv ==
    IF fs.pc = "init"
    THEN fs.step <= LastStep /\ (call # NoCall => fs.step >= 1 /\ call = InitCall(fs.step - 1))
    ELSE fs.step = LastStep /\ (fs.pc # "read" /\ call # NoCall => call \in OtherCalls)

Upper == FsFields /\ AskInv /\ StandInv /\ TablesRead /\ InodesInv /\ BufferInv /\ FileInv

FilesInv == Lower /\ Upper

-----------------------------------------------------------------------------
(* The tables.                                                             *)

LEMMA Rooms ==
    /\ {"superblock", "groups", "bitmaps", "inode_table", "index", "directory_buffer",
        "MM_buffer", "other"} \subseteq DOMAIN Memory
    /\ \A i \in 0 .. BLOCK_SIZE - 1 : /\ i \in DOMAIN Memory["superblock"]
                                      /\ i \in DOMAIN Memory["groups"]
                                      /\ i \in DOMAIN Memory["index"]
    /\ \A i \in 0 .. DIRET_BUF_SIZE - 1 : i \in DOMAIN Memory["directory_buffer"]
    /\ \A i \in 0 .. MM_BLOCK_SIZE - 1 : i \in DOMAIN Memory["MM_buffer"]
    /\ \A i \in 0 .. DiskGroups - 1, k \in 0 .. Ipg - 1 :
          i * Ipg + k \in DOMAIN Memory["inode_table"] /\ i * Ipg \in Nat
<1>1. /\ \A i \in 0 .. BLOCK_SIZE - 1 : \A a \in {"superblock", "groups", "index"} :
            a \in DOMAIN Memory /\ i \in DOMAIN Memory[a]
      /\ 0 \in 0 .. BLOCK_SIZE - 1
    BY FilesAssumption, Sizes
<1>2. /\ {"bitmaps", "inode_table", "directory_buffer", "MM_buffer", "other"}
            \subseteq DOMAIN Memory
      /\ 0 .. DIRET_BUF_SIZE - 1 \subseteq DOMAIN Memory["directory_buffer"]
      /\ 0 .. MM_BLOCK_SIZE - 1 \subseteq DOMAIN Memory["MM_buffer"]
      /\ 0 .. DiskGroups * Ipg - 1 \subseteq DOMAIN Memory["inode_table"]
    BY FilesAssumption DEF Ipg
<1>3. ASSUME NEW i \in 0 .. DiskGroups - 1, NEW k \in 0 .. Ipg - 1
      PROVE  i * Ipg + k \in 0 .. DiskGroups * Ipg - 1 /\ i * Ipg \in Nat
    <2>1. (i + 1) * Ipg <= DiskGroups * Ipg /\ i * Ipg \in Nat /\ DiskGroups * Ipg \in Nat
        BY Sizes
    <2>2. (i + 1) * Ipg = i * Ipg + Ipg
        BY Sizes
    <2> QED BY <2>1, <2>2, Sizes
<1> QED BY <1>1, <1>2, <1>3

\* What FS_init() asks for, and that nothing is asked for twice.
LEMMA InitCalls ==
    /\ InitCall(0) = ReadOf(1, "superblock", 0, BLOCK_SIZE)
    /\ InitCall(1) = ReadOf(2, "groups", 0, BLOCK_SIZE)
    /\ \A i \in 0 .. DiskGroups - 1 :
          InitCall(3 * i + 4) = ReadOf(DiskGroup(i).inode_table, "inode_table", i * Ipg, Ipg)
<1>1. InitCall(0) = ReadOf(1, "superblock", 0, BLOCK_SIZE)
      /\ InitCall(1) = ReadOf(2, "groups", 0, BLOCK_SIZE)
    BY DEF InitCall
<1>2. ASSUME NEW i \in 0 .. DiskGroups - 1
      PROVE  InitCall(3 * i + 4) = ReadOf(DiskGroup(i).inode_table, "inode_table", i * Ipg, Ipg)
    <2>1. ((3 * i + 4) - 2) \div 3 = i /\ (3 * i + 4) % 3 = 1 /\ 3 * i + 4 \notin {0, 1}
        BY Sizes
    <2> QED BY <2>1 DEF InitCall
<1> QED BY <1>1, <1>2

LEMMA InitCallFacts ==
    ASSUME NEW step \in Nat, step < LastStep
    PROVE  /\ InitCall(step) \in Calls /\ InitCall(step) # NoCall
           /\ InitCall(step).fn = "READ"
           /\ InitCall(step).area \in {"superblock", "groups", "bitmaps", "inode_table"}
           /\ InitCall(step).area = "superblock" => step = 0
           /\ InitCall(step).area = "groups" => step = 1
           /\ InitCall(step).area = "inode_table" =>
                 \E i \in 0 .. DiskGroups - 1 :
                    /\ step = 3 * i + 4
                    /\ InitCall(step).off = i * Ipg /\ InitCall(step).count = Ipg
<1>0. ASSUME NEW b \in Nat, NEW off \in Nat, NEW n \in Nat,
             NEW area \in {"superblock", "groups", "bitmaps", "inode_table"},
             InitCall(step) = ReadOf(b, area, off, n)
      PROVE  /\ InitCall(step) \in Calls /\ InitCall(step) # NoCall
             /\ InitCall(step).fn = "READ" /\ InitCall(step).area = area
             /\ InitCall(step).off = off /\ InitCall(step).count = n
    <2>1. area \in DOMAIN Memory
        BY Rooms
    <2>2. /\ ReadOf(b, area, off, n) \in Calls /\ ReadOf(b, area, off, n) # NoCall
          /\ ReadOf(b, area, off, n).fn = "READ" /\ ReadOf(b, area, off, n).area = area
          /\ ReadOf(b, area, off, n).off = off /\ ReadOf(b, area, off, n).count = n
        BY <2>1, ReadIsCall
    <2> QED BY <1>0, <2>2
<1>1. CASE step = 0
    <2>1. InitCall(step) = ReadOf(1, "superblock", 0, BLOCK_SIZE) /\ BLOCK_SIZE \in Nat
        BY <1>1, InitCalls, Sizes
    <2>2. /\ InitCall(step) \in Calls /\ InitCall(step) # NoCall
          /\ InitCall(step).fn = "READ" /\ InitCall(step).area = "superblock"
        BY <1>0, <2>1
    <2> QED BY <1>1, <2>2
<1>2. CASE step = 1
    <2>1. InitCall(step) = ReadOf(2, "groups", 0, BLOCK_SIZE) /\ BLOCK_SIZE \in Nat
        BY <1>2, InitCalls, Sizes
    <2>2. /\ InitCall(step) \in Calls /\ InitCall(step) # NoCall
          /\ InitCall(step).fn = "READ" /\ InitCall(step).area = "groups"
        BY <1>0, <2>1
    <2> QED BY <1>2, <2>2
<1>3. CASE step >= 2
    <2> DEFINE i == (step - 2) \div 3
               bits == 2 * i * BLOCK_SIZE
               more == (2 * i + 1) * BLOCK_SIZE
               table == i * Ipg
    <2>1. i \in 0 .. DiskGroups - 1
        BY <1>3, Sizes DEF LastStep
    <2>2. step % 3 = 1 => step = 3 * i + 4
        BY <1>3
    <2>3. step % 3 \in {0, 1, 2}
        BY <1>3
    <2>4. InitCall(step) =
             IF step % 3 = 2 THEN ReadOf(DiskGroup(i).block_bitmap, "bitmaps", bits, BLOCK_SIZE)
             ELSE IF step % 3 = 0
             THEN ReadOf(DiskGroup(i).inode_bitmap, "bitmaps", more, BLOCK_SIZE)
             ELSE ReadOf(DiskGroup(i).inode_table, "inode_table", table, Ipg)
        BY <1>3 DEF InitCall
    <2> HIDE DEF i
    <2>5. bits \in Nat /\ more \in Nat /\ table \in Nat /\ BLOCK_SIZE \in Nat /\ Ipg \in Nat
        BY <2>1, Sizes
    <2>6. /\ DiskGroup(i).block_bitmap \in Nat /\ DiskGroup(i).inode_bitmap \in Nat
          /\ DiskGroup(i).inode_table \in Nat
        BY <2>1, GroupFacts
    <2>7. CASE step % 3 # 1
        <3>1. PICK b \in Nat, off \in Nat : InitCall(step) = ReadOf(b, "bitmaps", off, BLOCK_SIZE)
            <4> HIDE DEF bits, more, table
            <4> QED BY <2>3, <2>4, <2>5, <2>6, <2>7
        <3>2. /\ InitCall(step) \in Calls /\ InitCall(step) # NoCall
              /\ InitCall(step).fn = "READ" /\ InitCall(step).area = "bitmaps"
            BY <1>0, <2>5, <3>1
        <3> QED BY <3>2
    <2>8. CASE step % 3 = 1
        <3>1. InitCall(step) = ReadOf(DiskGroup(i).inode_table, "inode_table", table, Ipg)
            BY <2>4, <2>8
        <3> HIDE DEF table
        <3>2. /\ InitCall(step) \in Calls /\ InitCall(step) # NoCall
              /\ InitCall(step).fn = "READ" /\ InitCall(step).area = "inode_table"
              /\ InitCall(step).off = table /\ InitCall(step).count = Ipg
            BY <1>0, <2>5, <2>6, <3>1
        <3> QED BY <2>1, <2>2, <2>8, <3>2 DEF table
    <2> QED BY <2>7, <2>8
<1> QED BY <1>1, <1>2, <1>3

\* After FS_init() no call of the server points into the tables.
LEMMA CallArea ==
    ASSUME Upper, fs.pc # "init", call # NoCall
    PROVE  call.area \in {"other", "index", "directory_buffer", "MM_buffer"}
<1>1. CASE fs.pc # "read"
    BY <1>1, Others DEF Upper, StandInv
<1>2. CASE fs.pc = "read"
    <2>1. ask.area \in {"directory_buffer", "MM_buffer"}
        BY <1>2 DEF Upper, AskInv, Asks
    <2>2. \/ call \in OtherCalls \/ ReadsIndex \/ ReadsBlock
        BY <1>2 DEF Upper, FileInv
    <2> QED BY <2>1, <2>2, Others DEF ReadsIndex, ReadsBlock, ReadOf
<1> QED BY <1>1, <1>2

\* What a step of the disk server does.
DiskEffect ==
    \/ /\ call' = call
       /\ \A a \in DOMAIN Memory : \A i \in DOMAIN Memory[a] :
             ~Target(a, i) => mem'[a][i] = mem[a][i]
    \/ /\ call # NoCall /\ call' = NoCall /\ mem' = mem
       /\ call.fn = "READ" => Brought(call)

LEMMA DiskEffects == ASSUME Lower, DiskNext PROVE DiskEffect
BY DiskSteps DEF DiskEffect, Aside, Target

LEMMA TablesKept ==
    ASSUME Upper, UNCHANGED fsVars, call' = call,
           \A a \in DOMAIN Memory : \A i \in DOMAIN Memory[a] :
              ~Target(a, i) => mem'[a][i] = mem[a][i]
    PROVE  TablesRead'
<1>1. Answers' = Answers /\ fs.step \in Nat
    BY DEF Answers, fsVars, Upper, FsFields
<1>2. TablesRead
    BY DEF Upper
<1>3. ASSUME call # NoCall, fs.pc = "init"
      PROVE  /\ Answers = fs.step - 1 /\ call = InitCall(Answers)
             /\ Answers \in Nat /\ Answers < LastStep
    <2>1. /\ fs.step <= LastStep /\ fs.step >= 1 /\ call = InitCall(fs.step - 1)
          /\ Answers = fs.step - 1
        BY <1>3 DEF Upper, StandInv, Answers
    <2>2. LastStep \in Nat
        BY Sizes DEF LastStep
    <2> QED BY <1>1, <2>1, <2>2
<1>4. Answers >= 1 => mem'["superblock"][0] = mem["superblock"][0]
    <2>1. Answers >= 1 => ~Target("superblock", 0)
        BY <1>3, InitCallFacts, CallArea DEF Target
    <2>2. 0 \in DOMAIN Memory["superblock"]
        BY Rooms, Sizes
    <2> QED BY <2>1, <2>2, Rooms
<1>5. ASSUME Answers >= 2, NEW i \in 0 .. DiskGroups - 1
      PROVE  mem'["groups"][i] = mem["groups"][i]
    <2>1. ~Target("groups", i)
        BY <1>3, <1>5, InitCallFacts, CallArea DEF Target
    <2>2. i \in 0 .. BLOCK_SIZE - 1
        BY GroupFacts, Sizes
    <2> QED BY <2>1, <2>2, Rooms
<1>6. ASSUME NEW i \in 0 .. DiskGroups - 1, Answers >= 3 * i + 5, NEW k \in 0 .. Ipg - 1
      PROVE  mem'["inode_table"][i * Ipg + k] = mem["inode_table"][i * Ipg + k]
    <2>1. ~Target("inode_table", i * Ipg + k)
        <3> SUFFICES ASSUME Target("inode_table", i * Ipg + k) PROVE FALSE
            OBVIOUS
        <3>1. fs.pc = "init" /\ call # NoCall /\ call.area = "inode_table"
            BY CallArea DEF Target
        <3>2. PICK j \in 0 .. DiskGroups - 1 :
                 Answers = 3 * j + 4 /\ call.off = j * Ipg /\ call.count = Ipg
            <4>1. call = InitCall(Answers) /\ Answers \in Nat /\ Answers < LastStep
                BY <1>3, <3>1
            <4>2. InitCall(Answers).area = "inode_table" =>
                     \E j \in 0 .. DiskGroups - 1 :
                        /\ Answers = 3 * j + 4
                        /\ InitCall(Answers).off = j * Ipg /\ InitCall(Answers).count = Ipg
                BY <4>1, InitCallFacts
            <4> QED BY <3>1, <4>1, <4>2
        <3>3. i * Ipg + k >= j * Ipg
            BY <3>2 DEF Target
        <3>4. j >= i + 1
            BY <1>6, <3>2
        <3>5. j * Ipg >= (i + 1) * Ipg
            BY <3>4, Sizes
        <3>6. (i + 1) * Ipg = i * Ipg + Ipg
            BY Sizes
        <3>7. i * Ipg \in Nat /\ j * Ipg \in Nat
            BY <3>2, Sizes
        <3> QED BY <3>3, <3>5, <3>6, <3>7, Sizes
    <2> QED BY <2>1, Rooms
<1> QED BY <1>1, <1>2, <1>4, <1>5, <1>6 DEF TablesRead, TableAt

\* A read of a block of the medium that stays as it is.
LEMMA BroughtWhole ==
    ASSUME Undisturbed, NEW b \in Nat, LastingBlock(b), NEW area, NEW off \in Nat,
           Brought(ReadOf(b, area, off, BLOCK_SIZE))
    PROVE  \A k \in 0 .. BLOCK_SIZE - 1 :
              off + k \in DOMAIN Memory[area] =>
                 mem[area][off + k] = Medium[b * BLOCK_SIZE + k]
<1> SUFFICES ASSUME NEW k \in 0 .. BLOCK_SIZE - 1, off + k \in DOMAIN Memory[area]
             PROVE  mem[area][off + k] = Medium[b * BLOCK_SIZE + k]
    OBVIOUS
<1>1. mem[area][off + k] = medium[B2S(b) * SECTOR_SIZE + k]
    BY DEF Brought, ReadOf
<1>2. mem[area][off + k] = medium[b * BLOCK_SIZE + k]
    BY <1>1, BlockStart
<1> QED BY <1>2 DEF Undisturbed, LastingBlock

LEMMA TablesAnswered ==
    ASSUME Lower, Upper, UNCHANGED fsVars, call # NoCall, call' = NoCall, mem' = mem,
           call.fn = "READ" => Brought(call)
    PROVE  TablesRead'
<1>1. TablesRead /\ fs' = fs /\ fs.step \in Nat
    BY DEF Upper, fsVars, FsFields
<1>2. CASE fs.pc # "init"
    <2>1. Answers' = Answers
        BY <1>1, <1>2 DEF Answers
    <2> QED BY <1>1, <2>1 DEF TablesRead, TableAt
<1>3. CASE fs.pc = "init"
    <2>1. /\ Answers = fs.step - 1 /\ Answers' = fs.step /\ call = InitCall(Answers)
          /\ Answers \in Nat /\ Answers < LastStep
        <3>1. /\ fs.step <= LastStep /\ fs.step >= 1 /\ call = InitCall(fs.step - 1)
              /\ Answers = fs.step - 1 /\ Answers' = fs.step
            BY <1>1, <1>3 DEF Upper, StandInv, Answers
        <3>2. LastStep \in Nat
            BY Sizes DEF LastStep
        <3> QED BY <1>1, <3>1, <3>2
    <2>2. Brought(call)
        BY <2>1, InitCallFacts
    <2>3. LastingBlock(1) /\ LastingBlock(2) /\ Undisturbed
        BY FilesAssumption DEF Lower
    <2>4. fs.step >= 1 => mem["superblock"][0] = DiskSuper
        <3>1. CASE Answers = 0
            <4> DEFINE b == 1
                       off == 0
            <4>1. Brought(ReadOf(b, "superblock", off, BLOCK_SIZE))
                BY <2>1, <2>2, <3>1, InitCalls
            <4>2. b \in Nat /\ off \in Nat /\ LastingBlock(b) /\ BLOCK_SIZE \in Nat
                BY <2>3, Sizes
            <4>3. b * BLOCK_SIZE + 0 = BLOCK_SIZE /\ off + 0 = 0
                BY Sizes
            <4> HIDE DEF b, off
            <4>4. off + 0 \in DOMAIN Memory["superblock"] /\ 0 \in 0 .. BLOCK_SIZE - 1
                BY <4>3, Sizes, Rooms
            <4>5. \A k \in 0 .. BLOCK_SIZE - 1 :
                     off + k \in DOMAIN Memory["superblock"] =>
                        mem["superblock"][off + k] = Medium[b * BLOCK_SIZE + k]
                BY <2>3, <4>1, <4>2, BroughtWhole
            <4>6. mem["superblock"][off + 0] = Medium[b * BLOCK_SIZE + 0]
                BY <4>4, <4>5
            <4> QED BY <4>3, <4>6 DEF DiskSuper
        <3> QED BY <1>1, <2>1, <3>1 DEF TablesRead
    <2>5. fs.step >= 2 => \A i \in 0 .. DiskGroups - 1 : mem["groups"][i] = DiskGroup(i)
        <3>1. ASSUME Answers = 1, NEW i \in 0 .. DiskGroups - 1
              PROVE  mem["groups"][i] = DiskGroup(i)
            <4> DEFINE b == 2
                       off == 0
            <4>1. Brought(ReadOf(b, "groups", off, BLOCK_SIZE))
                BY <2>1, <2>2, <3>1, InitCalls
            <4>2. b \in Nat /\ off \in Nat /\ LastingBlock(b) /\ BLOCK_SIZE \in Nat
                BY <2>3, Sizes
            <4>3. b * BLOCK_SIZE + i = 2 * BLOCK_SIZE + i /\ off + i = i
                BY Sizes
            <4> HIDE DEF b, off
            <4>4. off + i \in DOMAIN Memory["groups"] /\ i \in 0 .. BLOCK_SIZE - 1
                BY <4>3, GroupFacts, Sizes, Rooms
            <4>5. \A k \in 0 .. BLOCK_SIZE - 1 :
                     off + k \in DOMAIN Memory["groups"] =>
                        mem["groups"][off + k] = Medium[b * BLOCK_SIZE + k]
                BY <2>3, <4>1, <4>2, BroughtWhole
            <4>6. mem["groups"][off + i] = Medium[b * BLOCK_SIZE + i]
                BY <4>4, <4>5
            <4> QED BY <4>3, <4>6 DEF DiskGroup
        <3> QED BY <1>1, <2>1, <3>1 DEF TablesRead
    <2>6. ASSUME NEW i \in 0 .. DiskGroups - 1, fs.step >= 3 * i + 5
          PROVE  TableAt(i)
        <3>1. CASE Answers = 3 * i + 4
            <4> DEFINE b == DiskGroup(i).inode_table
            <4>1. Brought(ReadOf(b, "inode_table", i * Ipg, Ipg))
                BY <2>1, <2>2, <3>1, InitCalls
            <4>2. b \in Nat /\ \A k \in 0 .. Ipg - 1 : b * BLOCK_SIZE + k \in Lasting
                BY GroupFacts
            <4> HIDE DEF b
            <4>3. ASSUME NEW k \in 0 .. Ipg - 1
                  PROVE  mem["inode_table"][i * Ipg + k] = Medium[b * BLOCK_SIZE + k]
                <5> DEFINE off == i * Ipg
                <5>1. off \in Nat /\ Ipg \in Nat /\ off + k \in DOMAIN Memory["inode_table"]
                    BY Sizes, Rooms
                <5>2. Brought(ReadOf(b, "inode_table", off, Ipg))
                    BY <4>1
                <5> HIDE DEF off
                <5>3. mem["inode_table"][off + k] = medium[B2S(b) * SECTOR_SIZE + k]
                    BY <5>1, <5>2 DEF Brought, ReadOf
                <5>4. mem["inode_table"][off + k] = medium[b * BLOCK_SIZE + k]
                    BY <4>2, <5>3, BlockStart
                <5>5. mem["inode_table"][off + k] = Medium[b * BLOCK_SIZE + k]
                    BY <2>3, <4>2, <5>4 DEF Undisturbed
                <5> QED BY <5>5 DEF off
            <4> QED BY <4>3 DEF TableAt, b
        <3> QED BY <1>1, <2>1, <2>6, <3>1 DEF TablesRead
    <2> QED BY <1>1, <2>1, <2>4, <2>5, <2>6 DEF TablesRead, TableAt
<1> QED BY <1>2, <1>3

-----------------------------------------------------------------------------
(* The blocks of a file.                                                   *)

\* Block b begins at unit b * BLOCK_SIZE.
LEMMA PlaceInBlock ==
    ASSUME NEW b \in Nat, NEW k \in 0 .. BLOCK_SIZE - 1
    PROVE  /\ (b * BLOCK_SIZE + k) \div BLOCK_SIZE = b
           /\ (b * BLOCK_SIZE + k) % BLOCK_SIZE = k
           /\ b * BLOCK_SIZE \in Nat
<1> DEFINE x == b * BLOCK_SIZE + k
           q == x \div BLOCK_SIZE
           r == x % BLOCK_SIZE
<1>1. b * BLOCK_SIZE \in Nat
    BY Sizes
<1>2. x \in Nat /\ x = b * BLOCK_SIZE + k
    BY <1>1
<1> HIDE DEF x
<1>3. q \in Int /\ r \in 0 .. BLOCK_SIZE - 1 /\ x = q * BLOCK_SIZE + r
    BY <1>2, Sizes, SMTT(30)
<1> HIDE DEF q, r
<1>4. q = b
    <2>1. q * BLOCK_SIZE \in Int
        BY <1>3, Sizes
    <2>2. ~(q > b)
        <3> SUFFICES ASSUME q > b PROVE FALSE
            OBVIOUS
        <3>1. /\ q * BLOCK_SIZE >= (b + 1) * BLOCK_SIZE
              /\ (b + 1) * BLOCK_SIZE = b * BLOCK_SIZE + BLOCK_SIZE
            BY <1>3, Sizes
        <3> QED BY <1>1, <1>2, <1>3, <2>1, <3>1, Sizes
    <2>3. ~(q < b)
        <3> SUFFICES ASSUME q < b PROVE FALSE
            OBVIOUS
        <3>1. /\ (q + 1) * BLOCK_SIZE <= b * BLOCK_SIZE
              /\ (q + 1) * BLOCK_SIZE = q * BLOCK_SIZE + BLOCK_SIZE
            BY <1>3, Sizes
        <3> QED BY <1>1, <1>2, <1>3, <2>1, <3>1, Sizes
    <2> QED BY <1>3, <2>2, <2>3
<1>5. r = k
    BY <1>1, <1>2, <1>3, <1>4, Sizes
<1> QED BY <1>1, <1>4, <1>5 DEF q, r, x

LEMMA InodeKinds ==
    ASSUME NEW u \in Inodes
    PROVE  /\ u.size \in Nat /\ (u # NoInode => WholeInode(u))
           /\ NoInode.size = 0
<1>1. NoInode.size = 0
    BY DEF NoInode
<1>2. ASSUME u # NoInode PROVE WholeInode(u) /\ u.size \in Nat
    <2>1. PICK n \in 0 .. DiskSuper.inodes_count - 2 : u = TableUnit(n)
        BY <1>2 DEF Inodes
    <2>2. WholeInode(u)
        BY <2>1, InodeFacts
    <2> QED BY <2>2 DEF WholeInode
<1> QED BY <1>1, <1>2

LEMMA BlockLasts ==
    ASSUME NEW u \in Inodes, NEW b \in 0 .. NDIRECT + BLOCK_SIZE - 1,
           b * BLOCK_SIZE < u.size
    PROVE  LastingBlock(DiskNumber(u, b))
<1>1. b \in Nat /\ b * BLOCK_SIZE \in Nat
    BY Sizes
<1>2. u # NoInode
    <2> SUFFICES ASSUME u = NoInode PROVE FALSE
        OBVIOUS
    <2>1. u.size = 0
        BY InodeKinds
    <2> QED BY <1>1, <2>1
<1> QED BY <1>2, InodeKinds DEF WholeInode

\* The indirect block.
LEMMA IndexLasts ==
    ASSUME FsFields, InodesInv, AskInv, ask # NoAsk, NDIRECT * BLOCK_SIZE < Inode.size
    PROVE  /\ LastingBlock(Inode.blocks[NDIRECT + 1]) /\ Inode.blocks[NDIRECT + 1] \in Nat
           /\ ReadOf(Inode.blocks[NDIRECT + 1], "index", 0, BLOCK_SIZE) \in Calls
           /\ \A k \in 0 .. BLOCK_SIZE - 1 :
                 (NDIRECT + k) * BLOCK_SIZE < Inode.size =>
                    "block" \in DOMAIN Medium[Inode.blocks[NDIRECT + 1] * BLOCK_SIZE + k]
<1>1. Inode \in Inodes
    <2>1. ask.fd \in {"directory_fd", "file_fd"}
        BY DEF AskInv, Asks
    <2> QED BY <2>1 DEF InodesInv, Inode
<1>2. Inode # NoInode
    <2>1. NDIRECT * BLOCK_SIZE \in Nat
        BY Sizes
    <2> QED BY <1>1, <2>1, InodeKinds
<1>3. WholeInode(Inode)
    BY <1>1, <1>2, InodeKinds
<1>4. LastingBlock(Inode.blocks[NDIRECT + 1]) /\ Inode.blocks[NDIRECT + 1] \in Nat
    BY <1>3 DEF WholeInode, LastingBlock
<1>5. "index" \in DOMAIN Memory /\ BLOCK_SIZE \in Nat /\ 0 \in Nat
    BY Sizes, Rooms
<1>6. ReadOf(Inode.blocks[NDIRECT + 1], "index", 0, BLOCK_SIZE) \in Calls
    BY <1>4, <1>5, ReadIsCall
<1> QED BY <1>3, <1>4, <1>6 DEF WholeInode

\* The block that is being read.
LEMMA BlockRead ==
    ASSUME FsFields, InodesInv, AskInv, FileInv, fs.pc = "read", call # NoCall, ReadsBlock
    PROVE  \E b \in 0 .. NDIRECT + BLOCK_SIZE - 1 : \E n \in 1 .. BLOCK_SIZE :
              /\ b * BLOCK_SIZE \in Nat /\ fs.off = b * BLOCK_SIZE + n
              /\ LastingBlock(DiskNumber(Inode, b))
              /\ call = ReadOf(DiskNumber(Inode, b), ask.area, b * BLOCK_SIZE, n)
<1> DEFINE b == NextBlock - 1
           n == fs.off - b * BLOCK_SIZE
<1>0. fs.block \in Nat /\ fs.off \in Nat /\ fs.left \in Nat /\ fs.indirect \in BOOLEAN
    BY DEF FsFields
<1>1. /\ fs.block >= 1 /\ n \in 1 .. BLOCK_SIZE
      /\ call = ReadOf(DiskNumber(Inode, b), ask.area, b * BLOCK_SIZE, n)
    BY DEF ReadsBlock
<1>2. b \in 0 .. NDIRECT + BLOCK_SIZE - 1
    <2>1. fs.block <= IF fs.indirect THEN BLOCK_SIZE ELSE NDIRECT
        BY DEF FileInv
    <2> QED BY <1>0, <1>1, <2>1, Sizes DEF NextBlock
<1> HIDE DEF b
<1>3. b * BLOCK_SIZE \in Nat
    BY <1>2, Sizes
<1>4. fs.off = b * BLOCK_SIZE + n
    BY <1>0, <1>3
<1> HIDE DEF n
<1>5. Inode \in Inodes /\ Inode.size \in Nat
    <2>1. ask.fd \in {"directory_fd", "file_fd"}
        BY DEF AskInv, Asks
    <2> QED BY <2>1, InodeKinds DEF InodesInv, Inode
<1>6. b * BLOCK_SIZE < Inode.size
    <2>1. fs.off + fs.left = Least(Inode.size, ask.count) /\ ask.count \in Nat
        BY DEF FileInv, AskInv, Asks
    <2>2. fs.off <= Inode.size
        BY <1>0, <1>5, <2>1 DEF Least
    <2> QED BY <1>0, <1>1, <1>3, <1>4, <1>5, <2>2
<1>7. LastingBlock(DiskNumber(Inode, b))
    BY <1>2, <1>5, <1>6, BlockLasts
<1> QED BY <1>1, <1>2, <1>3, <1>4, <1>7

-----------------------------------------------------------------------------
(* What a step of the disk server does to the rest.                        *)

\* The units of the file that are in the client's buffer have room there.
LEMMA FileRoom ==
    ASSUME FsFields, AskInv, InodesInv, FileInv, fs.pc = "read",
           NEW i \in 0 .. fs.off - 1
    PROVE  /\ ask.area \in DOMAIN Memory /\ i \in DOMAIN Memory[ask.area]
           /\ ask.area \in {"directory_buffer", "MM_buffer"}
<1>1. /\ ask.area \in {"directory_buffer", "MM_buffer"} /\ ask.count \in Nat
      /\ ask.fd \in {"directory_fd", "file_fd"}
      /\ ask.area = "directory_buffer" => ask.count = DIRET_BUF_SIZE
      /\ ask.area = "MM_buffer" => ask.count = MM_BLOCK_SIZE
    BY DEF AskInv, Asks
<1>2. fs.off <= ask.count /\ fs.off \in Nat
    <2>1. fs.off + fs.left = Least(Inode.size, ask.count) /\ fs.off \in Nat /\ fs.left \in Nat
        BY DEF FileInv, FsFields
    <2>2. Inode.size \in Nat
        BY <1>1, InodeKinds DEF InodesInv, Inode
    <2> QED BY <1>1, <2>1, <2>2 DEF Least
<1>3. i \in 0 .. ask.count - 1
    BY <1>1, <1>2
<1> QED BY <1>1, <1>3, Rooms

LEMMA BufferDisk ==
    ASSUME Lower, Upper, UNCHANGED fsVars, DiskEffect
    PROVE  BufferInv'
<1>1. BufferInv
    BY DEF Upper
<1> SUFFICES ASSUME NEW i \in 0 .. DIRET_BUF_SIZE - 1, ~Target("directory_buffer", i)'
             PROVE  FromMedium(mem["directory_buffer"][i])'
    BY DEF BufferInv
<1>2. "directory_buffer" \in DOMAIN Memory /\ i \in DOMAIN Memory["directory_buffer"]
    BY Rooms
<1>3. CASE ~Target("directory_buffer", i)
    <2>1. mem'["directory_buffer"][i] = mem["directory_buffer"][i]
        BY <1>2, <1>3 DEF DiskEffect
    <2> QED BY <1>1, <1>3, <2>1 DEF BufferInv, FromMedium
<1>4. CASE Target("directory_buffer", i)
    <2>1. /\ call # NoCall /\ call' = NoCall /\ mem' = mem
          /\ call.area = "directory_buffer" /\ i \in call.off .. call.off + call.count - 1
          /\ call.fn = "READ" => Brought(call)
        BY <1>4 DEF DiskEffect, Target
    <2>2. fs.pc = "read" /\ ReadsBlock
        <3>1. fs.pc # "init"
            <4> SUFFICES ASSUME fs.pc = "init" PROVE FALSE
                OBVIOUS
            <4>1. fs.step <= LastStep /\ fs.step >= 1 /\ call = InitCall(fs.step - 1)
                BY <2>1 DEF Upper, StandInv
            <4>2. fs.step - 1 \in Nat /\ fs.step - 1 < LastStep
                BY <4>1, Sizes DEF Upper, FsFields, LastStep
            <4> QED BY <2>1, <4>1, <4>2, InitCallFacts
        <3>2. fs.pc = "read"
            BY <2>1, <3>1, Others DEF Upper, StandInv
        <3>3. call \in OtherCalls \/ ReadsIndex \/ ReadsBlock
            BY <2>1, <3>2 DEF Upper, FileInv
        <3> QED BY <2>1, <3>2, <3>3, Others DEF ReadsIndex, ReadOf
    <2>3. PICK b \in 0 .. NDIRECT + BLOCK_SIZE - 1, n \in 1 .. BLOCK_SIZE :
             /\ b * BLOCK_SIZE \in Nat
             /\ LastingBlock(DiskNumber(Inode, b))
             /\ call = ReadOf(DiskNumber(Inode, b), ask.area, b * BLOCK_SIZE, n)
        BY <2>1, <2>2, BlockRead DEF Upper
    <2> DEFINE d == DiskNumber(Inode, b)
               off == b * BLOCK_SIZE
               k == i - off
    <2>4. /\ d \in Nat /\ off \in Nat /\ LastingBlock(d)
          /\ Brought(ReadOf(d, "directory_buffer", off, n))
          /\ k \in 0 .. n - 1 /\ off + k = i
        BY <2>1, <2>3 DEF ReadOf, LastingBlock
    <2> HIDE DEF d, off, k
    <2>5. \A m \in 0 .. n - 1 : d * BLOCK_SIZE + m \in Lasting
        BY <2>3, <2>4, Sizes DEF LastingBlock
    <2>6. mem["directory_buffer"][off + k] = medium[B2S(d) * SECTOR_SIZE + k]
        BY <1>2, <2>4 DEF Brought, ReadOf
    <2>7. mem["directory_buffer"][off + k] = medium[d * BLOCK_SIZE + k]
        BY <2>4, <2>6, BlockStart
    <2>8. medium[d * BLOCK_SIZE + k] = Medium[d * BLOCK_SIZE + k]
        BY <2>4, <2>5 DEF Lower, Undisturbed
    <2> QED BY <2>1, <2>4, <2>5, <2>7, <2>8 DEF FromMedium
<1> QED BY <1>3, <1>4

LEMMA FileDisk ==
    ASSUME Lower, Upper, UNCHANGED fsVars, DiskEffect
    PROVE  FileInv'
<1>0. fs' = fs /\ ask' = ask /\ inodes' = inodes
    BY DEF fsVars
<1> SUFFICES ASSUME fs.pc = "read" PROVE FileInv'
    BY <1>0 DEF FileInv
<1>1. FsFields /\ AskInv /\ InodesInv /\ FileInv
    BY DEF Upper
<1>2. ask.area \in {"directory_buffer", "MM_buffer"} /\ fs.off \in Nat
    BY <1>1 DEF AskInv, Asks, FsFields
<1>3. /\ fs.off + fs.left = Least(Inode.size, ask.count)
      /\ fs.block <= IF fs.indirect THEN BLOCK_SIZE ELSE NDIRECT
      /\ fs.left > 0 => fs.off = NextBlock * BLOCK_SIZE
      /\ fs.indirect => NDIRECT * BLOCK_SIZE < Inode.size /\ (HasIndex \/ ReadsIndex)
      /\ IF call = NoCall THEN Has(fs.off)
         ELSE \/ call \in OtherCalls /\ Fresh
              \/ ReadsIndex /\ Has(fs.off)
              \/ ReadsBlock /\ Has(call.off)
    BY <1>1 DEF FileInv
<1>8. ask # NoAsk
    BY <1>1 DEF AskInv
<1>4. /\ Inode' = Inode /\ NextBlock' = NextBlock /\ Fresh' = Fresh
    BY <1>0 DEF Inode, NextBlock, Fresh
<1>5. SUFFICES /\ fs.indirect => HasIndex' \/ ReadsIndex'
               /\ IF call' = NoCall THEN Has(fs.off)'
                  ELSE \/ call' \in OtherCalls /\ Fresh
                       \/ ReadsIndex' /\ Has(fs.off)'
                       \/ ReadsBlock' /\ Has(call.off)'
    BY <1>0, <1>3, <1>4 DEF FileInv
<1>6. CASE /\ call' = call
           /\ \A a \in DOMAIN Memory : \A i \in DOMAIN Memory[a] :
                 ~Target(a, i) => mem'[a][i] = mem[a][i]
    <2>1. ReadsIndex' = ReadsIndex /\ ReadsBlock' = ReadsBlock
        BY <1>0, <1>4, <1>6 DEF ReadsIndex, ReadsBlock
    <2>2. ASSUME HasIndex, call # NoCall => call.area # "index" PROVE HasIndex'
        <3>1. \A k \in 0 .. BLOCK_SIZE - 1 : mem'["index"][k] = mem["index"][k]
            BY <1>6, <2>2, Rooms DEF Target
        <3> QED BY <1>4, <2>2, <3>1 DEF HasIndex
    <2>3. ASSUME Has(fs.off), call # NoCall => call.area # ask.area PROVE Has(fs.off)'
        <3>1. \A i \in 0 .. fs.off - 1 : mem'[ask.area][i] = mem[ask.area][i]
            BY <1>1, <1>6, <2>3, FileRoom DEF Target
        <3> QED BY <1>0, <1>4, <2>3, <3>1 DEF Has
    <2>4. CASE call = NoCall
        <3>1. ~ReadsIndex
            <4>1. ReadsIndex => call \in Calls
                BY <1>1, <1>3, <1>8, IndexLasts DEF ReadsIndex
            <4> QED BY <2>4, <4>1, FilesAssumption
        <3>2. fs.indirect => HasIndex'
            BY <1>3, <2>2, <2>4, <3>1
        <3>3. Has(fs.off)'
            BY <1>3, <2>3, <2>4
        <3> QED BY <1>6, <2>4, <3>2, <3>3
    <2>5. CASE call # NoCall /\ call \in OtherCalls /\ Fresh
        BY <1>6, <2>5 DEF Fresh
    <2>6. CASE call # NoCall /\ ReadsIndex /\ Has(fs.off)
        <3>1. Has(fs.off)'
            BY <1>2, <2>3, <2>6 DEF ReadsIndex, ReadOf
        <3> QED BY <1>6, <2>1, <2>6, <3>1
    <2>7. CASE call # NoCall /\ ReadsBlock /\ Has(call.off)
        <3>1. PICK b \in 0 .. NDIRECT + BLOCK_SIZE - 1, n \in 1 .. BLOCK_SIZE :
                 /\ b * BLOCK_SIZE \in Nat /\ fs.off = b * BLOCK_SIZE + n
                 /\ call = ReadOf(DiskNumber(Inode, b), ask.area, b * BLOCK_SIZE, n)
            BY <1>1, <2>7, BlockRead
        <3>2. call.area = ask.area /\ call.off \in Nat /\ call.off <= fs.off
            BY <3>1, <1>2 DEF ReadOf
        <3>3. fs.indirect => HasIndex'
            <4>1. ~ReadsIndex
                BY <2>7 DEF ReadsIndex, ReadsBlock
            <4> QED BY <1>2, <1>3, <2>2, <3>2, <4>1
        <3>4. Has(call.off)'
            <4>1. ASSUME NEW i \in 0 .. call.off - 1
                  PROVE  mem'[ask.area][i] = mem[ask.area][i]
                <5>1. i \in 0 .. fs.off - 1 /\ ~Target(ask.area, i)
                    BY <1>2, <3>2 DEF Target
                <5> QED BY <1>1, <1>6, <5>1, FileRoom
            <4> QED BY <1>0, <1>4, <1>6, <2>7, <4>1 DEF Has
        <3> QED BY <1>6, <2>1, <2>7, <3>3, <3>4
    <2> QED BY <1>3, <2>4, <2>5, <2>6, <2>7
<1>7. CASE /\ call # NoCall /\ call' = NoCall /\ mem' = mem
           /\ call.fn = "READ" => Brought(call)
    <2>0. (HasIndex => HasIndex') /\ (Has(fs.off) => Has(fs.off)')
        BY <1>0, <1>4, <1>7 DEF HasIndex, Has
    <2>1. CASE call \in OtherCalls /\ Fresh
        BY <1>0, <1>7, <2>1 DEF Fresh, Has
    <2>2. CASE ReadsIndex /\ Has(fs.off)
        <3> DEFINE d == Inode.blocks[NDIRECT + 1]
                   off == 0
        <3>1. LastingBlock(d) /\ d \in Nat /\ off \in Nat
            BY <1>1, <1>3, <1>8, <2>2, IndexLasts DEF ReadsIndex
        <3>2. Brought(ReadOf(d, "index", off, BLOCK_SIZE))
            BY <1>7, <2>2 DEF ReadsIndex, ReadOf
        <3>3. \A k \in 0 .. BLOCK_SIZE - 1 : off + k = k
            BY Sizes
        <3>4. HasIndex = \A k \in 0 .. BLOCK_SIZE - 1 : mem["index"][k] = Medium[d * BLOCK_SIZE + k]
            BY DEF HasIndex
        <3> HIDE DEF d, off
        <3>5. \A k \in 0 .. BLOCK_SIZE - 1 :
                 off + k \in DOMAIN Memory["index"] =>
                    mem["index"][off + k] = Medium[d * BLOCK_SIZE + k]
            BY <3>1, <3>2, BroughtWhole DEF Lower
        <3>6. HasIndex
            BY <3>3, <3>4, <3>5, Rooms
        <3> QED BY <1>7, <2>0, <2>2, <3>6
    <2>3. CASE ReadsBlock /\ Has(call.off)
        <3>1. PICK b \in 0 .. NDIRECT + BLOCK_SIZE - 1, n \in 1 .. BLOCK_SIZE :
                 /\ b * BLOCK_SIZE \in Nat /\ fs.off = b * BLOCK_SIZE + n
                 /\ LastingBlock(DiskNumber(Inode, b))
                 /\ call = ReadOf(DiskNumber(Inode, b), ask.area, b * BLOCK_SIZE, n)
            BY <1>1, <1>7, <2>3, BlockRead
        <3> DEFINE d == DiskNumber(Inode, b)
                   off == b * BLOCK_SIZE
        <3>2. d \in Nat /\ LastingBlock(d) /\ Brought(ReadOf(d, ask.area, off, n))
            BY <1>7, <3>1 DEF LastingBlock, ReadOf
        <3>3. call.off = off
            BY <3>1 DEF ReadOf
        <3>4. ASSUME NEW i \in 0 .. fs.off - 1, ~(i \in 0 .. call.off - 1)
              PROVE  mem[ask.area][i] = DiskUnit(Inode, i)
            <4> DEFINE k == i - off
            <4>1. k \in 0 .. n - 1 /\ k \in 0 .. BLOCK_SIZE - 1 /\ off + k = i
                BY <1>2, <3>1, <3>3, <3>4, Sizes
            <4>2. i \in DOMAIN Memory[ask.area]
                BY <1>1, <3>4, FileRoom
            <4> HIDE DEF k
            <4>3. i \div BLOCK_SIZE = b /\ i % BLOCK_SIZE = k
                BY <4>1, PlaceInBlock
            <4>4. DiskUnit(Inode, i) = Medium[d * BLOCK_SIZE + k]
                BY <4>3 DEF DiskUnit
            <4> HIDE DEF d, off
            <4>5. mem[ask.area][off + k] = medium[B2S(d) * SECTOR_SIZE + k]
                BY <3>2, <4>1, <4>2 DEF Brought, ReadOf
            <4>6. mem[ask.area][off + k] = medium[d * BLOCK_SIZE + k]
                BY <3>2, <4>5, BlockStart
            <4>7. medium[d * BLOCK_SIZE + k] = Medium[d * BLOCK_SIZE + k]
                BY <3>2, <4>1 DEF Lower, Undisturbed, LastingBlock
            <4> QED BY <4>1, <4>4, <4>6, <4>7
        <3>5. Has(fs.off)
            BY <2>3, <3>4 DEF Has
        <3>6. fs.indirect => HasIndex
            <4>1. ~ReadsIndex
                BY <2>3 DEF ReadsIndex, ReadsBlock
            <4> QED BY <1>3, <4>1
        <3> QED BY <1>7, <2>0, <3>5, <3>6
    <2> QED BY <1>3, <1>7, <2>1, <2>2, <2>3
<1> QED BY <1>6, <1>7 DEF DiskEffect

-----------------------------------------------------------------------------
(* What a step of the disk server leaves of the invariant.                 *)

LEMMA StandDisk ==
    ASSUME Upper, UNCHANGED fsVars, call' = call \/ call' = NoCall
    PROVE  StandInv'
<1>1. fs' = fs
    BY DEF fsVars
<1> QED BY <1>1 DEF Upper, StandInv

LEMMA UpperOfCalls == Upper => OnlyOthersWrite
<1> SUFFICES ASSUME Upper, call # NoCall, call.fn = "WRITE" PROVE call \in OtherCalls
    BY DEF OnlyOthersWrite
<1>1. fs.pc # "init"
    <2> SUFFICES ASSUME fs.pc = "init" PROVE FALSE
        OBVIOUS
    <2>1. fs.step <= LastStep /\ fs.step >= 1 /\ call = InitCall(fs.step - 1)
        BY DEF Upper, StandInv
    <2>2. fs.step - 1 \in Nat /\ fs.step - 1 < LastStep
        BY <2>1, Sizes DEF Upper, FsFields, LastStep
    <2> QED BY <2>1, <2>2, InitCallFacts
<1>2. CASE fs.pc # "read"
    BY <1>1, <1>2 DEF Upper, StandInv
<1>3. CASE fs.pc = "read"
    BY <1>3 DEF Upper, FileInv, ReadsIndex, ReadsBlock, ReadOf
<1> QED BY <1>2, <1>3

LEMMA DiskUpper ==
    ASSUME Lower, Upper, DiskNext, UNCHANGED fsVars
    PROVE  Upper'
<1>1. DiskEffect
    BY DiskEffects
<1>2. FsFields' /\ AskInv' /\ InodesInv'
    BY DEF Upper, FsFields, AskInv, InodesInv, fsVars
<1>3. StandInv'
    BY <1>1, StandDisk DEF DiskEffect
<1>4. TablesRead'
    BY <1>1, TablesKept, TablesAnswered DEF DiskEffect
<1>5. BufferInv' /\ FileInv'
    BY <1>1, BufferDisk, FileDisk
<1> QED BY <1>2, <1>3, <1>4, <1>5 DEF Upper

-----------------------------------------------------------------------------
(* FS_init() and FS_get_inode().                                           *)

LEMMA Loaded ==
    ASSUME TablesRead, Answers = LastStep
    PROVE  /\ Super = DiskSuper
           /\ \A i \in 0 .. DiskGroups - 1 : TableAt(i)
<1>1. LastStep \in Nat /\ LastStep >= 5
    BY Sizes DEF LastStep
<1>2. Super = DiskSuper
    BY <1>1 DEF TablesRead, Super
<1>3. ASSUME NEW i \in 0 .. DiskGroups - 1 PROVE TableAt(i)
    <2>1. LastStep >= 3 * i + 5
        BY Sizes DEF LastStep
    <2> QED BY <2>1 DEF TablesRead
<1> QED BY <1>2, <1>3

LEMMA GetInode ==
    ASSUME TablesRead, Answers = LastStep, NEW n \in Nat \ {0}, NEW old
    PROVE  FS_get_inode(n, old) = IF n >= DiskSuper.inodes_count THEN old ELSE TableUnit(n - 1)
<1>1. Super = DiskSuper /\ \A i \in 0 .. DiskGroups - 1 : TableAt(i)
    BY Loaded
<1>2. CASE n >= DiskSuper.inodes_count
    BY <1>1, <1>2 DEF FS_get_inode
<1>3. CASE ~(n >= DiskSuper.inodes_count)
    <2> DEFINE m == n - 1
               q == m \div Ipg
               r == m % Ipg
    <2>1. m \in 0 .. DiskSuper.inodes_count - 2
        BY <1>3, Sizes
    <2> HIDE DEF m
    <2>2. q \in 0 .. DiskGroups - 1 /\ r \in 0 .. Ipg - 1 /\ m = q * Ipg + r
        BY <2>1, InodePlace
    <2>3. /\ WholeInode(TableUnit(m))
          /\ TableUnit(m) = Medium[DiskGroup(q).inode_table * BLOCK_SIZE + r]
        BY <2>1, InodeFacts
    <2> HIDE DEF q, r
    <2>4. mem["inode_table"][m] = TableUnit(m)
        BY <1>1, <2>2, <2>3 DEF TableAt
    <2>5. AsInode(mem["inode_table"][m]) = TableUnit(m)
        BY <2>3, <2>4 DEF AsInode, WholeInode
    <2>6. FS_get_inode(n, old) = AsInode(mem["inode_table"][m])
        BY <1>1, <1>3 DEF FS_get_inode, m
    <2> QED BY <1>3, <2>5, <2>6 DEF m
<1> QED BY <1>2, <1>3

LEMMA GetInodeKind ==
    ASSUME TablesRead, Answers = LastStep, NEW n \in Nat \ {0}, NEW old \in Inodes
    PROVE  FS_get_inode(n, old) \in Inodes
<1>1. CASE n >= DiskSuper.inodes_count
    BY <1>1, GetInode
<1>2. CASE ~(n >= DiskSuper.inodes_count)
    <2>1. n - 1 \in 0 .. DiskSuper.inodes_count - 2
        BY <1>2, Sizes
    <2> QED BY <1>2, <2>1, GetInode DEF Inodes
<1> QED BY <1>1, <1>2

LEMMA FsInitStep ==
    ASSUME Lower, Upper, FS_init
    PROVE  Upper' /\ (call' = call \/ call' \in Calls)
<1>1. /\ fs.pc = "init" /\ call = NoCall /\ ask' = ask /\ inodes' = inodes /\ mem' = mem
      /\ fs \in [pc : {"init", "receive", "read", "open", "answer"}, step : Nat, left : Nat,
                 off : Nat, block : Nat, indirect : BOOLEAN, result : {0, 1},
                 then : {"answer", "open"}]
    BY DEF FS_init, Upper, FsFields
<1>2. Answers = fs.step /\ LastStep \in Nat /\ LastStep >= 5 /\ fs.step <= LastStep
    BY <1>1, Sizes DEF Answers, LastStep, Upper, StandInv
<1>3. AskInv /\ InodesInv /\ BufferInv /\ TablesRead
    BY DEF Upper
<1>4. InitReads = IF fs.step < 2 THEN 2 ELSE LastStep
    <2>1. fs.step >= 2 => Super = DiskSuper
        BY <1>1, <1>2, <1>3 DEF TablesRead, Super
    <2> QED BY <1>1, <2>1 DEF InitReads, GroupCount, LastStep, DiskGroups
<1>5. \A i \in 0 .. DIRET_BUF_SIZE - 1 : FromMedium(mem["directory_buffer"][i])
    BY <1>1, <1>3 DEF BufferInv, Target
<1>6. BufferInv'
    BY <1>1, <1>5 DEF BufferInv, FromMedium
<1>7. CASE fs.step < InitReads /\ InitRead(fs.step) /\ fs' = [fs EXCEPT !.step = @ + 1]
           /\ UNCHANGED root
    <2>1. fs.step < LastStep
        BY <1>1, <1>2, <1>4, <1>7
    <2>2. call' = InitCall(fs.step)
        <3>1. CASE fs.step = 0
            BY <1>7, <3>1 DEF InitRead, InitCall, FS_read_disk, ReadOf
        <3>2. CASE fs.step = 1
            BY <1>7, <3>2 DEF InitRead, InitCall, FS_read_disk, ReadOf
        <3>3. CASE fs.step >= 2
            <4> DEFINE i == (fs.step - 2) \div 3
            <4>1. i \in 0 .. DiskGroups - 1
                BY <1>1, <2>1, <3>3, Sizes DEF LastStep
            <4>2. mem["groups"][i] = DiskGroup(i) /\ Super = DiskSuper
                BY <1>1, <1>2, <1>3, <3>3, <4>1 DEF TablesRead, Super
            <4>3. fs.step # 0 /\ fs.step # 1 /\ fs.step % 3 \in {0, 1, 2}
                BY <1>1, <3>3
            <4>4. InitCall(fs.step) =
                     IF fs.step % 3 = 2
                     THEN ReadOf(DiskGroup(i).block_bitmap, "bitmaps",
                                 2 * i * BLOCK_SIZE, BLOCK_SIZE)
                     ELSE IF fs.step % 3 = 0
                     THEN ReadOf(DiskGroup(i).inode_bitmap, "bitmaps",
                                 (2 * i + 1) * BLOCK_SIZE, BLOCK_SIZE)
                     ELSE ReadOf(DiskGroup(i).inode_table, "inode_table", i * Ipg, Ipg)
                BY <4>3 DEF InitCall
            <4>5. /\ fs.step % 3 = 2 => FS_read_disk(mem["groups"][i].block_bitmap, "bitmaps",
                                                     2 * i * BLOCK_SIZE, BLOCK_SIZE)
                  /\ fs.step % 3 = 0 => FS_read_disk(mem["groups"][i].inode_bitmap, "bitmaps",
                                                     (2 * i + 1) * BLOCK_SIZE, BLOCK_SIZE)
                  /\ fs.step % 3 = 1 => FS_read_disk(mem["groups"][i].inode_table, "inode_table",
                                                     i * Super.inodes_per_group,
                                                     Super.inodes_per_group)
                <5>1. CASE fs.step % 3 = 2
                    BY <1>7, <4>3, <5>1 DEF InitRead, FS_read_disk
                <5>2. CASE fs.step % 3 = 0
                    BY <1>7, <4>3, <5>2 DEF InitRead, FS_read_disk
                <5>3. CASE fs.step % 3 = 1
                    BY <1>7, <4>3, <5>3 DEF InitRead, FS_read_disk
                <5> QED BY <4>3, <5>1, <5>2, <5>3
            <4> DEFINE p == 2 * i * BLOCK_SIZE
                       q == (2 * i + 1) * BLOCK_SIZE
                       t == i * Ipg
            <4> HIDE DEF i, p, q, t
            <4>6. CASE fs.step % 3 = 2
                <5>1. call' = ReadOf(DiskGroup(i).block_bitmap, "bitmaps", p, BLOCK_SIZE)
                    BY <4>2, <4>5, <4>6 DEF FS_read_disk, ReadOf, p
                <5>2. InitCall(fs.step)
                         = ReadOf(DiskGroup(i).block_bitmap, "bitmaps", p, BLOCK_SIZE)
                    BY <4>4, <4>6 DEF p
                <5> QED BY <5>1, <5>2
            <4>7. CASE fs.step % 3 = 0
                <5>1. call' = ReadOf(DiskGroup(i).inode_bitmap, "bitmaps", q, BLOCK_SIZE)
                    BY <4>2, <4>5, <4>7 DEF FS_read_disk, ReadOf, q
                <5>2. InitCall(fs.step)
                         = ReadOf(DiskGroup(i).inode_bitmap, "bitmaps", q, BLOCK_SIZE)
                    BY <4>4, <4>7 DEF q
                <5> QED BY <5>1, <5>2
            <4>8. CASE fs.step % 3 = 1
                <5>1. call' = ReadOf(DiskGroup(i).inode_table, "inode_table", t, Ipg)
                    BY <4>2, <4>5, <4>8 DEF FS_read_disk, ReadOf, t, Ipg
                <5>2. InitCall(fs.step) = ReadOf(DiskGroup(i).inode_table, "inode_table", t, Ipg)
                    BY <4>4, <4>8 DEF t
                <5> QED BY <5>1, <5>2
            <4> QED BY <4>3, <4>6, <4>7, <4>8
        <3> QED BY <1>1, <3>1, <3>2, <3>3
    <2>3. call' \in Calls /\ call' # NoCall
        BY <1>1, <2>1, <2>2, InitCallFacts
    <2>4. /\ fs'.pc = "init" /\ fs'.step = fs.step + 1 /\ FsFields'
        BY <1>1, <1>7 DEF FsFields
    <2>5. Answers' = fs.step
        BY <1>1, <2>3, <2>4 DEF Answers
    <2>6. TablesRead'
        BY <1>1, <1>2, <1>3, <2>5 DEF TablesRead, TableAt
    <2>7. StandInv'
        BY <1>1, <1>2, <2>1, <2>2, <2>4 DEF StandInv
    <2>8. AskInv' /\ InodesInv' /\ FileInv'
        BY <1>1, <1>3, <1>7, <2>4 DEF AskInv, InodesInv, FileInv
    <2> QED BY <1>6, <2>3, <2>4, <2>6, <2>7, <2>8 DEF Upper
<1>8. CASE fs.step = InitReads /\ root' = FS_get_inode(ROOT_INODE_INDEX, root)
           /\ fs' = [fs EXCEPT !.pc = "receive"] /\ UNCHANGED call
    <2>1. fs.step = LastStep
        BY <1>1, <1>2, <1>4, <1>8
    <2>2. root' = TableUnit(1)
        <3> DEFINE two == 2
        <3>1. two \in Nat \ {0} /\ ~(two >= DiskSuper.inodes_count) /\ two - 1 = 1
            BY Sizes
        <3>2. root' = FS_get_inode(two, root)
            BY <1>8 DEF ROOT_INODE_INDEX
        <3> HIDE DEF two
        <3> QED BY <1>2, <1>3, <2>1, <3>1, <3>2, GetInode
    <2>3. TableUnit(1) \in Inodes
        <3>1. 1 \in 0 .. DiskSuper.inodes_count - 2
            BY Sizes
        <3> QED BY <3>1 DEF Inodes
    <2>4. fs'.pc = "receive" /\ fs'.step = fs.step /\ FsFields'
        BY <1>1, <1>8 DEF FsFields
    <2>5. Answers' = Answers
        BY <1>1, <1>8, <2>4 DEF Answers
    <2>6. TablesRead'
        BY <1>1, <1>3, <2>5 DEF TablesRead, TableAt
    <2>7. StandInv'
        BY <1>1, <1>8, <2>1, <2>4 DEF StandInv
    <2>8. AskInv' /\ InodesInv' /\ FileInv'
        BY <1>1, <1>3, <2>2, <2>3, <2>4 DEF AskInv, InodesInv, FileInv
    <2> QED BY <1>6, <1>8, <2>4, <2>6, <2>7, <2>8 DEF Upper
<1> QED BY <1>7, <1>8 DEF FS_init

-----------------------------------------------------------------------------
(* FS_read_file().                                                         *)

\* The number that comes from the inode or from the indirect block in memory
\* is the one on the medium.
LEMMA IndirectNumber ==
    ASSUME Upper, fs.pc = "read", call = NoCall, fs.left > 0, fs.indirect,
           fs.block < BLOCK_SIZE
    PROVE  Indirect(fs.block) = DiskNumber(Inode, NDIRECT + fs.block)
<1>1. fs.block \in Nat /\ fs.off \in Nat /\ fs.left \in Nat
    BY DEF Upper, FsFields
<1>2. /\ fs.off + fs.left = Least(Inode.size, ask.count)
      /\ fs.off = (NDIRECT + fs.block) * BLOCK_SIZE
      /\ NDIRECT * BLOCK_SIZE < Inode.size /\ (HasIndex \/ ReadsIndex)
    BY DEF Upper, FileInv, NextBlock
<1>3. ask # NoAsk /\ ask.count \in Nat /\ ask.fd \in {"directory_fd", "file_fd"}
    BY DEF Upper, AskInv, Asks
<1>4. HasIndex
    BY <1>2, <1>3, IndexLasts, FilesAssumption DEF ReadsIndex, Upper
<1>5. (NDIRECT + fs.block) * BLOCK_SIZE < Inode.size
    <2>1. Inode.size \in Nat
        BY <1>3, InodeKinds DEF Upper, InodesInv, Inode
    <2> DEFINE x == (NDIRECT + fs.block) * BLOCK_SIZE
    <2>2. fs.off = x
        BY <1>2
    <2> HIDE DEF x
    <2>3. x < Inode.size
        BY <1>1, <1>2, <1>3, <2>1, <2>2 DEF Least
    <2> QED BY <2>3 DEF x
<1>6. fs.block \in 0 .. BLOCK_SIZE - 1
    BY <1>1, Sizes
<1> DEFINE u == Medium[Inode.blocks[NDIRECT + 1] * BLOCK_SIZE + fs.block]
<1>7. mem["index"][fs.block] = u
    BY <1>4, <1>6 DEF HasIndex
<1>8. "block" \in DOMAIN u
    BY <1>2, <1>3, <1>5, <1>6, IndexLasts DEF Upper
<1>9. DiskNumber(Inode, NDIRECT + fs.block) = u.block
    <2>1. ~(NDIRECT + fs.block < NDIRECT) /\ (NDIRECT + fs.block) - NDIRECT = fs.block
        BY <1>1, Sizes
    <2> QED BY <2>1 DEF DiskNumber
<1> QED BY <1>7, <1>8, <1>9 DEF Indirect

LEMMA ReadBlockStep ==
    ASSUME Upper, fs.pc = "read", call = NoCall, fs.left > 0,
           fs.block < IF fs.indirect THEN BLOCK_SIZE ELSE NDIRECT,
           ReadBlock(DiskNumber(Inode, NextBlock)),
           UNCHANGED <<ask, root, inodes, mem>>
    PROVE  FsFields' /\ FileInv' /\ call' \in Calls /\ fs'.pc = "read" /\ fs'.then = fs.then
           /\ fs'.step = fs.step
<1> DEFINE b == NextBlock
           c == Chunk(fs.left)
           d == DiskNumber(Inode, b)
<1>1. /\ fs \in [pc : {"init", "receive", "read", "open", "answer"}, step : Nat, left : Nat,
                 off : Nat, block : Nat, indirect : BOOLEAN, result : {0, 1},
                 then : {"answer", "open"}]
    BY DEF Upper, FsFields
<1>2. /\ fs.off + fs.left = Least(Inode.size, ask.count)
      /\ fs.off = b * BLOCK_SIZE
      /\ fs.indirect => NDIRECT * BLOCK_SIZE < Inode.size /\ (HasIndex \/ ReadsIndex)
      /\ Has(fs.off)
    BY DEF Upper, FileInv
<1>3. ask # NoAsk /\ ask.count \in Nat /\ ask.fd \in {"directory_fd", "file_fd"}
      /\ ask.area \in {"directory_buffer", "MM_buffer"}
    BY DEF Upper, AskInv, Asks
<1>4. b \in 0 .. NDIRECT + BLOCK_SIZE - 1 /\ (fs.indirect => b = NDIRECT + fs.block)
      /\ (~fs.indirect => b = fs.block)
    BY <1>1, Sizes DEF NextBlock
<1>5. c \in Nat /\ c \in 1 .. BLOCK_SIZE /\ c <= fs.left /\ (fs.left - c > 0 => c = BLOCK_SIZE)
    BY <1>1, Sizes DEF Chunk, Least
<1>6. fs' = [fs EXCEPT !.left = @ - c, !.off = @ + c, !.block = @ + 1]
      /\ call' = ReadOf(d, ask.area, fs.off, c)
    BY DEF ReadBlock, FS_read_disk, ReadOf
<1> HIDE DEF b, c
<1>7. b * BLOCK_SIZE < Inode.size /\ Inode \in Inodes /\ b * BLOCK_SIZE \in Nat
    <2>1. Inode.size \in Nat /\ Inode \in Inodes
        BY <1>3, InodeKinds DEF Upper, InodesInv, Inode
    <2>2. fs.off < Inode.size
        BY <1>1, <1>2, <1>3, <2>1 DEF Least
    <2> QED BY <1>1, <1>2, <2>1, <2>2
<1>8. d \in Nat
    BY <1>4, <1>7, BlockLasts DEF LastingBlock
<1> HIDE DEF d
<1>9. call' \in Calls /\ call' # NoCall
    <2>1. ask.area \in DOMAIN Memory
        BY <1>3, Rooms
    <2> QED BY <1>1, <1>5, <1>6, <1>8, <2>1, ReadIsCall
<1>10. /\ fs'.left = fs.left - c /\ fs'.off = fs.off + c /\ fs'.block = fs.block + 1
       /\ fs'.pc = "read" /\ fs'.indirect = fs.indirect /\ fs'.then = fs.then
       /\ fs'.step = fs.step
    BY <1>1, <1>6
<1>11. FsFields'
    <2>1. fs.left - c \in Nat /\ fs.off + c \in Nat /\ fs.block + 1 \in Nat
        BY <1>1, <1>5
    <2> QED BY <1>1, <1>6, <2>1 DEF FsFields
<1>12. Inode' = Inode /\ NextBlock' = b + 1
    <2>1. Inode' = Inode
        BY DEF Inode
    <2>2. NextBlock' = b + 1
        BY <1>1, <1>4, <1>10, Sizes DEF NextBlock
    <2> QED BY <2>1, <2>2
<1>13. fs.indirect => HasIndex'
    <2>1. fs.indirect => HasIndex
        BY <1>2, <1>3, IndexLasts, FilesAssumption DEF ReadsIndex, Upper
    <2> QED BY <1>12, <2>1 DEF HasIndex
<1>14. ReadsBlock'
    <2>1. NextBlock' - 1 = b /\ fs'.off - b * BLOCK_SIZE = c
        BY <1>1, <1>2, <1>4, <1>5, <1>7, <1>10, <1>12
    <2>2. call' = ReadOf(DiskNumber(Inode, b), ask.area, b * BLOCK_SIZE, c)
        BY <1>2, <1>6 DEF d
    <2> QED BY <1>1, <1>5, <1>10, <1>12, <2>1, <2>2 DEF ReadsBlock
<1>15. Has(call.off)'
    <2>1. call'.off = fs.off
        BY <1>6 DEF ReadOf
    <2> QED BY <1>2, <1>12, <2>1 DEF Has
<1>16. fs'.left > 0 => fs'.off = NextBlock' * BLOCK_SIZE
    <2>1. (b + 1) * BLOCK_SIZE = b * BLOCK_SIZE + BLOCK_SIZE
        BY <1>4, Sizes
    <2> QED BY <1>2, <1>5, <1>10, <1>12, <2>1
<1>17. fs'.off + fs'.left = Least(Inode.size, ask.count)
    BY <1>1, <1>2, <1>5, <1>10
<1>18. fs'.block <= IF fs.indirect THEN BLOCK_SIZE ELSE NDIRECT
    BY <1>1, <1>10, Sizes
<1>19. FileInv'
    BY <1>2, <1>9, <1>10, <1>12, <1>13, <1>14, <1>15, <1>16, <1>17, <1>18 DEF FileInv
<1> QED BY <1>9, <1>10, <1>11, <1>19

LEMMA ReadFileStep ==
    ASSUME Lower, Upper, FS_read_file
    PROVE  Upper' /\ (call' = call \/ call' \in Calls)
<1>1. /\ fs.pc = "read" /\ call = NoCall
      /\ ask' = ask /\ root' = root /\ inodes' = inodes /\ mem' = mem
    BY DEF FS_read_file
<1>2. /\ fs \in [pc : {"init", "receive", "read", "open", "answer"}, step : Nat, left : Nat,
                 off : Nat, block : Nat, indirect : BOOLEAN, result : {0, 1},
                 then : {"answer", "open"}]
      /\ ask # NoAsk /\ fs.step = LastStep
    BY <1>1 DEF Upper, FsFields, AskInv, StandInv
<1>3. BufferInv'
    <2>1. \A i \in 0 .. DIRET_BUF_SIZE - 1 : FromMedium(mem["directory_buffer"][i])
        BY <1>1 DEF Upper, BufferInv, Target
    <2> QED BY <1>1, <2>1 DEF BufferInv, FromMedium
<1>4. ASSUME FsFields', fs'.pc # "init", fs'.step = fs.step PROVE TablesRead'
    <2>1. Answers' = Answers
        BY <1>1, <1>4 DEF Answers
    <2> QED BY <1>1, <2>1 DEF Upper, TablesRead, TableAt
<1>5. InodesInv'
    <2>1. fs.pc # "init"
        BY <1>1
    <2> QED BY <1>1, <2>1 DEF Upper, InodesInv
<1>6. ASSUME FsFields', fs'.pc = "read", fs'.then = fs.then, fs'.step = fs.step, FileInv'
      PROVE  Upper'
    <2>1. AskInv'
        BY <1>1, <1>6 DEF Upper, AskInv
    <2>2. StandInv'
        BY <1>2, <1>6 DEF StandInv
    <2>3. TablesRead'
        BY <1>4, <1>6
    <2> QED BY <1>3, <1>5, <1>6, <2>1, <2>2, <2>3 DEF Upper
<1>7. CASE /\ fs.left > 0 /\ ~fs.indirect /\ fs.block < NDIRECT
           /\ ReadBlock(Inode.blocks[fs.block + 1])
    <2>1. DiskNumber(Inode, NextBlock) = Inode.blocks[fs.block + 1]
        <3>1. NextBlock = fs.block
            BY <1>2, <1>7 DEF NextBlock
        <3> QED BY <1>7, <3>1 DEF DiskNumber
    <2>2. FsFields' /\ FileInv' /\ call' \in Calls /\ fs'.pc = "read" /\ fs'.then = fs.then
          /\ fs'.step = fs.step
        BY <1>1, <1>7, <2>1, ReadBlockStep
    <2> QED BY <1>6, <2>2
<1>8. CASE /\ fs.left > 0 /\ ~fs.indirect /\ fs.block = NDIRECT
           /\ FS_read_disk(Inode.blocks[NDIRECT + 1], "index", 0, BLOCK_SIZE)
           /\ fs' = [fs EXCEPT !.indirect = TRUE, !.block = 0]
    <2>1. call' = ReadOf(Inode.blocks[NDIRECT + 1], "index", 0, BLOCK_SIZE)
        BY <1>8 DEF FS_read_disk, ReadOf
    <2>2. /\ fs.off + fs.left = Least(Inode.size, ask.count)
          /\ fs.off = NDIRECT * BLOCK_SIZE /\ Has(fs.off)
        BY <1>1, <1>2, <1>8 DEF Upper, FileInv, NextBlock
    <2>3. NDIRECT * BLOCK_SIZE < Inode.size
        <3>1. Inode.size \in Nat /\ ask.count \in Nat
            <4>1. ask.fd \in {"directory_fd", "file_fd"} /\ ask.count \in Nat
                BY <1>1 DEF Upper, AskInv, Asks
            <4> QED BY <4>1, InodeKinds DEF Upper, InodesInv, Inode
        <3> DEFINE x == NDIRECT * BLOCK_SIZE
        <3>2. fs.off = x
            BY <2>2
        <3> HIDE DEF x
        <3>3. x < Inode.size
            BY <1>2, <1>8, <2>2, <3>1, <3>2 DEF Least
        <3> QED BY <3>3 DEF x
    <2>4. call' \in Calls /\ call' # NoCall
        BY <1>2, <2>1, <2>3, IndexLasts, FilesAssumption DEF Upper
    <2>5. /\ fs'.pc = "read" /\ fs'.then = fs.then /\ fs'.step = fs.step /\ fs'.indirect
          /\ fs'.block = 0 /\ fs'.off = fs.off /\ fs'.left = fs.left /\ FsFields'
        BY <1>1, <1>2, <1>8 DEF FsFields
    <2>6. Inode' = Inode /\ NextBlock' = NDIRECT
        BY <1>1, <2>5, Sizes DEF Inode, NextBlock
    <2>7. ReadsIndex' /\ Has(fs.off)'
        BY <1>1, <2>1, <2>2, <2>5, <2>6 DEF ReadsIndex, Has
    <2>8. FileInv'
        BY <1>1, <2>2, <2>3, <2>4, <2>5, <2>6, <2>7, Sizes DEF FileInv
    <2> QED BY <1>6, <2>4, <2>5, <2>8
<1>9. CASE /\ fs.left > 0 /\ fs.indirect /\ fs.block < BLOCK_SIZE
           /\ ReadBlock(Indirect(fs.block))
    <2>1. DiskNumber(Inode, NextBlock) = Indirect(fs.block)
        BY <1>1, <1>9, IndirectNumber DEF NextBlock
    <2>2. FsFields' /\ FileInv' /\ call' \in Calls /\ fs'.pc = "read" /\ fs'.then = fs.then
          /\ fs'.step = fs.step
        BY <1>1, <1>9, <2>1, ReadBlockStep
    <2> QED BY <1>6, <2>2
<1>10. CASE ReadEnds /\ fs' = [fs EXCEPT !.pc = fs.then] /\ UNCHANGED call
    <2>1. /\ fs'.pc \in {"answer", "open"} /\ fs'.pc = fs.then /\ fs'.step = fs.step
          /\ FsFields' /\ fs'.then = fs.then
        BY <1>2, <1>10 DEF FsFields
    <2>2. AskInv'
        BY <1>1, <1>2, <2>1 DEF Upper, AskInv
    <2>3. StandInv' /\ FileInv'
        BY <1>1, <1>2, <1>10, <2>1 DEF StandInv, FileInv
    <2>4. TablesRead'
        BY <1>4, <2>1
    <2> QED BY <1>3, <1>5, <1>10, <2>1, <2>2, <2>3, <2>4 DEF Upper
<1> QED BY <1>7, <1>8, <1>9, <1>10 DEF FS_read_file

-----------------------------------------------------------------------------
(* FS_server() and its clients.                                            *)

\* What a hit of FS_search_file() is.
LEMMA Hit ==
    ASSUME Upper, fs.pc \in {"receive", "open"}, ask # NoAsk, ask.fn \in {"CD", "OPENFILE"},
           NEW type \in {"DIR", "REG"}, NEW e \in Found(type)
    PROVE  /\ e.inode \in Nat \ {0} /\ e.name = ask.name /\ e.type = type
           /\ \E j \in Lasting : e = Medium[j] /\ AsEntry(Medium[j]) = e
<1>1. ask.area = "directory_buffer" /\ ask.count = DIRET_BUF_SIZE /\ DIRET_BUF_SIZE \in Nat
    BY Sizes DEF Upper, AskInv, Asks
<1> DEFINE units == mem["directory_buffer"]
<1>2. ASSUME NEW i \in 0 .. DIRET_BUF_SIZE - 1
      PROVE  FromMedium(units[i])
    <2>1. ~Target("directory_buffer", i)
        <3>1. call # NoCall => call.area = "other"
            BY Others DEF Upper, StandInv
        <3> QED BY <3>1 DEF Target
    <2> QED BY <2>1 DEF Upper, BufferInv
<1>3. e \in Entries(units, DIRET_BUF_SIZE, MaxEntries) /\ e.type = type /\ e.name = ask.name
    BY <1>1 DEF Found
<1> HIDE DEF units
<1>4. ASSUME NEW u, FromMedium(u)
      PROVE  /\ AsEntry(u).rec_len \in Nat
             /\ AsEntry(u).type \in {"DIR", "REG"} =>
                   /\ AsEntry(u).inode \in Nat \ {0}
                   /\ \E j \in Lasting : AsEntry(u) = Medium[j] /\ AsEntry(Medium[j]) = AsEntry(u)
    <2>1. CASE "rec_len" \notin DOMAIN u
        BY <2>1 DEF AsEntry
    <2>2. CASE "rec_len" \in DOMAIN u
        <3>1. PICK j \in Lasting : u = Medium[j]
            BY <1>4, <2>2 DEF FromMedium
        <3>2. WholeEntry(u)
            BY <3>1, FilesAssumption
        <3>3. AsEntry(u) = u
            BY <2>2 DEF AsEntry
        <3> QED BY <2>2, <3>1, <3>2, <3>3 DEF WholeEntry
    <2> QED BY <2>1, <2>2
<1>5. PICK i \in 0 .. DIRET_BUF_SIZE - 1 : e = AsEntry(units[i])
    <2> DEFINE limit == DIRET_BUF_SIZE
    <2>1. limit \in Nat /\ \A k \in 0 .. limit - 1 : AsEntry(units[k]).rec_len \in Nat
        BY <1>1, <1>2, <1>4
    <2>2. e \in Entries(units, limit, MaxEntries) /\ MaxEntries \in Nat
        BY <1>3, FilesAssumption
    <2> HIDE DEF limit
    <2>3. \E i \in 0 .. limit - 1 : e = AsEntry(units[i])
        BY <2>1, <2>2, EntriesFacts
    <2> QED BY <2>3 DEF limit
<1>6. FromMedium(units[i])
    BY <1>2, <1>5
<1> QED BY <1>3, <1>4, <1>5, <1>6

\* Between two reads no unit of the directory's buffer is about to change.
LEMMA BufferStill ==
    ASSUME Upper, fs.pc # "init", fs.pc # "read", mem' = mem
    PROVE  BufferInv'
<1>1. call # NoCall => call.area = "other"
    BY Others DEF Upper, StandInv
<1>2. \A i \in 0 .. DIRET_BUF_SIZE - 1 : FromMedium(mem["directory_buffer"][i])
    BY <1>1 DEF Upper, BufferInv, Target
<1> QED BY <1>2 DEF BufferInv, FromMedium

LEMMA TablesStill ==
    ASSUME Upper, fs.pc # "init", fs'.pc # "init", fs'.step = fs.step, mem' = mem
    PROVE  TablesRead'
<1>1. Answers' = Answers
    BY DEF Answers
<1> QED BY <1>1 DEF Upper, TablesRead, TableAt

LEMMA StartReadStep ==
    ASSUME Lower, Upper, ask # NoAsk, fs.pc \in {"receive", "open"},
           NEW inode \in Inodes, NEW then \in {"answer", "open"},
           then = "open" => ask.fn = "CD",
           StartRead(inode, then),
           inodes' \in [{"directory_fd", "file_fd"} -> Inodes], inodes'[ask.fd] = inode,
           UNCHANGED <<ask, root, diskVars>>
    PROVE  Upper'
<1>1. /\ ask' = ask /\ root' = root /\ call' = call /\ mem' = mem
    BY DEF diskVars
<1>2. /\ fs \in [pc : {"init", "receive", "read", "open", "answer"}, step : Nat, left : Nat,
                 off : Nat, block : Nat, indirect : BOOLEAN, result : {0, 1},
                 then : {"answer", "open"}]
      /\ fs.step = LastStep /\ (call # NoCall => call \in OtherCalls)
    BY DEF Upper, FsFields, StandInv
<1>3. inode.size \in Nat /\ ask.count \in Nat
    BY InodeKinds DEF Upper, AskInv, Asks
<1>4. /\ fs'.pc = "read" /\ fs'.then = then /\ fs'.step = fs.step
      /\ fs'.off = 0 /\ fs'.block = 0 /\ fs'.indirect = FALSE
      /\ fs'.left = (IF inode.size > ask.count THEN ask.count ELSE inode.size)
      /\ FsFields'
    BY <1>2, <1>3 DEF StartRead, FsFields
<1>5. AskInv'
    BY <1>1, <1>4 DEF Upper, AskInv
<1>6. InodesInv'
    BY <1>1, <1>4 DEF Upper, InodesInv
<1>7. StandInv'
    BY <1>1, <1>2, <1>4 DEF StandInv
<1>8. TablesRead' /\ BufferInv'
    BY <1>1, <1>4, TablesStill, BufferStill
<1>9. FileInv'
    <2>1. Inode' = inode
        BY <1>1 DEF Inode
    <2>2. fs'.off + fs'.left = Least(inode.size, ask.count)
        BY <1>3, <1>4 DEF Least
    <2>3. NextBlock' = 0 /\ 0 * BLOCK_SIZE = 0
        BY <1>4, Sizes DEF NextBlock
    <2>4. Has(fs.off)' /\ Fresh'
        BY <1>4 DEF Has, Fresh
    <2> QED BY <1>1, <1>2, <1>4, <2>1, <2>2, <2>3, <2>4, Sizes DEF FileInv
<1> QED BY <1>4, <1>5, <1>6, <1>7, <1>8, <1>9 DEF Upper

\* Only the place in the server's program changes.
LEMMA MovesOn ==
    ASSUME Lower, Upper, fs.pc \in {"receive", "open", "answer"},
           NEW at \in {"receive", "open", "answer"},
           fs'.pc = at, fs'.step = fs.step, FsFields',
           at # "receive" => ask # NoAsk /\ ask' = ask,
           ask' = ask \/ ask' = NoAsk, at = "open" => ask.fn = "CD",
           UNCHANGED <<root, inodes, diskVars>>
    PROVE  Upper'
<1>1. root' = root /\ inodes' = inodes /\ call' = call /\ mem' = mem
    BY DEF diskVars
<1>2. AskInv'
    BY <1>1 DEF Upper, AskInv
<1>3. StandInv' /\ InodesInv' /\ FileInv'
    BY <1>1 DEF Upper, StandInv, InodesInv, FileInv
<1>4. TablesRead' /\ BufferInv'
    BY <1>1, TablesStill, BufferStill
<1> QED BY <1>2, <1>3, <1>4 DEF Upper

\* What FS_get_inode() gets for an entry, and what becomes of the inodes.
LEMMA OpenEntryStep ==
    ASSUME Lower, Upper, ask # NoAsk, fs.pc \in {"receive", "open"},
           ask.fn \in {"CD", "OPENFILE"}, NEW type \in {"DIR", "REG"}, NEW e \in Found(type),
           NEW then \in {"answer", "open"}, then = "open" => ask.fn = "CD",
           OpenEntry(e, then), UNCHANGED <<ask, root, diskVars>>
    PROVE  /\ Upper'
           /\ \A f \in DOMAIN inodes : inodes'[f] # inodes[f] =>
                 e.inode - 1 \in 0 .. DiskSuper.inodes_count - 2
                 /\ inodes'[f] = TableUnit(e.inode - 1)
<1> DEFINE inode == FS_get_inode(e.inode, Inode)
<1>1. e.inode \in Nat \ {0}
    BY Hit
<1>2. TablesRead /\ Answers = LastStep
    BY DEF Upper, StandInv, Answers
<1>3. ask.fd \in {"directory_fd", "file_fd"} /\ Inode \in Inodes
      /\ inodes \in [{"directory_fd", "file_fd"} -> Inodes]
    BY DEF Upper, AskInv, Asks, InodesInv, Inode
<1>4. inode \in Inodes
    BY <1>1, <1>2, <1>3, GetInodeKind
<1>5. inode # Inode => /\ e.inode - 1 \in 0 .. DiskSuper.inodes_count - 2
                       /\ inode = TableUnit(e.inode - 1)
    BY <1>1, <1>2, GetInode, Sizes
<1>6. inodes' = [inodes EXCEPT ![ask.fd] = inode] /\ StartRead(inode, then)
    BY DEF OpenEntry
<1> HIDE DEF inode
<1>7. inodes' \in [{"directory_fd", "file_fd"} -> Inodes] /\ inodes'[ask.fd] = inode
    BY <1>3, <1>4, <1>6
<1>8. Upper'
    BY <1>4, <1>6, <1>7, StartReadStep
<1>9. ASSUME NEW f \in DOMAIN inodes, inodes'[f] # inodes[f]
      PROVE  f = ask.fd /\ inodes'[f] = inode /\ inode # Inode
    BY <1>3, <1>6, <1>9 DEF Inode
<1> QED BY <1>5, <1>8, <1>9

LEMMA HandleStep == ASSUME Lower, Upper, Handle PROVE Upper'
<1>1. ask' = ask /\ root' = root /\ UNCHANGED <<ask, root, diskVars>>
    BY DEF Handle
<1>2. /\ fs \in [pc : {"init", "receive", "read", "open", "answer"}, step : Nat, left : Nat,
                 off : Nat, block : Nat, indirect : BOOLEAN, result : {0, 1},
                 then : {"answer", "open"}]
      /\ root \in Inodes /\ inodes \in [{"directory_fd", "file_fd"} -> Inodes]
      /\ ask # NoAsk => ask \in Asks
      /\ fs.pc = "open" => ask # NoAsk /\ ask.fn = "CD"
    BY DEF Upper, FsFields, InodesInv, AskInv
<1>3. CASE GetRoot
    <2>1. ask # NoAsk /\ fs.pc = "receive" /\ inodes' = [inodes EXCEPT ![ask.fd] = root]
          /\ StartRead(root, "answer")
        BY <1>3 DEF GetRoot, Serves
    <2>2. inodes' \in [{"directory_fd", "file_fd"} -> Inodes] /\ inodes'[ask.fd] = root
        BY <1>2, <2>1 DEF Asks
    <2> QED BY <1>1, <1>2, <2>1, <2>2, StartReadStep
<1>4. CASE ReadFile
    <2>1. ask # NoAsk /\ fs.pc = "receive" /\ inodes' = inodes /\ StartRead(Inode, "answer")
        BY <1>4 DEF ReadFile, Serves
    <2>2. Inode \in Inodes /\ inodes'[ask.fd] = Inode
        BY <1>2, <2>1 DEF Asks, Inode
    <2> QED BY <1>1, <1>2, <2>1, <2>2, StartReadStep
<1>5. ASSUME NEW at \in {"open", "answer"}, NotFound(at), ask # NoAsk,
             fs.pc \in {"receive", "open"}, at = "open" => ask.fn = "CD"
      PROVE  Upper'
    <2>1. fs'.pc = at /\ fs'.step = fs.step /\ FsFields' /\ inodes' = inodes
        BY <1>2, <1>5 DEF NotFound, FsFields
    <2> QED BY <1>1, <1>5, <2>1, MovesOn
<1>6. CASE ChangeDir
    <2>1. ask # NoAsk /\ fs.pc = "receive" /\ ask.fn = "CD"
        BY <1>6 DEF ChangeDir, Serves
    <2>2. CASE \E e \in Found("DIR") : OpenEntry(e, "open")
        BY <1>1, <2>1, <2>2, OpenEntryStep
    <2>3. CASE NotFound("open")
        BY <1>5, <2>1, <2>3
    <2> QED BY <1>6, <2>2, <2>3 DEF ChangeDir
<1>7. CASE OpenFile
    <2>1. ask # NoAsk /\ fs.pc \in {"receive", "open"} /\ ask.fn \in {"CD", "OPENFILE"}
        BY <1>2, <1>7 DEF OpenFile, Serves
    <2>2. CASE \E e \in Found("REG") : OpenEntry(e, "answer")
        BY <1>1, <2>1, <2>2, OpenEntryStep
    <2>3. CASE NotFound("answer")
        BY <1>5, <2>1, <2>3
    <2> QED BY <1>7, <2>2, <2>3 DEF OpenFile
<1> QED BY <1>3, <1>4, <1>6, <1>7 DEF Handle

LEMMA AnswerStep == ASSUME Lower, Upper, Answer PROVE Upper'
<1>1. /\ fs.pc = "answer" /\ ask' = NoAsk /\ fs' = [fs EXCEPT !.pc = "receive"]
      /\ UNCHANGED <<root, inodes, diskVars>>
    BY DEF Answer
<1>2. fs'.pc = "receive" /\ fs'.step = fs.step /\ FsFields'
    BY <1>1 DEF Upper, FsFields
<1> QED BY <1>1, <1>2, MovesOn

LEMMA ClientStep == ASSUME Lower, Upper, Client PROVE Upper'
<1>1. /\ ask = NoAsk /\ fs' = fs /\ root' = root /\ inodes' = inodes /\ UNCHANGED diskVars
      /\ call' = call /\ mem' = mem
    BY DEF Client, diskVars
<1>2. DIRET_BUF_SIZE \in Nat /\ MM_BLOCK_SIZE \in Nat
    BY Sizes
<1>3. /\ ask' \in Asks
      /\ ask'.area = "directory_buffer" => ask'.count = DIRET_BUF_SIZE
      /\ ask'.area = "MM_buffer" => ask'.count = MM_BLOCK_SIZE /\ ask'.fn = "READ"
    <2>1. CASE terminal_root
        BY <1>2, <2>1 DEF terminal_root, FsAsk, Asks
    <2>2. CASE \E n \in Names : terminal_cd(n)
        <3>1. PICK n \in Names :
                 ask' = [fn |-> "CD", fd |-> "directory_fd", area |-> "directory_buffer",
                         count |-> DIRET_BUF_SIZE, name |-> n]
            BY <2>2 DEF terminal_cd, FsAsk
        <3> QED BY <1>2, <3>1 DEF Asks
    <2>3. CASE \E n \in Names : terminal_open(n)
        <3>1. PICK n \in Names :
                 ask' = [fn |-> "OPENFILE", fd |-> "file_fd", area |-> "directory_buffer",
                         count |-> DIRET_BUF_SIZE, name |-> n]
            BY <2>3 DEF terminal_open, FsAsk
        <3> QED BY <1>2, <3>1 DEF Asks
    <2>4. CASE read_elf
        BY <1>2, <2>4 DEF read_elf, FsAsk, Asks
    <2> QED BY <2>1, <2>2, <2>3, <2>4 DEF Client
<1>4. fs.pc \notin {"read", "open", "answer"}
    BY <1>1 DEF Upper, AskInv
<1>5. AskInv'
    BY <1>1, <1>3, <1>4 DEF AskInv
<1>6. FsFields' /\ StandInv' /\ InodesInv' /\ FileInv'
    BY <1>1, <1>4 DEF Upper, FsFields, StandInv, InodesInv, FileInv
<1>7. TablesRead' /\ BufferInv'
    <2>1. Answers' = Answers
        BY <1>1 DEF Answers
    <2> QED BY <1>1, <2>1 DEF Upper, TablesRead, TableAt, BufferInv, Target, FromMedium
<1> QED BY <1>5, <1>6, <1>7 DEF Upper

LEMMA OtherCallStep ==
    ASSUME Lower, Upper, OtherCall
    PROVE  Upper' /\ call' \in Calls
<1>1. /\ fs.pc = "receive" /\ fs' = fs /\ ask' = ask /\ root' = root /\ inodes' = inodes
      /\ mem' = mem /\ call' \in OtherCalls
    BY DEF OtherCall, fsVars
<1>2. call' \in Calls
    BY <1>1, Others
<1>3. FsFields' /\ AskInv' /\ StandInv' /\ InodesInv' /\ FileInv'
    BY <1>1 DEF Upper, FsFields, AskInv, StandInv, InodesInv, FileInv
<1>4. TablesRead' /\ BufferInv'
    BY <1>1, TablesStill, BufferStill
<1> QED BY <1>2, <1>3, <1>4 DEF Upper

-----------------------------------------------------------------------------
(* The invariant.                                                          *)

\* To the disk server a step of the file system's is a request or nothing.
LEMMA FilesLower ==
    ASSUME Lower, Upper, [DiskNext \/ ClientAsks]_diskVars
    PROVE  Lower'
BY LowerStep, UpperOfCalls

LEMMA FilesStep == FilesInv /\ [Next]_vars => FilesInv'
<1> SUFFICES ASSUME FilesInv, [Next]_vars PROVE FilesInv'
    OBVIOUS
<1>0. Lower /\ Upper
    BY DEF FilesInv
<1>1. CASE FS_init
    <2>1. Upper' /\ (call' = call \/ call' \in Calls)
        BY <1>0, <1>1, FsInitStep
    <2>2. call = NoCall /\ UNCHANGED <<disk, int, drive, medium, mem>>
        BY <1>1 DEF FS_init
    <2> QED BY <1>0, <2>1, <2>2, FilesLower DEF FilesInv, ClientAsks, diskVars
<1>2. CASE FS_read_file
    <2>1. Upper' /\ (call' = call \/ call' \in Calls)
        BY <1>0, <1>2, ReadFileStep
    <2>2. call = NoCall /\ UNCHANGED <<disk, int, drive, medium, mem>>
        BY <1>2 DEF FS_read_file
    <2> QED BY <1>0, <2>1, <2>2, FilesLower DEF FilesInv, ClientAsks, diskVars
<1>3. CASE Handle
    BY <1>0, <1>3, HandleStep, FilesLower DEF FilesInv, Handle
<1>4. CASE Answer
    BY <1>0, <1>4, AnswerStep, FilesLower DEF FilesInv, Answer
<1>5. CASE Client
    BY <1>0, <1>5, ClientStep, FilesLower DEF FilesInv, Client
<1>6. CASE OtherCall
    <2>1. Upper' /\ call' \in Calls
        BY <1>0, <1>6, OtherCallStep
    <2>2. call = NoCall /\ UNCHANGED <<disk, int, drive, medium, mem>>
        BY <1>6 DEF OtherCall
    <2> QED BY <1>0, <2>1, <2>2, FilesLower DEF FilesInv, ClientAsks
<1>7. CASE DiskNext /\ UNCHANGED fsVars
    BY <1>0, <1>7, DiskUpper, FilesLower DEF FilesInv
<1>8. CASE UNCHANGED vars
    <2>1. UNCHANGED fsVars /\ UNCHANGED diskVars
        BY <1>8 DEF vars
    <2>2. fs' = fs /\ ask' = ask /\ root' = root /\ inodes' = inodes /\ call' = call /\ mem' = mem
        BY <2>1 DEF fsVars, diskVars
    <2>3. FsFields' /\ AskInv' /\ StandInv' /\ InodesInv'
        BY <1>0, <2>2 DEF Upper, FsFields, AskInv, StandInv, InodesInv
    <2>4. TablesRead' /\ BufferInv'
        <3>1. Answers' = Answers
            BY <2>2 DEF Answers
        <3> QED BY <1>0, <2>2, <3>1 DEF Upper, TablesRead, TableAt, BufferInv, Target, FromMedium
    <2>5. FileInv'
        BY <1>0, <2>2 DEF Upper, FileInv, Inode, NextBlock, Has, HasIndex, Fresh, ReadsIndex,
                          ReadsBlock
    <2> QED BY <1>0, <2>1, <2>3, <2>4, <2>5, FilesLower DEF FilesInv, Upper
<1> QED BY <1>1, <1>2, <1>3, <1>4, <1>5, <1>6, <1>7, <1>8 DEF Next

LEMMA FilesStart == Init => FilesInv
<1> SUFFICES ASSUME Init PROVE FilesInv
    OBVIOUS
<1>1. Lower
    BY LowerStart DEF Init
<1>2. /\ fs = [pc |-> "init", step |-> 0, left |-> 0, off |-> 0, block |-> 0,
               indirect |-> FALSE, result |-> 0, then |-> "answer"]
      /\ ask = NoAsk /\ root = NoInode /\ call = NoCall /\ mem = Memory
      /\ inodes = [f \in {"directory_fd", "file_fd"} |-> NoInode]
    BY DEF Init, DiskInit
<1>3. FsFields /\ AskInv /\ InodesInv /\ FileInv
    BY <1>2 DEF FsFields, AskInv, InodesInv, FileInv, Inodes
<1>4. StandInv
    BY <1>2, Sizes DEF StandInv, LastStep
<1>5. TablesRead
    BY <1>2 DEF TablesRead, Answers
<1>6. BufferInv
    BY <1>2, FilesAssumption DEF BufferInv, FromMedium
<1> QED BY <1>1, <1>3, <1>4, <1>5, <1>6 DEF FilesInv, Upper

\* The medium as the clients see it is that of the start, where it lasts.
LEMMA UnitLasts ==
    ASSUME Lower, NEW b, LastingBlock(b), NEW k \in 0 .. BLOCK_SIZE - 1
    PROVE  UnitAt(b, k) = Medium[b * BLOCK_SIZE + k]
BY DEF Lower, Undisturbed, LastingBlock, UnitAt

\* A number below the number of blocks that block numbers reach.
LEMMA BlockOf ==
    ASSUME NEW i \in 0 .. Reach - 1
    PROVE  /\ i \div BLOCK_SIZE \in 0 .. NDIRECT + BLOCK_SIZE - 1
           /\ i % BLOCK_SIZE \in 0 .. BLOCK_SIZE - 1
           /\ i = (i \div BLOCK_SIZE) * BLOCK_SIZE + (i % BLOCK_SIZE)
           /\ (i \div BLOCK_SIZE) * BLOCK_SIZE \in Nat
<1> DEFINE q == i \div BLOCK_SIZE
           r == i % BLOCK_SIZE
           n == NDIRECT + BLOCK_SIZE
<1>1. i \in Nat /\ n \in Nat /\ i < n * BLOCK_SIZE /\ n * BLOCK_SIZE \in Nat
    BY Sizes DEF Reach
<1> HIDE DEF n
<1>2. q \in Nat /\ r \in 0 .. BLOCK_SIZE - 1 /\ i = q * BLOCK_SIZE + r
    BY <1>1, Sizes, SMTT(30)
<1> HIDE DEF q, r
<1>3. q * BLOCK_SIZE \in Nat
    BY <1>2, Sizes
<1>4. q < n
    <2> SUFFICES ASSUME q >= n PROVE FALSE
        BY <1>1, <1>2
    <2>1. q * BLOCK_SIZE >= n * BLOCK_SIZE
        BY <1>1, <1>2, Sizes
    <2> QED BY <1>1, <1>2, <1>3, <2>1, Sizes
<1>5. q \in 0 .. n - 1 /\ r \in 0 .. BLOCK_SIZE - 1 /\ i = q * BLOCK_SIZE + r
      /\ q * BLOCK_SIZE \in Nat
    BY <1>1, <1>2, <1>3, <1>4
<1>6. n - 1 = NDIRECT + BLOCK_SIZE - 1
    BY Sizes DEF n
<1> QED BY <1>5, <1>6, Zenon DEF q, r

LEMMA FileUnitLasts ==
    ASSUME Lower, NEW u \in Inodes, NEW i \in 0 .. Reach - 1, i < u.size
    PROVE  FileUnit(u, i) = DiskUnit(u, i)
<1> DEFINE b == i \div BLOCK_SIZE
           k == i % BLOCK_SIZE
<1>1. b \in 0 .. NDIRECT + BLOCK_SIZE - 1 /\ k \in 0 .. BLOCK_SIZE - 1 /\ i = b * BLOCK_SIZE + k
      /\ b * BLOCK_SIZE \in Nat
    BY BlockOf
<1>2. FileUnit(u, i) = UnitAt(IF b < NDIRECT THEN u.blocks[b + 1]
                              ELSE UnitAt(u.blocks[NDIRECT + 1], b - NDIRECT).block, k)
      /\ DiskUnit(u, i) = Medium[DiskNumber(u, b) * BLOCK_SIZE + k]
    BY DEF FileUnit, DiskUnit
<1> HIDE DEF b, k
<1>3. u.size \in Nat /\ b * BLOCK_SIZE < u.size
    BY <1>1, InodeKinds
<1>4. LastingBlock(DiskNumber(u, b))
    BY <1>1, <1>3, BlockLasts
<1>5. UnitAt(DiskNumber(u, b), k) = Medium[DiskNumber(u, b) * BLOCK_SIZE + k]
    BY <1>1, <1>4, UnitLasts
<1>6. CASE b < NDIRECT
    BY <1>2, <1>5, <1>6 DEF DiskNumber
<1>7. CASE ~(b < NDIRECT)
    <2>1. NDIRECT * BLOCK_SIZE < u.size
        <3>1. NDIRECT * BLOCK_SIZE <= b * BLOCK_SIZE /\ NDIRECT * BLOCK_SIZE \in Nat
            BY <1>1, <1>7, Sizes
        <3> QED BY <1>1, <1>3, <3>1
    <2>2. LastingBlock(u.blocks[NDIRECT + 1])
        <3>1. u # NoInode
            BY <1>1, <1>3, InodeKinds
        <3> QED BY <2>1, <3>1, InodeKinds DEF WholeInode
    <2>3. b - NDIRECT \in 0 .. BLOCK_SIZE - 1
        BY <1>1, <1>7, Sizes
    <2>4. UnitAt(u.blocks[NDIRECT + 1], b - NDIRECT)
             = Medium[u.blocks[NDIRECT + 1] * BLOCK_SIZE + (b - NDIRECT)]
        BY <2>2, <2>3, UnitLasts
    <2> QED BY <1>2, <1>5, <1>7, <2>4 DEF DiskNumber
<1> QED BY <1>6, <1>7

LEMMA ReadsHold == FilesInv => ReadDelivers
<1> SUFFICES ASSUME Lower, Upper, fs.pc = "read", call = NoCall, ReadEnds
             PROVE  Holds(ask.area, Inode, ask.count)
    BY DEF FilesInv, ReadDelivers
<1>1. /\ fs.off + fs.left = Least(Inode.size, ask.count) /\ Has(fs.off)
      /\ fs.left > 0 => fs.off = NextBlock * BLOCK_SIZE
      /\ fs.off \in Nat /\ fs.left \in Nat /\ fs.block \in Nat
    BY DEF Upper, FileInv, FsFields
<1>2. Inode \in Inodes /\ Inode.size \in Nat /\ ask.count \in Nat
    <2>1. ask.fd \in {"directory_fd", "file_fd"} /\ ask.count \in Nat
        BY DEF Upper, AskInv, Asks
    <2> QED BY <2>1, InodeKinds DEF Upper, InodesInv, Inode
<1>3. fs.left > 0 => fs.off = Reach
    BY <1>1 DEF ReadEnds, NextBlock, Reach
<1>4. Reach \in Nat
    BY Sizes DEF Reach
<1>5. ASSUME NEW i \in 0 .. Least(Least(ask.count, Inode.size), Reach) - 1
      PROVE  mem[ask.area][i] = FileUnit(Inode, i)
    <2>1. i \in 0 .. fs.off - 1 /\ i \in 0 .. Reach - 1 /\ i < Inode.size
        BY <1>1, <1>2, <1>3, <1>4 DEF Least
    <2>2. mem[ask.area][i] = DiskUnit(Inode, i)
        BY <1>1, <2>1 DEF Has
    <2> QED BY <1>2, <2>1, <2>2, FileUnitLasts
<1> QED BY <1>5 DEF Holds

LEMMA FilesAlways == Spec => []FilesInv
<1>1. Init => FilesInv
    BY FilesStart
<1>2. FilesInv /\ [Next]_vars => FilesInv'
    BY FilesStep
<1> QED BY <1>1, <1>2, PTL DEF Spec

\* When the file system is done reading, the client's buffer holds what the
\* medium says, as far as file, buffer and block numbers go.
THEOREM ReadsDeliver == Spec => []ReadDelivers
<1>1. Spec => []FilesInv
    BY FilesAlways
<1>2. FilesInv => ReadDelivers
    BY ReadsHold
<1> QED BY <1>1, <1>2, PTL DEF Spec

-----------------------------------------------------------------------------
(* The inodes that descriptors get.                                        *)

LEMMA DiskInodeLasts ==
    ASSUME Lower, NEW n \in 1 .. DiskSuper.inodes_count - 1
    PROVE  DiskInode(n) = TableUnit(n - 1)
<1> DEFINE m == n - 1
           q == m \div Ipg
           r == m % Ipg
<1>1. m \in 0 .. DiskSuper.inodes_count - 2
    BY Sizes
<1>2. q \in 0 .. DiskGroups - 1 /\ r \in 0 .. Ipg - 1
    <2> HIDE DEF m
    <2> QED BY <1>1, InodePlace
<1>3. TableUnit(m) = Medium[DiskGroup(q).inode_table * BLOCK_SIZE + r]
    <2> HIDE DEF m
    <2> QED BY <1>1, InodeFacts
<1>4. UnitAt(1, 0) = DiskSuper
    <2> DEFINE one == 1
               zero == 0
    <2>1. LastingBlock(one) /\ zero \in 0 .. BLOCK_SIZE - 1
        BY FilesAssumption, Sizes
    <2>2. one * BLOCK_SIZE + zero = BLOCK_SIZE
        BY Sizes
    <2> HIDE DEF one, zero
    <2>3. UnitAt(one, zero) = Medium[one * BLOCK_SIZE + zero]
        BY <2>1, UnitLasts
    <2> QED BY <2>2, <2>3 DEF one, zero, DiskSuper
<1>5. UnitAt(2, q) = DiskGroup(q)
    <2> DEFINE two == 2
    <2> HIDE DEF q
    <2>1. LastingBlock(two) /\ q \in 0 .. BLOCK_SIZE - 1
        BY <1>2, FilesAssumption, GroupFacts, Sizes
    <2> HIDE DEF two
    <2>2. UnitAt(two, q) = Medium[two * BLOCK_SIZE + q]
        BY <2>1, UnitLasts
    <2> QED BY <2>2 DEF two, DiskGroup
<1>6. DiskInode(n) = UnitAt(DiskGroup(q).inode_table, r)
    BY <1>4, <1>5 DEF DiskInode, Ipg
<1>7. UnitAt(DiskGroup(q).inode_table, r) = Medium[DiskGroup(q).inode_table * BLOCK_SIZE + r]
    <2> HIDE DEF q, r
    <2>1. DiskGroup(q).inode_table * BLOCK_SIZE + r \in Lasting
        BY <1>2, GroupFacts
    <2> QED BY <2>1 DEF UnitAt, Lower, Undisturbed
<1> QED BY <1>3, <1>6, <1>7

OpensStep ==
    \A f \in DOMAIN inodes : inodes'[f] # inodes[f] =>
         \/ ask.fn = "ROOT" /\ inodes'[f] = DiskInode(ROOT_INODE_INDEX)
         \/ ask.fn # "ROOT" /\ \E e \in {AsEntry(medium[i]) : i \in DOMAIN medium} :
               /\ e.name = ask.name /\ inodes'[f] = DiskInode(e.inode)
               /\ ask.fn = "OPENFILE" => e.type = "REG"

LEMMA EntryOpened ==
    ASSUME Lower, Upper, ask # NoAsk, fs.pc \in {"receive", "open"},
           ask.fn \in {"CD", "OPENFILE"}, NEW type \in {"DIR", "REG"}, NEW e \in Found(type),
           NEW then \in {"answer", "open"}, then = "open" => ask.fn = "CD",
           ask.fn = "OPENFILE" => type = "REG",
           OpenEntry(e, then), UNCHANGED <<ask, root, diskVars>>
    PROVE  OpensStep
<1>1. /\ e.inode \in Nat \ {0} /\ e.name = ask.name /\ e.type = type
      /\ \E j \in Lasting : e = Medium[j] /\ AsEntry(Medium[j]) = e
    BY Hit
<1>2. \A f \in DOMAIN inodes : inodes'[f] # inodes[f] =>
         e.inode - 1 \in 0 .. DiskSuper.inodes_count - 2 /\ inodes'[f] = TableUnit(e.inode - 1)
    BY OpenEntryStep
<1>3. e.inode - 1 \in 0 .. DiskSuper.inodes_count - 2 => DiskInode(e.inode) = TableUnit(e.inode - 1)
    BY <1>1, DiskInodeLasts, Sizes
<1>4. e \in {AsEntry(medium[i]) : i \in DOMAIN medium}
    <2>1. PICK j \in Lasting : e = Medium[j] /\ AsEntry(Medium[j]) = e
        BY <1>1
    <2>2. medium[j] = Medium[j] /\ j \in DOMAIN medium
        BY <2>1 DEF Lower, Undisturbed, Lasting, SyncInv, Fields
    <2> QED BY <2>1, <2>2
<1> QED BY <1>1, <1>2, <1>3, <1>4 DEF OpensStep

LEMMA OpensKept == FilesInv /\ [Next]_vars => [OpensStep]_inodes
<1> SUFFICES ASSUME Lower, Upper, Next, inodes' # inodes PROVE OpensStep
    BY DEF FilesInv, vars, fsVars
<1>1. Handle
    BY DEF Next, FS_init, FS_read_file, Answer, Client, OtherCall, fsVars
<1>2. UNCHANGED <<ask, root, diskVars>>
    BY <1>1 DEF Handle
<1>3. fs.pc = "open" => ask # NoAsk /\ ask.fn = "CD"
    BY DEF Upper, AskInv
<1>4. CASE GetRoot
    <2>1. ask # NoAsk /\ fs.pc = "receive" /\ inodes' = [inodes EXCEPT ![ask.fd] = root]
          /\ ask.fn = "ROOT"
        BY <1>4 DEF GetRoot, Serves
    <2>2. root = DiskInode(2)
        <3> DEFINE n == 2
        <3>1. n \in 1 .. DiskSuper.inodes_count - 1 /\ n - 1 = 1
            BY Sizes
        <3>2. root = TableUnit(1)
            BY <2>1 DEF Upper, InodesInv
        <3> HIDE DEF n
        <3>3. DiskInode(n) = TableUnit(1)
            BY <3>1, DiskInodeLasts
        <3> QED BY <3>2, <3>3 DEF n
    <2> QED BY <2>1, <2>2 DEF OpensStep, ROOT_INODE_INDEX
<1>5. CASE ChangeDir
    <2>1. ask # NoAsk /\ fs.pc = "receive" /\ ask.fn = "CD"
        BY <1>5 DEF ChangeDir, Serves
    <2>2. PICK e \in Found("DIR") : OpenEntry(e, "open")
        BY <1>5 DEF ChangeDir, NotFound
    <2> QED BY <1>2, <2>1, <2>2, EntryOpened
<1>6. CASE OpenFile
    <2>1. ask # NoAsk /\ fs.pc \in {"receive", "open"} /\ ask.fn \in {"CD", "OPENFILE"}
        BY <1>3, <1>6 DEF OpenFile, Serves
    <2>2. PICK e \in Found("REG") : OpenEntry(e, "answer")
        BY <1>6 DEF OpenFile, NotFound
    <2> QED BY <1>2, <2>1, <2>2, EntryOpened
<1> QED BY <1>1, <1>4, <1>5, <1>6 DEF Handle, ReadFile

\* A descriptor only ever gets the inode the medium has under a number of some
\* entry of the asked name, of a regular file in the case of open, or the root.
THEOREM OpensByName == Spec => OpensNamed
<1>1. Spec => []FilesInv
    BY FilesAlways
<1>2. FilesInv /\ [Next]_vars => [OpensStep]_inodes
    BY OpensKept
<1> QED BY <1>1, <1>2, PTL DEF Spec, OpensNamed, OpensStep

-----------------------------------------------------------------------------
(* The disk server under the file system, whose requests need no further   *)
(* assumption on where they write.                                         *)

\* The disk server under the file system writes nothing but what was asked for.
THEOREM FilesKeepToBuffer == Spec => KeepsToBuffer
<1>1. Spec => []FilesInv
    BY FilesAlways
<1>2. FilesInv /\ [Next]_vars => [Kept]_mem
    <2> SUFFICES ASSUME FilesInv, [Next]_vars PROVE [Kept]_mem
        OBVIOUS
    <2>1. CASE DiskNext
        BY <2>1, StepKept DEF FilesInv, Lower
    <2>2. CASE ~DiskNext
        BY <2>2 DEF Next, FS_init, FS_read_file, Handle, Answer, Client, OtherCall, vars, diskVars
    <2> QED BY <2>1, <2>2
<1> QED BY <1>1, <1>2, PTL DEF Spec, KeepsToBuffer, Kept

\* And under the file system no interrupt is taken for another sector's.
THEOREM FilesSectorOfInterrupt == Spec => []InterruptMeansSector
<1>1. Spec => []FilesInv
    BY FilesAlways
<1>2. FilesInv => InterruptMeansSector
    BY InterruptIsSectors DEF FilesInv, Lower
<1> QED BY <1>1, <1>2, PTL DEF Spec

-----------------------------------------------------------------------------
(* The ring of scan codes.                                                 *)

\* The ring's index arithmetic.
LEMMA NextIndex ==
    ASSUME NEW n \in Indices
    PROVE  (n + 1) % KEY_BUF_SIZE = IF n = Last THEN 0 ELSE n + 1
<1>1. CASE n = Last
    BY <1>1, KeyAssumption DEF Indices, Last
<1>2. CASE n # Last
    BY <1>2, KeyAssumption DEF Indices, Last
<1> QED BY <1>1, <1>2

LEMMA IndexFacts ==
    /\ 0 \in Indices /\ Last \in Indices /\ Last > 0
    /\ \A n \in Indices : (n + 1) % KEY_BUF_SIZE \in Indices
    /\ \A n \in Indices : n > 0 => n - 1 \in Indices
BY NextIndex, KeyAssumption DEF Indices, Last

LEMMA Constants == Byte \in Codes /\ Empty.kind = "empty" /\ \A c \in Codes : c.kind # "empty"
BY KeyAssumption DEF Codes, Kinds, Byte, Empty

\* Putting a code into the history and taking the oldest from it.
LEMMA UnreadFacts ==
    ASSUME TypeOK, NEW c \in Codes
    PROVE  /\ Append(unread, c) \in Seq(Codes)
           /\ Len(unread) \in Nat
           /\ Len(Append(unread, c)) = Len(unread) + 1
           /\ unread # <<>> => /\ Tail(unread) \in Seq(Codes)
                              /\ Len(Tail(unread)) = Len(unread) - 1
                              /\ Len(unread) > 0
BY AppendProperties, HeadTailProperties, EmptySeq, LenProperties DEF TypeOK

-----------------------------------------------------------------------------
(* Types.                                                                  *)

LEMMA KeyIrqType ==
    ASSUME TypeOK, NEW kind \in Kinds, KeyIrq(kind)
    PROVE  TypeOK'
<1> DEFINE code == [kind |-> kind, nr |-> typed + 1]
<1>1. code \in Codes /\ typed' \in 0 .. MaxCodes /\ half' \in BOOLEAN
    BY KeyAssumption DEF KeyIrq, TypeOK, Codes
<1>2. UNCHANGED <<key_tail, scancode, after_E0, loaded>>
    BY DEF KeyIrq, server
<1>3. CASE /\ key_count >= KEY_BUF_SIZE
           /\ UNCHANGED <<key_buf, key_flag, key_head, key_count, unread, pc, pending, missed>>
    BY <1>1, <1>2, <1>3 DEF TypeOK
<1>4. CASE /\ key_count < KEY_BUF_SIZE
           /\ key_buf' = [i \in Indices |->
                             IF i = key_head THEN code
                             ELSE IF /\ kind # "E0" /\ key_count > 0 /\ key_head = 0
                                     /\ i = Last THEN Byte
                             ELSE key_buf[i]]
           /\ key_flag' = Flags(kind)
           /\ key_head' = (key_head + 1) % KEY_BUF_SIZE
           /\ key_count' = key_count + 1
           /\ unread' = Append(unread, code)
           /\ Inform
    <2> HIDE DEF code
    <2>1. key_buf' \in [Indices -> Codes]
        BY <1>1, <1>4, Constants DEF TypeOK
    <2>2. key_flag' \in [Indices -> {0, 1}]
        BY <1>4, IndexFacts DEF TypeOK, Flags
    <2>3. key_head' \in Indices /\ key_count' \in Int
        BY <1>4, IndexFacts DEF TypeOK
    <2>4. unread' \in Seq(Codes)
        BY <1>1, <1>4, UnreadFacts
    <2>5. /\ pending' \in BOOLEAN /\ missed' \in BOOLEAN
          /\ pc' \in {"init", "receive", "taken", "sleeping", "asleep", "test", "take", "load",
                      "store", "clear", "decode", "deliver"}
        BY <1>4 DEF Inform, TypeOK
    <2> QED BY <1>1, <1>2, <2>1, <2>2, <2>3, <2>4, <2>5 DEF TypeOK
<1> QED BY <1>3, <1>4 DEF KeyIrq

LEMMA TypeStep == TypeOK /\ [KeyNext]_keyVars => TypeOK'
<1> SUFFICES ASSUME TypeOK, [KeyNext]_keyVars
             PROVE  TypeOK'
    OBVIOUS
<1> USE DEF TypeOK, ring, server, keyboard
<1>1. ASSUME NEW kind \in Kinds, KeyIrq(kind) PROVE TypeOK'
    BY <1>1, KeyIrqType
<1>2. CASE ServerInit
    <2>1. key_flag' \in [Indices -> {0, 1}] /\ unread' \in Seq(Codes)
        BY <1>2, EmptySeq DEF ServerInit
    <2>2. key_head' \in Indices /\ key_tail' \in Indices /\ key_count' \in Int
        BY <1>2, IndexFacts DEF ServerInit
    <2> QED BY <1>2, <2>1, <2>2 DEF ServerInit
<1>3. CASE Receive
    BY <1>3 DEF Receive, Notified
<1>4. CASE Test
    BY <1>4 DEF Test
<1>5. CASE Take
    <2>1. scancode' \in Codes \cup {Empty} /\ key_tail' \in Indices
        BY <1>5, IndexFacts DEF Take, Advance
    <2>2. unread' \in Seq(Codes)
        BY <1>5, UnreadFacts, Constants DEF Take
    <2> QED BY <1>5, <2>1, <2>2 DEF Take
<1>6. CASE Load
    BY <1>6 DEF Load
<1>7. CASE Store
    BY <1>7 DEF Store, OneLess
<1>8. CASE Clear
    BY <1>8, IndexFacts, Constants DEF Clear
<1>9. CASE Decode
    BY <1>9 DEF Decode
<1>10. CASE Deliver
    BY <1>10 DEF Deliver
<1>11. CASE ClearAgain
    BY <1>11 DEF ClearAgain
<1>12. CASE Sleep
    BY <1>12 DEF Sleep
<1>13. CASE UNCHANGED keyVars
    BY <1>13 DEF keyVars
<1> QED BY <1>1, <1>2, <1>3, <1>4, <1>5, <1>6, <1>7, <1>8, <1>9, <1>10, <1>11,
       <1>12, <1>13 DEF KeyNext

LEMMA TypeInit == KeyInit => TypeOK
<1> SUFFICES ASSUME KeyInit
             PROVE  TypeOK
    OBVIOUS
<1>1. key_buf \in [Indices -> Codes] /\ unread \in Seq(Codes)
    BY Constants, EmptySeq DEF KeyInit
<1>2. key_head \in Indices /\ key_tail \in Indices /\ typed \in 0 .. MaxCodes
    BY IndexFacts, KeyAssumption DEF KeyInit
<1>3. after_E0 \in BOOLEAN /\ half \in BOOLEAN /\ pending \in BOOLEAN
    BY DEF KeyInit
<1> QED BY <1>1, <1>2, <1>3 DEF KeyInit, TypeOK

\* The ring's indices, flags and codes keep to their ranges.
THEOREM KeyTypes == KeySpec => []TypeOK
BY TypeInit, TypeStep, PTL DEF KeySpec

-----------------------------------------------------------------------------
(* A readable code behind a server that found the ring empty has left a    *)
(* pending interrupt for the next receive, or came after that receive had  *)
(* looked for one.  Nor does the server sleep between the halves of a code. *)

SleepInv ==
    /\ scancode.kind = "empty" /\ key_flag[key_tail] = 1 =>
          /\ pc \in {"decode", "receive"} => pending
          /\ pc \in {"sleeping", "asleep"} => missed
    /\ pc \in {"load", "store", "clear", "deliver"} => scancode.kind # "empty"
    /\ pc \in {"init", "receive", "taken", "sleeping", "asleep", "deliver"} => ~after_E0

LEMMA SleepIrq ==
    ASSUME TypeOK, SleepInv, NEW kind \in Kinds, KeyIrq(kind)
    PROVE  SleepInv'
<1>1. UNCHANGED <<scancode, key_tail, after_E0>>
    BY DEF KeyIrq, server
<1>2. CASE UNCHANGED <<key_flag, pc, pending, missed>>
    BY <1>1, <1>2 DEF SleepInv
<1>3. CASE Inform
    <2>1. CASE pc = "asleep"
        BY <1>1, <1>3, <2>1 DEF Inform, SleepInv
    <2>2. CASE pc # "asleep"
        BY <1>1, <1>3, <2>2 DEF Inform, SleepInv
    <2> QED BY <2>1, <2>2
<1> QED BY <1>2, <1>3 DEF KeyIrq

LEMMA SleepStep == TypeOK /\ SleepInv /\ [KeyNext]_keyVars => SleepInv'
<1> SUFFICES ASSUME TypeOK, SleepInv, [KeyNext]_keyVars
             PROVE  SleepInv'
    OBVIOUS
<1> USE DEF SleepInv, ring, server, keyboard
<1>1. ASSUME NEW kind \in Kinds, KeyIrq(kind) PROVE SleepInv'
    BY <1>1, SleepIrq
<1>2. CASE ServerInit
    BY <1>2, IndexFacts DEF ServerInit
<1>3. CASE Receive
    BY <1>3 DEF Receive, Notified
<1>4. CASE Test
    BY <1>4 DEF Test
<1>5. CASE Take
    <2>1. scancode' \in Codes /\ pc' = "load"
        BY <1>5 DEF Take, TypeOK
    <2> QED BY <2>1, Constants
<1>6. CASE Load
    BY <1>6 DEF Load
<1>7. CASE Store
    BY <1>7 DEF Store
<1>8. CASE Clear
    BY <1>8 DEF Clear
<1>9. CASE Decode
    BY <1>9 DEF Decode
<1>10. CASE Deliver
    BY <1>10 DEF Deliver
<1>11. CASE ClearAgain
    BY <1>11 DEF ClearAgain
<1>12. CASE Sleep
    BY <1>12 DEF Sleep
<1>13. CASE UNCHANGED keyVars
    BY <1>13 DEF keyVars
<1> QED BY <1>1, <1>2, <1>3, <1>4, <1>5, <1>6, <1>7, <1>8, <1>9, <1>10, <1>11,
       <1>12, <1>13 DEF KeyNext

\* The INPUT server never sleeps over a code that came after it had found the
\* ring empty, unless the code came once RECEIVE had looked for interrupts.
THEOREM NoForgottenKey == KeySpec => []EmptyWhenAsleep
<1>1. KeyInit => SleepInv
    BY DEF KeyInit, SleepInv
<1>2. SleepInv => EmptyWhenAsleep
    BY DEF SleepInv, EmptyWhenAsleep
<1> QED BY <1>1, <1>2, SleepStep, KeyTypes, PTL DEF KeySpec

-----------------------------------------------------------------------------
(* The race on key_count: between the load and the store the count is one  *)
(* ahead of the ring, and the store can only fall behind.                  *)

CountInv ==
    /\ pc \notin {"load", "store"} => key_count <= Len(unread)
    /\ pc \in {"load", "store"} => key_count <= Len(unread) + 1
    /\ pc = "store" => loaded <= Len(unread) + 1

LEMMA CountStep == TypeOK /\ CountInv /\ [KeyNext]_keyVars => CountInv'
<1> SUFFICES ASSUME TypeOK, CountInv, [KeyNext]_keyVars
             PROVE  CountInv'
    OBVIOUS
<1> USE DEF CountInv, ring, server, keyboard
<1>t. key_count \in Int /\ loaded \in Int /\ Len(unread) \in Nat
    BY UnreadFacts, Constants DEF TypeOK
<1>1. ASSUME NEW kind \in Kinds, KeyIrq(kind) PROVE CountInv'
    <2>1. CASE UNCHANGED <<key_count, unread, pc>>
        BY <1>1, <2>1 DEF KeyIrq
    <2>2. CASE /\ key_count' = key_count + 1
               /\ unread' = Append(unread, [kind |-> kind, nr |-> typed + 1])
               /\ Inform
        <3>1. [kind |-> kind, nr |-> typed + 1] \in Codes
            BY <1>1, KeyAssumption DEF KeyIrq, TypeOK, Codes
        <3>2. Len(unread') = Len(unread) + 1
            BY <2>2, <3>1, UnreadFacts
        <3>3. pc' = pc \/ (pc = "asleep" /\ pc' = "test")
            BY <2>2 DEF Inform
        <3>4. loaded' = loaded
            BY <1>1 DEF KeyIrq
        <3> QED BY <1>t, <2>2, <3>2, <3>3, <3>4
    <2> QED BY <1>1, <2>1, <2>2 DEF KeyIrq
<1>2. CASE ServerInit
    BY <1>2, EmptySeq DEF ServerInit
<1>3. CASE Receive
    BY <1>3 DEF Receive
<1>4. CASE Test
    BY <1>4 DEF Test
<1>5. CASE Take
    <2>1. Len(unread') \in Nat /\ Len(unread') >= Len(unread) - 1
        BY <1>5, <1>t, UnreadFacts, Constants DEF Take
    <2>2. /\ pc = "take" /\ pc' = "load" /\ key_count' = key_count
        BY <1>5 DEF Take
    <2> QED BY <1>t, <2>1, <2>2
<1>6. CASE Load
    BY <1>6 DEF Load
<1>7. CASE Store
    BY <1>7, <1>t DEF Store, OneLess
<1>8. CASE Clear
    BY <1>8 DEF Clear
<1>9. CASE Decode
    BY <1>9 DEF Decode
<1>10. CASE Deliver
    BY <1>10 DEF Deliver
<1>11. CASE ClearAgain
    BY <1>11 DEF ClearAgain
<1>12. CASE Sleep
    BY <1>12 DEF Sleep
<1>13. CASE UNCHANGED keyVars
    BY <1>13 DEF keyVars
<1> QED BY <1>1, <1>2, <1>3, <1>4, <1>5, <1>6, <1>7, <1>8, <1>9, <1>10, <1>11,
       <1>12, <1>13 DEF KeyNext

\* The race on key_count never makes the handler turn a code away while there
\* is room in the ring.
THEOREM NoRoomLost == KeySpec => []CountNotAbove
<1>1. KeyInit => CountInv
    BY EmptySeq DEF KeyInit, CountInv
<1>2. CountInv => CountNotAbove
    BY DEF CountInv, CountNotAbove, AtRest
<1> QED BY <1>1, <1>2, CountStep, KeyTypes, PTL DEF KeySpec

-----------------------------------------------------------------------------
(* The first lap: h codes put into the ring since input_server_init() and  *)
(* t of them taken.  The flags tell exactly which codes are there, but for *)
(* an 0xE0 whose second code has not come, or has come to a count that the *)
(* race had lowered to 0 and that stays behind ever after.                 *)

AtLap(n) == IF n = KEY_BUF_SIZE THEN 0 ELSE n

TakenOut == pc \in {"load", "store", "clear"}

\* decode() has seen 0xE0 and is going to ask for the code behind it.
WantsSecond ==
    \/ pc = "test" /\ after_E0
    \/ pc \in {"load", "store", "clear", "decode"} /\ scancode.kind = "E0" /\ ~after_E0

Waiting(h, t) ==
    /\ Len(unread) = h - t
    /\ \A i \in t .. h - 1 : unread[i - t + 1] = key_buf[i]

Flagged(h, t) ==
    /\ \A i \in h .. Last : key_flag[i] = 0
    /\ t > 0 /\ ~(t = 1 /\ TakenOut) => key_flag[0] = 0
    /\ \A i \in t .. h - 1 : key_buf[i].kind # "E0" => key_flag[i] = 1

Pairs(h, t) ==
    /\ \A i \in t .. h - 1 : key_buf[i].kind = "E0" =>
          IF i = h - 1 THEN half /\ key_flag[i] = 0 ELSE key_buf[i + 1].kind # "E0"
    /\ WantsSecond => t < h /\ key_buf[t].kind # "E0"

\* The race lost an increment: CountInv holds with one to spare.
Behind ==
    /\ pc \notin {"load", "store"} => key_count < Len(unread)
    /\ pc \in {"load", "store"} => key_count <= Len(unread)
    /\ pc = "store" => loaded <= Len(unread)

\* An 0xE0 whose second code has come but whose flag is not set.
Stuck(h, t) == \E i \in t .. h - 2 : key_buf[i].kind = "E0" /\ key_flag[i] = 0

RingAt(h, t) ==
    /\ h \in 0 .. KEY_BUF_SIZE /\ t \in 0 .. h /\ h <= typed
    /\ key_head = AtLap(h) /\ key_tail = AtLap(t)
    /\ pc = "take" => key_flag[key_tail] = 1
    /\ TakenOut => t > 0
    /\ Waiting(h, t) /\ Flagged(h, t) /\ Pairs(h, t)
    /\ Stuck(h, t) => Behind

RingInv ==
    pc # "init" /\ FirstLap =>
        \E h \in 0 .. KEY_BUF_SIZE, t \in 0 .. KEY_BUF_SIZE : RingAt(h, t)

\* A readable flag at the tail is that of a code in the ring.
LEMMA Readable ==
    ASSUME TypeOK, NEW h, NEW t, RingAt(h, t), ~TakenOut, key_flag[key_tail] = 1
    PROVE  t < h /\ t < KEY_BUF_SIZE /\ key_tail = t
<1>1. h \in Nat /\ t \in Nat /\ t <= h /\ h <= KEY_BUF_SIZE /\ key_tail = AtLap(t)
    BY KeyAssumption DEF RingAt
<1>2. CASE t = KEY_BUF_SIZE
    BY <1>1, <1>2, KeyAssumption DEF AtLap, RingAt, Flagged
<1>3. CASE t # KEY_BUF_SIZE
    <2>1. key_tail = t /\ t \in Indices
        BY <1>1, <1>3, KeyAssumption DEF AtLap, Indices
    <2>2. ~(t \in h .. Last)
        BY <2>1 DEF RingAt, Flagged
    <2> QED BY <1>1, <2>1, <2>2, KeyAssumption DEF Indices, Last
<1> QED BY <1>2, <1>3

\* On the first lap there is always room.
LEMMA HasRoom ==
    ASSUME TypeOK, CountInv, NEW h, NEW t, RingAt(h, t), typed < KEY_BUF_SIZE
    PROVE  key_count < KEY_BUF_SIZE
<1>1. /\ h \in Nat /\ t \in Nat /\ h <= typed /\ Len(unread) = h - t
      /\ pc \in {"load", "store"} => t > 0
    BY KeyAssumption DEF RingAt, Waiting, TakenOut
<1> QED BY <1>1, KeyAssumption DEF CountInv, TypeOK

\* The handler puts a code behind the others.
LEMMA RingIrq ==
    ASSUME TypeOK, SleepInv, CountInv, NEW h, NEW t, RingAt(h, t), pc # "init",
           NEW kind \in Kinds, KeyIrq(kind), typed < KEY_BUF_SIZE
    PROVE  RingAt(h + 1, t)'
<1> DEFINE code == [kind |-> kind, nr |-> typed + 1]
<1>1. /\ h \in Nat /\ t \in Nat /\ t <= h /\ h <= typed /\ h < KEY_BUF_SIZE
      /\ typed \in Nat /\ key_head = h /\ h \in Indices /\ h <= Last
    BY KeyAssumption DEF RingAt, AtLap, TypeOK, Indices, Last
<1>2. key_count < KEY_BUF_SIZE /\ key_count \in Int
    BY HasRoom DEF TypeOK
<1>3. /\ key_flag' = Flags(kind)
      /\ key_head' = (key_head + 1) % KEY_BUF_SIZE
      /\ unread' = Append(unread, code)
      /\ Inform
      /\ typed' = typed + 1 /\ half' = (kind = "E0") /\ (half => kind # "E0")
      /\ key_count' = key_count + 1
      /\ UNCHANGED <<key_tail, scancode, after_E0, loaded>>
    BY <1>2, KeyAssumption DEF KeyIrq, server
<1>4. /\ key_buf' \in [Indices -> Codes]
      /\ key_buf'[h] = code
      /\ \A i \in t .. h - 1 : key_buf'[i] = key_buf[i]
    <2>1. key_buf' = [i \in Indices |->
                        IF i = key_head THEN code
                        ELSE IF /\ kind # "E0" /\ key_count > 0 /\ key_head = 0
                                /\ i = Last THEN Byte
                        ELSE key_buf[i]]
        BY <1>2, KeyAssumption DEF KeyIrq
    <2>2. TypeOK'
        BY KeyIrqType
    <2>3. \A i \in t .. h - 1 : i \in Indices /\ i # h /\ h # 0
        BY <1>1, KeyAssumption DEF Indices
    <2> QED BY <1>1, <2>1, <2>2, <2>3 DEF TypeOK
<1>5. pc' = pc \/ (pc = "asleep" /\ pc' = "test")
    BY <1>3 DEF Inform
<1> HIDE DEF code
<1>6. /\ h + 1 \in 0 .. KEY_BUF_SIZE /\ t \in 0 .. h + 1 /\ h + 1 <= typed'
      /\ key_head' = AtLap(h + 1) /\ key_tail' = AtLap(t)
    BY <1>1, <1>3, NextIndex, KeyAssumption DEF AtLap, Last, RingAt
<1>7. Waiting(h + 1, t)'
    <2>1. code \in Codes
        BY <1>4, <1>1
    <2>2. /\ Len(unread') = Len(unread) + 1 /\ unread'[Len(unread) + 1] = code
          /\ \A i \in 1 .. Len(unread) : unread'[i] = unread[i]
        BY <1>3, <2>1, AppendProperties DEF TypeOK
    <2>3. Len(unread) = h - t /\ \A i \in t .. h - 1 : unread[i - t + 1] = key_buf[i]
        BY DEF RingAt, Waiting
    <2>4. ASSUME NEW i \in t .. h PROVE unread'[i - t + 1] = key_buf'[i]
        <3>1. CASE i = h
            BY <1>1, <1>4, <2>2, <2>3, <3>1
        <3>2. CASE i # h
            <4>1. i \in t .. h - 1 /\ i - t + 1 \in 1 .. Len(unread)
                BY <1>1, <2>3, <3>2
            <4> QED BY <1>4, <2>2, <2>3, <4>1
        <3> QED BY <3>1, <3>2
    <2> QED BY <1>1, <2>2, <2>3, <2>4 DEF Waiting
<1>8. /\ key_flag \in [Indices -> {0, 1}] /\ key_flag' \in [Indices -> {0, 1}]
      /\ \A i \in Indices : i # h /\ i # h - 1 => key_flag'[i] = key_flag[i]
      /\ h > 0 => key_flag'[h - 1] = key_flag[h - 1]
                 \/ (key_flag'[h - 1] = 1 /\ kind # "E0" /\ key_count > 0)
      /\ key_flag'[h] = IF kind = "E0" THEN 0 ELSE 1
    BY <1>1, <1>3, KeyAssumption DEF Flags, TypeOK, Indices
<1>9. Flagged(h + 1, t)'
    <2>1. \A i \in h + 1 .. Last : key_flag'[i] = 0
        BY <1>1, <1>8, KeyAssumption DEF RingAt, Flagged, Indices, Last
    <2>2. ASSUME t > 0, ~(t = 1 /\ TakenOut)' PROVE key_flag'[0] = 0
        <3>1. TakenOut' <=> TakenOut
            BY <1>5 DEF TakenOut
        <3>2. key_flag[0] = 0 /\ 0 \in Indices /\ h > 0
            BY <1>1, <2>2, <3>1, IndexFacts DEF RingAt, Flagged
        <3>3. CASE h = 1
            <4>1. t = 1 /\ ~TakenOut /\ Len(unread) = 0
                BY <1>1, <2>2, <3>1, <3>3 DEF RingAt, Waiting
            <4>2. ~(key_count > 0)
                BY <1>2, <4>1 DEF CountInv, TakenOut
            <4> QED BY <1>8, <3>2, <3>3, <4>2
        <3>4. CASE h # 1
            BY <1>1, <1>8, <3>2, <3>4
        <3> QED BY <3>3, <3>4
    <2>3. ASSUME NEW i \in t .. h, key_buf'[i].kind # "E0" PROVE key_flag'[i] = 1
        <3>1. CASE i = h
            BY <1>4, <1>8, <2>3, <3>1 DEF code
        <3>2. CASE i # h
            <4>1. i \in t .. h - 1 /\ i \in Indices
                BY <1>1, <3>2, KeyAssumption DEF Indices
            <4>2. key_flag[i] = 1
                BY <1>4, <2>3, <4>1 DEF RingAt, Flagged
            <4> QED BY <1>1, <1>8, <3>2, <4>1, <4>2
        <3> QED BY <3>1, <3>2
    <2> QED BY <1>1, <2>1, <2>2, <2>3 DEF Flagged
<1>10. Pairs(h + 1, t)'
    <2>1. ASSUME NEW i \in t .. h, key_buf'[i].kind = "E0"
          PROVE  IF i = h THEN half' /\ key_flag'[i] = 0 ELSE key_buf'[i + 1].kind # "E0"
        <3>1. CASE i = h
            <4>1. kind = "E0"
                BY <1>4, <2>1, <3>1 DEF code
            <4>2. half'
                BY <1>3, <4>1
            <4>3. key_flag'[i] = 0
                BY <1>8, <3>1, <4>1
            <4> QED BY <3>1, <4>2, <4>3
        <3>2. CASE i # h
            <4>1. /\ i \in t .. h - 1 /\ key_buf[i].kind = "E0"
                BY <1>1, <1>4, <2>1, <3>2
            <4>2. CASE i = h - 1
                <5>1. half
                    BY <4>1, <4>2 DEF RingAt, Pairs
                <5> QED BY <1>1, <1>3, <1>4, <3>2, <4>2, <5>1 DEF code
            <4>3. CASE i # h - 1
                <5>1. i + 1 \in t .. h - 1
                    BY <1>1, <4>1, <4>3
                <5>2. key_buf[i + 1].kind # "E0"
                    BY <4>1, <4>3 DEF RingAt, Pairs
                <5> QED BY <1>4, <3>2, <5>1, <5>2
            <4> QED BY <4>2, <4>3
        <3> QED BY <3>1, <3>2
    <2>2. ASSUME WantsSecond' PROVE t < h + 1 /\ key_buf'[t].kind # "E0"
        <3>1. WantsSecond
            BY <1>3, <1>5, <2>2 DEF WantsSecond, SleepInv
        <3>2. t < h /\ key_buf[t].kind # "E0" /\ t \in t .. h - 1
            BY <1>1, <3>1 DEF RingAt, Pairs
        <3> QED BY <1>1, <1>4, <3>2
    <2> QED BY <1>1, <2>1, <2>2 DEF Pairs
<1>11. (pc' = "take" => key_flag'[key_tail'] = 1) /\ (TakenOut' => t > 0)
    <2>1. ASSUME pc' = "take" PROVE key_flag'[key_tail'] = 1
        <3>1. pc = "take" /\ key_flag[key_tail] = 1 /\ ~TakenOut
            BY <1>5, <2>1 DEF RingAt, TakenOut
        <3>2. t < h /\ key_tail = t /\ t \in Indices
            BY <1>1, <3>1, Readable, KeyAssumption DEF Indices
        <3> QED BY <1>1, <1>3, <1>8, <3>1, <3>2
    <2> QED BY <1>5, <2>1 DEF RingAt, TakenOut
<1>12. ASSUME Stuck(h + 1, t)' PROVE Behind'
    <2>1. PICK i \in t .. h - 1 : key_buf'[i].kind = "E0" /\ key_flag'[i] = 0
        BY <1>1, <1>12 DEF Stuck
    <2>2. i \in Nat /\ i \in Indices /\ key_buf[i].kind = "E0"
        BY <1>1, <1>4, <2>1, KeyAssumption DEF Indices
    <2>3. /\ Len(unread) \in Nat /\ Len(unread) = h - t /\ Len(unread') = h + 1 - t
          /\ loaded \in Int
        BY <1>7 DEF RingAt, Waiting, TypeOK
    <2>4. CASE i = h - 1
        <3>1. kind # "E0"
            BY <1>3, <2>2, <2>4 DEF RingAt, Pairs
        <3>2. ~(key_count > 0)
            <4> SUFFICES ASSUME key_count > 0 PROVE FALSE
                OBVIOUS
            <4>1. key_flag' = [key_flag EXCEPT ![h] = 1, ![h - 1] = 1]
                BY <1>1, <1>3, <2>2, <2>4, <3>1 DEF Flags
            <4>2. key_flag'[h - 1] = 1
                BY <1>1, <1>8, <2>2, <2>4, <4>1
            <4> QED BY <2>1, <2>4, <4>2
        <3>3. Len(unread') >= 2
            BY <1>1, <2>1, <2>3, <2>4
        <3>4. pc = "store" => loaded <= Len(unread')
            BY <1>1, <2>3 DEF CountInv
        <3> QED BY <1>2, <1>3, <1>5, <2>3, <3>2, <3>3, <3>4 DEF Behind
    <2>5. CASE i # h - 1
        <3>1. key_flag[i] = 0 /\ i \in t .. h - 2
            BY <1>1, <1>8, <2>1, <2>2, <2>5
        <3>2. Behind
            BY <2>2, <3>1 DEF RingAt, Stuck
        <3> QED BY <1>2, <1>3, <1>5, <2>3, <3>2 DEF Behind
    <2> QED BY <2>4, <2>5
<1> QED BY <1>6, <1>7, <1>9, <1>10, <1>11, <1>12 DEF RingAt

\* The server takes the oldest code.
LEMMA RingTake ==
    ASSUME TypeOK, NEW h, NEW t, RingAt(h, t), Take
    PROVE  RingAt(h, t + 1)' /\ TakesHead
<1>1. pc = "take" /\ ~TakenOut /\ key_flag[key_tail] = 1
    BY DEF Take, RingAt, TakenOut
<1>2. /\ h \in Nat /\ t \in Nat /\ t < h /\ h <= KEY_BUF_SIZE /\ h <= typed
      /\ key_tail = t /\ t \in Indices /\ key_head = AtLap(h)
    BY <1>1, Readable, KeyAssumption DEF RingAt, Indices
<1>3. /\ scancode' = key_buf[t] /\ key_tail' = (t + 1) % KEY_BUF_SIZE /\ pc' = "load"
      /\ UNCHANGED <<key_buf, key_flag, key_head, after_E0, typed, half>>
    BY <1>2 DEF Take, Advance, keyboard
<1>4. /\ Len(unread) = h - t /\ \A i \in t .. h - 1 : unread[i - t + 1] = key_buf[i]
      /\ unread \in Seq(Codes)
    BY DEF RingAt, Waiting, TypeOK
<1>5. unread # <<>> /\ unread' = Tail(unread)
    BY <1>2, <1>4, EmptySeq DEF Take
<1>6. TakesHead
    BY <1>2, <1>3, <1>4, <1>5, HeadTailProperties DEF TakesHead
<1>7. Waiting(h, t + 1)'
    <2>1. /\ Len(unread') = Len(unread) - 1
          /\ \A i \in 1 .. Len(unread) - 1 : unread'[i] = unread[i + 1]
        BY <1>4, <1>5, HeadTailProperties
    <2>2. ASSUME NEW i \in t + 1 .. h - 1 PROVE unread'[i - (t + 1) + 1] = key_buf[i]
        <3>1. i - (t + 1) + 1 \in 1 .. Len(unread) - 1 /\ i \in t .. h - 1
              /\ i - (t + 1) + 1 = i - t
            BY <1>2, <1>4
        <3>2. unread'[i - t] = unread[i - t + 1]
            BY <2>1, <3>1
        <3> QED BY <1>4, <3>1, <3>2
    <2> QED BY <1>2, <1>3, <1>4, <2>1, <2>2 DEF Waiting
<1>8. Flagged(h, t + 1)'
    <2>1. t > 0 => key_flag[0] = 0
        BY <1>1 DEF RingAt, Flagged
    <2>2. \A i \in h .. Last : key_flag[i] = 0
        BY DEF RingAt, Flagged
    <2>3. \A i \in t + 1 .. h - 1 : key_buf[i].kind # "E0" => key_flag[i] = 1
        BY <1>2 DEF RingAt, Flagged
    <2> QED BY <1>2, <1>3, <2>1, <2>2, <2>3 DEF Flagged, TakenOut
<1>9. Pairs(h, t + 1)'
    <2>1. \A i \in t + 1 .. h - 1 : key_buf[i].kind = "E0" =>
              IF i = h - 1 THEN half /\ key_flag[i] = 0 ELSE key_buf[i + 1].kind # "E0"
        BY <1>2 DEF RingAt, Pairs
    <2>2. ASSUME WantsSecond' PROVE t + 1 < h /\ key_buf[t + 1].kind # "E0"
        <3>1. key_buf[t].kind = "E0" /\ key_flag[t] = 1 /\ t \in t .. h - 1
            BY <1>1, <1>2, <1>3, <2>2 DEF WantsSecond
        <3>2. t # h - 1 /\ key_buf[t + 1].kind # "E0"
            BY <3>1 DEF RingAt, Pairs
        <3> QED BY <1>2, <3>2
    <2> QED BY <1>3, <2>1, <2>2 DEF Pairs
<1>10. key_tail' = AtLap(t + 1) /\ key_head' = AtLap(h)
    BY <1>2, <1>3, NextIndex, KeyAssumption DEF AtLap, Last
<1>11. ASSUME Stuck(h, t + 1)' PROVE Behind'
    <2>1. Stuck(h, t)
        BY <1>2, <1>3, <1>11 DEF Stuck
    <2>2. key_count < Len(unread) /\ Len(unread) \in Nat /\ key_count \in Int
        BY <1>1, <2>1, UnreadFacts, Constants DEF RingAt, Behind, TypeOK
    <2>3. Len(unread') = Len(unread) - 1 /\ key_count' = key_count
        BY <1>4, <1>5, HeadTailProperties DEF Take
    <2> QED BY <1>3, <2>2, <2>3 DEF Behind
<1> QED BY <1>2, <1>3, <1>6, <1>7, <1>8, <1>9, <1>10, <1>11 DEF RingAt, TakenOut

\* The flag of the code just taken is cleared; at the end of the lap the store
\* misses the flags and spoils a code that has been taken.
LEMMA RingClear ==
    ASSUME TypeOK, NEW h, NEW t, RingAt(h, t), Clear
    PROVE  RingAt(h, t)'
<1>1. /\ pc = "clear" /\ TakenOut /\ t > 0 /\ pc' = "decode" /\ ~TakenOut'
      /\ UNCHANGED <<key_head, key_tail, key_count, scancode, after_E0, typed, half, unread>>
    BY DEF Clear, RingAt, TakenOut, server, keyboard
<1>2. /\ h \in Nat /\ t \in Nat /\ t <= h /\ h <= KEY_BUF_SIZE
      /\ key_tail = AtLap(t)
    BY KeyAssumption DEF RingAt
<1>3. (WantsSecond' => WantsSecond) /\ (Behind => Behind')
    BY <1>1 DEF WantsSecond, Behind
<1>4. CASE t = KEY_BUF_SIZE
    <2>1. key_flag' = key_flag /\ h = t /\ t # 1
        BY <1>2, <1>4, KeyAssumption DEF Clear, AtLap
    <2>2. \A i \in t .. h - 1 : FALSE
        BY <1>2, <2>1
    <2>3. ~Stuck(h, t)'
        BY <1>2, <2>1, <2>2 DEF Stuck
    <2> QED BY <1>1, <1>3, <2>1, <2>2, <2>3 DEF RingAt, Waiting, Flagged, Pairs
<1>5. CASE t # KEY_BUF_SIZE
    <2>1. key_tail = t /\ key_buf' = key_buf /\ key_flag' = [key_flag EXCEPT ![t - 1] = 0]
        BY <1>1, <1>2, <1>5 DEF Clear, AtLap
    <2>2. key_flag \in [Indices -> {0, 1}] /\ t - 1 \in Indices /\ 0 \in Indices
        BY <1>1, <1>2, <1>5, KeyAssumption DEF TypeOK, Indices
    <2>3. \A i \in t .. Last : key_flag'[i] = key_flag[i] /\ i \in Nat
        BY <1>1, <1>2, <2>1, <2>2, KeyAssumption DEF Indices, Last
    <2>4. key_flag'[0] = 0
        BY <1>1, <1>2, <2>1, <2>2 DEF RingAt, Flagged
    <2>5. (\A i \in h .. Last : i \in t .. Last) /\ (\A i \in t .. h - 1 : i \in t .. Last)
        BY <1>2, KeyAssumption DEF Last
    <2>6. Waiting(h, t)'
        BY <1>1, <2>1 DEF RingAt, Waiting
    <2>7. Flagged(h, t)'
        BY <2>1, <2>3, <2>4, <2>5 DEF RingAt, Flagged
    <2>8. Pairs(h, t)'
        BY <1>1, <1>3, <2>1, <2>3, <2>5 DEF RingAt, Pairs
    <2>9. Stuck(h, t)' => Stuck(h, t)
        <3>1. \A i \in t .. h - 2 : i \in t .. h - 1
            BY <1>2
        <3> QED BY <2>1, <2>3, <2>5, <3>1 DEF Stuck
    <2> QED BY <1>1, <1>3, <2>6, <2>7, <2>8, <2>9 DEF RingAt
<1> QED BY <1>4, <1>5

\* A step of the server that leaves the ring alone.
LEMMA RingKept ==
    ASSUME NEW h, NEW t, RingAt(h, t),
           UNCHANGED <<key_buf, key_flag, key_head, key_tail, unread, typed, half>>,
           pc' = "take" => key_flag[key_tail] = 1,
           TakenOut' <=> TakenOut,
           WantsSecond' => WantsSecond,
           Behind => Behind'
    PROVE  RingAt(h, t)'
BY DEF RingAt, Waiting, Flagged, Pairs, Stuck

LEMMA RingStep ==
    TypeOK /\ SleepInv /\ CountInv /\ RingInv /\ [KeyNext]_keyVars => RingInv'
<1> SUFFICES ASSUME TypeOK, SleepInv, CountInv, RingInv, [KeyNext]_keyVars,
                    (pc # "init" /\ FirstLap)'
             PROVE  \E h \in 0 .. KEY_BUF_SIZE, t \in 0 .. KEY_BUF_SIZE : RingAt(h, t)'
    BY DEF RingInv
<1>0. /\ typed' \in Nat /\ typed \in Nat /\ typed' >= typed /\ typed' <= KEY_BUF_SIZE
      /\ typed <= KEY_BUF_SIZE
      /\ (\E kind \in Kinds : KeyIrq(kind)) => typed < KEY_BUF_SIZE
    <2>1. typed \in Nat /\ typed' <= KEY_BUF_SIZE /\ KEY_BUF_SIZE \in Nat
        BY KeyAssumption DEF TypeOK, FirstLap
    <2>2. (\E kind \in Kinds : KeyIrq(kind)) => typed' = typed + 1
        BY DEF KeyIrq
    <2>3. (\E kind \in Kinds : KeyIrq(kind)) \/ typed' = typed
        BY DEF KeyNext, ServerInit, Receive, ClearAgain, Sleep, Test, Take, Load, Store,
               Clear, Decode, Deliver, keyboard, keyVars
    <2> QED BY <2>1, <2>2, <2>3
<1>1. CASE ServerInit
    <2>s. ~Stuck(0, 0)'
        BY DEF Stuck
    <2>1. RingAt(0, 0)'
        BY <1>0, <1>1, <2>s, EmptySeq, KeyAssumption
           DEF ServerInit, RingAt, Waiting, Flagged, Pairs, AtLap, TakenOut, WantsSecond,
               Indices, Last, server
    <2> QED BY <2>1, KeyAssumption
<1>2. CASE ~ServerInit
    <2>1. pc # "init"
        BY <1>2 DEF KeyNext, KeyIrq, Inform, Receive, ClearAgain, Sleep, Test, Take,
              Load, Store, Clear, Decode, Deliver, keyVars
    <2>2. PICK h \in 0 .. KEY_BUF_SIZE, t \in 0 .. KEY_BUF_SIZE : RingAt(h, t)
        BY <1>0, <2>1 DEF RingInv, FirstLap
    <2> USE DEF ring, server, keyboard
    <2>3. ASSUME NEW kind \in Kinds, KeyIrq(kind) PROVE RingAt(h + 1, t)'
        BY <1>0, <2>1, <2>2, <2>3, RingIrq
    <2>4. ASSUME Take PROVE RingAt(h, t + 1)'
        BY <2>2, <2>4, RingTake
    <2>5. CASE Clear
        BY <2>2, <2>5, RingClear
    <2>6. CASE Receive
        BY <2>2, <2>6, RingKept DEF Receive, Notified, TakenOut, WantsSecond, SleepInv, Behind
    <2>7. CASE Test
        <3>1. key_flag[key_tail] \in {0, 1}
            BY <2>2 DEF TypeOK
        <3>2. pc' = "take" => key_flag[key_tail] = 1
            BY <2>7, <3>1 DEF Test
        <3>3. ~WantsSecond' /\ (TakenOut' <=> TakenOut) /\ (Behind => Behind')
            BY <2>7 DEF Test, WantsSecond, TakenOut, Empty, Behind
        <3> QED BY <2>2, <2>7, <3>2, <3>3, RingKept DEF Test
    <2>8. CASE Load
        BY <2>2, <2>8, RingKept DEF Load, TakenOut, WantsSecond, Behind
    <2>9. CASE Store
        <3>1. loaded \in Int /\ Len(unread) \in Nat
            BY UnreadFacts, Constants DEF TypeOK
        <3>2. Behind => Behind'
            BY <2>9, <3>1 DEF Store, OneLess, Behind
        <3> QED BY <2>2, <2>9, <3>2, RingKept DEF Store, TakenOut, WantsSecond
    <2>10. CASE Decode
        BY <2>2, <2>10, RingKept DEF Decode, TakenOut, WantsSecond, Behind
    <2>11. CASE Deliver
        BY <2>2, <2>11, RingKept DEF Deliver, TakenOut, WantsSecond, SleepInv, Behind
    <2>12. CASE UNCHANGED keyVars
        BY <2>2, <2>12, RingKept DEF keyVars, TakenOut, WantsSecond, RingAt, Behind
    <2>13. CASE ClearAgain
        BY <2>2, <2>13, RingKept DEF ClearAgain, TakenOut, WantsSecond, SleepInv, Behind
    <2>14. CASE Sleep
        BY <2>2, <2>14, RingKept DEF Sleep, TakenOut, WantsSecond, SleepInv, Behind
    <2>15. ASSUME NEW i, NEW j, RingAt(i, j)'
           PROVE  i \in 0 .. KEY_BUF_SIZE /\ j \in 0 .. KEY_BUF_SIZE
        BY <2>15, KeyAssumption DEF RingAt
    <2> QED
        BY <1>2, <2>3, <2>4, <2>5, <2>6, <2>7, <2>8, <2>9, <2>10, <2>11, <2>12, <2>13,
           <2>14, <2>15
           DEF KeyNext
<1> QED BY <1>1, <1>2

KeyInv == TypeOK /\ SleepInv /\ CountInv /\ RingInv

LEMMA KeyInvariant == KeySpec => []KeyInv
<1>1. KeyInit => KeyInv
    BY TypeInit, EmptySeq DEF KeyInit, KeyInv, SleepInv, CountInv, RingInv
<1>2. KeyInv /\ [KeyNext]_keyVars => KeyInv'
    BY TypeStep, SleepStep, CountStep, RingStep DEF KeyInv
<1> QED BY <1>1, <1>2, PTL DEF KeySpec

\* What get_code() has not taken when the flag at the tail is clear.
LEMMA RingLeaves ==
    ASSUME TypeOK, NEW h, NEW t, RingAt(h, t), pc = "test", key_flag[key_tail] # 1
    PROVE  Leaves
<1>1. /\ h \in Nat /\ t \in Nat /\ t <= h /\ h <= KEY_BUF_SIZE
      /\ Len(unread) = h - t /\ unread \in Seq(Codes)
    BY KeyAssumption DEF RingAt, Waiting, TypeOK
<1>2. CASE t = h
    BY <1>1, <1>2, EmptySeq DEF Leaves
<1>3. CASE t < h
    <2>1. key_tail = t /\ t \in t .. h - 1 /\ t \in Indices
        BY <1>1, <1>3, KeyAssumption DEF RingAt, AtLap, Indices
    <2>2. key_flag[t] = 0 /\ key_buf[t].kind = "E0"
        BY <2>1 DEF RingAt, Flagged, TypeOK
    <2>3. Head(unread) = key_buf[t]
        <3>1. unread[1] = key_buf[t]
            BY <1>1, <2>1 DEF RingAt, Waiting
        <3> QED BY <1>1, <1>3, <3>1, HeadTailProperties, EmptySeq
    <2>4. CASE t = h - 1
        BY <1>1, <2>1, <2>2, <2>3, <2>4 DEF RingAt, Pairs, Leaves
    <2>5. CASE t # h - 1
        <3>1. t \in t .. h - 2
            BY <1>1, <1>3, <2>5
        <3>2. Behind
            BY <2>2, <3>1 DEF RingAt, Stuck
        <3> QED BY <2>2, <2>3, <3>2 DEF Behind, Leaves
    <2> QED BY <2>4, <2>5
<1> QED BY <1>1, <1>2, <1>3

\* On the first lap get_code() takes no code out of order or twice, wherever the
\* handler's interrupts fall, and it only leaves a code behind that waits for
\* its second half or that the race on key_count has cut off.
THEOREM FirstLapInOrder == KeySpec => EarliestFirstLap
<1>1. KeyInv /\ [KeyNext]_keyVars => [FirstLap => TakesHead /\ FindsAll]_keyVars
    <2>1. ASSUME KeyInv, FirstLap, Take PROVE TakesHead
        <3>1. PICK h \in 0 .. KEY_BUF_SIZE, t \in 0 .. KEY_BUF_SIZE : RingAt(h, t)
            BY <2>1 DEF KeyInv, RingInv, Take
        <3> QED BY <2>1, <3>1, RingTake DEF KeyInv
    <2>2. ASSUME KeyInv, FirstLap, Test, pc' = "decode" PROVE Leaves
        <3>1. PICK h \in 0 .. KEY_BUF_SIZE, t \in 0 .. KEY_BUF_SIZE : RingAt(h, t)
            BY <2>2 DEF KeyInv, RingInv, Test
        <3>2. pc = "test" /\ key_flag[key_tail] # 1
            BY <2>2 DEF Test
        <3> QED BY <2>2, <3>1, <3>2, RingLeaves DEF KeyInv
    <2> QED BY <2>1, <2>2 DEF TakesHead, FindsAll
<1> QED BY <1>1, KeyInvariant, PTL DEF KeySpec, EarliestFirstLap

\* On the first lap an extended key is never read in halves.
THEOREM FirstLapWhole == KeySpec => []NoSplit
<1>1. KeyInv => NoSplit
    <2> SUFFICES ASSUME KeyInv, FirstLap, pc = "test", after_E0
                 PROVE  key_flag[key_tail] = 1
        BY DEF NoSplit
    <2>1. PICK h \in 0 .. KEY_BUF_SIZE, t \in 0 .. KEY_BUF_SIZE : RingAt(h, t)
        BY DEF KeyInv, RingInv
    <2>2. t < h /\ key_buf[t].kind # "E0" /\ h <= KEY_BUF_SIZE
        BY <2>1 DEF RingAt, Pairs, WantsSecond
    <2>3. t \in t .. h - 1 /\ key_tail = t
        BY <2>1, <2>2, KeyAssumption DEF RingAt, AtLap
    <2> QED BY <2>1, <2>2, <2>3 DEF RingAt, Flagged
<1> QED BY <1>1, KeyInvariant, PTL
=============================================================================
