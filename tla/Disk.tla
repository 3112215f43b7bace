-------------------------------- MODULE Disk --------------------------------
(***************************************************************************)
(* The disk server (disk.c) and the ATA controller it drives.              *)
(*                                                                         *)
(* The server takes one request at a time, cuts it into commands of at     *)
(* most MaxCount sectors and moves one sector per interrupt through the    *)
(* data port.  Memory and medium are made of units of one size, of which a *)
(* sector holds SECTOR_SIZE; what a unit says is up to the users.          *)
(*                                                                         *)
(* RECEIVE is one step of the server, yet it runs with interrupts enabled: *)
(* an interrupt may come between its look at has_int_msg and the setting   *)
(* of recv_from, and then the server sleeps over it (disk.missed).         *)
(*                                                                         *)
(* Not followed: disk_buffer has SECTOR_SIZE bytes, yet the server clears  *)
(* 1024 bytes of it and builds the text of DISK_INFO in the second half;   *)
(* what these bytes belong to is up to the linker.                         *)
(***************************************************************************)
EXTENDS Integers, Sequences

CONSTANTS SECTOR_SIZE,
          MaxCount,    \* sectors of one command (128)
          Slow,        \* whether the drive may stay busy beyond HD_TIMEOUT
          NoCall, Junk, InfoText,
          Medium,      \* the units of the medium at the start
          Memory       \* the units of the areas requests point to, at the start

ASSUME DiskAssumption ==
    /\ SECTOR_SIZE \in Nat \ {0} /\ MaxCount \in Nat \ {0}
    /\ Slow \in BOOLEAN

\* A request (struct DISK_MESSAGE): the server copies bytes_count into a u32;
\* "OTHER" is a function that it does not know.
Calls == [fn : {"OPEN", "CLOSE", "READ", "WRITE", "INFO", "OTHER"},
          head : Nat, count : Nat, area : DOMAIN Memory, off : Nat]

VARIABLES disk,    \* disk_server() and the locals of disk_read(), disk_write()
          call,    \* the request not answered yet, or NoCall
          int,     \* has_int_msg of the disk server
          drive,   \* the controller
          medium, mem

diskVars == <<disk, call, int, drive, medium, mem>>

Least(a, b) == IF a < b THEN a ELSE b

Sectors(count) == (count + SECTOR_SIZE - 1) \div SECTOR_SIZE

\* The drive spins up; the server waits for its first request.
DiskInit ==
    /\ disk = [pc |-> "receive", head |-> 0, left |-> 0, count |-> 0,
               bytes |-> 0, off |-> 0, late |-> FALSE, missed |-> FALSE]
    /\ call = NoCall
    /\ int = FALSE
    /\ drive = [st |-> "busy", fn |-> "NONE", lba |-> 0, left |-> 0, words |-> <<>>]
    /\ medium = Medium
    /\ mem = Memory

\* The n units from index i of sector s.
UnitsOf(f, from, n) == [k \in 1 .. n |-> f[from + k - 1]]

\* phys_copy(): the units of the sequence s to mem[area] from off on.
Copied(area, off, s) ==
    [mem EXCEPT ![area] = [i \in DOMAIN @ |->
        IF i \in off .. off + Len(s) - 1 THEN s[i - off + 1] ELSE @[i]]]

-----------------------------------------------------------------------------
(* Mutants.                                                                *)

\* disk_read() copies a whole sector, however little is asked for.
WholeSector(d) == SECTOR_SIZE

\* interrupt_wait() returns without an interrupt.
NoWait == disk.pc = "interrupt"

\* The drive's interrupt is not noticed.
Unnoticed == UNCHANGED <<int, disk>>

-----------------------------------------------------------------------------
(* The server.                                                             *)

\* Where the server stands once its locals are d.
Onward(d, fn) ==
    [d EXCEPT !.pc = IF d.count > 0 THEN IF fn = "WRITE" THEN "feed" ELSE "interrupt"
                     ELSE IF d.left > 0 THEN "command" ELSE "answer"]

\* A message from a process, which RECEIVE takes unless it saw an interrupt;
\* DISK_OPEN, DISK_CLOSE and unknown functions do nothing.
TakeCall ==
    /\ disk.pc = "receive" /\ (~int \/ disk.missed) /\ call # NoCall
    /\ disk' = Onward([disk EXCEPT
                  !.head = call.head, !.count = 0, !.bytes = call.count,
                  !.off = call.off, !.late = FALSE, !.missed = FALSE,
                  !.left = CASE call.fn \in {"READ", "WRITE"} -> Sectors(call.count)
                             [] call.fn = "INFO" -> 1
                             [] OTHER -> 0], call.fn)
    /\ UNCHANGED <<call, int, drive, medium, mem>>

\* RECEIVE ANY of the main loop takes an interrupt before any message.
DropInterrupt ==
    /\ disk.pc = "receive" /\ int /\ ~disk.missed
    /\ int' = FALSE
    /\ UNCHANGED <<disk, call, drive, medium, mem>>

\* A command is written, or not at all once waitfor() has timed out, and the
\* server goes on either way.
Issue(sent) ==
    LET n == Least(disk.left, MaxCount)
    IN  /\ disk' = Onward([disk EXCEPT !.head = @ + n, !.left = @ - n, !.count = n,
                                       !.late = @ \/ ~sent], call.fn)
        /\ drive' = IF sent THEN [st |-> "busy", fn |-> call.fn, lba |-> disk.head,
                                  left |-> n, words |-> <<>>]
                    ELSE drive
        /\ UNCHANGED <<call, int, medium, mem>>

CmdOut == disk.pc = "command" /\ drive.st # "busy" /\ Issue(TRUE)

CmdTimeout == disk.pc = "command" /\ drive.st = "busy" /\ Slow /\ Issue(FALSE)

\* The sector of the caller's bytes that is being moved.
Bytes(d) == Least(d.bytes, SECTOR_SIZE)

\* interrupt_wait() returns.
Interrupted == disk.pc = "interrupt" /\ int /\ ~disk.missed

SectorDone(n) ==
    disk' = Onward([disk EXCEPT !.count = @ - 1, !.bytes = @ - n, !.off = @ + n], call.fn)

\* What the data port yields.
PortUnits == IF drive.st = "data" /\ drive.fn = "READ"
             THEN UnitsOf(medium, drive.lba * SECTOR_SIZE, SECTOR_SIZE)
             ELSE [k \in 1 .. SECTOR_SIZE |-> Junk]

\* The controller once its sector has passed through the port.
Drained == [drive EXCEPT !.lba = @ + 1, !.left = @ - 1,
                         !.st = IF drive.left > 1 THEN "busy" ELSE "idle"]

ReadSector ==
    /\ Interrupted /\ call.fn = "READ"
    /\ int' = FALSE
    /\ mem' = Copied(call.area, disk.off, SubSeq(PortUnits, 1, Bytes(disk)))
    /\ drive' = IF drive.st = "data" THEN Drained ELSE drive
    /\ SectorDone(Bytes(disk))
    /\ UNCHANGED <<call, medium>>

\* port_write() of the rest of the request: less than a sector leaves the
\* controller waiting for more.
FeedSector ==
    /\ disk.pc = "feed" /\ drive.st # "busy"
    /\ LET words == drive.words \o UnitsOf(mem[call.area], disk.off, Bytes(disk))
       IN  drive' = IF drive.st # "data" THEN drive
                    ELSE [drive EXCEPT !.words = words,
                             !.st = IF Len(words) = SECTOR_SIZE THEN "busy" ELSE "data"]
    /\ disk' = [disk EXCEPT !.pc = "interrupt"]
    /\ UNCHANGED <<call, int, medium, mem>>

\* waitfor() times out: disk_write() returns in the middle of its command.
FeedTimeout ==
    /\ disk.pc = "feed" /\ drive.st = "busy" /\ Slow
    /\ disk' = [disk EXCEPT !.pc = "answer", !.late = TRUE]
    /\ UNCHANGED <<call, int, drive, medium, mem>>

SectorWritten ==
    /\ Interrupted /\ call.fn = "WRITE"
    /\ int' = FALSE
    /\ SectorDone(Bytes(disk))
    /\ UNCHANGED <<call, drive, medium, mem>>

\* disk_info(): the text made of the identification, cut to what was asked for.
ReadInfo ==
    /\ Interrupted /\ call.fn = "INFO"
    /\ int' = FALSE
    /\ mem' = Copied(call.area, disk.off,
                     UnitsOf([i \in Nat |-> InfoText], 0, Least(call.count, SECTOR_SIZE)))
    /\ drive' = IF drive.st = "data" THEN Drained ELSE drive
    /\ disk' = [disk EXCEPT !.count = 0, !.pc = "answer"]
    /\ UNCHANGED <<call, medium>>

\* result is 0 whatever happened.
AnswerCall ==
    /\ disk.pc = "answer"
    /\ call' = NoCall
    /\ disk' = [disk EXCEPT !.pc = "receive"]
    /\ UNCHANGED <<int, drive, medium, mem>>

Server == \/ TakeCall \/ DropInterrupt \/ CmdOut \/ CmdTimeout \/ ReadSector
          \/ FeedSector \/ FeedTimeout \/ SectorWritten \/ ReadInfo \/ AnswerCall

-----------------------------------------------------------------------------
(* The controller.                                                         *)

\* disk_handler(): the interrupt ends the server's RECEIVE, this one or the
\* next, or is recorded while the server goes to sleep.
Interrupt ==
    /\ int' = TRUE
    /\ \/ disk' = [disk EXCEPT !.missed = FALSE]
       \/ /\ disk.pc \in {"receive", "interrupt"} /\ (~int \/ disk.missed)
          /\ disk' = [disk EXCEPT !.missed = TRUE]

SpunUp == /\ drive.st = "busy" /\ drive.fn = "NONE"
          /\ drive' = [drive EXCEPT !.st = "idle"]
          /\ UNCHANGED <<disk, int, medium>>

\* A sector to read, or the identification, lies at the port.
SectorReady == /\ drive.st = "busy" /\ drive.fn \in {"READ", "INFO"}
               /\ drive' = [drive EXCEPT !.st = "data"]
               /\ Interrupt /\ UNCHANGED medium

\* The first sector of a write is asked for without an interrupt.
AsksForData == /\ drive.st = "busy" /\ drive.fn = "WRITE" /\ drive.words = <<>>
               /\ drive' = [drive EXCEPT !.st = "data"]
               /\ UNCHANGED <<disk, int, medium>>

StoresSector ==
    /\ drive.st = "busy" /\ drive.fn = "WRITE" /\ drive.words # <<>>
    /\ medium' = [i \in DOMAIN medium |->
                    IF i \div SECTOR_SIZE = drive.lba
                    THEN drive.words[(i % SECTOR_SIZE) + 1] ELSE medium[i]]
    /\ drive' = [Drained EXCEPT !.words = <<>>,
                                !.st = IF drive.left > 1 THEN "data" ELSE "idle"]
    /\ Interrupt

Controller == /\ SpunUp \/ SectorReady \/ AsksForData \/ StoresSector
              /\ UNCHANGED <<call, mem>>

DiskNext == Server \/ Controller

DiskFairness == WF_diskVars(Server) /\ WF_diskVars(Controller)

-----------------------------------------------------------------------------
(* Properties.                                                             *)

\* The sector of the medium that the server moves next.
SectorDue == disk.head - disk.count

\* An interrupt that the server acts on is the one for the sector it is about
\* to move, although has_int_msg only says that there was one: interrupt_wait()
\* is not ended by an older one, and no two are merged.  After a time-out of
\* waitfor() in the same request the sector may belong to a command that an
\* earlier request gave up.
InterruptMeansSector ==
    Interrupted /\ ~disk.late =>
       IF call.fn = "WRITE"
       THEN /\ drive.lba = SectorDue + 1
            /\ UnitsOf(medium, SectorDue * SECTOR_SIZE, SECTOR_SIZE)
                  = UnitsOf(mem[call.area], disk.off, SECTOR_SIZE)
       ELSE /\ drive.st = "data" /\ drive.fn = call.fn
            /\ call.fn = "READ" => drive.lba = SectorDue

\* disk_read() and disk_info() change nothing outside the bytes they were
\* asked for, though the drive gives them whole sectors.
KeepsToBuffer ==
    [][\A a \in DOMAIN mem : \A i \in DOMAIN mem[a] :
          mem'[a][i] # mem[a][i] =>
             a = call.area /\ i \in call.off .. call.off + call.count - 1]_mem

\* The server waits for an interrupt that cannot come: a command that was not
\* written because waitfor() timed out, less than a sector written, or an
\* interrupt that came while the server was going to sleep.
NeverInterrupted ==
    \/ disk.late
    \/ disk.pc = "interrupt" /\ disk.missed
    \/ call # NoCall /\ call.fn = "WRITE" /\ call.count % SECTOR_SIZE # 0

\* Every request is answered, unless the server waits for an interrupt that
\* cannot come.
CallsAnswered == call # NoCall ~> (call = NoCall \/ NeverInterrupted)
=============================================================================
