----------------------------- MODULE FileSystem -----------------------------
(***************************************************************************)
(* The file system server (filesystem.c) over the disk server, with its    *)
(* clients: the terminal's commands root, cd and open, and the memory      *)
(* server's read_elf().  A client waits for the answer and there is one    *)
(* terminal, so requests come one at a time.                               *)
(*                                                                         *)
(* The unit of Disk is here what one directory entry, inode, group         *)
(* descriptor or block number takes; a block has BLOCK_SIZE of them.       *)
(***************************************************************************)
EXTENDS Disk

CONSTANTS NDIRECT,      \* direct block numbers of an inode (12)
          DIRET_BUF_SIZE, MM_BLOCK_SIZE,
          MaxEntries,   \* entries FS_search_file() looks at (20)
          MaxListed,    \* entries terminal_ls() looks at (10)
          Names,        \* what the user types after cd and open
          Requests,     \* the requests the clients make
          OtherCalls,   \* requests other than the file system's to the disk
          NoAsk

BLOCK_SIZE == 2 * SECTOR_SIZE

-----------------------------------------------------------------------------
(* The medium the system comes with: an ext2 file system whose groups are  *)
(* full, and buffers as large as what is read into them.                   *)

\* What other processes write.
Written == {i \in DOMAIN Medium :
               \E c \in OtherCalls :
                  /\ c.fn = "WRITE"
                  /\ i \div SECTOR_SIZE \in c.head .. c.head + Sectors(c.count) - 1}

Lasting == DOMAIN Medium \ Written

LastingBlock(b) == b \in Nat /\ \A k \in 0 .. BLOCK_SIZE - 1 : b * BLOCK_SIZE + k \in Lasting

DiskSuper == Medium[BLOCK_SIZE]
DiskGroup(i) == Medium[2 * BLOCK_SIZE + i]
DiskGroups == DiskSuper.blocks_count \div DiskSuper.blocks_per_group

\* The inode with the number n + 1.
TableUnit(n) == Medium[DiskGroup(n \div DiskSuper.inodes_per_group).inode_table * BLOCK_SIZE
                         + (n % DiskSuper.inodes_per_group)]

\* The number of block b of a file.
DiskNumber(inode, b) ==
    IF b < NDIRECT THEN inode.blocks[b + 1]
    ELSE Medium[inode.blocks[NDIRECT + 1] * BLOCK_SIZE + (b - NDIRECT)].block

WholeInode(u) ==
    /\ {"size", "blocks"} \subseteq DOMAIN u /\ u.size \in Nat
    /\ NDIRECT * BLOCK_SIZE < u.size =>
          /\ LastingBlock(u.blocks[NDIRECT + 1])
          /\ \A k \in 0 .. BLOCK_SIZE - 1 :
                (NDIRECT + k) * BLOCK_SIZE < u.size =>
                   "block" \in DOMAIN Medium[u.blocks[NDIRECT + 1] * BLOCK_SIZE + k]
    /\ \A b \in 0 .. NDIRECT + BLOCK_SIZE - 1 :
          b * BLOCK_SIZE < u.size => LastingBlock(DiskNumber(u, b))

WholeEntry(u) ==
    "rec_len" \in DOMAIN u =>
       /\ {"inode", "name", "type", "ends"} \subseteq DOMAIN u /\ u.rec_len \in Nat
       /\ u.type \in {"DIR", "REG"} => u.inode \in Nat \ {0}

ASSUME FilesAssumption ==
    /\ NDIRECT \in Nat /\ DIRET_BUF_SIZE \in Nat /\ MM_BLOCK_SIZE \in Nat
    /\ MaxEntries \in Nat
    /\ NoCall \notin Calls
    /\ LastingBlock(1) /\ LastingBlock(2)
    /\ DiskSuper.blocks_count \in Nat /\ DiskSuper.blocks_per_group \in Nat \ {0}
    /\ DiskSuper.inodes_per_group \in Nat \ {0}
    /\ DiskSuper.inodes_count \in 3 .. DiskGroups * DiskSuper.inodes_per_group
    /\ DiskGroups <= BLOCK_SIZE
    /\ \A i \in 0 .. DiskGroups - 1 :
          /\ DiskGroup(i).block_bitmap \in Nat /\ DiskGroup(i).inode_bitmap \in Nat
          /\ DiskGroup(i).inode_table \in Nat
          /\ \A k \in 0 .. DiskSuper.inodes_per_group - 1 :
                DiskGroup(i).inode_table * BLOCK_SIZE + k \in Lasting
    /\ \A n \in 0 .. DiskSuper.inodes_count - 2 : WholeInode(TableUnit(n))
    /\ \A i \in Lasting : WholeEntry(Medium[i])
    /\ \A c \in OtherCalls :
          /\ c \in Calls /\ c.area = "other"
          /\ c.fn = "WRITE" =>
                c.head * SECTOR_SIZE .. c.head * SECTOR_SIZE + c.count - 1 \subseteq DOMAIN Medium
    /\ {"bitmaps", "other"} \subseteq DOMAIN Memory
    /\ \A i \in 0 .. BLOCK_SIZE - 1 : \A a \in {"superblock", "groups", "index"} :
          a \in DOMAIN Memory /\ i \in DOMAIN Memory[a]
    /\ "inode_table" \in DOMAIN Memory
    /\ 0 .. DiskGroups * DiskSuper.inodes_per_group - 1 \subseteq DOMAIN Memory["inode_table"]
    /\ {"directory_buffer", "MM_buffer"} \subseteq DOMAIN Memory
    /\ 0 .. DIRET_BUF_SIZE - 1 \subseteq DOMAIN Memory["directory_buffer"]
    /\ 0 .. MM_BLOCK_SIZE - 1 \subseteq DOMAIN Memory["MM_buffer"]
    /\ \A i \in 0 .. DIRET_BUF_SIZE - 1 :
          "rec_len" \notin DOMAIN Memory["directory_buffer"][i]

-----------------------------------------------------------------------------

VARIABLES fs,          \* FS_server(), FS_init() and the locals of FS_read_file()
          ask,         \* the request not answered yet, or NoAsk
          root,        \* FS_root_inode
          inodes       \* the inodes the clients' descriptors point to

fsVars == <<fs, ask, root, inodes>>
vars == <<fsVars, diskVars>>

\* Memory never written.
NoInode == [size |-> 0, blocks |-> <<>>]

Init == /\ DiskInit
        /\ fs = [pc |-> "init", step |-> 0, left |-> 0, off |-> 0, block |-> 0,
                 indirect |-> FALSE, result |-> 0, then |-> "answer"]
        /\ ask = NoAsk
        /\ root = NoInode
        /\ inodes = [f \in {"directory_fd", "file_fd"} |-> NoInode]

\* Memory read as the structure it is used as; a unit that is something else
\* is neither a file nor a directory.
AsEntry(u) == IF "rec_len" \in DOMAIN u THEN u
              ELSE [inode |-> 0, name |-> "", type |-> "none", rec_len |-> 1, ends |-> TRUE]
AsInode(u) == IF "blocks" \in DOMAIN u THEN u ELSE NoInode

B2S(block) == block * 2

\* FS_read_disk() sends the request; the caller goes on when it is answered.
FS_read_disk(block, area, off, count) ==
    call' = [fn |-> "READ", head |-> B2S(block), count |-> count, area |-> area, off |-> off]

-----------------------------------------------------------------------------
(* FS_init()                                                               *)

Super == mem["superblock"][0]

\* A last group that is not full is not counted.
GroupCount == Super.blocks_count \div Super.blocks_per_group

\* The reads of FS_init(): superblock, descriptors, and per group two bitmaps
\* and the inode table.
InitRead(step) ==
    IF step = 0 THEN FS_read_disk(1, "superblock", 0, BLOCK_SIZE)
    ELSE IF step = 1 THEN FS_read_disk(2, "groups", 0, BLOCK_SIZE)
    ELSE LET i == (step - 2) \div 3
             group == mem["groups"][i]
         IN  \/ /\ step % 3 = 2
                /\ FS_read_disk(group.block_bitmap, "bitmaps", 2 * i * BLOCK_SIZE, BLOCK_SIZE)
             \/ /\ step % 3 = 0
                /\ FS_read_disk(group.inode_bitmap, "bitmaps", (2 * i + 1) * BLOCK_SIZE,
                                BLOCK_SIZE)
             \/ /\ step % 3 = 1
                /\ FS_read_disk(group.inode_table, "inode_table",
                                i * Super.inodes_per_group, Super.inodes_per_group)

\* Mutant: inodes are numbered from 0.
InodeFromZero(n, old) ==
    IF n >= Super.inodes_count THEN old ELSE AsInode(mem["inode_table"][n])

\* FS_get_inode(): the last inode counts as out of range, and what the
\* descriptor held stays.
FS_get_inode(n, old) ==
    IF n >= Super.inodes_count THEN old ELSE AsInode(mem["inode_table"][n - 1])

ROOT_INODE_INDEX == 2

InitReads == IF fs.step < 2 THEN 2 ELSE 2 + 3 * GroupCount

FS_init ==
    /\ fs.pc = "init" /\ call = NoCall
    /\ \/ /\ fs.step < InitReads
          /\ InitRead(fs.step)
          /\ fs' = [fs EXCEPT !.step = @ + 1]
          /\ UNCHANGED root
       \/ /\ fs.step = InitReads
          /\ root' = FS_get_inode(ROOT_INODE_INDEX, root)
          /\ fs' = [fs EXCEPT !.pc = "receive"]
          /\ UNCHANGED call
    /\ UNCHANGED <<ask, inodes, disk, int, drive, medium, mem>>

-----------------------------------------------------------------------------
(* FS_read_file()                                                          *)

\* Its first part: how much is read of the inode; `then' is where the server
\* goes on afterwards.
StartRead(inode, then) ==
    LET more == inode.size > ask.count
    IN  fs' = [fs EXCEPT !.pc = "read", !.then = then,
                         !.block = 0, !.indirect = FALSE, !.off = 0,
                         !.left = IF more THEN ask.count ELSE inode.size,
                         !.result = IF more THEN 1 ELSE 0]

Inode == inodes[ask.fd]

\* What is read of one block.
Chunk(left) == Least(left, BLOCK_SIZE)

ReadBlock(number) ==
    /\ FS_read_disk(number, ask.area, fs.off, Chunk(fs.left))
    /\ fs' = [fs EXCEPT !.left = @ - Chunk(fs.left), !.off = @ + Chunk(fs.left),
                        !.block = @ + 1]

\* Mutant: the block counter goes on from the direct blocks.
IndirectGoesOn(b) == LET u == mem["index"][(b + NDIRECT) % BLOCK_SIZE]
                     IN  IF "block" \in DOMAIN u THEN u.block ELSE 0

\* The number of block b of the indirect block in memory.
Indirect(b) == LET u == mem["index"][b] IN IF "block" \in DOMAIN u THEN u.block ELSE 0

\* The bytes that cannot be reached through these blocks are left out.
ReadEnds == \/ fs.left = 0
            \/ fs.indirect /\ fs.block = BLOCK_SIZE

FS_read_file ==
    /\ fs.pc = "read" /\ call = NoCall
    /\ \/ /\ fs.left > 0 /\ ~fs.indirect /\ fs.block < NDIRECT
          /\ ReadBlock(Inode.blocks[fs.block + 1])
       \/ /\ fs.left > 0 /\ ~fs.indirect /\ fs.block = NDIRECT
          /\ FS_read_disk(Inode.blocks[NDIRECT + 1], "index", 0, BLOCK_SIZE)
          /\ fs' = [fs EXCEPT !.indirect = TRUE, !.block = 0]
       \/ /\ fs.left > 0 /\ fs.indirect /\ fs.block < BLOCK_SIZE
          /\ ReadBlock(Indirect(fs.block))
       \/ /\ ReadEnds
          /\ fs' = [fs EXCEPT !.pc = fs.then]
          /\ UNCHANGED call
    /\ UNCHANGED <<ask, root, inodes, disk, int, drive, medium, mem>>

-----------------------------------------------------------------------------
(* FS_search_file()                                                        *)

\* The entries of units 0 .. limit - 1, at most max of them.
Entries(units, limit, max) ==
    LET at[k \in 0 .. max] ==
            IF k = 0 THEN 0 ELSE IF at[k - 1] >= limit THEN limit
            ELSE at[k - 1] + AsEntry(units[at[k - 1]]).rec_len
    IN  {AsEntry(units[at[k]]) : k \in {j \in 0 .. max - 1 : at[j] < limit}}

\* The entry of the client's buffer that has the type and the name.  A name
\* that fills its record has no 0 behind it, and strcmp() reads on.
Found(type) ==
    {e \in Entries(mem[ask.area], ask.count, MaxEntries) :
        e.type = type /\ e.name = ask.name /\ e.ends}

\* A hit: the inode is copied and the file read.
OpenEntry(e, then) ==
    LET inode == FS_get_inode(e.inode, Inode)
    IN  /\ inodes' = [inodes EXCEPT ![ask.fd] = inode]
        /\ StartRead(inode, then)

\* No hit: the next pc.
NotFound(pc) == fs' = [fs EXCEPT !.pc = pc, !.result = 0] /\ UNCHANGED inodes

-----------------------------------------------------------------------------
(* FS_server()                                                             *)

Serves(fn) == fs.pc = "receive" /\ ask # NoAsk /\ ask.fn = fn

GetRoot == /\ Serves("ROOT")
           /\ inodes' = [inodes EXCEPT ![ask.fd] = root]
           /\ StartRead(root, "answer")

ReadFile == /\ Serves("READ")
            /\ StartRead(Inode, "answer")
            /\ UNCHANGED inodes

\* There is no break: FS_CD goes on with FS_OPENFILE.
ChangeDir == /\ Serves("CD")
             /\ \/ \E e \in Found("DIR") : OpenEntry(e, "open")
                \/ Found("DIR") = {} /\ NotFound("open")

OpenFile == /\ Serves("OPENFILE") \/ fs.pc = "open"
            /\ \/ \E e \in Found("REG") : OpenEntry(e, "answer")
               \/ Found("REG") = {} /\ NotFound("answer")

Handle == /\ GetRoot \/ ReadFile \/ ChangeDir \/ OpenFile
          /\ UNCHANGED <<ask, root, diskVars>>

Answer == /\ fs.pc = "answer"
          /\ ask' = NoAsk
          /\ fs' = [fs EXCEPT !.pc = "receive"]
          /\ UNCHANGED <<root, inodes, diskVars>>

-----------------------------------------------------------------------------
(* The clients.                                                            *)

FsAsk(fn, fd, area, count, name) ==
    ask' = [fn |-> fn, fd |-> fd, area |-> area, count |-> count, name |-> name]

terminal_root == FsAsk("ROOT", "directory_fd", "directory_buffer", DIRET_BUF_SIZE, "")

terminal_cd(name) ==
    FsAsk("CD", "directory_fd", "directory_buffer", DIRET_BUF_SIZE, name)

\* The file is read into the directory's buffer.
terminal_open(name) ==
    FsAsk("OPENFILE", "file_fd", "directory_buffer", DIRET_BUF_SIZE, name)

\* terminal_run() hands its file's inode to the memory server.
read_elf == FsAsk("READ", "file_fd", "MM_buffer", MM_BLOCK_SIZE, "")

Client ==
    /\ ask = NoAsk
    /\ medium = Medium /\ mem["other"] = Memory["other"]
    /\ \/ "root" \in Requests /\ terminal_root
       \/ "cd" \in Requests /\ \E n \in Names : terminal_cd(n)
       \/ "open" \in Requests /\ \E n \in Names : terminal_open(n)
       \/ "run" \in Requests /\ read_elf
    /\ UNCHANGED <<fs, root, inodes, diskVars>>

\* FS_write_disk() and the other functions of the disk server, which nothing
\* calls yet.  Bound: they come before the clients' requests, and the clients
\* stop when they have changed something.
OtherCall ==
    /\ fs.pc = "receive" /\ ask = NoAsk /\ call = NoCall
    /\ inodes["directory_fd"] = NoInode
    /\ call' \in OtherCalls
    /\ UNCHANGED <<fsVars, disk, int, drive, medium, mem>>

Next == \/ FS_init \/ FS_read_file \/ Handle \/ Answer \/ Client \/ OtherCall
        \/ DiskNext /\ UNCHANGED fsVars

FsStep == FS_init \/ FS_read_file \/ Handle \/ Answer

\* The servers run whenever they can, and the drive becomes ready in the end.
Spec == /\ Init /\ [][Next]_vars
        /\ WF_vars(FsStep)
        /\ WF_vars(Server /\ UNCHANGED fsVars)
        /\ WF_vars(Controller /\ UNCHANGED fsVars)

-----------------------------------------------------------------------------
(* What the medium says.                                                   *)

UnitAt(block, i) == medium[block * BLOCK_SIZE + i]

\* Unit i of a file, and how much of a file direct and singly indirect blocks
\* reach.
FileUnit(inode, i) ==
    LET b == i \div BLOCK_SIZE
    IN  UnitAt(IF b < NDIRECT THEN inode.blocks[b + 1]
               ELSE UnitAt(inode.blocks[NDIRECT + 1], b - NDIRECT).block,
               i % BLOCK_SIZE)

Reach == (NDIRECT + BLOCK_SIZE) * BLOCK_SIZE

\* The first n units of the area are those of the file.
Holds(area, inode, n) ==
    \A i \in 0 .. Least(Least(n, inode.size), Reach) - 1 :
        mem[area][i] = FileUnit(inode, i)

\* The inode that the tables on the medium have under a number.
DiskInode(n) ==
    LET super == UnitAt(1, 0)
        group == UnitAt(2, (n - 1) \div super.inodes_per_group)
    IN  UnitAt(group.inode_table, (n - 1) % super.inodes_per_group)

(* Properties.                                                             *)

\* When the server is done reading, the buffer begins with the bytes of the
\* file, up to the size of the file, what was asked for and what the block
\* numbers reach: over partial sectors and blocks, commands of limited length
\* and the change from direct to indirect blocks.
ReadDelivers ==
    fs.pc = "read" /\ call = NoCall /\ ReadEnds => Holds(ask.area, Inode, ask.count)

\* A descriptor only ever gets the inode that the medium has under a number
\* some entry of the asked name has, of a regular file in the case of open;
\* FS_ROOT yields the root.  The numbers go through the tables FS_init() loaded
\* group by group.
OpensNamed ==
    [][\A f \in DOMAIN inodes : inodes'[f] # inodes[f] =>
         \/ ask.fn = "ROOT" /\ inodes'[f] = DiskInode(ROOT_INODE_INDEX)
         \/ ask.fn # "ROOT" /\ \E e \in {AsEntry(medium[i]) : i \in DOMAIN medium} :
               /\ e.name = ask.name /\ inodes'[f] = DiskInode(e.inode)
               /\ ask.fn = "OPENFILE" => e.type = "REG"]_inodes

\* Every request to either server is answered, unless the disk server waits
\* for an interrupt that cannot come.
Answered ==
    /\ CallsAnswered
    /\ ask # NoAsk ~> (ask = NoAsk \/ NeverInterrupted)

\* terminal_ls(): the names it shows.
terminal_ls ==
    LET size == inodes["directory_fd"].size
    IN  {e.name : e \in {x \in Entries(mem["directory_buffer"],
                                      Least(size, DIRET_BUF_SIZE), MaxListed) :
                        x.type \in {"DIR", "REG"}}}

\* "Show the files in the current directory": the names that ls shows are in
\* the directory that directory_fd stands for.
ListShowsDirectory ==
    LET dir == inodes["directory_fd"]
        units == [i \in 0 .. Least(dir.size, DIRET_BUF_SIZE) - 1 |-> FileUnit(dir, i)]
    IN  ask = NoAsk /\ dir # NoInode =>
          terminal_ls = {e.name : e \in {x \in Entries(units, Least(dir.size, DIRET_BUF_SIZE),
                                                       MaxListed) : x.type \in {"DIR", "REG"}}}
=============================================================================
