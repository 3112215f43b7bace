------------------------------ MODULE MCFiles ------------------------------
(***************************************************************************)
(* A small ext2 medium: sectors of two units, two full block groups of    *)
(* four inodes, a root directory of two blocks, a directory of one, a      *)
(* short file, a file of two direct and four indirect blocks with a        *)
(* partial last sector, and a file that goes on beyond the indirect block. *)
(***************************************************************************)
EXTENDS FileSystem

Data(n) == [data |-> n]
Entry(inode, name, type, len, ends) ==
    [inode |-> inode, name |-> name, type |-> type, rec_len |-> len, ends |-> ends]

MCSector == 2
Block(b) == [i \in 1 .. 4 |-> Data(10 * b + i)]

\* The blocks that hold something other than plain data.
MCBlock(b) ==
    CASE b = 1 -> <<[inodes_count |-> 8, blocks_count |-> 24,
                     blocks_per_group |-> 12, inodes_per_group |-> 4],
                    Junk, Junk, Junk>>
      [] b = 2 -> <<[block_bitmap |-> 3, inode_bitmap |-> 4, inode_table |-> 5],
                    [block_bitmap |-> 6, inode_bitmap |-> 7, inode_table |-> 8],
                    Junk, Junk>>
      [] b = 5 -> <<[size |-> 0, blocks |-> <<0, 0, 0>>],
                    [size |-> 8, blocks |-> <<9, 10, 0>>],
                    [size |-> 3, blocks |-> <<15, 0, 0>>],
                    [size |-> 21, blocks |-> <<12, 13, 14>>]>>
      [] b = 8 -> <<[size |-> 4, blocks |-> <<11, 0, 0>>],
                    [size |-> 26, blocks |-> <<12, 13, 14>>],
                    [size |-> 8, blocks |-> <<17, 18, 0>>],
                    [size |-> 2, blocks |-> <<19, 0, 0>>]>>
      [] b = 9 -> <<Entry(2, "dot", "DIR", 1, TRUE), Entry(5, "sub", "DIR", 1, TRUE),
                    Entry(4, "prog", "REG", 1, TRUE), Entry(3, "four", "REG", 1, FALSE)>>
      [] b = 10 -> <<Entry(6, "big", "REG", 2, TRUE), Junk,
                     Entry(8, "last", "REG", 2, TRUE), Junk>>
      [] b = 11 -> <<Entry(2, "up", "DIR", 1, TRUE), Entry(7, "sub", "REG", 3, TRUE),
                     Junk, Junk>>
      [] b = 14 -> <<[block |-> 15], [block |-> 16], [block |-> 17], [block |-> 18]>>
      [] OTHER -> Block(b)

MCMedium == [i \in 0 .. 95 |-> MCBlock(i \div 4)[(i % 4) + 1]]
MCJunk == [junk |-> 0]
MCInfo == [info |-> 0]
Area(n) == [i \in 0 .. n - 1 |-> MCJunk]
MCMemory == [superblock |-> Area(4), groups |-> Area(4), bitmaps |-> Area(16),
             inode_table |-> Area(8), index |-> Area(4),
             directory_buffer |-> Area(8), MM_buffer |-> Area(28),
             other |-> [i \in 0 .. 7 |-> [other |-> i]]]

\* Writes of three sectors and of one and a half, the drive's identification,
\* and a request that does nothing.
MCOther == {[fn |-> "WRITE", head |-> 40, count |-> 6, area |-> "other", off |-> 1],
            [fn |-> "WRITE", head |-> 44, count |-> 3, area |-> "other", off |-> 0],
            [fn |-> "INFO", head |-> 0, count |-> 1, area |-> "other", off |-> 7],
            [fn |-> "OPEN", head |-> 0, count |-> 0, area |-> "other", off |-> 0]}
MCNames == {"sub", "up", "prog", "four", "big", "last"}
MCAll == {"root", "cd", "open", "run"}
=============================================================================
