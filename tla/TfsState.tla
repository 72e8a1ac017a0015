------------------------------ MODULE TfsState ------------------------------
(***************************************************************************)
(* fs/state.c: the tables of TecnicoFS and the functions that search and   *)
(* update them.  Each function runs inside one critical section of its     *)
(* table (freeinode_ts_lock, an inode lock, the directory's lock,          *)
(* free_blocks_mutex), so it is one step: an operator that gives the       *)
(* table's next value.  Which thread runs which function, and when, is     *)
(* the business of module TecnicoFS.                                       *)
(*                                                                         *)
(* The root directory (inode 0, block 0) exists from tfs_init on and never *)
(* changes hands: inodes and blocks are numbered from 1 here.              *)
(***************************************************************************)
EXTENDS Integers, FiniteSets, FiniteSetsExt

CONSTANTS
    Names,          \* the valid path names
    InodeCount,     \* max_inode_count, without the root
    BlockCount,     \* max_block_count, without the root's
    MaxOpenFiles,   \* max_open_files_count
    DirEntries,     \* MAX_DIR_ENTRIES
    BlockSize,      \* block_size
    NULL            \* the zeroed name, and "no thread"

ASSUME SizesAssumption ==
    /\ {InodeCount, BlockCount, MaxOpenFiles, DirEntries, BlockSize} \subseteq Nat \ {0}
    /\ NULL \notin Names

VARIABLES
    inode_table,          \* type, size, data block and hard links of each inode
    freeinode_ts,         \* the inumbers that are TAKEN
    dir,                  \* the root directory's entries
    free_blocks,          \* the block numbers that are TAKEN
    fs_data,              \* fs_data[b]: the path name stored in b, NULL for other data
    open_file_table,      \* inumber and offset of each open file entry
    free_open_file_entries \* the handles that are TAKEN

Inums == 1 .. InodeCount
Blocks == 1 .. BlockCount
Handles == 0 .. MaxOpenFiles - 1
Entries == 0 .. DirEntries - 1

T_FILE == "T_FILE"
T_SYM_LINK == "T_SYM_LINK"

Inode == [i_node_type : {T_FILE, T_SYM_LINK}, i_size : 0 .. BlockSize,
          i_data_block : Blocks \cup {-1}, i_hard_links : Nat]

-----------------------------------------------------------------------------
(* Inodes.  inode_alloc and data_block_alloc take the first free number.    *)

FreeInums == Inums \ freeinode_ts
FreeBlocks == Blocks \ free_blocks

\* What inode_create leaves in a new inode of a given type.
NewInode(type) ==
    [i_node_type |-> type, i_size |-> 0, i_data_block |-> -1, i_hard_links |-> 1]

\* What inode_delete leaves behind; the data block goes back only if there is
\* some data in it.
inode_delete(i) ==
    /\ free_blocks' = IF inode_table[i].i_size > 0
                      THEN free_blocks \ {inode_table[i].i_data_block}
                      ELSE free_blocks
    /\ inode_table' = [inode_table EXCEPT ![i].i_size = 0,
                                          ![i].i_data_block = -1,
                                          ![i].i_hard_links = 1]
    /\ freeinode_ts' = freeinode_ts \ {i}

-----------------------------------------------------------------------------
(* The root directory.  An entry is free when its d_inumber is -1; what its *)
(* d_name then holds is whatever was there.                                 *)

Live == {e \in Entries : dir[e].d_inumber # -1}

find_in_dir(name) ==
    LET match == {e \in Live : dir[e].d_name = name}
    IN  IF match = {} THEN -1 ELSE dir[Min(match)].d_inumber

\* Mutant: the search for an entry with the same name is lost.
CanAdd_NoSearch(name) == Live # Entries

CanAdd(name) == Live # Entries /\ \A e \in Live : dir[e].d_name # name

\* Mutant: the last free entry is filled.
add_dir_entry_Last(name, i) ==
    [dir EXCEPT ![Max(Entries \ Live)] = [d_name |-> name, d_inumber |-> i]]

\* The first free entry is filled.
add_dir_entry(name, i) ==
    [dir EXCEPT ![Min(Entries \ Live)] = [d_name |-> name, d_inumber |-> i]]

\* The entries clear_dir_entry may stop at: it compares names only.
Matching(name) == {e \in Entries : dir[e].d_name = name}

clear_dir_entry(name) ==
    [dir EXCEPT ![Min(Matching(name))] = [d_name |-> NULL, d_inumber |-> -1]]

-----------------------------------------------------------------------------
(* The open file table                                                     *)

is_file_open(i, handles) == \E h \in handles : open_file_table[h].of_inumber = i

\* Mutant: a file goes although it is open.
LastUse_IgnoreOpen(i, links, handles) == links = 0

\* Mutant: a file that is not open goes although it has links.
LastUse_IgnoreLinks(i, links, handles) == ~is_file_open(i, handles)

\* The test of tfs_unlink and of remove_from_open_file_table.
LastUse(i, links, handles) == links = 0 /\ ~is_file_open(i, handles)

FreeHandles == Handles \ free_open_file_entries

\* Mutant: a write may run past the end of the block.
WriteEnd_NoLimit(h, n) ==
    Min({open_file_table[h].of_offset, inode_table[open_file_table[h].of_inumber].i_size}) + n

\* The offset after the check that a truncation may have made necessary.
Clamped(h) ==
    Min({open_file_table[h].of_offset, inode_table[open_file_table[h].of_inumber].i_size})

\* Where a write of n bytes ends: a file is at most one block long.
WriteEnd(h, n) == Min({Clamped(h) + n, BlockSize})

\* A write of n bytes at handle h that finds room to write at least one.
\* Without a block to write to it fails, and only the offset was corrected.
write_to_open_file(h, n) ==
    LET i == open_file_table[h].of_inumber
        size == inode_table[i].i_size
        end == WriteEnd(h, n)
        written == end > Clamped(h)
        full == written /\ size = 0 /\ free_blocks = Blocks
        block == IF size > 0 THEN inode_table[i].i_data_block
                 ELSE Min(FreeBlocks)
    IN  IF written /\ ~full
        THEN /\ inode_table' = [inode_table EXCEPT ![i].i_data_block = block,
                                                   ![i].i_size = Max({size, end})]
             /\ free_blocks' = free_blocks \cup {block}
             /\ fs_data' = [fs_data EXCEPT ![block] = NULL]
             /\ open_file_table' = [open_file_table EXCEPT ![h].of_offset = end]
        ELSE /\ open_file_table' = [open_file_table EXCEPT ![h].of_offset = Clamped(h)]
             /\ UNCHANGED <<inode_table, free_blocks, fs_data>>

read_from_open_file(h, n) ==
    LET i == open_file_table[h].of_inumber
        end == Min({Clamped(h) + n, inode_table[i].i_size})
    IN  open_file_table' = [open_file_table EXCEPT ![h].of_offset = end]

-----------------------------------------------------------------------------

\* What state_init and the root of tfs_init leave.  The tables come from malloc: only
\* the allocation states and the root's d_inumber fields are set, so the entries'
\* names are anything.  An inode is always written before it is read.
NewInodeTable == [i \in Inums |-> NewInode(T_FILE)]
NewDirs(junk) == [Entries -> [d_name : junk, d_inumber : {-1}]]
NewData == [b \in Blocks |-> NULL]
NewOpenFileTable == [h \in Handles |-> [of_inumber |-> 1, of_offset |-> 0]]

StateInit(junk) ==
    /\ inode_table = NewInodeTable
    /\ freeinode_ts = {}
    /\ dir \in NewDirs(junk)
    /\ free_blocks = {}
    /\ fs_data = NewData
    /\ open_file_table = NewOpenFileTable
    /\ free_open_file_entries = {}

\* state_destroy, and state_init again.
StateReset(junk) ==
    /\ inode_table' = NewInodeTable
    /\ freeinode_ts' = {}
    /\ dir' \in NewDirs(junk)
    /\ free_blocks' = {}
    /\ fs_data' = NewData
    /\ open_file_table' = NewOpenFileTable
    /\ free_open_file_entries' = {}
=============================================================================
