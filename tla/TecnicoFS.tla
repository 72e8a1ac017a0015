----------------------------- MODULE TecnicoFS -----------------------------
(***************************************************************************)
(* fs/operations.c, with the open file table functions of fs/state.c: the  *)
(* calls of the file system run by concurrent threads.                     *)
(*                                                                         *)
(* A step is what a thread does between two points where another thread    *)
(* can interfere with it.  The locks that are held across such a point are *)
(* variables: open_mutex, link_lock and free_open_file_entries_mutex.  The *)
(* others (inode locks, freeinode_ts_lock, the directory lock,             *)
(* free_blocks_mutex, a handle's mutex) are taken and released within one  *)
(* step.  What a thread read earlier is in its local variables.            *)
(***************************************************************************)
EXTENDS TfsState

CONSTANTS
    Threads,
    Calls,      \* the calls made: a subset of AllCalls
    Modes,      \* the modes given to tfs_open, subsets of AllFlags
    JunkNames,  \* what an entry of the new root directory may hold as its name
    Lengths,    \* the lengths given to tfs_write and tfs_read
    Sources,    \* the lengths of the files given to tfs_copy_from_external_fs
    MaxCalls    \* bound: calls made in all

AllCalls == {"open", "close", "write", "read", "link", "sym_link", "unlink", "copy", "destroy"}
AllFlags == {"CREAT", "TRUNC", "APPEND"}

ASSUME CallsAssumption ==
    /\ NULL \notin Threads
    /\ Calls \subseteq AllCalls
    /\ Modes \subseteq SUBSET AllFlags
    /\ JunkNames \subseteq Names \cup {NULL}
    /\ Lengths \cup Sources \subseteq Nat
    /\ MaxCalls \in Nat
    /\ IsFiniteSet(Threads)

VARIABLES
    open_mutex,   \* its owner or NULL
    link_rd,      \* the threads that hold link_lock for reading
    link_wr,      \* the thread that holds it for writing, or NULL
    foe_mutex,    \* owner of free_open_file_entries_mutex or NULL
    pc,           \* where each thread is
    loc,          \* the local variables of its call
    held,         \* held[t]: the handles t opened and has not closed
    calls,        \* calls made so far
    panic         \* the ALWAYS_ASSERT that failed, "none" while none did

tables == <<inode_table, freeinode_ts, dir, free_blocks, fs_data>>
files == <<open_file_table, free_open_file_entries, held>>
locks == <<open_mutex, link_rd, link_wr, foe_mutex>>
vars == <<tables, files, locks, pc, loc, calls, panic>>

\* name, mode: the arguments; via: the data block the name is read from when a
\* symbolic link was followed, else -1; other: the second name of a link; fhandle,
\* len: the handle and the length of a read or write, the handle of a close or a copy;
\* left: the bytes a copy has yet to read from its source, -1 in other calls.
NoLocals ==
    [name |-> NULL, other |-> NULL, via |-> -1, mode |-> {}, inum |-> -1, offset |-> 0,
     fhandle |-> -1, len |-> 0, left |-> -1]

Init ==
    /\ StateInit(JunkNames)
    /\ open_mutex = NULL
    /\ link_rd = {}
    /\ link_wr = NULL
    /\ foe_mutex = NULL
    /\ pc = [t \in Threads |-> "idle"]
    /\ loc = [t \in Threads |-> NoLocals]
    /\ held = [t \in Threads |-> {}]
    /\ calls = 0
    /\ panic = "none"

-----------------------------------------------------------------------------
(* Steps of a thread                                                       *)

Goto(t, from, to) ==
    /\ pc[t] = from
    /\ pc' = [pc EXCEPT ![t] = to]

\* The call returns; its locals are gone.
Return(t, from) ==
    /\ Goto(t, from, "idle")
    /\ loc' = [loc EXCEPT ![t] = NoLocals]

Call(op) ==
    /\ op \in Calls
    /\ calls < MaxCalls
    /\ calls' = calls + 1

\* Begins a call that goes on in later steps.
Begin(t, op, to, locals) ==
    /\ Call(op)
    /\ Goto(t, "idle", to)
    /\ loc' = [loc EXCEPT ![t] = locals]
    /\ UNCHANGED <<tables, files, locks, panic>>

Panic(what) ==
    /\ panic' = what
    /\ UNCHANGED <<tables, files, locks, pc, loc, calls>>

\* inode_delete as the last act of a call, in a step that also gives back the
\* locks the call still holds; it insists that the inode is taken.
DeleteAndReturn(t, from, giveBack) ==
    /\ pc[t] = from
    /\ IF loc[t].inum \in freeinode_ts
       THEN /\ inode_delete(loc[t].inum)
            /\ giveBack
            /\ Return(t, from)
            /\ UNCHANGED <<dir, fs_data, files, calls, panic>>
       ELSE Panic("inode_delete: inode already freed")

\* Mutant: link_lock is not given back.
link_rdunlock_Lost(t) == UNCHANGED link_rd

\* rwlock_unlock(&link_lock) by a thread that holds it for reading.
link_rdunlock(t) == link_rd' = link_rd \ {t}

-----------------------------------------------------------------------------
(* tfs_open                                                                *)

CallOpen(t) ==
    \E n \in Names, m \in Modes :
        Begin(t, "open", "o_lookup", [NoLocals EXCEPT !.name = n, !.mode = m])

\* A followed link leaves a pointer into its data block, read when it is used.
Path(t) == IF loc[t].via = -1 THEN loc[t].name ELSE fs_data[loc[t].via]

\* open_mutex is kept only by a call that is going to create the file.
OpenLookup(t) ==
    /\ open_mutex = NULL
    /\ LET i == find_in_dir(Path(t))
       IN  \/ /\ i # -1
              /\ Goto(t, "o_lookup", "o_inode")
              /\ loc' = [loc EXCEPT ![t].inum = i]
              /\ UNCHANGED open_mutex
           \/ /\ i = -1
              /\ "CREAT" \in loc[t].mode /\ Path(t) # NULL
              /\ Goto(t, "o_lookup", "o_alloc")
              /\ open_mutex' = t
              /\ UNCHANGED loc
           \/ /\ i = -1
              /\ "CREAT" \notin loc[t].mode \/ Path(t) = NULL
              /\ Return(t, "o_lookup")
              /\ UNCHANGED open_mutex
    /\ UNCHANGED <<tables, files, link_rd, link_wr, foe_mutex, calls, panic>>

\* Mutant: a truncated file keeps its size.
OpenFile_KeepSize(t) ==
    LET inode == inode_table[loc[t].inum]
    IN  /\ Goto(t, "o_inode", "o_check")
        /\ inode.i_node_type = T_FILE
        /\ free_blocks' = IF "TRUNC" \in loc[t].mode
                          THEN free_blocks \ {inode.i_data_block} ELSE free_blocks
        /\ UNCHANGED <<inode_table, freeinode_ts, dir, fs_data, files, locks, loc, calls, panic>>

\* The file was found: its inode is read, and truncated, under the inode lock.
OpenFile(t) ==
    LET inode == inode_table[loc[t].inum]
        size == IF "TRUNC" \in loc[t].mode THEN 0 ELSE inode.i_size
    IN  /\ Goto(t, "o_inode", "o_check")
        /\ inode.i_node_type = T_FILE
        /\ free_blocks' = IF size < inode.i_size
                          THEN free_blocks \ {inode.i_data_block} ELSE free_blocks
        /\ inode_table' = [inode_table EXCEPT ![loc[t].inum].i_size = size]
        /\ loc' = [loc EXCEPT ![t].offset = IF "APPEND" \in loc[t].mode THEN size ELSE 0]
        /\ UNCHANGED <<freeinode_ts, dir, fs_data, files, locks, calls, panic>>

\* A symbolic link is followed by opening the path in its data block.
OpenSymLink(t) ==
    LET inode == inode_table[loc[t].inum]
    IN  /\ pc[t] = "o_inode"
        /\ inode.i_node_type = T_SYM_LINK
        /\ IF inode.i_data_block = -1
           THEN Panic("data_block_get: invalid block number")
           ELSE /\ Goto(t, "o_inode", "o_lookup")
                /\ loc' = [loc EXCEPT ![t].via = inode.i_data_block, ![t].inum = -1]
                /\ UNCHANGED <<tables, files, locks, calls, panic>>

OpenAlloc(t) ==
    /\ \/ /\ FreeInums = {}
          /\ Return(t, "o_alloc")
          /\ open_mutex' = NULL
          /\ UNCHANGED freeinode_ts
       \/ /\ FreeInums # {}
          /\ Goto(t, "o_alloc", "o_init")
          /\ freeinode_ts' = freeinode_ts \cup {Min(FreeInums)}
          /\ loc' = [loc EXCEPT ![t].inum = Min(FreeInums)]
          /\ UNCHANGED open_mutex
    /\ UNCHANGED <<inode_table, dir, free_blocks, fs_data, files,
                   link_rd, link_wr, foe_mutex, calls, panic>>

\* inode_create fills the inode in without its lock.
OpenInit(t) ==
    /\ Goto(t, "o_init", "o_entry")
    /\ inode_table' = [inode_table EXCEPT ![loc[t].inum] = NewInode(T_FILE)]
    /\ UNCHANGED <<freeinode_ts, dir, free_blocks, fs_data, files, locks, loc, calls, panic>>

OpenEntry(t) ==
    /\ \/ /\ CanAdd(Path(t))
          /\ Goto(t, "o_entry", "o_check")
          /\ dir' = add_dir_entry(Path(t), loc[t].inum)
       \/ /\ ~CanAdd(Path(t))
          /\ Goto(t, "o_entry", "o_undo")
          /\ UNCHANGED dir
    /\ open_mutex' = NULL
    /\ UNCHANGED <<inode_table, freeinode_ts, free_blocks, fs_data, files,
                   link_rd, link_wr, foe_mutex, loc, calls, panic>>

OpenUndo(t) == DeleteAndReturn(t, "o_undo", UNCHANGED locks)

\* add_to_open_file_table looks at freeinode_ts without any lock ...
OpenCheck(t) ==
    /\ \/ /\ loc[t].inum \notin freeinode_ts
          /\ Return(t, "o_check")
       \/ /\ loc[t].inum \in freeinode_ts
          /\ Goto(t, "o_check", "o_table")
          /\ UNCHANGED loc
    /\ UNCHANGED <<tables, files, locks, calls, panic>>

\* ... and then takes the first free handle under free_open_file_entries_mutex, for
\* the caller or for the copy that goes on with it.
OpenTable(t) ==
    /\ foe_mutex = NULL
    /\ \/ /\ FreeHandles = {}
          /\ Return(t, "o_table")
          /\ UNCHANGED files
       \/ /\ FreeHandles # {}
          /\ LET h == Min(FreeHandles)
             IN  /\ free_open_file_entries' = free_open_file_entries \cup {h}
                 /\ open_file_table' = [open_file_table EXCEPT
                        ![h] = [of_inumber |-> loc[t].inum, of_offset |-> loc[t].offset]]
                 /\ \/ /\ loc[t].left = -1
                       /\ Return(t, "o_table")
                       /\ held' = [held EXCEPT ![t] = @ \cup {h}]
                    \/ /\ loc[t].left # -1
                       /\ Goto(t, "o_table", "x_write")
                       /\ loc' = [loc EXCEPT ![t].fhandle = h]
                       /\ UNCHANGED held
    /\ UNCHANGED <<tables, locks, calls, panic>>

tfs_open(t) ==
    \/ OpenLookup(t) \/ OpenFile(t) \/ OpenSymLink(t) \/ OpenAlloc(t) \/ OpenInit(t)
    \/ OpenEntry(t)  \/ OpenUndo(t) \/ OpenCheck(t)   \/ OpenTable(t)

-----------------------------------------------------------------------------
(* tfs_close, tfs_write, tfs_read.  A thread closes the handles it opened,  *)
(* each of them once; any thread may read or write through an open handle,  *)
(* which another thread may close meanwhile.                               *)

\* Mutant: the last close does not delete an unlinked file.
tfs_close_NoDelete(t) ==
    /\ Call("close")
    /\ pc[t] = "idle"
    /\ foe_mutex = NULL
    /\ \E h \in held[t] :
         /\ free_open_file_entries' = free_open_file_entries \ {h}
         /\ held' = [held EXCEPT ![t] = @ \ {h}]
    /\ UNCHANGED <<tables, open_file_table, locks, pc, loc, panic>>

\* Mutant: free_open_file_entries_mutex is given back before the deletion.
remove_from_open_file_table_Unlock(t, from, h) ==
    LET i == open_file_table[h].of_inumber
        others == free_open_file_entries \ {h}
    IN  /\ pc[t] = from /\ foe_mutex = NULL /\ i \in freeinode_ts
        /\ free_open_file_entries' = others
        /\ IF LastUse(i, inode_table[i].i_hard_links, others)
           THEN /\ Goto(t, from, "c_delete")
                /\ loc' = [loc EXCEPT ![t].inum = i, ![t].fhandle = h]
           ELSE Return(t, from)
        /\ UNCHANGED <<tables, open_file_table, locks, panic>>

\* remove_from_open_file_table: the last close of an unlinked file deletes it.
remove_from_open_file_table(t, from, h) ==
    LET i == open_file_table[h].of_inumber
        others == free_open_file_entries \ {h}
    IN  /\ pc[t] = from
        /\ foe_mutex = NULL
        /\ IF i \notin freeinode_ts
           THEN /\ panic' = "remove_from_open_file_table: file content deleted before closing"
                /\ UNCHANGED <<free_open_file_entries, foe_mutex, pc, loc>>
           ELSE /\ free_open_file_entries' = others
                /\ IF LastUse(i, inode_table[i].i_hard_links, others)
                   THEN /\ Goto(t, from, "c_delete")
                        /\ loc' = [loc EXCEPT ![t].inum = i, ![t].fhandle = h]
                        /\ foe_mutex' = t
                   ELSE /\ Return(t, from)
                        /\ UNCHANGED foe_mutex
                /\ UNCHANGED panic
        /\ UNCHANGED <<tables, open_file_table, open_mutex, link_rd, link_wr>>

tfs_close(t) ==
    /\ Call("close")
    /\ \E h \in held[t] :
         /\ remove_from_open_file_table(t, "idle", h)
         /\ held' = [held EXCEPT ![t] = @ \ {h}]

CloseDelete(t) ==
    DeleteAndReturn(t, "c_delete", foe_mutex' = NULL /\ UNCHANGED <<open_mutex, link_rd, link_wr>>)

\* get_open_file_entry sees without a lock that the handle is taken; the entry is
\* locked and used later, when it may be closed or another file's.
get_open_file_entry(t, op, to) ==
    \E h \in free_open_file_entries, n \in Lengths :
        Begin(t, op, to, [NoLocals EXCEPT !.fhandle = h, !.len = n])

\* The entry's own mutex, which tfs_close keeps while it deletes the file.
EntryFree(h) == \A u \in Threads : pc[u] = "c_delete" => loc[u].fhandle # h

tfs_write(t) ==
    /\ Return(t, "w_entry")
    /\ EntryFree(loc[t].fhandle)
    /\ write_to_open_file(loc[t].fhandle, loc[t].len)
    /\ UNCHANGED <<freeinode_ts, dir, free_open_file_entries, held, locks, calls, panic>>

tfs_read(t) ==
    /\ Return(t, "r_entry")
    /\ EntryFree(loc[t].fhandle)
    /\ read_from_open_file(loc[t].fhandle, loc[t].len)
    /\ UNCHANGED <<tables, free_open_file_entries, held, locks, calls, panic>>

-----------------------------------------------------------------------------
(* tfs_copy_from_external_fs.  After tfs_open it writes the source a block   *)
(* at a time; the handle is nobody else's.                                 *)

CallCopy(t) ==
    \E n \in Names, k \in Sources :
        Begin(t, "copy", "o_lookup",
              [NoLocals EXCEPT !.name = n, !.mode = {"CREAT", "TRUNC"}, !.left = k])

\* Mutant: the handle is lost when a write is short.
CopyWrite_NoClose(t) ==
    LET h == loc[t].fhandle
        n == Min({loc[t].left, BlockSize})
    IN  /\ pc[t] = "x_write" /\ loc[t].left > 0
        /\ write_to_open_file(h, n)
        /\ \/ /\ open_file_table'[h].of_offset = Clamped(h) + n
              /\ Goto(t, "x_write", "x_write")
              /\ loc' = [loc EXCEPT ![t].left = @ - n]
           \/ /\ open_file_table'[h].of_offset < Clamped(h) + n
              /\ Return(t, "x_write")
        /\ UNCHANGED <<freeinode_ts, dir, free_open_file_entries, held, locks, calls, panic>>

\* A short write, to a block that is full or not there, ends the copy.
CopyWrite(t) ==
    LET h == loc[t].fhandle
        n == Min({loc[t].left, BlockSize})
    IN  /\ pc[t] = "x_write" /\ loc[t].left > 0
        /\ write_to_open_file(h, n)
        /\ \/ /\ open_file_table'[h].of_offset = Clamped(h) + n
              /\ Goto(t, "x_write", "x_write")
              /\ loc' = [loc EXCEPT ![t].left = @ - n]
           \/ /\ open_file_table'[h].of_offset < Clamped(h) + n
              /\ Goto(t, "x_write", "x_close")
              /\ UNCHANGED loc
        /\ UNCHANGED <<freeinode_ts, dir, free_open_file_entries, held, locks, calls, panic>>

\* The handle is closed after a short write, and when the source is at its end.
CopyClose(t) ==
    /\ \/ remove_from_open_file_table(t, "x_close", loc[t].fhandle)
       \/ loc[t].left = 0 /\ remove_from_open_file_table(t, "x_write", loc[t].fhandle)
    /\ UNCHANGED <<held, calls>>

-----------------------------------------------------------------------------
(* tfs_sym_link.  link_lock is held for reading throughout; open_mutex is   *)
(* not taken.                                                              *)

\* A link to itself is refused.
CallSymLink(t) ==
    \E target, link \in Names :
        /\ target # link
        /\ Begin(t, "sym_link", "s_alloc", [NoLocals EXCEPT !.name = target, !.other = link])

SymLinkAlloc(t) ==
    /\ link_wr = NULL
    /\ \/ /\ FreeInums = {}
          /\ Return(t, "s_alloc")
          /\ UNCHANGED <<freeinode_ts, link_rd>>
       \/ /\ FreeInums # {}
          /\ Goto(t, "s_alloc", "s_init")
          /\ freeinode_ts' = freeinode_ts \cup {Min(FreeInums)}
          /\ loc' = [loc EXCEPT ![t].inum = Min(FreeInums)]
          /\ link_rd' = link_rd \cup {t}
    /\ UNCHANGED <<inode_table, dir, free_blocks, fs_data, files,
                   open_mutex, link_wr, foe_mutex, calls, panic>>

SymLinkInit(t) ==
    /\ Goto(t, "s_init", "s_block")
    /\ inode_table' = [inode_table EXCEPT ![loc[t].inum] = NewInode(T_SYM_LINK)]
    /\ UNCHANGED <<freeinode_ts, dir, free_blocks, fs_data, files, locks, loc, calls, panic>>

\* The target goes to a new data block; i_size stays 0.
SymLinkBlock(t) ==
    /\ \/ /\ free_blocks = Blocks
          /\ Goto(t, "s_block", "s_undo")
          /\ UNCHANGED <<free_blocks, inode_table, fs_data>>
       \/ /\ free_blocks # Blocks
          /\ Goto(t, "s_block", "s_entry")
          /\ LET b == Min(FreeBlocks)
             IN  /\ free_blocks' = free_blocks \cup {b}
                 /\ inode_table' = [inode_table EXCEPT ![loc[t].inum].i_data_block = b]
                 /\ fs_data' = [fs_data EXCEPT ![b] = loc[t].name]
    /\ UNCHANGED <<freeinode_ts, dir, files, locks, loc, calls, panic>>

SymLinkEntry(t) ==
    /\ \/ /\ CanAdd(loc[t].other)
          /\ Return(t, "s_entry")
          /\ dir' = add_dir_entry(loc[t].other, loc[t].inum)
          /\ link_rdunlock(t)
       \/ /\ ~CanAdd(loc[t].other)
          /\ Goto(t, "s_entry", "s_undo")
          /\ UNCHANGED <<dir, link_rd, loc>>
    /\ UNCHANGED <<inode_table, freeinode_ts, free_blocks, fs_data, files,
                   open_mutex, link_wr, foe_mutex, calls, panic>>

SymLinkUndo(t) ==
    DeleteAndReturn(t, "s_undo",
        link_rdunlock(t) /\ UNCHANGED <<open_mutex, link_wr, foe_mutex>>)

tfs_sym_link(t) ==
    SymLinkAlloc(t) \/ SymLinkInit(t) \/ SymLinkBlock(t) \/ SymLinkEntry(t) \/ SymLinkUndo(t)

-----------------------------------------------------------------------------
(* tfs_link.  The entry is made first; its inode's type is looked at, and   *)
(* its counter incremented, afterwards.                                    *)

CallLink(t) ==
    \E target, link \in Names :
        Begin(t, "link", "l_lookup", [NoLocals EXCEPT !.name = target, !.other = link])

\* Mutant: link_lock is given back after the lookup.
LinkLookup_Unlock(t) ==
    /\ link_wr = NULL
    /\ LET i == find_in_dir(loc[t].name)
       IN  \/ /\ i = -1
              /\ Return(t, "l_lookup")
           \/ /\ i # -1
              /\ Goto(t, "l_lookup", "l_entry")
              /\ loc' = [loc EXCEPT ![t].inum = i]
    /\ UNCHANGED <<tables, files, locks, calls, panic>>

LinkLookup(t) ==
    /\ link_wr = NULL
    /\ LET i == find_in_dir(loc[t].name)
       IN  \/ /\ i = -1
              /\ Return(t, "l_lookup")
              /\ UNCHANGED link_rd
           \/ /\ i # -1
              /\ Goto(t, "l_lookup", "l_entry")
              /\ loc' = [loc EXCEPT ![t].inum = i]
              /\ link_rd' = link_rd \cup {t}
    /\ UNCHANGED <<tables, files, open_mutex, link_wr, foe_mutex, calls, panic>>

LinkEntry(t) ==
    /\ \/ /\ CanAdd(loc[t].other)
          /\ Goto(t, "l_entry", "l_count")
          /\ dir' = add_dir_entry(loc[t].other, loc[t].inum)
          /\ UNCHANGED <<link_rd, loc>>
       \/ /\ ~CanAdd(loc[t].other)
          /\ Return(t, "l_entry")
          /\ link_rdunlock(t)
          /\ UNCHANGED dir
    /\ UNCHANGED <<inode_table, freeinode_ts, free_blocks, fs_data, files,
                   open_mutex, link_wr, foe_mutex, calls, panic>>

\* Mutant: the entry is made and the counter forgotten.
LinkCount_NotCounted(t) ==
    /\ Return(t, "l_count")
    /\ link_rdunlock(t)
    /\ UNCHANGED <<tables, files, open_mutex, link_wr, foe_mutex, calls, panic>>

\* A hard link to a symbolic link is taken back.
LinkCount(t) ==
    /\ Return(t, "l_count")
    /\ link_rdunlock(t)
    /\ \/ /\ inode_table[loc[t].inum].i_node_type = T_SYM_LINK
          /\ dir' = clear_dir_entry(loc[t].other)
          /\ UNCHANGED inode_table
       \/ /\ inode_table[loc[t].inum].i_node_type # T_SYM_LINK
          /\ inode_table' = [inode_table EXCEPT ![loc[t].inum].i_hard_links = @ + 1]
          /\ UNCHANGED dir
    /\ UNCHANGED <<freeinode_ts, free_blocks, fs_data, files,
                   open_mutex, link_wr, foe_mutex, calls, panic>>

tfs_link(t) == LinkLookup(t) \/ LinkEntry(t) \/ LinkCount(t)

-----------------------------------------------------------------------------
(* tfs_unlink.  link_lock is held for writing throughout.                  *)

CallUnlink(t) ==
    \E n \in Names : Begin(t, "unlink", "u_lookup", [NoLocals EXCEPT !.name = n])

UnlinkLookup(t) ==
    /\ link_wr = NULL
    /\ link_rd = {}
    /\ LET i == find_in_dir(loc[t].name)
       IN  \/ /\ i = -1
              /\ Return(t, "u_lookup")
              /\ UNCHANGED link_wr
           \/ /\ i # -1
              /\ Goto(t, "u_lookup", "u_clear")
              /\ loc' = [loc EXCEPT ![t].inum = i]
              /\ link_wr' = t
    /\ UNCHANGED <<tables, files, open_mutex, link_rd, foe_mutex, calls, panic>>

UnlinkClear(t) ==
    /\ Goto(t, "u_clear", "u_count")
    /\ dir' = clear_dir_entry(loc[t].name)
    /\ UNCHANGED <<inode_table, freeinode_ts, free_blocks, fs_data, files, locks, loc, calls, panic>>

\* The counter goes down; the file goes with the last link unless it is open.
\* free_open_file_entries_mutex is kept until it is gone.
UnlinkCount(t) ==
    LET i == loc[t].inum
        links == inode_table[i].i_hard_links - 1
    IN  /\ pc[t] = "u_count"
        /\ foe_mutex = NULL
        /\ inode_table' = [inode_table EXCEPT ![i].i_hard_links = links]
        /\ \/ /\ LastUse(i, links, free_open_file_entries)
              /\ Goto(t, "u_count", "u_delete")
              /\ foe_mutex' = t
              /\ UNCHANGED <<link_wr, loc>>
           \/ /\ ~LastUse(i, links, free_open_file_entries)
              /\ Return(t, "u_count")
              /\ link_wr' = NULL
              /\ UNCHANGED foe_mutex
        /\ UNCHANGED <<freeinode_ts, dir, free_blocks, fs_data, files,
                       open_mutex, link_rd, calls, panic>>

UnlinkDelete(t) ==
    DeleteAndReturn(t, "u_delete",
        foe_mutex' = NULL /\ link_wr' = NULL /\ UNCHANGED <<open_mutex, link_rd>>)

tfs_unlink(t) == UnlinkLookup(t) \/ UnlinkClear(t) \/ UnlinkCount(t) \/ UnlinkDelete(t)

-----------------------------------------------------------------------------

\* tfs_destroy and tfs_init, between the calls: mutex_destroy insists that the
\* mutexes are free, and what malloc returns is anything again.
tfs_destroy(t) ==
    /\ Call("destroy")
    /\ \A u \in Threads : pc[u] = "idle"
    /\ open_mutex = NULL /\ foe_mutex = NULL
    /\ StateReset(JunkNames)
    /\ held' = [u \in Threads |-> {}]
    /\ UNCHANGED <<locks, pc, loc, panic>>

CallWrite(t) == get_open_file_entry(t, "write", "w_entry")
CallRead(t) == get_open_file_entry(t, "read", "r_entry")

Invoke(t) ==
    \/ CallOpen(t) \/ tfs_close(t) \/ CallWrite(t) \/ CallRead(t)
    \/ CallSymLink(t) \/ CallLink(t) \/ CallUnlink(t) \/ CallCopy(t) \/ tfs_destroy(t)

\* A thread inside a call goes on with it.
Step(t) ==
    \/ tfs_open(t) \/ CloseDelete(t) \/ tfs_write(t) \/ tfs_read(t)
    \/ tfs_sym_link(t) \/ tfs_link(t) \/ tfs_unlink(t) \/ CopyWrite(t) \/ CopyClose(t)

\* A failed assertion ends the process.
Next == panic = "none" /\ \E t \in Threads : Invoke(t) \/ Step(t)

Spec == Init /\ [][Next]_vars

-----------------------------------------------------------------------------
(* Properties                                                              *)

Labels ==
    {"idle", "o_lookup", "o_inode", "o_alloc", "o_init", "o_entry", "o_undo", "o_check",
     "o_table", "c_delete", "w_entry", "r_entry", "x_write", "x_close", "s_alloc", "s_init", "s_block", "s_entry", "s_undo",
     "l_lookup", "l_entry", "l_count", "u_lookup", "u_clear", "u_count", "u_delete"}

\* The ALWAYS_ASSERTs that can be met.
Asserts ==
    {"inode_delete: inode already freed", "data_block_get: invalid block number",
     "remove_from_open_file_table: file content deleted before closing"}

\* The values every variable takes.
TypeOK ==
    /\ inode_table \in [Inums -> Inode]
    /\ freeinode_ts \subseteq Inums
    /\ dir \in [Entries -> [d_name : Names \cup {NULL}, d_inumber : Inums \cup {-1}]]
    /\ free_blocks \subseteq Blocks
    /\ fs_data \in [Blocks -> Names \cup {NULL}]
    /\ open_file_table \in [Handles -> [of_inumber : Inums, of_offset : 0 .. BlockSize]]
    /\ free_open_file_entries \subseteq Handles
    /\ open_mutex \in Threads \cup {NULL}
    /\ link_rd \subseteq Threads
    /\ link_wr \in Threads \cup {NULL}
    /\ foe_mutex \in Threads \cup {NULL}
    /\ pc \in [Threads -> Labels]
    /\ loc \in [Threads -> [name : Names \cup {NULL}, other : Names \cup {NULL},
                            via : Blocks \cup {-1}, mode : SUBSET AllFlags,
                            inum : Inums \cup {-1}, offset : 0 .. BlockSize,
                            fhandle : Handles \cup {-1}, len : Lengths \cup {0},
                            left : Nat \cup {-1}]]
    /\ held \in [Threads -> SUBSET Handles]
    /\ calls \in 0 .. MaxCalls
    /\ panic \in Asserts \cup {"none"}

\* The directory never lists a name twice, although tfs_open looks the name up
\* under open_mutex and tfs_link and tfs_sym_link do not take it.
NamesUnique ==
    \A d, e \in Live : dir[d].d_name = dir[e].d_name => d = e

At(labels, i) == {t \in Threads : pc[t] \in labels /\ loc[t].inum = i}

\* The hard link counter of an inode counts its directory entries, give or
\* take the calls that are between the entry and the counter.
LinkCountExact ==
    \A i \in freeinode_ts :
        At({"o_init", "s_init"}, i) = {} =>
            inode_table[i].i_hard_links + Cardinality(At({"l_count"}, i))
              = Cardinality({e \in Live : dir[e].d_inumber = i})
                  + Cardinality(At({"u_count", "o_entry", "o_undo", "s_block", "s_entry", "s_undo"}, i))

\* Every name leads to an inode that exists.
EntriesTaken == \A e \in Live : dir[e].d_inumber \in freeinode_ts

\* An inode without links is still open, or is being deleted: unlink and close
\* never leave the deletion to each other.
NoOrphanInode ==
    \A i \in freeinode_ts :
        inode_table[i].i_hard_links = 0 =>
            \/ is_file_open(i, free_open_file_entries)
            \/ At({"u_delete", "c_delete"}, i) # {}

\* The blocks with data belong to one inode each, and none of them can be
\* handed out again.
BlocksOwned ==
    \A i, j \in freeinode_ts :
        LET Owns(k) == inode_table[k].i_size > 0 \/ inode_table[k].i_node_type = T_SYM_LINK
        IN  Owns(i) /\ inode_table[i].i_data_block # -1 =>
                /\ inode_table[i].i_data_block \in free_blocks
                /\ i # j /\ Owns(j) => inode_table[i].i_data_block # inode_table[j].i_data_block

\* clear_dir_entry compares names only, and the names of entries never used
\* are whatever malloc returned; still it always stops at the entry that the
\* lookup under the same link_lock found.
ClearsTheRightEntry ==
    \A t \in Threads :
        /\ pc[t] = "u_clear" => dir[Min(Matching(loc[t].name))].d_inumber = loc[t].inum
        /\ pc[t] = "l_count" => dir[Min(Matching(loc[t].other))].d_inumber = loc[t].inum

\* unlink and close free an inode only while no handle refers to it: they
\* decide under free_open_file_entries_mutex and keep it until the inode is
\* gone.  (The other deletions undo a creation that failed, or go with all handles
\* in tfs_destroy.)
FreedOnlyWhenClosed ==
    [][\A i \in freeinode_ts \ freeinode_ts' :
          is_file_open(i, free_open_file_entries') => At({"o_undo", "s_undo"}, i) # {}]_vars

\* A thread that is inside a call and waits for a lock.
Waits(t) ==
    \/ pc[t] = "o_lookup" /\ open_mutex # NULL
    \/ pc[t] \in {"o_table", "u_count", "x_close"} /\ foe_mutex # NULL
    \/ pc[t] = "x_write" /\ loc[t].left = 0 /\ foe_mutex # NULL
    \/ pc[t] \in {"s_alloc", "l_lookup", "u_lookup"} /\ link_wr # NULL
    \/ pc[t] = "u_lookup" /\ link_rd # {}
    \/ pc[t] \in {"w_entry", "r_entry"} /\ ~EntryFree(loc[t].fhandle)

\* No call is stuck: while there are threads inside calls one of them does not wait.
\* The locks that are held across steps are taken in the same order, and given back
\* on every path.
CallsNeverStuck ==
    LET inside == {t \in Threads : pc[t] # "idle"}
    IN  inside # {} => \E t \in inside : ~Waits(t)

\* Every handle that is taken is one that tfs_open returned to a thread, which has not
\* closed it, or the one of a copy under way, and no two of them are the same.
HandlesAccounted ==
    LET copying == {t \in Threads : pc[t] \in {"x_write", "x_close"}}
    IN  panic = "none" =>
        /\ free_open_file_entries = (UNION {held[t] : t \in Threads})
                                       \cup {loc[t].fhandle : t \in copying}
        /\ \A t, u \in Threads :
               /\ t # u => held[t] \cap held[u] = {}
               /\ t \in copying => loc[t].fhandle \notin held[u]

\* inode_delete always finds the inode taken: the unlink and the close that could both
\* free it, and the calls that undo a creation, never free an inode twice.
NoDoubleFree == panic # "inode_delete: inode already freed"

\* No ALWAYS_ASSERT fails.
NoPanic == panic = "none"

-----------------------------------------------------------------------------
(* The refinement mapping to Namespace                                     *)

\* A thread that has allocated an inode and not yet entered it in the directory.
Creators == {"o_init", "o_entry", "o_undo", "s_init", "s_block", "s_entry", "s_undo"}

bound == [n \in Names \cup {NULL} |-> find_in_dir(n)]
made == freeinode_ts \ {loc[t].inum : t \in {u \in Threads : pc[u] \in Creators}}

Directory == INSTANCE Namespace WITH
    Names <- Names \cup {NULL}, Files <- Inums, NONE <- -1, bound <- bound, made <- made

\* The directory's entries, the inodes and their counters implement the namespace of
\* operations.h, whatever the calls of several threads do between one another's steps:
\* a file comes with its first name and not before, tfs_link never gives a name to a file
\* that has lost its last one, and no file goes while a name leads to it.
ImplementsNamespace == Directory!Spec
=============================================================================
