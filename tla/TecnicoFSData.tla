---------------------------- MODULE TecnicoFSData ----------------------------
(***************************************************************************)
(* Proofs about the data blocks and the open file table of module          *)
(* TecnicoFS: no block is given to two inodes or handed out while it is in *)
(* use, and no handle is lost or given to two threads.                     *)
(***************************************************************************)
EXTENDS TecnicoFSProofs

-----------------------------------------------------------------------------
(* Blocks                                                                  *)

\* An inode whose i_data_block counts.
Owns(k) == inode_table[k].i_size > 0 \/ inode_table[k].i_node_type = T_SYM_LINK

\* BlocksOwned for the inodes that are not taken too: one that was freed while a handle
\* still refers to it can be given data.
BlocksInv ==
    \A i, j \in Inums :
        Owns(i) /\ inode_table[i].i_data_block # -1 =>
            /\ inode_table[i].i_data_block \in free_blocks
            /\ i # j /\ Owns(j) => inode_table[i].i_data_block # inode_table[j].i_data_block

\* One inode changes: the blocks of the others must stay taken, and its own must be taken
\* and nobody else's.
LEMMA BlocksKept ==
    ASSUME TablesOK, BlocksInv, NEW i \in Inums, NEW r \in InodeOrLess,
           inode_table' = [inode_table EXCEPT ![i] = r],
           \A j \in Inums \ {i} : Owns(j) /\ inode_table[j].i_data_block # -1 =>
                                    inode_table[j].i_data_block \in free_blocks',
           (r.i_size > 0 \/ r.i_node_type = T_SYM_LINK) /\ r.i_data_block # -1 =>
               /\ r.i_data_block \in free_blocks'
               /\ \A j \in Inums \ {i} : Owns(j) => inode_table[j].i_data_block # r.i_data_block
    PROVE  BlocksInv'
  <1>1. /\ inode_table'[i] = r
        /\ \A j \in Inums \ {i} : inode_table'[j] = inode_table[j]
    BY DEF TablesOK
  <1>2. Owns(i)' <=> r.i_size > 0 \/ r.i_node_type = T_SYM_LINK
    BY <1>1 DEF Owns
  <1>3. \A j \in Inums \ {i} : Owns(j)' <=> Owns(j)
    BY <1>1 DEF Owns
  <1> QED BY <1>1, <1>2, <1>3 DEF BlocksInv

\* No step of any thread breaks the ownership of the blocks.
LEMMA BlocksStep ==
    ASSUME TypeInv, BlocksInv, NEW t \in Threads, Acts(t)
    PROVE  BlocksInv'
  <1> USE DEF TypeInv
  <1> DEFINE i == loc[t].inum
  <1>1. CASE UNCHANGED <<inode_table, free_blocks>>
    BY <1>1 DEF BlocksInv, Owns
  <1>2. pc[t] \in WithInum => i \in Inums /\ inode_table[i] \in InodeOrLess
    BY DEF LocalsSet, SetAt, TablesOK
  <1>3. ASSUME NEW k \in Inums, inode_table[k].i_size > 0
        PROVE  /\ \A j \in Inums \ {k} : Owns(j) =>
                      inode_table[j].i_data_block # inode_table[k].i_data_block
    BY <1>3, Sizes DEF BlocksInv, Owns, TablesOK, Blocks
  <1>4. CASE OpenFile(t)
    <2> DEFINE size == IF "TRUNC" \in loc[t].mode THEN 0 ELSE inode_table[i].i_size
               r == [inode_table[i] EXCEPT !.i_size = size]
    <2>1. /\ pc[t] = "o_inode" /\ inode_table[i].i_node_type = T_FILE
          /\ free_blocks' = IF size < inode_table[i].i_size
                            THEN free_blocks \ {inode_table[i].i_data_block} ELSE free_blocks
          /\ inode_table' = [inode_table EXCEPT ![i] = r]
      BY <1>4, Zenon DEF OpenFile, Goto
    <2>2. i \in Inums /\ inode_table[i] \in InodeOrLess
      BY <1>2, <2>1 DEF WithInum
    <2>3. size \in 0 .. BlockSize /\ inode_table[i].i_size \in 0 .. BlockSize
          /\ (size = 0 \/ size = inode_table[i].i_size)
      BY <2>2, Sizes DEF InodeOrLess, TablesOK
    <2> HIDE DEF size
    <2>4. /\ r \in InodeOrLess /\ r.i_size = size /\ r.i_data_block = inode_table[i].i_data_block
          /\ r.i_node_type = inode_table[i].i_node_type
      BY <2>2, <2>3, Zenon DEF InodeOrLess
    <2> HIDE DEF r
    <2>5. CASE size < inode_table[i].i_size
      <3>1. size = 0 /\ inode_table[i].i_size > 0
        BY <2>3, <2>5, Sizes
      <3>2. free_blocks' = free_blocks \ {inode_table[i].i_data_block}
        BY <2>1, <2>5
      <3>3. ~(r.i_size > 0 \/ r.i_node_type = T_SYM_LINK)
        BY <2>1, <2>4, <3>1 DEF T_FILE, T_SYM_LINK
      <3>4. \A j \in Inums \ {i} : Owns(j) /\ inode_table[j].i_data_block # -1 =>
                                     inode_table[j].i_data_block \in free_blocks'
        BY <1>3, <2>2, <3>1, <3>2 DEF BlocksInv
      <3> QED BY <2>1, <2>2, <2>4, <3>3, <3>4, BlocksKept
    <2>6. CASE ~(size < inode_table[i].i_size)
      <3>1. size = inode_table[i].i_size
        BY <2>3, <2>6, Sizes
      <3>2. free_blocks' = free_blocks
        BY <2>1, <2>6
      <3>3. r.i_size > 0 \/ r.i_node_type = T_SYM_LINK <=> Owns(i)
        BY <2>4, <3>1 DEF Owns
      <3>4. \A j \in Inums \ {i} : Owns(j) /\ inode_table[j].i_data_block # -1 =>
                                     inode_table[j].i_data_block \in free_blocks'
        BY <2>2, <3>2 DEF BlocksInv
      <3>5. Owns(i) /\ r.i_data_block # -1 =>
               /\ r.i_data_block \in free_blocks'
               /\ \A j \in Inums \ {i} : Owns(j) => inode_table[j].i_data_block # r.i_data_block
        BY <2>2, <2>4, <3>2 DEF BlocksInv
      <3> QED BY <2>1, <2>2, <2>4, <3>3, <3>4, <3>5, BlocksKept
    <2> QED BY <2>5, <2>6
  <1>5. CASE OpenInit(t) \/ SymLinkInit(t)
    <2>1. PICK type \in {T_FILE, T_SYM_LINK} :
             inode_table' = [inode_table EXCEPT ![i] = NewInode(type)]
      BY <1>5 DEF OpenInit, SymLinkInit
    <2>2. pc[t] \in WithInum /\ UNCHANGED free_blocks
      BY <1>5 DEF OpenInit, SymLinkInit, Goto, WithInum
    <2>3. NewInode(type).i_data_block = -1 /\ NewInode(type) \in InodeOrLess
      BY NewInodeOK DEF NewInode
    <2>4. \A j \in Inums \ {i} : Owns(j) /\ inode_table[j].i_data_block # -1 =>
                                   inode_table[j].i_data_block \in free_blocks'
      BY <2>2 DEF BlocksInv
    <2> QED BY <1>2, <2>1, <2>2, <2>3, <2>4, BlocksKept
  <1>6. CASE Deletes(t) /\ ~UNCHANGED <<inode_table, free_blocks>>
    <2>1. /\ i \in Inums
          /\ \E r \in InodeOrLess :
               /\ r.i_data_block = -1
               /\ inode_table' = [inode_table EXCEPT ![i] = r]
          /\ free_blocks' = IF inode_table[i].i_size > 0
                            THEN free_blocks \ {inode_table[i].i_data_block} ELSE free_blocks
      BY <1>6, DeleteEffect, Zenon DEF tables
    <2>2. PICK r \in InodeOrLess : /\ r.i_data_block = -1
                                   /\ inode_table' = [inode_table EXCEPT ![i] = r]
      BY <2>1
    <2>3. \A j \in Inums \ {i} : Owns(j) /\ inode_table[j].i_data_block # -1 =>
                                   inode_table[j].i_data_block \in free_blocks'
      BY <1>3, <2>1 DEF BlocksInv
    <2> QED BY <2>1, <2>2, <2>3, BlocksKept
  <1>7. CASE (tfs_write(t) \/ CopyWrite(t)) /\ ~UNCHANGED <<inode_table, free_blocks>>
    <2>1. PICK n \in Nat : write_to_open_file(loc[t].fhandle, n) /\ loc[t].fhandle \in Handles
      BY <1>7, WritesAt
    <2> DEFINE k == open_file_table[loc[t].fhandle].of_inumber
    <2>2. k \in Inums
      BY <2>1 DEF FilesOK, OpenFileEntry
    <2>3. PICK r \in InodeOrLess :
                /\ r.i_data_block \in Blocks
                /\ \/ inode_table[k].i_size > 0 /\ r.i_data_block = inode_table[k].i_data_block
                   \/ r.i_data_block \notin free_blocks
                /\ inode_table' = [inode_table EXCEPT ![k] = r]
                /\ free_blocks' = free_blocks \cup {r.i_data_block}
      BY <1>7, <2>1, WriteEffect
    <2> HIDE DEF k
    <2>4. -1 \notin Blocks
      BY Sizes DEF Blocks
    <2>5. \A j \in Inums \ {k} : Owns(j) /\ inode_table[j].i_data_block # -1 =>
                                   inode_table[j].i_data_block \in free_blocks'
      BY <2>2, <2>3 DEF BlocksInv
    <2>6. \A j \in Inums \ {k} : Owns(j) => inode_table[j].i_data_block # r.i_data_block
      BY <1>3, <2>2, <2>3, <2>4 DEF BlocksInv
    <2> QED BY <2>2, <2>3, <2>5, <2>6, BlocksKept
  <1>8. CASE SymLinkBlock(t) /\ ~UNCHANGED <<inode_table, free_blocks>>
    <2> DEFINE b == Min(FreeBlocks)
               r == [inode_table[i] EXCEPT !.i_data_block = b]
    <2>1. /\ pc[t] = "s_block" /\ free_blocks # Blocks
          /\ free_blocks' = free_blocks \cup {b}
          /\ inode_table' = [inode_table EXCEPT ![i] = r]
      BY <1>8, Zenon DEF SymLinkBlock, Goto
    <2>2. i \in Inums /\ inode_table[i] \in InodeOrLess
      BY <1>2, <2>1 DEF WithInum
    <2>3. b \in Blocks /\ b \notin free_blocks /\ b # -1
      <3>1. b \in Blocks /\ b \notin free_blocks
        BY <2>1, FirstFreeBlock
      <3> HIDE DEF b
      <3> QED BY <3>1, Sizes DEF Blocks
    <2> HIDE DEF b
    <2>4. r \in InodeOrLess /\ r.i_data_block = b
      BY <2>2, <2>3, Zenon DEF InodeOrLess
    <2> HIDE DEF r
    <2>5. \A j \in Inums \ {i} : Owns(j) /\ inode_table[j].i_data_block # -1 =>
                                   inode_table[j].i_data_block \in free_blocks'
      BY <2>1, <2>2 DEF BlocksInv
    <2>6. \A j \in Inums \ {i} : Owns(j) => inode_table[j].i_data_block # r.i_data_block
      BY <2>2, <2>3, <2>4 DEF BlocksInv
    <2> QED BY <2>1, <2>2, <2>4, <2>5, <2>6, BlocksKept
  <1>9. CASE (LinkCount(t) \/ UnlinkCount(t)) /\ ~UNCHANGED <<inode_table, free_blocks>>
    <2>1. PICK k \in Int : inode_table' = [inode_table EXCEPT ![i].i_hard_links = k]
      <3>1. pc[t] \in WithInum
        BY <1>9 DEF LinkCount, UnlinkCount, Return, Goto, WithInum
      <3>2. inode_table[i].i_hard_links - 1 \in Int /\ inode_table[i].i_hard_links + 1 \in Int
        BY <1>2, <3>1 DEF InodeOrLess
      <3>3. \/ inode_table' = [inode_table EXCEPT ![i].i_hard_links = inode_table[i].i_hard_links + 1]
            \/ inode_table' = [inode_table EXCEPT ![i].i_hard_links = inode_table[i].i_hard_links - 1]
        BY <1>9, Zenon DEF LinkCount, UnlinkCount
      <3> QED BY <3>2, <3>3
    <2>2. pc[t] \in WithInum /\ UNCHANGED free_blocks
      BY <1>9 DEF LinkCount, UnlinkCount, Return, Goto, WithInum
    <2> DEFINE r == [inode_table[i] EXCEPT !.i_hard_links = k]
    <2>3. i \in Inums /\ inode_table[i] \in InodeOrLess
      BY <1>2, <2>2
    <2>4. /\ r \in InodeOrLess /\ r.i_size = inode_table[i].i_size
          /\ r.i_data_block = inode_table[i].i_data_block
          /\ r.i_node_type = inode_table[i].i_node_type
      BY <2>3, Zenon DEF InodeOrLess
    <2>5. inode_table' = [inode_table EXCEPT ![i] = r]
      BY <2>1, Zenon
    <2> HIDE DEF r
    <2>6. r.i_size > 0 \/ r.i_node_type = T_SYM_LINK <=> Owns(i)
      BY <2>4 DEF Owns
    <2>7. \A j \in Inums \ {i} : Owns(j) /\ inode_table[j].i_data_block # -1 =>
                                   inode_table[j].i_data_block \in free_blocks'
      BY <2>2, <2>3 DEF BlocksInv
    <2>8. Owns(i) /\ r.i_data_block # -1 =>
             /\ r.i_data_block \in free_blocks'
             /\ \A j \in Inums \ {i} : Owns(j) => inode_table[j].i_data_block # r.i_data_block
      BY <2>2, <2>3, <2>4 DEF BlocksInv
    <2> QED BY <2>3, <2>4, <2>5, <2>6, <2>7, <2>8, BlocksKept
  <1>10. CASE tfs_destroy(t)
    <2>1. inode_table' = NewInodeTable
      BY <1>10, Zenon DEF tfs_destroy, StateReset
    <2>2. \A j \in Inums : ~Owns(j)'
      BY <2>1 DEF NewInodeTable, NewInode, Owns, T_FILE, T_SYM_LINK
    <2> QED BY <2>2 DEF BlocksInv
  <1>11. CASE OpenAlloc(t) \/ SymLinkAlloc(t) \/ OpenEntry(t) \/ SymLinkEntry(t) \/ LinkEntry(t)
              \/ UnlinkClear(t)
    <2>1. UNCHANGED <<inode_table, free_blocks>>
      BY <1>11, Zenon DEF OpenAlloc, SymLinkAlloc, OpenEntry, SymLinkEntry, LinkEntry, UnlinkClear
    <2> QED BY <1>1, <2>1
  <1>12. CASE UNCHANGED tables
    BY <1>1, <1>12 DEF tables
  <1> QED BY <1>1, <1>4, <1>5, <1>6, <1>7, <1>8, <1>9, <1>10, <1>11, <1>12, TablesChange

\* BlocksOwned: a block with data belongs to one inode and is not handed out again, although
\* tfs_write and tfs_sym_link take blocks while tfs_open, tfs_unlink and tfs_close give
\* them back, each under the lock of its own inode at most.
THEOREM BlocksAreOwned == Spec => []BlocksOwned
  <1>1. Init => BlocksInv
    BY DEF Init, StateInit, BlocksInv, Owns, NewInodeTable, NewInode, T_FILE, T_SYM_LINK
  <1>2. ASSUME TypeInv, BlocksInv, [Next]_vars
        PROVE  BlocksInv'
    <2>1. CASE Next
      BY <1>2, <2>1, BlocksStep DEF Next, Acts
    <2>2. CASE UNCHANGED vars
      BY <1>2, <2>2 DEF vars, tables, BlocksInv, Owns
    <2> QED BY <1>2, <2>1, <2>2
  <1>3. ASSUME TypeInv, BlocksInv
        PROVE  BlocksOwned
    BY <1>3 DEF TypeInv, TablesOK, BlocksInv, BlocksOwned, Owns
  <1> QED BY <1>1, <1>2, <1>3, TypesAndLocks, PTL DEF Spec
-----------------------------------------------------------------------------
(* Handles                                                                 *)

Copying == {"x_write", "x_close"}

\* The handle of a copy under way, and the handles that are a thread's.
Copies(u, h) == pc[u] \in Copying /\ loc[u].fhandle = h
Has(u, h) == h \in held[u] \/ Copies(u, h)

\* HandlesAccounted, handle by handle: a handle is taken when a thread has it, and then
\* one thread has it, in one way.
HandlesInv ==
    panic = "none" =>
        \A h \in Handles :
            /\ h \in free_open_file_entries <=> \E u \in Threads : Has(u, h)
            /\ \A u, v \in Threads : Has(u, h) /\ Has(v, h) => u = v
            /\ \A u \in Threads : ~(h \in held[u] /\ Copies(u, h))

\* A step that leaves the allocation alone, and the copies with the handles they have.
LEMMA HandlesKept ==
    ASSUME HandlesInv, panic = "none", UNCHANGED <<free_open_file_entries, held>>,
           \A u \in Threads : /\ pc'[u] \in Copying <=> pc[u] \in Copying
                              /\ pc[u] \in Copying => loc'[u].fhandle = loc[u].fhandle
    PROVE  HandlesInv'
  <1>1. \A u \in Threads, h \in Handles : Copies(u, h)' <=> Copies(u, h)
    BY DEF Copies
  <1> QED BY <1>1 DEF HandlesInv, Has

\* The handles of one thread change: h is given back by the one thread that had it.
LEMMA HandleBack ==
    ASSUME FilesOK, HandlesInv, panic = "none", NEW t \in Threads, NEW h \in Handles, Has(t, h),
           free_open_file_entries' = free_open_file_entries \ {h},
           \A u \in Threads \ {t} : held'[u] = held[u],
           \A u \in Threads \ {t}, k \in Handles : Copies(u, k)' <=> Copies(u, k),
           held'[t] = held[t] \ {h},
           \A k \in Handles : Copies(t, k)' <=> Copies(t, k) /\ k # h
    PROVE  HandlesInv'
  <1>1. \A u \in Threads, k \in Handles : Has(u, k)' <=> Has(u, k) /\ ~(u = t /\ k = h)
    BY DEF Has
  <1>2. \A u \in Threads : Has(u, h) => u = t
    BY DEF HandlesInv
  <1>3. \A k \in Handles : k \in free_open_file_entries' <=> \E u \in Threads : Has(u, k)'
    BY <1>1, <1>2 DEF HandlesInv
  <1>4. \A k \in Handles : \A u \in Threads :
           k \in held'[u] => k \in held[u]
    OBVIOUS
  <1>5. \A k \in Handles : \A u \in Threads : Copies(u, k)' => Copies(u, k)
    OBVIOUS
  <1>6. \A k \in Handles : \A u \in Threads : ~(k \in held'[u] /\ Copies(u, k)')
    BY <1>4, <1>5 DEF HandlesInv
  <1>7. \A k \in Handles : \A u, v \in Threads : Has(u, k)' /\ Has(v, k)' => u = v
    BY <1>1 DEF HandlesInv
  <1> QED BY <1>3, <1>6, <1>7 DEF HandlesInv

\* No step of any thread loses a handle or gives it to two.
LEMMA HandlesStep ==
    ASSUME TypeInv, HandlesInv, panic = "none", NEW t \in Threads, Acts(t)
    PROVE  HandlesInv'
  <1> USE DEF TypeInv
  <1>1. \A u \in Threads \ {t} : pc'[u] = pc[u] /\ loc'[u] = loc[u]
    BY OthersStay
  <1>2. \A u \in Threads \ {t}, k \in Handles : Copies(u, k)' <=> Copies(u, k)
    BY <1>1 DEF Copies
  <1>3. pc \in [Threads -> Labels] /\ loc \in [Threads -> Locals] /\ held \in [Threads -> SUBSET Handles]
    BY DEF ControlOK, FilesOK
  <1>4. ASSUME UNCHANGED <<free_open_file_entries, held>>, pc[t] \notin Copying, pc'[t] \notin Copying
        PROVE  HandlesInv'
    BY <1>1, <1>4, HandlesKept
  <1>5. CASE OpenTable(t)
    <2> DEFINE h == Min(FreeHandles)
    <2>1. pc[t] = "o_table"
      BY <1>5 DEF OpenTable, Return, Goto
    <2>2. CASE UNCHANGED files
      <3>1. pc'[t] = "idle"
        <4>1. CASE FreeHandles # {}
          <5>1. free_open_file_entries' = free_open_file_entries \cup {h}
            BY <1>5, <4>1 DEF OpenTable
          <5>2. UNCHANGED free_open_file_entries
            BY <2>2 DEF files
          <5> QED BY <4>1, <5>1, <5>2, FirstFreeHandle
        <4>2. CASE FreeHandles = {}
          BY <1>3, <1>5, <4>2 DEF OpenTable, Return, Goto
        <4> QED BY <4>1, <4>2
      <3> QED BY <1>4, <2>1, <2>2, <3>1 DEF files, Copying
    <2>3. CASE ~UNCHANGED files
      <3>1. /\ FreeHandles # {}
            /\ free_open_file_entries' = free_open_file_entries \cup {h}
            /\ \/ /\ pc' = [pc EXCEPT ![t] = "idle"]
                  /\ held' = [held EXCEPT ![t] = @ \cup {h}]
               \/ /\ pc' = [pc EXCEPT ![t] = "x_write"]
                  /\ loc' = [loc EXCEPT ![t].fhandle = h]
                  /\ UNCHANGED held
        BY <1>5, <2>3, Zenon DEF OpenTable, Return, Goto
      <3>2. h \in Handles /\ h \notin free_open_file_entries
        BY <3>1, FirstFreeHandle
      <3> HIDE DEF h
      <3>3. \A u \in Threads : ~Has(u, h)
        BY <3>2 DEF HandlesInv
      <3>4. \A k \in Handles : ~Copies(t, k)
        BY <2>1 DEF Copies, Copying
      <3>5. \A u \in Threads \ {t} : held'[u] = held[u]
        BY <1>3, <3>1
      <3>6. \A u \in Threads, k \in Handles : Has(u, k)' <=> Has(u, k) \/ (u = t /\ k = h)
        <4>1. CASE pc' = [pc EXCEPT ![t] = "idle"] /\ held' = [held EXCEPT ![t] = @ \cup {h}]
          <5>1. pc'[t] = "idle" /\ held'[t] = held[t] \cup {h}
            BY <1>3, <4>1
          <5>2. \A k \in Handles : ~Copies(t, k)'
            BY <5>1 DEF Copies, Copying
          <5> QED BY <1>2, <3>4, <3>5, <5>1, <5>2 DEF Has
        <4>2. CASE /\ pc' = [pc EXCEPT ![t] = "x_write"]
                   /\ loc' = [loc EXCEPT ![t].fhandle = h]
                   /\ UNCHANGED held
          <5>1. pc'[t] = "x_write"
            BY <1>3, <4>2
          <5>2. loc'[t].fhandle = h
            BY <1>3, <4>2, Zenon DEF Locals
          <5>3. \A k \in Handles : Copies(t, k)' <=> k = h
            BY <5>1, <5>2 DEF Copies, Copying
          <5> QED BY <1>2, <3>4, <4>2, <5>3 DEF Has
        <4> QED BY <3>1, <4>1, <4>2
      <3>7. \A k \in Handles : \A u \in Threads : ~(k \in held'[u] /\ Copies(u, k)')
        <4>1. CASE pc' = [pc EXCEPT ![t] = "idle"]
          <5>1. \A k \in Handles : ~Copies(t, k)'
            BY <1>3, <4>1 DEF Copies, Copying
          <5> QED BY <1>2, <3>5, <5>1 DEF HandlesInv
        <4>2. CASE UNCHANGED held
          <5>1. \A k \in Handles : Copies(t, k)' /\ k \in held[t] => Has(t, k) /\ k # h
            BY <3>3 DEF Has
          <5>2. ASSUME NEW k \in Handles, Copies(t, k)', k \in held[t]
                PROVE  FALSE
            <6>1. k # h
              BY <5>1, <5>2
            <6>2. loc'[t].fhandle = k /\ pc'[t] \in Copying
              BY <5>2 DEF Copies
            <6>3. pc' = [pc EXCEPT ![t] = "x_write"] /\ loc' = [loc EXCEPT ![t].fhandle = h]
              BY <1>3, <3>1, <6>2 DEF Copying
            <6>4. loc'[t].fhandle = h
              BY <1>3, <6>3, Zenon DEF Locals
            <6> QED BY <6>1, <6>2, <6>4
          <5> QED BY <1>2, <4>2, <5>2 DEF HandlesInv
        <4> QED BY <3>1, <4>1, <4>2
      <3>8. \A k \in Handles : k \in free_open_file_entries' <=> \E u \in Threads : Has(u, k)'
        BY <3>1, <3>6 DEF HandlesInv
      <3>9. \A k \in Handles : \A u, v \in Threads : Has(u, k)' /\ Has(v, k)' => u = v
        BY <3>3, <3>6 DEF HandlesInv
      <3> QED BY <3>7, <3>8, <3>9 DEF HandlesInv
    <2> QED BY <2>2, <2>3
  <1>6. ASSUME NEW from \in {"idle", "x_write", "x_close"}, NEW h \in Handles,
               remove_from_open_file_table(t, from, h)
        PROVE  /\ pc[t] = from
               /\ \/ panic' # "none"
                  \/ /\ free_open_file_entries' = free_open_file_entries \ {h}
                     /\ pc'[t] \notin Copying
    <2>1. /\ pc[t] = from
          /\ \/ panic' = "remove_from_open_file_table: file content deleted before closing"
             \/ /\ free_open_file_entries' = free_open_file_entries \ {h}
                /\ pc' = [pc EXCEPT ![t] = "c_delete"] \/ pc' = [pc EXCEPT ![t] = "idle"]
      BY <1>6, Zenon DEF remove_from_open_file_table, Goto, Return
    <2> QED BY <1>3, <2>1 DEF Copying
  <1>7. CASE tfs_close(t)
    <2>1. PICK h \in held[t] : /\ remove_from_open_file_table(t, "idle", h)
                               /\ held' = [held EXCEPT ![t] = @ \ {h}]
      BY <1>7 DEF tfs_close
    <2>2. h \in Handles
      BY <1>3
    <2>3. CASE panic' # "none"
      BY <2>3 DEF HandlesInv
    <2>4. CASE panic' = "none"
      <3>1. /\ pc[t] = "idle" /\ pc'[t] \notin Copying
            /\ free_open_file_entries' = free_open_file_entries \ {h}
        BY <1>6, <2>1, <2>2, <2>4
      <3>2. \A k \in Handles : ~Copies(t, k) /\ ~Copies(t, k)'
        BY <3>1 DEF Copies, Copying
      <3>3. held'[t] = held[t] \ {h} /\ \A u \in Threads \ {t} : held'[u] = held[u]
        BY <1>3, <2>1
      <3>4. Has(t, h)
        BY DEF Has
      <3> QED BY <1>2, <2>2, <3>1, <3>2, <3>3, <3>4, HandleBack
    <2> QED BY <2>3, <2>4
  <1>8. CASE CopyClose(t)
    <2> DEFINE h == loc[t].fhandle
    <2>1. PICK from \in {"x_write", "x_close"} : remove_from_open_file_table(t, from, h)
      BY <1>8 DEF CopyClose
    <2>2. pc[t] \in Copying /\ UNCHANGED held
      BY <1>8 DEF CopyClose, remove_from_open_file_table, Copying
    <2>3. h \in Handles
      BY <2>2 DEF LocalsSet, SetAt, WithHandle, Copying
    <2>4. CASE panic' # "none"
      BY <2>4 DEF HandlesInv
    <2>5. CASE panic' = "none"
      <3>1. pc'[t] \notin Copying /\ free_open_file_entries' = free_open_file_entries \ {h}
        BY <1>6, <2>1, <2>3, <2>5
      <3>2. \A k \in Handles : ~Copies(t, k)' /\ (Copies(t, k) <=> k = h)
        BY <2>2, <3>1 DEF Copies
      <3>3. h \notin held[t] /\ Has(t, h)
        BY <2>3, <3>2 DEF HandlesInv, Has
      <3>4. held'[t] = held[t] \ {h} /\ \A u \in Threads \ {t} : held'[u] = held[u]
        BY <2>2, <3>3
      <3> HIDE DEF h
      <3> QED BY <1>2, <2>3, <3>1, <3>2, <3>3, <3>4, HandleBack
    <2> QED BY <2>4, <2>5
  <1>9. CASE CopyWrite(t)
    <2>1. /\ pc[t] = "x_write" /\ UNCHANGED <<free_open_file_entries, held>>
          /\ \/ pc' = [pc EXCEPT ![t] = "x_write"] /\ \E k : loc' = [loc EXCEPT ![t].left = k]
             \/ pc' = [pc EXCEPT ![t] = "x_close"] /\ UNCHANGED loc
      BY <1>9, Zenon DEF CopyWrite, Goto
    <2>2. pc[t] \in Copying /\ pc'[t] \in Copying
      BY <1>3, <2>1 DEF Copying
    <2>3. loc'[t].fhandle = loc[t].fhandle
      BY <1>3, <2>1, Zenon DEF Locals
    <2> QED BY <1>1, <2>1, <2>2, <2>3, HandlesKept
  <1>10. CASE tfs_write(t) \/ tfs_read(t)
    <2>1. /\ pc[t] \in {"w_entry", "r_entry"} /\ pc' = [pc EXCEPT ![t] = "idle"]
          /\ UNCHANGED <<free_open_file_entries, held>>
      BY <1>10 DEF tfs_write, tfs_read, Return, Goto
    <2>2. pc[t] \notin Copying /\ pc'[t] \notin Copying
      BY <1>3, <2>1 DEF Copying
    <2> QED BY <1>4, <2>1, <2>2
  <1>11. CASE tfs_destroy(t)
    <2>1. /\ free_open_file_entries' = {} /\ held' = [u \in Threads |-> {}]
          /\ UNCHANGED pc /\ \A u \in Threads : pc[u] = "idle"
      BY <1>11, Zenon DEF tfs_destroy, StateReset
    <2>2. \A u \in Threads, k \in Handles : ~Has(u, k)'
      BY <2>1 DEF Has, Copies, Copying
    <2> QED BY <2>1, <2>2 DEF HandlesInv, Has
  <1>12. CASE UNCHANGED files /\ ~OpenTable(t) /\ ~tfs_close(t) /\ ~CopyClose(t) /\ ~CopyWrite(t)
              /\ ~tfs_write(t) /\ ~tfs_read(t) /\ ~tfs_destroy(t)
    <2>1. pc[t] \notin Copying /\ pc'[t] \notin Copying
      <3>1. CASE Begins(t)
        <4>1. pc[t] = "idle" /\ \E l \in FirstLabels : pc' = [pc EXCEPT ![t] = l]
          BY <3>1, BeginsEffect, Zenon
        <4> QED BY <1>3, <4>1 DEF FirstLabels, Copying
      <3>2. CASE Deletes(t)
        <4>1. /\ pc[t] \in {"o_undo", "s_undo", "c_delete", "u_delete"}
              /\ UNCHANGED pc \/ pc' = [pc EXCEPT ![t] = "idle"]
          BY <3>2, DeleteEffect, Zenon
        <4> QED BY <1>3, <4>1 DEF Copying
      <3>3. CASE \/ OpenLookup(t) \/ OpenFile(t) \/ OpenSymLink(t) \/ OpenAlloc(t) \/ OpenInit(t)
                 \/ OpenEntry(t) \/ OpenCheck(t)
        <4>1. /\ pc[t] \in {"o_lookup", "o_inode", "o_alloc", "o_init", "o_entry", "o_check"}
              /\ \/ UNCHANGED pc
                 \/ pc' = [pc EXCEPT ![t] = "idle"] \/ pc' = [pc EXCEPT ![t] = "o_lookup"]
                 \/ pc' = [pc EXCEPT ![t] = "o_inode"] \/ pc' = [pc EXCEPT ![t] = "o_alloc"]
                 \/ pc' = [pc EXCEPT ![t] = "o_init"] \/ pc' = [pc EXCEPT ![t] = "o_entry"]
                 \/ pc' = [pc EXCEPT ![t] = "o_undo"] \/ pc' = [pc EXCEPT ![t] = "o_check"]
                 \/ pc' = [pc EXCEPT ![t] = "o_table"]
          BY <3>3, Zenon DEF OpenLookup, OpenFile, OpenSymLink, OpenAlloc, OpenInit, OpenEntry,
                             OpenCheck, Goto, Return, Panic
        <4> QED BY <1>3, <4>1 DEF Copying
      <3>4. CASE \/ SymLinkAlloc(t) \/ SymLinkInit(t) \/ SymLinkBlock(t) \/ SymLinkEntry(t)
                 \/ LinkLookup(t) \/ LinkEntry(t) \/ LinkCount(t)
                 \/ UnlinkLookup(t) \/ UnlinkClear(t) \/ UnlinkCount(t)
        <4>1. /\ pc[t] \in {"s_alloc", "s_init", "s_block", "s_entry", "l_lookup", "l_entry",
                            "l_count", "u_lookup", "u_clear", "u_count"}
              /\ \/ pc' = [pc EXCEPT ![t] = "idle"] \/ pc' = [pc EXCEPT ![t] = "s_init"]
                 \/ pc' = [pc EXCEPT ![t] = "s_block"] \/ pc' = [pc EXCEPT ![t] = "s_entry"]
                 \/ pc' = [pc EXCEPT ![t] = "s_undo"] \/ pc' = [pc EXCEPT ![t] = "l_entry"]
                 \/ pc' = [pc EXCEPT ![t] = "l_count"] \/ pc' = [pc EXCEPT ![t] = "u_clear"]
                 \/ pc' = [pc EXCEPT ![t] = "u_count"] \/ pc' = [pc EXCEPT ![t] = "u_delete"]
          BY <3>4, Zenon DEF SymLinkAlloc, SymLinkInit, SymLinkBlock, SymLinkEntry, LinkLookup,
                LinkEntry, LinkCount, UnlinkLookup, UnlinkClear, UnlinkCount, Goto, Return
        <4> QED BY <1>3, <4>1 DEF Copying
      <3> QED BY <1>12, <3>1, <3>2, <3>3, <3>4
              DEF Acts, Invoke, Step, Begins, Deletes, tfs_open, tfs_sym_link, tfs_link, tfs_unlink
    <2> QED BY <1>4, <1>12, <2>1 DEF files
  <1> QED BY <1>5, <1>7, <1>8, <1>9, <1>10, <1>11, <1>12, FilesChange

\* HandlesAccounted: tfs_open gives a handle that nobody has, every path of tfs_close and
\* of tfs_copy_from_external_fs gives its handle back once, and none is lost.
THEOREM HandlesAreAccounted == Spec => []HandlesAccounted
  <1>1. Init => HandlesInv
    BY DEF Init, StateInit, HandlesInv, Has, Copies, Copying
  <1>2. ASSUME TypeInv, HandlesInv, [Next]_vars
        PROVE  HandlesInv'
    <2>1. CASE Next
      BY <1>2, <2>1, HandlesStep DEF Next, Acts
    <2>2. CASE UNCHANGED vars
      BY <1>2, <2>2 DEF vars, files, HandlesInv, Has, Copies
    <2> QED BY <1>2, <2>1, <2>2
  <1>3. ASSUME TypeInv, HandlesInv
        PROVE  HandlesAccounted
    <2> SUFFICES ASSUME panic = "none"
                 PROVE  /\ free_open_file_entries = (UNION {held[t] : t \in Threads})
                              \cup {loc[t].fhandle : t \in {u \in Threads : pc[u] \in Copying}}
                        /\ \A t, u \in Threads :
                              /\ t # u => held[t] \cap held[u] = {}
                              /\ pc[t] \in Copying => loc[t].fhandle \notin held[u]
      BY DEF HandlesAccounted, Copying
    <2>1. free_open_file_entries \subseteq Handles /\ \A u \in Threads : held[u] \subseteq Handles
      BY <1>3 DEF TypeInv, FilesOK
    <2>2. \A u \in Threads : pc[u] \in Copying => loc[u].fhandle \in Handles
      BY <1>3 DEF TypeInv, LocalsSet, SetAt, WithHandle, Copying
    <2>3. \A h : h \in free_open_file_entries <=>
                    \/ \E u \in Threads : h \in held[u]
                    \/ \E u \in Threads : pc[u] \in Copying /\ loc[u].fhandle = h
      BY <1>3, <2>1, <2>2 DEF HandlesInv, Has, Copies
    <2>4. free_open_file_entries = (UNION {held[t] : t \in Threads})
                              \cup {loc[t].fhandle : t \in {u \in Threads : pc[u] \in Copying}}
      <3> DEFINE opened == UNION {held[t] : t \in Threads}
                 copied == {loc[t].fhandle : t \in {u \in Threads : pc[u] \in Copying}}
      <3>1. \A h : h \in opened <=> \E u \in Threads : h \in held[u]
        BY Zenon
      <3>2. \A h : h \in copied <=> \E u \in Threads : pc[u] \in Copying /\ loc[u].fhandle = h
        BY Zenon
      <3> HIDE DEF opened, copied
      <3>3. \A h : h \in free_open_file_entries <=> h \in opened \cup copied
        BY <2>3, <3>1, <3>2
      <3>4. free_open_file_entries = opened \cup copied
        BY <3>3
      <3> QED BY <3>4, Zenon DEF opened, copied
    <2>5. \A t, u \in Threads : t # u => held[t] \cap held[u] = {}
      BY <1>3, <2>1 DEF HandlesInv, Has
    <2>6. \A t, u \in Threads : pc[t] \in Copying => loc[t].fhandle \notin held[u]
      BY <1>3, <2>2 DEF HandlesInv, Has, Copies
    <2> QED BY <2>4, <2>5, <2>6
  <1> QED BY <1>1, <1>2, <1>3, TypesAndLocks, PTL DEF Spec
=============================================================================
