-------------------------- MODULE TecnicoFSProofs --------------------------
(***************************************************************************)
(* Proofs about module TecnicoFS, for every number of threads, inodes,     *)
(* blocks, handles, entries and calls: the types of its variables, who     *)
(* holds the locks that are kept across steps, and that the threads inside *)
(* calls never all wait.  The facts about the functions of fs/state.c and  *)
(* about what each step changes are what the other proofs start from.      *)
(***************************************************************************)
EXTENDS TecnicoFS, FiniteSetTheorems, TLAPS

(* The first free number exists and is the smallest. *)
LEMMA MinNat ==
    ASSUME NEW S \in SUBSET Nat, S # {}
    PROVE  Min(S) \in S /\ \A x \in S : Min(S) <= x
  <1> DEFINE Upto == {0 .. n : n \in S}
  <1>1. Upto \subseteq FiniteSubsetsOf(Nat)
    <2>1. \A n \in Nat : 0 .. n \in SUBSET Nat
      OBVIOUS
    <2>2. \A n \in Nat : IsFiniteSet(0 .. n)
      BY FS_Interval
    <2> QED BY <2>1, <2>2 DEF FiniteSubsetsOf
  <1>2. Upto # {}
    OBVIOUS
  <1>3. PICK M \in Upto : \A U \in Upto : ~(<<U, M>> \in StrictSubsetOrdering(Nat))
    <2> HIDE DEF Upto
    <2> QED BY <1>1, <1>2, FS_StrictSubsetOrderingWellFounded, WFMin
  <1>4. PICK m \in S : M = 0 .. m
    BY <1>3
  <1>5. ASSUME NEW y \in S, y < m
        PROVE  FALSE
    <2>1. 0 .. y \in Upto
      OBVIOUS
    <2>2. 0 .. y \subseteq 0 .. m /\ m \in 0 .. m /\ m \notin 0 .. y
      BY <1>5
    <2>3. <<0 .. y, M>> \in (SUBSET Nat) \X (SUBSET Nat)
      BY <1>4, <1>5
    <2>4. <<0 .. y, M>> \in StrictSubsetOrdering(Nat)
      BY <2>2, <2>3, <1>4 DEF StrictSubsetOrdering
    <2> QED BY <2>1, <2>4, <1>3
  <1>6. \A y \in S : m <= y
    BY <1>5
  <1> QED BY <1>6 DEF Min

(* The greater of two sizes. *)
LEMMA MaxPair ==
    ASSUME NEW a \in Nat, NEW b \in Nat
    PROVE  Max({a, b}) = IF a >= b THEN a ELSE b
  <1>1. \E x \in {a, b} : \A y \in {a, b} : x >= y
    OBVIOUS
  <1>2. Max({a, b}) \in {a, b} /\ \A y \in {a, b} : Max({a, b}) >= y
    BY <1>1 DEF Max
  <1> QED BY <1>2

(* The smaller of two. *)
LEMMA MinPair ==
    ASSUME NEW a \in Nat, NEW b \in Nat
    PROVE  Min({a, b}) = IF a <= b THEN a ELSE b
  <1>1. \E x \in {a, b} : \A y \in {a, b} : x =< y
    OBVIOUS
  <1>2. Min({a, b}) \in {a, b} /\ \A y \in {a, b} : Min({a, b}) =< y
    BY <1>1 DEF Min
  <1> QED BY <1>2

-----------------------------------------------------------------------------
(* The inductive invariant of types, locks and names                       *)

\* The hard link counter is only known to be an integer here: that it never goes
\* below 0 is a consequence of LinkCountExact, in module TecnicoFSLinks.
InodeOrLess ==
    [i_node_type : {T_FILE, T_SYM_LINK}, i_size : 0 .. BlockSize,
     i_data_block : Blocks \cup {-1}, i_hard_links : Int]

DirEntry == [d_name : Names \cup {NULL}, d_inumber : Inums \cup {-1}]
OpenFileEntry == [of_inumber : Inums, of_offset : 0 .. BlockSize]

Locals ==
    [name : Names \cup {NULL}, other : Names \cup {NULL}, via : Blocks \cup {-1},
     mode : SUBSET AllFlags, inum : Inums \cup {-1}, offset : 0 .. BlockSize,
     fhandle : Handles \cup {-1}, len : Lengths \cup {0}, left : Nat \cup {-1}]

\* The tables; an inode with data has a block for it.
TablesOK ==
    /\ inode_table \in [Inums -> InodeOrLess]
    /\ freeinode_ts \subseteq Inums
    /\ dir \in [Entries -> DirEntry]
    /\ free_blocks \subseteq Blocks
    /\ fs_data \in [Blocks -> Names \cup {NULL}]
    /\ \A i \in Inums : inode_table[i].i_size > 0 => inode_table[i].i_data_block \in Blocks

FilesOK ==
    /\ open_file_table \in [Handles -> OpenFileEntry]
    /\ free_open_file_entries \subseteq Handles
    /\ held \in [Threads -> SUBSET Handles]

ControlOK ==
    /\ pc \in [Threads -> Labels]
    /\ loc \in [Threads -> Locals]
    /\ open_mutex \in Threads \cup {NULL}
    /\ link_rd \subseteq Threads
    /\ link_wr \in Threads \cup {NULL}
    /\ foe_mutex \in Threads \cup {NULL}
    /\ calls \in 0 .. MaxCalls
    /\ panic \in Asserts \cup {"none"}

\* The labels where a local variable is used, and is set.
WithInum ==
    {"o_inode", "o_init", "o_entry", "o_undo", "o_check", "o_table", "c_delete", "s_init",
     "s_block", "s_entry", "s_undo", "l_entry", "l_count", "u_clear", "u_count", "u_delete"}
WithHandle == {"w_entry", "r_entry", "x_write", "x_close", "c_delete"}
WithOther == {"s_alloc", "s_init", "s_block", "s_entry", "l_lookup", "l_entry", "l_count"}
WithName == {"u_lookup", "u_clear"}

SetAt(label, locals) ==
    /\ label \in WithInum => locals.inum \in Inums
    /\ label \in WithHandle => locals.fhandle \in Handles
    /\ label \in WithOther => locals.other \in Names
    /\ label \in WithName => locals.name \in Names
    /\ label = "x_write" => locals.left \in Nat

LocalsSet == \A t \in Threads : SetAt(pc[t], loc[t])

TypeInv == TablesOK /\ FilesOK /\ ControlOK /\ LocalsSet

\* Who holds the locks that are kept across steps can be told from where it is.
OpenHolders == {"o_alloc", "o_init", "o_entry"}
Readers == {"s_init", "s_block", "s_entry", "s_undo", "l_entry", "l_count"}
Writers == {"u_clear", "u_count", "u_delete"}
Deleters == {"c_delete", "u_delete"}

LocksHeld ==
    /\ \A t \in Threads :
          /\ open_mutex = t <=> pc[t] \in OpenHolders
          /\ t \in link_rd <=> pc[t] \in Readers
          /\ link_wr = t <=> pc[t] \in Writers
          /\ foe_mutex = t <=> pc[t] \in Deleters
    /\ link_wr # NULL => link_rd = {}

-----------------------------------------------------------------------------
(* What the functions of fs/state.c return                                 *)

\* The numbers of the tables start where the model says.
LEMMA Sizes ==
    /\ InodeCount \in Nat \ {0} /\ BlockCount \in Nat \ {0} /\ MaxOpenFiles \in Nat \ {0}
    /\ DirEntries \in Nat \ {0} /\ BlockSize \in Nat \ {0} /\ NULL \notin Names
  BY SizesAssumption

\* inode_alloc finds a free inode when there is one.
LEMMA FirstFreeInode ==
    ASSUME TablesOK, FreeInums # {}
    PROVE  Min(FreeInums) \in Inums /\ Min(FreeInums) \notin freeinode_ts
  <1>1. FreeInums \in SUBSET Nat
    BY Sizes DEF FreeInums, Inums
  <1> QED BY <1>1, MinNat DEF FreeInums

\* data_block_alloc finds a free block when there is one.
LEMMA FirstFreeBlock ==
    ASSUME TablesOK, free_blocks # Blocks
    PROVE  Min(FreeBlocks) \in Blocks /\ Min(FreeBlocks) \notin free_blocks
  <1>1. FreeBlocks \in SUBSET Nat
    BY Sizes DEF FreeBlocks, Blocks
  <1>2. FreeBlocks # {}
    BY DEF FreeBlocks, TablesOK
  <1> QED BY <1>1, <1>2, MinNat DEF FreeBlocks

\* add_to_open_file_table finds a free handle when there is one.
LEMMA FirstFreeHandle ==
    ASSUME FreeHandles # {}
    PROVE  Min(FreeHandles) \in Handles /\ Min(FreeHandles) \notin free_open_file_entries
  <1>1. FreeHandles \in SUBSET Nat
    BY Sizes DEF FreeHandles, Handles
  <1> QED BY <1>1, MinNat DEF FreeHandles

\* add_dir_entry stops at the first free entry: all those before it are live.
LEMMA FirstFreeEntry ==
    ASSUME Live # Entries
    PROVE  LET m == Min(Entries \ Live)
           IN  /\ m \in Entries
               /\ dir[m].d_inumber = -1
               /\ \A f \in Entries : f < m => f \in Live
  <1>1. Entries \ Live \in SUBSET Nat
    BY Sizes DEF Entries
  <1>2. Entries \ Live # {}
    BY DEF Live
  <1>3. /\ Min(Entries \ Live) \in Entries \ Live
        /\ \A x \in Entries \ Live : Min(Entries \ Live) <= x
    BY <1>1, <1>2, MinNat
  <1>4. \A f \in Entries : f \in Nat
    BY Sizes DEF Entries
  <1> DEFINE m == Min(Entries \ Live)
  <1>5. m \in Entries /\ dir[m].d_inumber = -1
    BY <1>3 DEF Live
  <1>6. \A f \in Entries : f < m => f \in Live
    <2> HIDE DEF m
    <2>1. \A x \in Entries \ Live : m <= x
      BY <1>3 DEF m
    <2> QED BY <2>1, <1>4, <1>5
  <1> QED BY <1>5, <1>6

\* find_in_dir returns what a live entry with the name holds, or -1 if there is none.
LEMMA FindInDir ==
    ASSUME TablesOK, NEW n
    PROVE  \/ /\ find_in_dir(n) = -1
              /\ \A e \in Live : dir[e].d_name # n
           \/ /\ find_in_dir(n) \in Inums
              /\ \E e \in Live : dir[e].d_name = n /\ dir[e].d_inumber = find_in_dir(n)
  <1> DEFINE match == {e \in Live : dir[e].d_name = n}
  <1>1. CASE match = {}
    BY <1>1 DEF find_in_dir
  <1>2. CASE match # {}
    <2>1. match \in SUBSET Nat
      BY Sizes DEF Live, Entries
    <2>2. Min(match) \in match
      BY <1>2, <2>1, MinNat
    <2>3. Min(match) \in Live /\ dir[Min(match)].d_name = n
      BY <2>2
    <2>4. dir[Min(match)].d_inumber \in Inums
      BY <2>3 DEF TablesOK, DirEntry, Live
    <2>5. find_in_dir(n) = dir[Min(match)].d_inumber
      BY <1>2 DEF find_in_dir
    <2> QED BY <2>3, <2>4, <2>5
  <1> QED BY <1>1, <1>2

\* What a write does: it corrects the offset, or writes to the block the file has, or
\* to one that was free, and the size stays within the block.
LEMMA WriteEffect ==
    ASSUME TablesOK, FilesOK, NEW h \in Handles, NEW n \in Nat, write_to_open_file(h, n)
    PROVE  LET i == open_file_table[h].of_inumber
           IN  /\ \/ UNCHANGED <<inode_table, free_blocks, fs_data>>
                  \/ \E r \in InodeOrLess :
                       LET b == r.i_data_block
                       IN  /\ b \in Blocks
                           /\ \/ inode_table[i].i_size > 0 /\ b = inode_table[i].i_data_block
                              \/ b \notin free_blocks
                           /\ r.i_size > 0
                           /\ r.i_node_type = inode_table[i].i_node_type
                           /\ r.i_hard_links = inode_table[i].i_hard_links
                           /\ inode_table' = [inode_table EXCEPT ![i] = r]
                           /\ free_blocks' = free_blocks \cup {b}
                           /\ fs_data' = [fs_data EXCEPT ![b] = NULL]
               /\ \E o \in 0 .. BlockSize :
                    open_file_table' = [open_file_table EXCEPT ![h].of_offset = o]
  <1> DEFINE i == open_file_table[h].of_inumber
             size == inode_table[i].i_size
             offset == open_file_table[h].of_offset
             block == IF size > 0 THEN inode_table[i].i_data_block
                      ELSE Min(FreeBlocks)
  <1>1. i \in Inums /\ offset \in 0 .. BlockSize
    BY DEF FilesOK, OpenFileEntry
  <1>2. size \in 0 .. BlockSize /\ (size > 0 => inode_table[i].i_data_block \in Blocks)
    BY <1>1 DEF TablesOK, InodeOrLess
  <1>3. Clamped(h) \in 0 .. BlockSize
    <2>1. offset \in Nat /\ size \in Nat
      BY <1>1, <1>2, Sizes
    <2>2. Clamped(h) = Min({offset, size})
      BY DEF Clamped
    <2> HIDE DEF offset, size
    <2> QED BY <1>1, <1>2, <2>1, <2>2, MinPair
  <1>4. WriteEnd(h, n) \in 0 .. BlockSize
    <2>1. Clamped(h) + n \in Nat
      BY <1>3, Sizes
    <2> QED BY <2>1, Sizes, MinPair DEF WriteEnd
  <1>5. Max({size, WriteEnd(h, n)}) = IF size >= WriteEnd(h, n) THEN size ELSE WriteEnd(h, n)
    <2>1. size \in Nat /\ WriteEnd(h, n) \in Nat
      BY <1>2, <1>4, Sizes
    <2> HIDE DEF size
    <2> QED BY <2>1, MaxPair
  <1>6. CASE WriteEnd(h, n) > Clamped(h) /\ ~(size = 0 /\ free_blocks = Blocks)
    <2>1. /\ inode_table' = [inode_table EXCEPT ![i].i_data_block = block,
                                                ![i].i_size = Max({size, WriteEnd(h, n)})]
          /\ free_blocks' = free_blocks \cup {block}
          /\ fs_data' = [fs_data EXCEPT ![block] = NULL]
          /\ open_file_table' = [open_file_table EXCEPT ![h].of_offset = WriteEnd(h, n)]
      BY <1>6 DEF write_to_open_file
    <2>2. Max({size, WriteEnd(h, n)}) \in 1 .. BlockSize
      BY <1>2, <1>3, <1>4, <1>5, <1>6, Sizes
    <2>3. block \in Blocks /\ (size > 0 \/ block \notin free_blocks)
      BY <1>2, <1>6, Sizes, FirstFreeBlock
    <2>4. size > 0 => block = inode_table[i].i_data_block
      OBVIOUS
    <2> DEFINE end == Max({size, WriteEnd(h, n)})
               r == [[inode_table[i] EXCEPT !.i_data_block = block] EXCEPT !.i_size = end]
    <2>5. inode_table[i] \in InodeOrLess
      BY <1>1 DEF TablesOK
    <2>6. inode_table' = [inode_table EXCEPT ![i] = r]
      BY <2>1, Zenon
    <2> HIDE DEF block, end
    <2>7. [inode_table[i] EXCEPT !.i_data_block = block] \in InodeOrLess
      BY <2>3, <2>5, Zenon DEF InodeOrLess
    <2>8. end \in 0 .. BlockSize /\ end > 0
      BY <2>2 DEF end
    <2>9. r \in InodeOrLess
      BY <2>7, <2>8, Zenon DEF InodeOrLess
    <2>10. /\ r.i_data_block = block /\ r.i_size = end
           /\ r.i_node_type = inode_table[i].i_node_type
           /\ r.i_hard_links = inode_table[i].i_hard_links
      BY <2>5, Zenon DEF InodeOrLess
    <2> HIDE DEF r
    <2> QED BY <1>4, <2>1, <2>3, <2>4, <2>6, <2>8, <2>9, <2>10
  <1>7. CASE ~(WriteEnd(h, n) > Clamped(h) /\ ~(size = 0 /\ free_blocks = Blocks))
    BY <1>3, <1>7 DEF write_to_open_file
  <1> QED BY <1>6, <1>7

\* What a read does: the offset moves, and stays within the block.
LEMMA ReadEffect ==
    ASSUME TablesOK, FilesOK, NEW h \in Handles, NEW n \in Nat, read_from_open_file(h, n)
    PROVE  \E o \in 0 .. BlockSize :
               open_file_table' = [open_file_table EXCEPT ![h].of_offset = o]
  <1> DEFINE i == open_file_table[h].of_inumber
             size == inode_table[i].i_size
             offset == open_file_table[h].of_offset
             end == Min({Clamped(h) + n, size})
  <1>1. i \in Inums /\ offset \in 0 .. BlockSize
    BY DEF FilesOK, OpenFileEntry
  <1>2. size \in 0 .. BlockSize
    BY <1>1 DEF TablesOK, InodeOrLess
  <1>3. Clamped(h) \in Nat
    <2>1. offset \in Nat /\ size \in Nat
      BY <1>1, <1>2, Sizes
    <2>2. Clamped(h) = Min({offset, size})
      BY DEF Clamped
    <2> HIDE DEF offset, size
    <2> QED BY <2>1, <2>2, MinPair
  <1>4. end \in 0 .. BlockSize
    <2>1. Clamped(h) + n \in Nat /\ size \in Nat
      BY <1>2, <1>3, Sizes
    <2> HIDE DEF size
    <2> QED BY <1>2, <2>1, MinPair, Sizes
  <1>5. open_file_table' = [open_file_table EXCEPT ![h].of_offset = end]
    BY Zenon DEF read_from_open_file
  <1> QED BY <1>4, <1>5, Zenon

\* Setting a local variable.
LEMMA LocalsUpdate ==
    ASSUME NEW r \in Locals
    PROVE  /\ \A v \in Inums \cup {-1} : [r EXCEPT !.inum = v] \in Locals
           /\ \A v \in Blocks \cup {-1} : [r EXCEPT !.via = v] \in Locals
           /\ \A v \in 0 .. BlockSize : [r EXCEPT !.offset = v] \in Locals
           /\ \A v \in Handles \cup {-1} : [r EXCEPT !.fhandle = v] \in Locals
           /\ \A v \in Nat : [r EXCEPT !.left = v] \in Locals
           /\ \A v \in Names : [r EXCEPT !.name = v] \in Locals /\ [r EXCEPT !.other = v] \in Locals
           /\ \A v \in SUBSET AllFlags : [r EXCEPT !.mode = v] \in Locals
           /\ \A v \in Lengths : [r EXCEPT !.len = v] \in Locals
  <1>1. /\ \A v \in Inums \cup {-1} : [r EXCEPT !.inum = v] \in Locals
        /\ \A v \in Blocks \cup {-1} : [r EXCEPT !.via = v] \in Locals
        /\ \A v \in 0 .. BlockSize : [r EXCEPT !.offset = v] \in Locals
    BY ZenonT(60) DEF Locals
  <1>2. /\ \A v \in Handles \cup {-1} : [r EXCEPT !.fhandle = v] \in Locals
        /\ \A v \in Nat : [r EXCEPT !.left = v] \in Locals
        /\ \A v \in Lengths : [r EXCEPT !.len = v] \in Locals
    BY ZenonT(60) DEF Locals
  <1>3. \A v \in Names : [r EXCEPT !.name = v] \in Locals /\ [r EXCEPT !.other = v] \in Locals
    BY Zenon DEF Locals
  <1>4. \A v \in SUBSET AllFlags : [r EXCEPT !.mode = v] \in Locals
    BY Zenon DEF Locals
  <1> QED BY <1>1, <1>2, <1>3, <1>4

-----------------------------------------------------------------------------
(* Types                                                                   *)

\* The local variables of a thread outside any call.
LEMMA NoLocalsOK == NoLocals \in Locals /\ SetAt("idle", NoLocals)
  <1>1. NoLocals \in Locals
    BY Sizes DEF NoLocals, Locals
  <1> QED BY <1>1 DEF SetAt, WithInum, WithHandle, WithOther, WithName

\* A thread moves on with the local variables set that it needs there.
Moved(t) ==
    \E l \in Labels, r \in Locals :
        /\ SetAt(l, r)
        /\ pc' = [pc EXCEPT ![t] = l]
        /\ loc' = [loc EXCEPT ![t] = r]

\* A thread that moves on so leaves every thread with what it needs.
LEMMA MovedOK ==
    ASSUME ControlOK, LocalsSet, NEW t \in Threads, Moved(t)
    PROVE  pc' \in [Threads -> Labels] /\ loc' \in [Threads -> Locals] /\ LocalsSet'
  <1>1. PICK l \in Labels, r \in Locals :
            SetAt(l, r) /\ pc' = [pc EXCEPT ![t] = l] /\ loc' = [loc EXCEPT ![t] = r]
    BY DEF Moved
  <1>2. pc' \in [Threads -> Labels] /\ loc' \in [Threads -> Locals]
    BY <1>1, Zenon DEF ControlOK
  <1>3. ASSUME NEW u \in Threads
        PROVE  SetAt(pc'[u], loc'[u])
    <2>1. CASE u = t
      <3>1. pc'[u] = l /\ loc'[u] = r
        BY <1>1, <2>1 DEF ControlOK
      <3> QED BY <3>1, <1>1
    <2>2. CASE u # t
      <3>1. pc'[u] = pc[u] /\ loc'[u] = loc[u]
        BY <1>1, <2>2 DEF ControlOK
      <3> QED BY <3>1 DEF LocalsSet
    <2> QED BY <2>1, <2>2
  <1>4. LocalsSet'
    BY <1>3 DEF LocalsSet, SetAt
  <1> QED BY <1>2, <1>4

\* A call that begins.
LEMMA BeginOK ==
    ASSUME ControlOK, LocalsSet, NEW t \in Threads, NEW op, NEW to \in Labels,
           NEW r \in Locals, SetAt(to, r), Begin(t, op, to, r)
    PROVE  ControlOK' /\ LocalsSet'
  <1>1. Moved(t)
    BY DEF Begin, Goto, Moved
  <1>2. calls' \in 0 .. MaxCalls
    BY CallsAssumption DEF ControlOK, Begin, Call
  <1> QED BY <1>1, <1>2, MovedOK DEF ControlOK, Begin, locks

\* A thread that returns.
LEMMA ReturnMoves ==
    ASSUME NEW t \in Threads, NEW from, Return(t, from)
    PROVE  Moved(t)
  <1>1. "idle" \in Labels
    BY DEF Labels
  <1> QED BY <1>1, NoLocalsOK, Zenon DEF Return, Goto, Moved

\* A thread that goes on with the variables it has, or with one of them changed.
LEMMA GotoMoves ==
    ASSUME ControlOK, NEW t \in Threads, NEW from, NEW to \in Labels, Goto(t, from, to)
    PROVE  /\ UNCHANGED loc /\ SetAt(to, loc[t]) => Moved(t)
           /\ \A v \in Inums \cup {-1} :
                loc' = [loc EXCEPT ![t].inum = v] /\ SetAt(to, [loc[t] EXCEPT !.inum = v])
                  => Moved(t)
  <1>1. loc[t] \in Locals /\ loc = [loc EXCEPT ![t] = loc[t]]
    BY DEF ControlOK
  <1>2. pc' = [pc EXCEPT ![t] = to]
    BY DEF Goto
  <1>3. UNCHANGED loc /\ SetAt(to, loc[t]) => Moved(t)
    BY <1>1, <1>2 DEF Moved
  <1>4. ASSUME NEW v \in Inums \cup {-1},
               loc' = [loc EXCEPT ![t].inum = v], SetAt(to, [loc[t] EXCEPT !.inum = v])
        PROVE  Moved(t)
    <2>1. [loc[t] EXCEPT !.inum = v] \in Locals
      BY <1>1, LocalsUpdate
    <2> QED BY <1>2, <1>4, <2>1, Zenon DEF Moved
  <1> QED BY <1>3, <1>4

\* Where the local variables must be set, as one definition to expand.
LEMMA SetAtFacts ==
    ASSUME NEW r
    PROVE  /\ SetAt("o_lookup", r) /\ SetAt("o_alloc", r)
           /\ r.inum \in Inums => \A l \in {"o_inode", "o_init", "o_entry", "o_undo", "o_check",
                                            "o_table", "s_undo", "u_count", "u_delete"} : SetAt(l, r)
           /\ r.inum \in Inums /\ r.other \in Names =>
                \A l \in {"s_init", "s_block", "s_entry", "l_entry", "l_count"} : SetAt(l, r)
           /\ r.inum \in Inums /\ r.name \in Names => SetAt("u_clear", r)
           /\ r.inum \in Inums /\ r.fhandle \in Handles => SetAt("c_delete", r)
           /\ r.other \in Names => SetAt("s_alloc", r) /\ SetAt("l_lookup", r)
           /\ r.name \in Names => SetAt("u_lookup", r)
           /\ r.fhandle \in Handles => SetAt("w_entry", r) /\ SetAt("r_entry", r) /\ SetAt("x_close", r)
           /\ r.fhandle \in Handles /\ r.left \in Nat => SetAt("x_write", r)
  BY DEF SetAt, WithInum, WithHandle, WithOther, WithName

\* Every call begins with the local variables it needs.
LEMMA CallsOK ==
    ASSUME TypeInv, NEW t \in Threads,
           \/ CallOpen(t) \/ CallWrite(t) \/ CallRead(t) \/ CallSymLink(t)
           \/ CallLink(t) \/ CallUnlink(t) \/ CallCopy(t)
    PROVE  ControlOK' /\ LocalsSet'
  <1> USE DEF TypeInv
  <1>1. {"o_lookup", "w_entry", "r_entry", "s_alloc", "l_lookup", "u_lookup"} \subseteq Labels
    BY DEF Labels
  <1>2. CASE CallOpen(t)
    <2>1. PICK n \in Names, m \in Modes :
            Begin(t, "open", "o_lookup", [NoLocals EXCEPT !.name = n, !.mode = m])
      BY <1>2 DEF CallOpen
    <2>2. [NoLocals EXCEPT !.name = n, !.mode = m] \in Locals
      <3>1. [NoLocals EXCEPT !.name = n] \in Locals
        BY NoLocalsOK, LocalsUpdate
      <3>2. m \in SUBSET AllFlags
        BY CallsAssumption
      <3> QED BY <3>1, <3>2, LocalsUpdate, Zenon
    <2> QED BY <1>1, <2>1, <2>2, SetAtFacts, BeginOK
  <1>3. CASE CallWrite(t) \/ CallRead(t)
    <2>1. PICK h \in free_open_file_entries, n \in Lengths :
            \/ Begin(t, "write", "w_entry", [NoLocals EXCEPT !.fhandle = h, !.len = n])
            \/ Begin(t, "read", "r_entry", [NoLocals EXCEPT !.fhandle = h, !.len = n])
      BY <1>3 DEF CallWrite, CallRead, get_open_file_entry
    <2> DEFINE r == [NoLocals EXCEPT !.fhandle = h, !.len = n]
    <2>2. h \in Handles
      BY DEF FilesOK
    <2>3. r \in Locals /\ r.fhandle = h
      <3>1. [NoLocals EXCEPT !.fhandle = h] \in Locals
        BY <2>2, NoLocalsOK, LocalsUpdate
      <3>2. r.fhandle = h
        BY Zenon DEF NoLocals
      <3> QED BY <3>1, <3>2, LocalsUpdate, Zenon
    <2> HIDE DEF r
    <2>4. SetAt("w_entry", r) /\ SetAt("r_entry", r)
      BY <2>2, <2>3, SetAtFacts
    <2> QED BY <1>1, <2>1, <2>3, <2>4, BeginOK DEF r
  <1>4. CASE CallSymLink(t) \/ CallLink(t)
    <2>1. PICK target \in Names, link \in Names :
            \/ Begin(t, "sym_link", "s_alloc", [NoLocals EXCEPT !.name = target, !.other = link])
            \/ Begin(t, "link", "l_lookup", [NoLocals EXCEPT !.name = target, !.other = link])
      BY <1>4 DEF CallSymLink, CallLink
    <2> DEFINE r == [NoLocals EXCEPT !.name = target, !.other = link]
    <2>2. r \in Locals /\ r.other \in Names
      <3>1. [NoLocals EXCEPT !.name = target] \in Locals
        BY NoLocalsOK, LocalsUpdate
      <3>2. r.other = link
        BY Zenon DEF NoLocals
      <3> QED BY <3>1, <3>2, LocalsUpdate, Zenon
    <2> HIDE DEF r
    <2>3. SetAt("s_alloc", r) /\ SetAt("l_lookup", r)
      BY <2>2, SetAtFacts
    <2> QED BY <1>1, <2>1, <2>2, <2>3, BeginOK DEF r
  <1>5. CASE CallUnlink(t)
    <2>1. PICK n \in Names : Begin(t, "unlink", "u_lookup", [NoLocals EXCEPT !.name = n])
      BY <1>5 DEF CallUnlink
    <2> DEFINE r == [NoLocals EXCEPT !.name = n]
    <2>2. r \in Locals /\ r.name \in Names
      BY Sizes DEF NoLocals, Locals
    <2> HIDE DEF r
    <2>3. SetAt("u_lookup", r)
      BY <2>2, SetAtFacts
    <2> QED BY <1>1, <2>1, <2>2, <2>3, BeginOK DEF r
  <1>6. CASE CallCopy(t)
    <2>1. PICK n \in Names, k \in Sources :
            Begin(t, "copy", "o_lookup",
                  [NoLocals EXCEPT !.name = n, !.mode = {"CREAT", "TRUNC"}, !.left = k])
      BY <1>6 DEF CallCopy
    <2>2. k \in Nat
      BY CallsAssumption
    <2>3. [NoLocals EXCEPT !.name = n, !.mode = {"CREAT", "TRUNC"}, !.left = k] \in Locals
      <3>1. [NoLocals EXCEPT !.name = n] \in Locals
        BY NoLocalsOK, LocalsUpdate
      <3>2. {"CREAT", "TRUNC"} \in SUBSET AllFlags
        BY DEF AllFlags
      <3>3. [NoLocals EXCEPT !.name = n, !.mode = {"CREAT", "TRUNC"}] \in Locals
        BY <3>1, <3>2, LocalsUpdate, Zenon
      <3> QED BY <2>2, <3>3, LocalsUpdate, Zenon
    <2> QED BY <1>1, <2>1, <2>3, SetAtFacts, BeginOK
  <1> QED BY <1>2, <1>3, <1>4, <1>5, <1>6

\* A thread moves on with an inode it found or took.
LEMMA InumMoves ==
    ASSUME ControlOK, NEW t \in Threads, NEW from, NEW to \in Labels, Goto(t, from, to),
           NEW v \in Inums, loc' = [loc EXCEPT ![t].inum = v],
           \/ to \in {"o_inode", "o_init"}
           \/ to \in {"s_init", "l_entry"} /\ loc[t].other \in Names
           \/ to = "u_clear" /\ loc[t].name \in Names
    PROVE  Moved(t)
  <1> DEFINE r == [loc[t] EXCEPT !.inum = v]
  <1>1. loc[t] \in Locals
    BY DEF ControlOK
  <1>2. r.inum = v /\ r.other = loc[t].other /\ r.name = loc[t].name
    BY <1>1, Zenon DEF Locals
  <1> HIDE DEF r
  <1>3. SetAt(to, r)
    BY <1>2, SetAtFacts
  <1> QED BY <1>3, GotoMoves DEF r

\* tfs_open moves with the inode it found or made.
LEMMA OpenMoves ==
    ASSUME TypeInv, NEW t \in Threads, tfs_open(t)
    PROVE  Moved(t) \/ UNCHANGED <<pc, loc>>
  <1> USE DEF TypeInv
  <1>1. SetAt(pc[t], loc[t]) /\ loc[t] \in Locals
    BY DEF LocalsSet, ControlOK
  <1>2. CASE OpenLookup(t)
    <2> DEFINE i == find_in_dir(Path(t))
    <2>1. i = -1 \/ i \in Inums
      BY FindInDir
    <2>2. CASE i # -1
      <3>1. Goto(t, "o_lookup", "o_inode") /\ loc' = [loc EXCEPT ![t].inum = i]
        BY <1>2, <2>2 DEF OpenLookup
      <3>2. "o_inode" \in Labels
        BY DEF Labels
      <3> QED BY <2>1, <2>2, <3>1, <3>2, InumMoves
    <2>3. CASE i = -1
      <3>1. \/ Return(t, "o_lookup")
            \/ Goto(t, "o_lookup", "o_alloc") /\ UNCHANGED loc
        BY <1>2, <2>3 DEF OpenLookup
      <3>2. "o_alloc" \in Labels
        BY DEF Labels
      <3> QED BY <3>1, <3>2, ReturnMoves, GotoMoves, SetAtFacts
    <2> QED BY <2>2, <2>3
  <1>3. CASE OpenFile(t)
    <2> DEFINE size == IF "TRUNC" \in loc[t].mode THEN 0 ELSE inode_table[loc[t].inum].i_size
               off == IF "APPEND" \in loc[t].mode THEN size ELSE 0
               r == [loc[t] EXCEPT !.offset = off]
    <2>1. pc[t] = "o_inode" /\ pc' = [pc EXCEPT ![t] = "o_check"]
          /\ loc' = [loc EXCEPT ![t].offset = off]
      BY <1>3 DEF OpenFile, Goto
    <2>2. loc[t].inum \in Inums
      BY <1>1, <2>1 DEF SetAt, WithInum
    <2>3. off \in 0 .. BlockSize
      BY <2>2, Sizes DEF TablesOK, InodeOrLess
    <2> HIDE DEF off
    <2>4. r \in Locals /\ r.inum = loc[t].inum
      BY <1>1, <2>3, LocalsUpdate, ZenonT(60) DEF Locals
    <2>5. SetAt("o_check", r) /\ "o_check" \in Labels
      BY <2>2, <2>4, SetAtFacts DEF Labels
    <2> QED BY <2>1, <2>4, <2>5, Zenon DEF Moved
  <1>4. CASE OpenSymLink(t)
    <2> DEFINE b == inode_table[loc[t].inum].i_data_block
               r == [[loc[t] EXCEPT !.via = b] EXCEPT !.inum = -1]
    <2>1. CASE b = -1
      BY <1>4, <2>1 DEF OpenSymLink, Panic
    <2>2. CASE b # -1
      <3>1. /\ pc[t] = "o_inode" /\ pc' = [pc EXCEPT ![t] = "o_lookup"]
            /\ loc' = [loc EXCEPT ![t].via = b, ![t].inum = -1]
        BY <1>4, <2>2 DEF OpenSymLink, Goto
      <3>2. loc[t].inum \in Inums
        BY <1>1, <3>1 DEF SetAt, WithInum
      <3>3. b \in Blocks
        BY <2>2, <3>2 DEF TablesOK, InodeOrLess
      <3>4. [loc[t] EXCEPT !.via = b] \in Locals
        BY <1>1, <3>3, LocalsUpdate
      <3>5. r \in Locals
        BY <3>4, LocalsUpdate
      <3>6. loc' = [loc EXCEPT ![t] = r]
        BY <3>1, Zenon DEF ControlOK
      <3>7. SetAt("o_lookup", r) /\ "o_lookup" \in Labels
        BY SetAtFacts DEF Labels
      <3> QED BY <3>1, <3>5, <3>6, <3>7, Zenon DEF Moved
    <2> QED BY <2>1, <2>2
  <1>5. CASE OpenAlloc(t)
    <2>1. CASE FreeInums = {}
      BY <1>5, <2>1, ReturnMoves DEF OpenAlloc
    <2>2. CASE FreeInums # {}
      <3>1. Goto(t, "o_alloc", "o_init") /\ loc' = [loc EXCEPT ![t].inum = Min(FreeInums)]
        BY <1>5, <2>2 DEF OpenAlloc
      <3>2. Min(FreeInums) \in Inums /\ "o_init" \in Labels
        BY <2>2, FirstFreeInode DEF Labels
      <3> QED BY <3>1, <3>2, InumMoves
    <2> QED BY <2>1, <2>2
  <1>6. CASE OpenInit(t) \/ OpenEntry(t)
    <2>1. \E from \in {"o_init", "o_entry"}, to \in {"o_entry", "o_check", "o_undo"} :
             Goto(t, from, to) /\ UNCHANGED loc
      BY <1>6 DEF OpenInit, OpenEntry
    <2>2. loc[t].inum \in Inums
      BY <1>1, <2>1 DEF SetAt, WithInum, Goto
    <2>3. {"o_entry", "o_check", "o_undo"} \subseteq Labels
      BY DEF Labels
    <2> QED BY <2>1, <2>2, <2>3, GotoMoves, SetAtFacts
  <1>7. CASE OpenUndo(t)
    BY <1>7, ReturnMoves DEF OpenUndo, DeleteAndReturn, Panic
  <1>8. CASE OpenCheck(t)
    <2>1. Return(t, "o_check") \/ (Goto(t, "o_check", "o_table") /\ UNCHANGED loc)
      BY <1>8 DEF OpenCheck
    <2>2. pc[t] = "o_check"
      BY <2>1 DEF Return, Goto
    <2>3. loc[t].inum \in Inums
      BY <1>1, <2>2 DEF SetAt, WithInum
    <2>4. "o_table" \in Labels
      BY DEF Labels
    <2> QED BY <2>1, <2>3, <2>4, ReturnMoves, GotoMoves, SetAtFacts
  <1>9. CASE OpenTable(t)
    <2> DEFINE h == Min(FreeHandles)
               r == [loc[t] EXCEPT !.fhandle = h]
    <2>1. CASE Return(t, "o_table")
      BY <2>1, ReturnMoves
    <2>2. CASE ~Return(t, "o_table")
      <3>1. /\ FreeHandles # {} /\ loc[t].left # -1 /\ pc' = [pc EXCEPT ![t] = "x_write"]
            /\ loc' = [loc EXCEPT ![t].fhandle = h]
        BY <1>9, <2>2 DEF OpenTable, Goto
      <3>2. h \in Handles
        BY <3>1, FirstFreeHandle
      <3>3. loc[t].left \in Nat
        BY <1>1, <3>1 DEF Locals
      <3> HIDE DEF h
      <3>4. r \in Locals /\ r.fhandle = h /\ r.left = loc[t].left
        BY <1>1, <3>2, LocalsUpdate, ZenonT(60) DEF Locals
      <3>5. SetAt("x_write", r) /\ "x_write" \in Labels
        BY <3>2, <3>3, <3>4, SetAtFacts DEF Labels
      <3> QED BY <3>1, <3>4, <3>5, Zenon DEF Moved
    <2> QED BY <2>1, <2>2
  <1> QED BY <1>2, <1>3, <1>4, <1>5, <1>6, <1>7, <1>8, <1>9 DEF tfs_open

\* tfs_sym_link, tfs_link and tfs_unlink move with the inode they made or found.
LEMMA LinkMoves ==
    ASSUME TypeInv, NEW t \in Threads, tfs_sym_link(t) \/ tfs_link(t) \/ tfs_unlink(t)
    PROVE  Moved(t) \/ UNCHANGED <<pc, loc>>
  <1> USE DEF TypeInv
  <1>1. SetAt(pc[t], loc[t]) /\ loc[t] \in Locals
    BY DEF LocalsSet, ControlOK
  <1>2. {"s_init", "s_block", "s_entry", "s_undo", "l_entry", "l_count", "u_clear", "u_count",
         "u_delete"} \subseteq Labels
    BY DEF Labels
  <1>3. CASE SymLinkAlloc(t)
    <2>1. CASE FreeInums = {}
      BY <1>3, <2>1, ReturnMoves DEF SymLinkAlloc
    <2>2. CASE FreeInums # {}
      <3>1. Goto(t, "s_alloc", "s_init") /\ loc' = [loc EXCEPT ![t].inum = Min(FreeInums)]
        BY <1>3, <2>2 DEF SymLinkAlloc
      <3>2. loc[t].other \in Names
        BY <1>1, <3>1 DEF SetAt, WithOther, Goto
      <3> QED BY <1>2, <2>2, <3>1, <3>2, FirstFreeInode, InumMoves
    <2> QED BY <2>1, <2>2
  <1>4. CASE SymLinkInit(t) \/ SymLinkBlock(t) \/ SymLinkEntry(t)
    <2>1. \/ Return(t, "s_entry")
          \/ \E from \in {"s_init", "s_block", "s_entry"}, to \in {"s_block", "s_entry", "s_undo"} :
                Goto(t, from, to) /\ UNCHANGED loc
      BY <1>4 DEF SymLinkInit, SymLinkBlock, SymLinkEntry
    <2>2. pc[t] \in {"s_init", "s_block", "s_entry"}
      BY <2>1 DEF Return, Goto
    <2>3. loc[t].inum \in Inums /\ loc[t].other \in Names
      BY <1>1, <2>2 DEF SetAt, WithInum, WithOther
    <2> QED BY <1>2, <2>1, <2>3, ReturnMoves, GotoMoves, SetAtFacts
  <1>5. CASE SymLinkUndo(t) \/ UnlinkDelete(t)
    BY <1>5, ReturnMoves DEF SymLinkUndo, UnlinkDelete, DeleteAndReturn, Panic
  <1>6. CASE LinkLookup(t)
    <2> DEFINE i == find_in_dir(loc[t].name)
    <2>1. CASE i = -1
      BY <1>6, <2>1, ReturnMoves DEF LinkLookup
    <2>2. CASE i # -1
      <3>1. Goto(t, "l_lookup", "l_entry") /\ loc' = [loc EXCEPT ![t].inum = i]
        BY <1>6, <2>2 DEF LinkLookup
      <3>2. loc[t].other \in Names
        BY <1>1, <3>1 DEF SetAt, WithOther, Goto
      <3>3. i \in Inums
        BY <2>2, FindInDir
      <3> QED BY <1>2, <3>1, <3>2, <3>3, InumMoves
    <2> QED BY <2>1, <2>2
  <1>7. CASE LinkEntry(t) \/ LinkCount(t)
    <2>1. \/ Return(t, "l_entry") \/ Return(t, "l_count")
          \/ Goto(t, "l_entry", "l_count") /\ UNCHANGED loc
      BY <1>7 DEF LinkEntry, LinkCount
    <2>2. pc[t] \in {"l_entry", "l_count"}
      BY <2>1 DEF Return, Goto
    <2>3. loc[t].inum \in Inums /\ loc[t].other \in Names
      BY <1>1, <2>2 DEF SetAt, WithInum, WithOther
    <2> QED BY <1>2, <2>1, <2>3, ReturnMoves, GotoMoves, SetAtFacts
  <1>8. CASE UnlinkLookup(t)
    <2> DEFINE i == find_in_dir(loc[t].name)
    <2>1. CASE i = -1
      BY <1>8, <2>1, ReturnMoves DEF UnlinkLookup
    <2>2. CASE i # -1
      <3>1. Goto(t, "u_lookup", "u_clear") /\ loc' = [loc EXCEPT ![t].inum = i]
        BY <1>8, <2>2 DEF UnlinkLookup
      <3>2. loc[t].name \in Names
        BY <1>1, <3>1 DEF SetAt, WithName, Goto
      <3>3. i \in Inums
        BY <2>2, FindInDir
      <3> QED BY <1>2, <3>1, <3>2, <3>3, InumMoves
    <2> QED BY <2>1, <2>2
  <1>9. CASE UnlinkClear(t) \/ UnlinkCount(t)
    <2>1. \/ Return(t, "u_count")
          \/ \E from \in {"u_clear", "u_count"}, to \in {"u_count", "u_delete"} :
                Goto(t, from, to) /\ UNCHANGED loc
      BY <1>9 DEF UnlinkClear, UnlinkCount
    <2>2. pc[t] \in {"u_clear", "u_count"}
      BY <2>1 DEF Return, Goto
    <2>3. loc[t].inum \in Inums
      BY <1>1, <2>2 DEF SetAt, WithInum
    <2> QED BY <1>2, <2>1, <2>3, ReturnMoves, GotoMoves, SetAtFacts
  <1> QED BY <1>3, <1>4, <1>5, <1>6, <1>7, <1>8, <1>9 DEF tfs_sym_link, tfs_link, tfs_unlink

\* What closing a handle does: the assertion fails, or the handle is given back and the
\* file is deleted next, or the call returns.
LEMMA RemoveEffect ==
    ASSUME ControlOK, FilesOK, NEW t \in Threads, NEW from, NEW h \in Handles,
           remove_from_open_file_table(t, from, h)
    PROVE  /\ pc[t] = from /\ foe_mutex = NULL
           /\ UNCHANGED <<tables, open_file_table, open_mutex, link_rd, link_wr>>
           /\ LET i == open_file_table[h].of_inumber
                  others == free_open_file_entries \ {h}
                  last == LastUse(i, inode_table[i].i_hard_links, others)
              IN  \/ /\ i \notin freeinode_ts
                     /\ panic' = "remove_from_open_file_table: file content deleted before closing"
                     /\ UNCHANGED <<free_open_file_entries, foe_mutex, pc, loc>>
                  \/ /\ i \in freeinode_ts /\ last
                     /\ free_open_file_entries' = others
                     /\ pc' = [pc EXCEPT ![t] = "c_delete"]
                     /\ \E r \in Locals : /\ r.inum = i /\ r.fhandle = h
                                          /\ loc' = [loc EXCEPT ![t] = r]
                     /\ foe_mutex' = t
                     /\ UNCHANGED panic
                  \/ /\ i \in freeinode_ts /\ ~last
                     /\ free_open_file_entries' = others
                     /\ Return(t, from)
                     /\ UNCHANGED <<foe_mutex, panic>>
  <1> DEFINE i == open_file_table[h].of_inumber
             others == free_open_file_entries \ {h}
             last == LastUse(i, inode_table[i].i_hard_links, others)
             r == [[loc[t] EXCEPT !.inum = i] EXCEPT !.fhandle = h]
  <1>1. i \in Inums
    BY DEF FilesOK, OpenFileEntry
  <1>2. loc[t] \in Locals
    BY DEF ControlOK
  <1>3. r \in Locals /\ r.inum = i /\ r.fhandle = h
    <2> HIDE DEF i
    <2>1. [loc[t] EXCEPT !.inum = i] \in Locals
      BY <1>1, <1>2, LocalsUpdate
    <2>2. r \in Locals
      BY <2>1, LocalsUpdate
    <2>3. r.inum = i /\ r.fhandle = h
      BY <1>2, Zenon DEF Locals
    <2> QED BY <2>2, <2>3
  <1>4. CASE i \notin freeinode_ts
    BY <1>4, Zenon DEF remove_from_open_file_table
  <1>5. CASE i \in freeinode_ts /\ last
    <2>1. /\ pc[t] = from /\ foe_mutex = NULL
          /\ UNCHANGED <<tables, open_file_table, open_mutex, link_rd, link_wr, panic>>
          /\ free_open_file_entries' = others
          /\ pc' = [pc EXCEPT ![t] = "c_delete"]
          /\ foe_mutex' = t
          /\ loc' = [loc EXCEPT ![t] = r]
      BY <1>5, Zenon DEF remove_from_open_file_table, Goto
    <2> HIDE DEF r, last
    <2> QED BY <1>3, <1>5, <2>1, Zenon DEF last
  <1>6. CASE i \in freeinode_ts /\ ~last
    BY <1>6, Zenon DEF remove_from_open_file_table
  <1> QED BY <1>4, <1>5, <1>6, Zenon

\* remove_from_open_file_table moves its caller on, or fails.
LEMMA RemoveMoves ==
    ASSUME ControlOK, FilesOK, NEW t \in Threads, NEW from, NEW h \in Handles,
           remove_from_open_file_table(t, from, h)
    PROVE  Moved(t) \/ UNCHANGED <<pc, loc>>
  <1>1. ASSUME NEW r \in Locals, r.inum = open_file_table[h].of_inumber, r.fhandle = h,
               pc' = [pc EXCEPT ![t] = "c_delete"], loc' = [loc EXCEPT ![t] = r]
        PROVE  Moved(t)
    <2>1. r.inum \in Inums
      BY <1>1 DEF FilesOK, OpenFileEntry
    <2>2. SetAt("c_delete", r) /\ "c_delete" \in Labels
      BY <1>1, <2>1, SetAtFacts DEF Labels
    <2> QED BY <1>1, <2>2 DEF Moved
  <1>2. \/ UNCHANGED <<pc, loc>>
        \/ Return(t, from)
        \/ \E r \in Locals :
             /\ r.inum = open_file_table[h].of_inumber /\ r.fhandle = h
             /\ pc' = [pc EXCEPT ![t] = "c_delete"] /\ loc' = [loc EXCEPT ![t] = r]
    <2> DEFINE i == open_file_table[h].of_inumber
               last == LastUse(i, inode_table[i].i_hard_links, free_open_file_entries \ {h})
    <2>1. CASE i \notin freeinode_ts
      BY <2>1, RemoveEffect, Zenon
    <2>2. CASE i \in freeinode_ts /\ last
      BY <2>2, RemoveEffect, Zenon
    <2>3. CASE i \in freeinode_ts /\ ~last
      BY <2>3, RemoveEffect, Zenon
    <2> QED BY <2>1, <2>2, <2>3
  <1> QED BY <1>1, <1>2, ReturnMoves

\* tfs_close, tfs_write, tfs_read, tfs_copy_from_external_fs.
LEMMA FileMoves ==
    ASSUME TypeInv, NEW t \in Threads,
           \/ tfs_close(t) \/ CloseDelete(t) \/ tfs_write(t) \/ tfs_read(t)
           \/ CopyWrite(t) \/ CopyClose(t)
    PROVE  Moved(t) \/ UNCHANGED <<pc, loc>>
  <1> USE DEF TypeInv
  <1>1. SetAt(pc[t], loc[t]) /\ loc[t] \in Locals
    BY DEF LocalsSet, ControlOK
  <1>2. CASE tfs_close(t)
    <2>1. PICK h \in held[t] : remove_from_open_file_table(t, "idle", h)
      BY <1>2 DEF tfs_close
    <2>2. h \in Handles
      BY DEF FilesOK
    <2> QED BY <2>1, <2>2, RemoveMoves
  <1>3. CASE CloseDelete(t)
    BY <1>3, ReturnMoves DEF CloseDelete, DeleteAndReturn, Panic
  <1>4. CASE tfs_write(t) \/ tfs_read(t)
    BY <1>4, ReturnMoves DEF tfs_write, tfs_read
  <1>5. CASE CopyWrite(t)
    <2> DEFINE n == Min({loc[t].left, BlockSize})
               r == [loc[t] EXCEPT !.left = loc[t].left - n]
    <2>1. /\ pc[t] = "x_write"
          /\ \/ Goto(t, "x_write", "x_write") /\ loc' = [loc EXCEPT ![t].left = @ - n]
             \/ Goto(t, "x_write", "x_close") /\ UNCHANGED loc
      BY <1>5 DEF CopyWrite
    <2>2. loc[t].fhandle \in Handles /\ loc[t].left \in Nat
      BY <1>1, <2>1 DEF SetAt, WithHandle
    <2>3. loc[t].left - n \in Nat
      BY <2>2, Sizes, MinPair
    <2>4. CASE Goto(t, "x_write", "x_write") /\ loc' = [loc EXCEPT ![t].left = @ - n]
      <3> HIDE DEF n
      <3>1. r \in Locals /\ r.fhandle = loc[t].fhandle /\ r.left = loc[t].left - n
        BY <1>1, <2>3, LocalsUpdate, ZenonT(60) DEF Locals
      <3>2. loc' = [loc EXCEPT ![t] = r]
        BY <2>4, Zenon DEF ControlOK
      <3> HIDE DEF r
      <3>3. SetAt("x_write", r) /\ "x_write" \in Labels
        BY <2>2, <2>3, <3>1, SetAtFacts DEF Labels
      <3> QED BY <2>4, <3>1, <3>2, <3>3 DEF Moved, Goto
    <2>5. CASE Goto(t, "x_write", "x_close") /\ UNCHANGED loc
      <3>1. "x_close" \in Labels /\ SetAt("x_close", loc[t])
        BY <2>2, SetAtFacts DEF Labels
      <3> QED BY <2>5, <3>1, GotoMoves
    <2> QED BY <2>1, <2>4, <2>5
  <1>6. CASE CopyClose(t)
    <2>1. /\ pc[t] \in {"x_write", "x_close"}
          /\ \E from : remove_from_open_file_table(t, from, loc[t].fhandle)
      BY <1>6 DEF CopyClose, remove_from_open_file_table
    <2>2. loc[t].fhandle \in Handles
      BY <1>1, <2>1 DEF SetAt, WithHandle
    <2> QED BY <2>1, <2>2, RemoveMoves
  <1> QED BY <1>2, <1>3, <1>4, <1>5, <1>6

-----------------------------------------------------------------------------
(* Locks                                                                   *)

\* What a thread may do.
Acts(t) == Invoke(t) \/ Step(t)

\* The calls that only begin, and leave the work to later steps.
Begins(t) ==
    \/ CallOpen(t) \/ CallWrite(t) \/ CallRead(t) \/ CallSymLink(t)
    \/ CallLink(t) \/ CallUnlink(t) \/ CallCopy(t)

FirstLabels == {"o_lookup", "w_entry", "r_entry", "s_alloc", "l_lookup", "u_lookup"}

\* A call that begins touches nothing but its thread.
LEMMA BeginsEffect ==
    ASSUME NEW t \in Threads, Begins(t)
    PROVE  /\ pc[t] = "idle"
           /\ \E l \in FirstLabels : pc' = [pc EXCEPT ![t] = l]
           /\ \E r : loc' = [loc EXCEPT ![t] = r]
           /\ calls < MaxCalls /\ calls' = calls + 1
           /\ UNCHANGED <<tables, files, locks, panic>>
  <1>1. \E op, r : \E l \in FirstLabels : Begin(t, op, l, r)
    <2>1. "o_lookup" \in FirstLabels /\ "w_entry" \in FirstLabels /\ "r_entry" \in FirstLabels
          /\ "s_alloc" \in FirstLabels /\ "l_lookup" \in FirstLabels /\ "u_lookup" \in FirstLabels
      BY DEF FirstLabels
    <2> QED BY <2>1, Zenon DEF Begins, CallOpen, CallWrite, CallRead, CallSymLink, CallLink,
                               CallUnlink, CallCopy, get_open_file_entry
  <1> QED BY <1>1, Zenon DEF Begin, Goto, Call

\* The steps that call inode_delete.
Deletes(t) == OpenUndo(t) \/ SymLinkUndo(t) \/ CloseDelete(t) \/ UnlinkDelete(t)

\* A deletion fails, or frees the inode and returns.
LEMMA DeleteEffect ==
    ASSUME TablesOK, LocalsSet, NEW t \in Threads, Deletes(t)
    PROVE  LET i == loc[t].inum
           IN  /\ pc[t] \in {"o_undo", "s_undo", "c_delete", "u_delete"}
               /\ i \in Inums
               /\ \/ /\ i \notin freeinode_ts
                     /\ panic' = "inode_delete: inode already freed"
                     /\ UNCHANGED <<tables, files, locks, pc, loc, calls>>
                  \/ /\ i \in freeinode_ts
                     /\ \E r \in InodeOrLess :
                          /\ r.i_node_type = inode_table[i].i_node_type
                          /\ r.i_size = 0 /\ r.i_data_block = -1 /\ r.i_hard_links = 1
                          /\ inode_table' = [inode_table EXCEPT ![i] = r]
                     /\ free_blocks' = IF inode_table[i].i_size > 0
                                       THEN free_blocks \ {inode_table[i].i_data_block}
                                       ELSE free_blocks
                     /\ freeinode_ts' = freeinode_ts \ {i}
                     /\ pc' = [pc EXCEPT ![t] = "idle"]
                     /\ loc' = [loc EXCEPT ![t] = NoLocals]
                     /\ UNCHANGED <<dir, fs_data, files, calls, panic, open_mutex>>
                     /\ link_rd' = IF pc[t] = "s_undo" THEN link_rd \ {t} ELSE link_rd
                     /\ link_wr' = IF pc[t] = "u_delete" THEN NULL ELSE link_wr
                     /\ foe_mutex' = IF pc[t] \in Deleters THEN NULL ELSE foe_mutex
  <1> DEFINE i == loc[t].inum
             r == [[[inode_table[i] EXCEPT !.i_size = 0] EXCEPT !.i_data_block = -1]
                      EXCEPT !.i_hard_links = 1]
  <1>1. pc[t] \in {"o_undo", "s_undo", "c_delete", "u_delete"}
    BY DEF Deletes, OpenUndo, SymLinkUndo, CloseDelete, UnlinkDelete, DeleteAndReturn
  <1>2. i \in Inums
    BY <1>1 DEF LocalsSet, SetAt, WithInum
  <1>3. CASE i \notin freeinode_ts
    <2>1. Panic("inode_delete: inode already freed")
      BY <1>3 DEF Deletes, OpenUndo, SymLinkUndo, CloseDelete, UnlinkDelete, DeleteAndReturn
    <2> QED BY <1>1, <1>2, <1>3, <2>1 DEF Panic
  <1>4. CASE i \in freeinode_ts
    <2>1. inode_delete(i)
      BY <1>4 DEF Deletes, OpenUndo, SymLinkUndo, CloseDelete, UnlinkDelete, DeleteAndReturn
    <2>2. /\ inode_table' = [inode_table EXCEPT ![i] = r]
          /\ free_blocks' = IF inode_table[i].i_size > 0
                            THEN free_blocks \ {inode_table[i].i_data_block} ELSE free_blocks
          /\ freeinode_ts' = freeinode_ts \ {i}
      BY <2>1, Zenon DEF inode_delete
    <2>3. inode_table[i] \in InodeOrLess
      BY <1>2 DEF TablesOK
    <2>4. 0 \in 0 .. BlockSize /\ 1 \in Int
      BY Sizes
    <2>5. r \in InodeOrLess
      BY <2>3, <2>4, Zenon DEF InodeOrLess
    <2>6. /\ r.i_node_type = inode_table[i].i_node_type
          /\ r.i_size = 0 /\ r.i_data_block = -1 /\ r.i_hard_links = 1
      BY <2>3, Zenon DEF InodeOrLess
    <2>7. /\ pc' = [pc EXCEPT ![t] = "idle"] /\ loc' = [loc EXCEPT ![t] = NoLocals]
          /\ UNCHANGED <<dir, fs_data, files, calls, panic, open_mutex>>
      BY <1>4 DEF Deletes, OpenUndo, SymLinkUndo, CloseDelete, UnlinkDelete, DeleteAndReturn,
                  Return, Goto, locks
    <2>8. /\ link_rd' = IF pc[t] = "s_undo" THEN link_rd \ {t} ELSE link_rd
          /\ link_wr' = IF pc[t] = "u_delete" THEN NULL ELSE link_wr
          /\ foe_mutex' = IF pc[t] \in Deleters THEN NULL ELSE foe_mutex
      BY <1>4 DEF Deletes, OpenUndo, SymLinkUndo, CloseDelete, UnlinkDelete, DeleteAndReturn,
                  link_rdunlock, locks, Deleters
    <2> HIDE DEF r
    <2>9. \E rr \in InodeOrLess :
             /\ rr.i_node_type = inode_table[i].i_node_type
             /\ rr.i_size = 0 /\ rr.i_data_block = -1 /\ rr.i_hard_links = 1
             /\ inode_table' = [inode_table EXCEPT ![i] = rr]
      BY <2>2, <2>5, <2>6, Zenon
    <2> QED BY <1>1, <1>2, <1>4, <2>2, <2>7, <2>8, <2>9, Zenon
  <1> QED BY <1>3, <1>4

\* The threads at the labels of a lock are those that hold it.
LEMMA LocksStep ==
    ASSUME TypeInv, LocksHeld, NEW t \in Threads, Acts(t)
    PROVE  /\ LocksHeld'
           /\ open_mutex' \in Threads \cup {NULL} /\ link_rd' \subseteq Threads
           /\ link_wr' \in Threads \cup {NULL} /\ foe_mutex' \in Threads \cup {NULL}
  <1> USE CallsAssumption DEF ControlOK, LocksHeld, OpenHolders, Readers, Writers, Deleters, Goto,
          locks, TypeInv
  <1>1. CASE Begins(t)
    BY <1>1, BeginsEffect DEF FirstLabels
  <1>2. CASE OpenFile(t)
    BY <1>2 DEF OpenFile
  <1>3. CASE OpenAlloc(t) \/ OpenInit(t) \/ OpenEntry(t)
    BY <1>3 DEF OpenAlloc, OpenInit, OpenEntry, Return
  <1>4. CASE Deletes(t)
    <2>1. /\ pc[t] \in {"o_undo", "s_undo", "c_delete", "u_delete"}
          /\ \/ UNCHANGED <<pc, locks>>
             \/ /\ pc' = [pc EXCEPT ![t] = "idle"] /\ UNCHANGED open_mutex
                /\ link_rd' = IF pc[t] = "s_undo" THEN link_rd \ {t} ELSE link_rd
                /\ link_wr' = IF pc[t] = "u_delete" THEN NULL ELSE link_wr
                /\ foe_mutex' = IF pc[t] \in Deleters THEN NULL ELSE foe_mutex
      <3> HIDE DEF Deleters
      <3> QED BY <1>4, DeleteEffect, Zenon
    <2>2. CASE UNCHANGED <<pc, locks>>
      BY <2>2
    <2>3. CASE ~UNCHANGED <<pc, locks>>
      BY <2>1, <2>3
    <2> QED BY <2>2, <2>3
  <1>5. CASE OpenCheck(t) \/ OpenTable(t)
    BY <1>5 DEF OpenCheck, OpenTable, Return
  <1>6. CASE OpenLookup(t)
    BY <1>6 DEF OpenLookup, Return
  <1>7. CASE tfs_destroy(t)
    <2>1. UNCHANGED <<locks, pc>>
      BY <1>7 DEF tfs_destroy
    <2> QED BY <2>1
  <1>8. CASE tfs_write(t) \/ tfs_read(t) \/ CopyWrite(t)
    BY <1>8 DEF tfs_write, tfs_read, CopyWrite, Return
  <1>9. CASE SymLinkAlloc(t) \/ SymLinkInit(t) \/ SymLinkBlock(t) \/ SymLinkEntry(t)
    BY <1>9 DEF SymLinkAlloc, SymLinkInit, SymLinkBlock, SymLinkEntry, link_rdunlock, Return
  <1>10. CASE LinkLookup(t) \/ LinkEntry(t) \/ LinkCount(t)
    BY <1>10 DEF LinkLookup, LinkEntry, LinkCount, link_rdunlock, Return
  <1>11. CASE UnlinkLookup(t) \/ UnlinkClear(t) \/ UnlinkCount(t)
    BY <1>11 DEF UnlinkLookup, UnlinkClear, UnlinkCount, Return
  <1>12. CASE OpenSymLink(t)
    <2>1. \/ UNCHANGED <<pc, locks>>
          \/ /\ pc[t] = "o_inode" /\ pc' = [pc EXCEPT ![t] = "o_lookup"]
             /\ UNCHANGED locks
      BY <1>12, Zenon DEF OpenSymLink, Panic
    <2> QED BY <2>1
  <1>13. ASSUME NEW from \in {"idle", "x_write", "x_close"}, NEW h \in Handles,
               remove_from_open_file_table(t, from, h)
        PROVE  /\ LocksHeld'
               /\ open_mutex' \in Threads \cup {NULL} /\ link_rd' \subseteq Threads
               /\ link_wr' \in Threads \cup {NULL} /\ foe_mutex' \in Threads \cup {NULL}
    <2>1. /\ pc[t] = from /\ foe_mutex = NULL
          /\ UNCHANGED <<open_mutex, link_rd, link_wr>>
          /\ \/ UNCHANGED <<foe_mutex, pc>>
             \/ pc' = [pc EXCEPT ![t] = "c_delete"] /\ foe_mutex' = t
             \/ pc' = [pc EXCEPT ![t] = "idle"] /\ UNCHANGED foe_mutex
      BY <1>13, RemoveEffect, Zenon DEF Return
    <2> QED BY <1>13, <2>1
  <1>14. CASE tfs_close(t)
    <2>1. PICK h \in held[t] : remove_from_open_file_table(t, "idle", h)
      BY <1>14 DEF tfs_close
    <2>2. h \in Handles
      BY DEF FilesOK
    <2> QED BY <1>13, <2>1, <2>2
  <1>15. CASE CopyClose(t)
    <2>1. \E from \in {"x_write", "x_close"} :
             remove_from_open_file_table(t, from, loc[t].fhandle)
      BY <1>15 DEF CopyClose
    <2>2. pc[t] \in {"x_write", "x_close"}
      BY <2>1 DEF remove_from_open_file_table
    <2>3. loc[t].fhandle \in Handles
      BY <2>2 DEF LocalsSet, SetAt, WithHandle
    <2> QED BY <1>13, <2>1, <2>3
  <1> QED BY <1>1, <1>2, <1>3, <1>4, <1>5, <1>6, <1>7, <1>8, <1>9, <1>10, <1>11, <1>12, <1>14, <1>15
            DEF Acts, Invoke, Step, Begins, Deletes, tfs_open, tfs_sym_link, tfs_link, tfs_unlink

\* The calls are counted up to their bound, and three assertions can be met.
LEMMA CallsStep ==
    ASSUME TypeInv, NEW t \in Threads, Acts(t)
    PROVE  calls' \in 0 .. MaxCalls /\ panic' \in Asserts \cup {"none"}
  <1> USE CallsAssumption DEF TypeInv, ControlOK
  <1>1. CASE Begins(t)
    BY <1>1, BeginsEffect
  <1>2. CASE Deletes(t)
    <2>1. /\ UNCHANGED calls
          /\ panic' = "inode_delete: inode already freed" \/ UNCHANGED panic
      BY <1>2, DeleteEffect, Zenon
    <2> QED BY <2>1 DEF Asserts
  <1>3. CASE OpenSymLink(t)
    <2>1. /\ UNCHANGED calls
          /\ panic' = "data_block_get: invalid block number" \/ UNCHANGED panic
      BY <1>3, Zenon DEF OpenSymLink, Panic
    <2> QED BY <2>1 DEF Asserts
  <1>4. ASSUME NEW from, NEW h, remove_from_open_file_table(t, from, h)
        PROVE  panic' \in Asserts \cup {"none"}
    <2>1. \/ panic' = "remove_from_open_file_table: file content deleted before closing"
          \/ UNCHANGED panic
      BY <1>4, Zenon DEF remove_from_open_file_table
    <2> QED BY <2>1 DEF Asserts
  <1>5. CASE tfs_close(t)
    <2>1. \E h : remove_from_open_file_table(t, "idle", h)
      BY <1>5, Zenon DEF tfs_close
    <2>2. calls' \in 0 .. MaxCalls
      BY <1>5 DEF tfs_close, Call
    <2> QED BY <1>4, <2>1, <2>2
  <1>6. CASE CopyClose(t)
    <2>1. \E from, h : remove_from_open_file_table(t, from, h)
      BY <1>6, Zenon DEF CopyClose
    <2>2. UNCHANGED calls
      BY <1>6 DEF CopyClose
    <2> QED BY <1>4, <2>1, <2>2
  <1>7. CASE tfs_destroy(t)
    <2>1. calls < MaxCalls /\ calls' = calls + 1 /\ UNCHANGED panic
      BY <1>7, Zenon DEF tfs_destroy, Call
    <2> QED BY <2>1
  <1>8. CASE \/ OpenLookup(t) \/ OpenFile(t) \/ OpenAlloc(t) \/ OpenInit(t) \/ OpenEntry(t)
            \/ OpenCheck(t) \/ OpenTable(t) \/ tfs_write(t) \/ tfs_read(t) \/ CopyWrite(t)
            \/ SymLinkAlloc(t) \/ SymLinkInit(t) \/ SymLinkBlock(t) \/ SymLinkEntry(t)
            \/ LinkLookup(t) \/ LinkEntry(t) \/ LinkCount(t)
            \/ UnlinkLookup(t) \/ UnlinkClear(t) \/ UnlinkCount(t)
    <2>1. UNCHANGED <<calls, panic>>
      BY <1>8, Zenon DEF OpenLookup, OpenFile, OpenAlloc, OpenInit, OpenEntry, OpenCheck, OpenTable,
           tfs_write, tfs_read, CopyWrite, SymLinkAlloc, SymLinkInit, SymLinkBlock, SymLinkEntry,
           LinkLookup, LinkEntry, LinkCount, UnlinkLookup, UnlinkClear, UnlinkCount
    <2> QED BY <2>1
  <1> QED BY <1>1, <1>2, <1>3, <1>5, <1>6, <1>7, <1>8
          DEF Acts, Invoke, Step, Begins, Deletes, tfs_open, tfs_sym_link, tfs_link, tfs_unlink

\* A step changes the place and the variables of its own thread only.
LEMMA OthersStay ==
    ASSUME TypeInv, NEW t \in Threads, Acts(t), NEW u \in Threads, u # t
    PROVE  pc'[u] = pc[u] /\ loc'[u] = loc[u]
  <1>1. \/ UNCHANGED <<pc, loc>>
        \/ /\ \E l : pc' = [pc EXCEPT ![t] = l]
           /\ \E r : loc' = [loc EXCEPT ![t] = r]
    <2>1. CASE Begins(t)
      BY <2>1, BeginsEffect
    <2>2. CASE ~Begins(t)
      BY <2>2, OpenMoves, LinkMoves, FileMoves DEF Acts, Invoke, Step, Begins, tfs_destroy, Moved
    <2> QED BY <2>1, <2>2
  <1> QED BY <1>1 DEF TypeInv, ControlOK

\* The threads are where they can be, with the local variables they need.
LEMMA ControlStep ==
    ASSUME TypeInv, LocksHeld, NEW t \in Threads, Acts(t)
    PROVE  ControlOK' /\ LocalsSet' /\ LocksHeld'
  <1>1. CASE Begins(t)
    BY <1>1, CallsOK, LocksStep DEF Begins
  <1>2. CASE ~Begins(t)
    <2>1. Moved(t) \/ UNCHANGED <<pc, loc>>
      BY <1>2, OpenMoves, LinkMoves, FileMoves
         DEF Acts, Invoke, Step, Begins, tfs_destroy
    <2>2. ControlOK /\ LocalsSet
      BY DEF TypeInv
    <2>3. pc' \in [Threads -> Labels] /\ loc' \in [Threads -> Locals] /\ LocalsSet'
      <3>1. CASE Moved(t)
        BY <2>2, <3>1, MovedOK
      <3>2. CASE UNCHANGED <<pc, loc>>
        BY <2>2, <3>2 DEF ControlOK, LocalsSet, SetAt
      <3> QED BY <2>1, <3>1, <3>2
    <2> QED BY <2>3, LocksStep, CallsStep DEF ControlOK
  <1> QED BY <1>1, <1>2

-----------------------------------------------------------------------------
(* The open file table and the tables of fs/state.c keep their types       *)

\* The steps that change the open file table, its allocation or who holds a handle.
LEMMA FilesChange ==
    ASSUME NEW t \in Threads, Acts(t), ~UNCHANGED files
    PROVE  \/ OpenTable(t) \/ tfs_close(t) \/ CopyClose(t) \/ tfs_write(t) \/ tfs_read(t)
           \/ CopyWrite(t) \/ tfs_destroy(t)
  <1>1. Begins(t) => UNCHANGED files
    BY BeginsEffect, Zenon
  <1>2. OpenLookup(t) \/ OpenFile(t) \/ OpenSymLink(t) \/ OpenAlloc(t) \/ OpenInit(t)
        \/ OpenEntry(t) \/ OpenUndo(t) \/ OpenCheck(t) \/ CloseDelete(t) => UNCHANGED files
    BY Zenon DEF OpenLookup, OpenFile, OpenSymLink, OpenAlloc, OpenInit, OpenEntry, OpenUndo,
                 OpenCheck, CloseDelete, DeleteAndReturn, Panic
  <1>3. tfs_sym_link(t) \/ tfs_link(t) \/ tfs_unlink(t) => UNCHANGED files
    BY Zenon DEF tfs_sym_link, tfs_link, tfs_unlink, SymLinkAlloc, SymLinkInit, SymLinkBlock,
                 SymLinkEntry, SymLinkUndo, LinkLookup, LinkEntry, LinkCount, UnlinkLookup,
                 UnlinkClear, UnlinkCount, UnlinkDelete, DeleteAndReturn, Panic
  <1> QED BY <1>1, <1>2, <1>3 DEF Acts, Invoke, Step, Begins, tfs_open

\* The handle and the length a thread reads or writes with.
LEMMA HandleInUse ==
    ASSUME TypeInv, NEW t \in Threads, pc[t] \in WithHandle
    PROVE  loc[t].fhandle \in Handles /\ loc[t].len \in Nat
  <1>1. loc[t].fhandle \in Handles
    BY DEF TypeInv, LocalsSet, SetAt
  <1>2. loc[t].len \in Lengths \cup {0}
    BY DEF TypeInv, ControlOK, Locals
  <1> QED BY <1>1, <1>2, CallsAssumption

\* A write is made by tfs_write or by a copy.
LEMMA WritesAt ==
    ASSUME TypeInv, NEW t \in Threads, tfs_write(t) \/ CopyWrite(t)
    PROVE  \E n \in Nat : /\ write_to_open_file(loc[t].fhandle, n)
                          /\ loc[t].fhandle \in Handles
  <1>1. CASE tfs_write(t)
    <2>1. pc[t] \in WithHandle /\ write_to_open_file(loc[t].fhandle, loc[t].len)
      BY <1>1 DEF tfs_write, Return, Goto, WithHandle
    <2> QED BY <2>1, HandleInUse
  <1>2. CASE CopyWrite(t)
    <2> DEFINE n == Min({loc[t].left, BlockSize})
    <2>1. /\ pc[t] = "x_write"
          /\ write_to_open_file(loc[t].fhandle, n)
      BY <1>2, Zenon DEF CopyWrite
    <2>2. loc[t].left \in Nat /\ loc[t].fhandle \in Handles
      BY <2>1 DEF TypeInv, LocalsSet, SetAt, WithHandle
    <2>3. n \in Nat
      BY <2>2, Sizes, MinPair
    <2> HIDE DEF n
    <2> QED BY <2>1, <2>2, <2>3
  <1> QED BY <1>1, <1>2

\* Every step leaves the open file table with its types.
LEMMA FilesStep ==
    ASSUME TypeInv, NEW t \in Threads, Acts(t)
    PROVE  FilesOK'
  <1> USE DEF TypeInv, FilesOK
  <1>1. CASE UNCHANGED files
    BY <1>1 DEF files
  <1>2. ASSUME NEW h \in Handles, NEW o \in 0 .. BlockSize,
               open_file_table' = [open_file_table EXCEPT ![h].of_offset = o],
               UNCHANGED <<free_open_file_entries, held>>
        PROVE  FilesOK'
    BY <1>2 DEF OpenFileEntry
  <1>3. CASE tfs_write(t) \/ CopyWrite(t)
    <2>1. UNCHANGED <<free_open_file_entries, held>>
      BY <1>3, Zenon DEF tfs_write, CopyWrite
    <2> QED BY <1>2, <1>3, <2>1, WritesAt, WriteEffect
  <1>4. CASE tfs_read(t)
    <2>1. /\ pc[t] \in WithHandle /\ read_from_open_file(loc[t].fhandle, loc[t].len)
          /\ UNCHANGED <<free_open_file_entries, held>>
      BY <1>4 DEF tfs_read, Return, Goto, WithHandle
    <2> QED BY <1>2, <2>1, HandleInUse, ReadEffect
  <1>5. CASE OpenTable(t) /\ ~UNCHANGED files
    <2> DEFINE h == Min(FreeHandles)
    <2>1. /\ pc[t] = "o_table" /\ FreeHandles # {}
          /\ free_open_file_entries' = free_open_file_entries \cup {h}
          /\ open_file_table' = [open_file_table EXCEPT
                 ![h] = [of_inumber |-> loc[t].inum, of_offset |-> loc[t].offset]]
          /\ held' = [held EXCEPT ![t] = @ \cup {h}] \/ UNCHANGED held
      BY <1>5 DEF OpenTable, Return, Goto
    <2>2. h \in Handles
      BY <2>1, FirstFreeHandle
    <2>3. loc[t].inum \in Inums /\ loc[t].offset \in 0 .. BlockSize
      BY <2>1 DEF LocalsSet, SetAt, WithInum, ControlOK, Locals
    <2> HIDE DEF h
    <2> QED BY <2>1, <2>2, <2>3 DEF OpenFileEntry
  <1>6. CASE tfs_close(t) \/ CopyClose(t)
    <2>1. /\ free_open_file_entries' \subseteq free_open_file_entries
          /\ UNCHANGED open_file_table
      BY <1>6 DEF tfs_close, CopyClose, remove_from_open_file_table
    <2>2. UNCHANGED held \/ \E h : held' = [held EXCEPT ![t] = @ \ {h}]
      BY <1>6, Zenon DEF tfs_close, CopyClose
    <2> QED BY <2>1, <2>2
  <1>7. CASE tfs_destroy(t)
    <2>1. /\ open_file_table' = NewOpenFileTable /\ free_open_file_entries' = {}
          /\ held' = [u \in Threads |-> {}]
      BY <1>7, Zenon DEF tfs_destroy, StateReset
    <2> QED BY <2>1, Sizes DEF NewOpenFileTable, OpenFileEntry, Inums
  <1> QED BY <1>1, <1>3, <1>4, <1>5, <1>6, <1>7, FilesChange

\* The steps that change the inode table, the directory, the blocks or what is taken.
LEMMA TablesChange ==
    ASSUME NEW t \in Threads, Acts(t), ~UNCHANGED tables
    PROVE  \/ OpenFile(t) \/ OpenAlloc(t) \/ OpenInit(t) \/ OpenEntry(t) \/ Deletes(t)
           \/ tfs_write(t) \/ CopyWrite(t) \/ SymLinkAlloc(t) \/ SymLinkInit(t)
           \/ SymLinkBlock(t) \/ SymLinkEntry(t) \/ LinkEntry(t) \/ LinkCount(t)
           \/ UnlinkClear(t) \/ UnlinkCount(t) \/ tfs_destroy(t)
  <1>1. Begins(t) => UNCHANGED tables
    BY BeginsEffect, Zenon
  <1>2. OpenLookup(t) \/ OpenSymLink(t) \/ OpenCheck(t) \/ OpenTable(t) \/ tfs_read(t)
        \/ LinkLookup(t) \/ UnlinkLookup(t) => UNCHANGED tables
    BY Zenon DEF OpenLookup, OpenSymLink, OpenCheck, OpenTable, tfs_read, LinkLookup, UnlinkLookup,
                 Panic
  <1>3. tfs_close(t) \/ CopyClose(t) => UNCHANGED tables
    BY Zenon DEF tfs_close, CopyClose, remove_from_open_file_table
  <1> QED BY <1>1, <1>2, <1>3
          DEF Acts, Invoke, Step, Begins, Deletes, tfs_open, tfs_sym_link, tfs_link, tfs_unlink

\* A path is a name, or what is in the block of a symbolic link.
LEMMA PathType ==
    ASSUME TypeInv, NEW t \in Threads
    PROVE  Path(t) \in Names \cup {NULL}
  <1>1. /\ loc[t].via \in Blocks \cup {-1}
        /\ loc[t].name \in Names \cup {NULL}
    BY DEF TypeInv, ControlOK, Locals
  <1> QED BY <1>1 DEF Path, TypeInv, TablesOK

\* Filling the first free entry, and clearing one.
LEMMA DirUpdate ==
    ASSUME TablesOK
    PROVE  /\ \A n \in Names \cup {NULL}, i \in Inums : add_dir_entry(n, i) \in [Entries -> DirEntry]
           /\ \A n : clear_dir_entry(n) \in [Entries -> DirEntry]
  <1>1. ASSUME NEW e, NEW d \in DirEntry
        PROVE  [dir EXCEPT ![e] = d] \in [Entries -> DirEntry]
    BY DEF TablesOK
  <1>2. \A n \in Names \cup {NULL}, i \in Inums : [d_name |-> n, d_inumber |-> i] \in DirEntry
    BY DEF DirEntry
  <1>3. [d_name |-> NULL, d_inumber |-> -1] \in DirEntry
    BY DEF DirEntry
  <1>4. ASSUME NEW n \in Names \cup {NULL}, NEW i \in Inums
        PROVE  add_dir_entry(n, i) \in [Entries -> DirEntry]
    BY <1>1, <1>2, Zenon DEF add_dir_entry
  <1>5. ASSUME NEW n
        PROVE  clear_dir_entry(n) \in [Entries -> DirEntry]
    BY <1>1, <1>3, Zenon DEF clear_dir_entry
  <1> QED BY <1>4, <1>5

\* What inode_create leaves is an inode.
LEMMA NewInodeOK ==
    \A type \in {T_FILE, T_SYM_LINK} : NewInode(type) \in InodeOrLess
  BY Sizes DEF NewInode, InodeOrLess

\* What tfs_init leaves.
LEMMA FreshTables ==
    /\ NewInodeTable \in [Inums -> InodeOrLess]
    /\ \A i \in Inums : NewInodeTable[i].i_size = 0
    /\ NewDirs(JunkNames) \subseteq [Entries -> DirEntry]
    /\ NewData \in [Blocks -> Names \cup {NULL}]
  <1>1. NewInodeTable \in [Inums -> InodeOrLess]
    BY NewInodeOK DEF NewInodeTable
  <1>2. \A i \in Inums : NewInodeTable[i].i_size = 0
    BY DEF NewInodeTable, NewInode
  <1>3. NewDirs(JunkNames) \subseteq [Entries -> DirEntry]
    BY CallsAssumption DEF NewDirs, DirEntry
  <1>4. NewData \in [Blocks -> Names \cup {NULL}]
    BY DEF NewData
  <1> QED BY <1>1, <1>2, <1>3, <1>4

\* Every step leaves the tables with their types, and a block for every file with data.
LEMMA TablesStep ==
    ASSUME TypeInv, NEW t \in Threads, Acts(t)
    PROVE  TablesOK'
  <1> USE DEF TypeInv
  <1> DEFINE i == loc[t].inum
  <1>1. CASE UNCHANGED tables
    BY <1>1 DEF tables, TablesOK
  <1>2. ASSUME i \in Inums, NEW r \in InodeOrLess, r.i_size > 0 => r.i_data_block \in Blocks,
               inode_table' = [inode_table EXCEPT ![i] = r]
        PROVE  /\ inode_table' \in [Inums -> InodeOrLess]
               /\ \A j \in Inums : inode_table'[j].i_size > 0 => inode_table'[j].i_data_block \in Blocks
    BY <1>2 DEF TablesOK
  <1>3. pc[t] \in WithInum => i \in Inums /\ inode_table[i] \in InodeOrLess
    BY DEF LocalsSet, SetAt, TablesOK
  <1>4. CASE OpenFile(t)
    <2> DEFINE size == IF "TRUNC" \in loc[t].mode THEN 0 ELSE inode_table[i].i_size
               r == [inode_table[i] EXCEPT !.i_size = size]
    <2>1. /\ pc[t] = "o_inode"
          /\ free_blocks' \subseteq free_blocks
          /\ inode_table' = [inode_table EXCEPT ![i] = r]
          /\ UNCHANGED <<freeinode_ts, dir, fs_data>>
      BY <1>4 DEF OpenFile, Goto
    <2>2. i \in Inums /\ inode_table[i] \in InodeOrLess
      BY <1>3, <2>1 DEF WithInum
    <2>3. size \in 0 .. BlockSize /\ (size > 0 => inode_table[i].i_data_block \in Blocks)
      BY <2>2, Sizes DEF InodeOrLess, TablesOK
    <2> HIDE DEF size
    <2>4. r \in InodeOrLess /\ r.i_size = size /\ r.i_data_block = inode_table[i].i_data_block
      BY <2>2, <2>3, Zenon DEF InodeOrLess
    <2> HIDE DEF r
    <2> QED BY <1>2, <2>1, <2>2, <2>3, <2>4 DEF TablesOK
  <1>5. CASE OpenAlloc(t) \/ SymLinkAlloc(t)
    <2>1. /\ UNCHANGED freeinode_ts \/ (/\ FreeInums # {}
                                       /\ freeinode_ts' = freeinode_ts \cup {Min(FreeInums)})
          /\ UNCHANGED <<inode_table, dir, free_blocks, fs_data>>
      BY <1>5, Zenon DEF OpenAlloc, SymLinkAlloc
    <2> QED BY <2>1, FirstFreeInode DEF TablesOK
  <1>6. CASE OpenInit(t) \/ SymLinkInit(t)
    <2>1. /\ pc[t] \in WithInum
          /\ \E type \in {T_FILE, T_SYM_LINK} :
                inode_table' = [inode_table EXCEPT ![i] = NewInode(type)]
          /\ UNCHANGED <<freeinode_ts, dir, free_blocks, fs_data>>
      BY <1>6 DEF OpenInit, SymLinkInit, Goto, WithInum
    <2>2. \A type : ~(NewInode(type).i_size > 0)
      BY DEF NewInode
    <2> QED BY <1>2, <1>3, <2>1, <2>2, NewInodeOK DEF TablesOK
  <1>7. CASE OpenEntry(t) \/ SymLinkEntry(t) \/ LinkEntry(t)
    <2>1. /\ pc[t] \in WithInum
          /\ \/ UNCHANGED dir
             \/ dir' = add_dir_entry(Path(t), i)
             \/ dir' = add_dir_entry(loc[t].other, i)
          /\ UNCHANGED <<inode_table, freeinode_ts, free_blocks, fs_data>>
      BY <1>7 DEF OpenEntry, SymLinkEntry, LinkEntry, Goto, Return, WithInum
    <2>2. loc[t].other \in Names \cup {NULL}
      BY DEF ControlOK, Locals
    <2>3. i \in Inums
      BY <1>3, <2>1
    <2>4. dir' \in [Entries -> DirEntry]
      <3>1. UNCHANGED dir => dir' \in [Entries -> DirEntry]
        BY DEF TablesOK
      <3> HIDE DEF i
      <3> QED BY <2>1, <2>2, <2>3, <3>1, PathType, DirUpdate, Zenon
    <2> QED BY <2>1, <2>4 DEF TablesOK
  <1>8. CASE Deletes(t)
    <2>1. CASE UNCHANGED tables
      BY <2>1, <1>1
    <2>2. CASE ~UNCHANGED tables
      <3>1. /\ i \in Inums
            /\ \E r \in InodeOrLess : r.i_size = 0 /\ inode_table' = [inode_table EXCEPT ![i] = r]
            /\ free_blocks' \subseteq free_blocks
            /\ freeinode_ts' \subseteq freeinode_ts
            /\ UNCHANGED <<dir, fs_data>>
        BY <1>8, <2>2, DeleteEffect
      <3> QED BY <1>2, <3>1 DEF TablesOK
    <2> QED BY <2>1, <2>2
  <1>9. CASE tfs_write(t) \/ CopyWrite(t)
    <2>1. UNCHANGED <<freeinode_ts, dir>>
      BY <1>9, Zenon DEF tfs_write, CopyWrite
    <2>2. PICK n \in Nat : write_to_open_file(loc[t].fhandle, n) /\ loc[t].fhandle \in Handles
      BY <1>9, WritesAt
    <2> DEFINE k == open_file_table[loc[t].fhandle].of_inumber
    <2>3. k \in Inums
      BY <2>2 DEF FilesOK, OpenFileEntry
    <2>4. \/ UNCHANGED <<inode_table, free_blocks, fs_data>>
          \/ \E r \in InodeOrLess :
                /\ r.i_data_block \in Blocks
                /\ inode_table' = [inode_table EXCEPT ![k] = r]
                /\ free_blocks' = free_blocks \cup {r.i_data_block}
                /\ fs_data' = [fs_data EXCEPT ![r.i_data_block] = NULL]
      BY <2>2, WriteEffect
    <2> HIDE DEF k
    <2>5. CASE UNCHANGED <<inode_table, free_blocks, fs_data>>
      BY <2>1, <2>5 DEF TablesOK
    <2>6. ASSUME NEW r \in InodeOrLess, r.i_data_block \in Blocks,
                 inode_table' = [inode_table EXCEPT ![k] = r],
                 free_blocks' = free_blocks \cup {r.i_data_block},
                 fs_data' = [fs_data EXCEPT ![r.i_data_block] = NULL]
          PROVE  TablesOK'
      <3>1. inode_table' \in [Inums -> InodeOrLess]
        BY <2>3, <2>6 DEF TablesOK
      <3>2. \A j \in Inums : inode_table'[j].i_size > 0 => inode_table'[j].i_data_block \in Blocks
        BY <2>3, <2>6 DEF TablesOK
      <3>3. fs_data' \in [Blocks -> Names \cup {NULL}] /\ free_blocks' \subseteq Blocks
        BY <2>6 DEF TablesOK
      <3> QED BY <2>1, <3>1, <3>2, <3>3 DEF TablesOK
    <2> QED BY <2>4, <2>5, <2>6
  <1>10. CASE SymLinkBlock(t)
    <2> DEFINE b == Min(FreeBlocks)
               r == [inode_table[i] EXCEPT !.i_data_block = b]
    <2>1. CASE UNCHANGED tables
      BY <2>1, <1>1
    <2>2. CASE ~UNCHANGED tables
      <3>1. /\ pc[t] = "s_block" /\ free_blocks # Blocks
            /\ free_blocks' = free_blocks \cup {b}
            /\ inode_table' = [inode_table EXCEPT ![i] = r]
            /\ fs_data' = [fs_data EXCEPT ![b] = loc[t].name]
            /\ UNCHANGED <<freeinode_ts, dir>>
        BY <1>10, <2>2, Zenon DEF SymLinkBlock, Goto, tables
      <3>2. i \in Inums /\ inode_table[i] \in InodeOrLess /\ loc[t].name \in Names \cup {NULL}
        BY <1>3, <3>1 DEF WithInum, ControlOK, Locals
      <3>3. b \in Blocks
        BY <3>1, FirstFreeBlock
      <3> HIDE DEF b
      <3>4. r \in InodeOrLess /\ r.i_data_block = b
        BY <3>2, <3>3, Zenon DEF InodeOrLess
      <3> HIDE DEF r
      <3> QED BY <1>2, <3>1, <3>2, <3>3, <3>4 DEF TablesOK
    <2> QED BY <2>1, <2>2
  <1>11. ASSUME i \in Inums, inode_table[i] \in InodeOrLess, NEW k \in Int,
                inode_table' = [inode_table EXCEPT ![i].i_hard_links = k],
                UNCHANGED <<freeinode_ts, dir, free_blocks, fs_data>>
         PROVE  TablesOK'
    <2> DEFINE r == [inode_table[i] EXCEPT !.i_hard_links = k]
    <2>1. /\ r \in InodeOrLess /\ r.i_size = inode_table[i].i_size
          /\ r.i_data_block = inode_table[i].i_data_block
      BY <1>11, Zenon DEF InodeOrLess
    <2>2. inode_table' = [inode_table EXCEPT ![i] = r]
      BY <1>11, Zenon
    <2> HIDE DEF r
    <2> QED BY <1>2, <1>11, <2>1, <2>2 DEF TablesOK
  <1>12. CASE LinkCount(t)
    <2>1. /\ pc[t] = "l_count"
          /\ \/ UNCHANGED inode_table /\ dir' = clear_dir_entry(loc[t].other)
             \/ /\ UNCHANGED dir
                /\ inode_table' = [inode_table EXCEPT ![i].i_hard_links = inode_table[i].i_hard_links + 1]
          /\ UNCHANGED <<freeinode_ts, free_blocks, fs_data>>
      BY <1>12, Zenon DEF LinkCount, Return, Goto
    <2>2. i \in Inums /\ inode_table[i] \in InodeOrLess
      BY <1>3, <2>1 DEF WithInum
    <2>3. inode_table[i].i_hard_links + 1 \in Int
      BY <2>2 DEF InodeOrLess
    <2>4. CASE UNCHANGED inode_table /\ dir' = clear_dir_entry(loc[t].other)
      BY <2>1, <2>4, DirUpdate DEF TablesOK
    <2> QED BY <1>11, <2>1, <2>2, <2>3, <2>4
  <1>13. CASE UnlinkClear(t)
    <2>1. /\ dir' = clear_dir_entry(loc[t].name)
          /\ UNCHANGED <<inode_table, freeinode_ts, free_blocks, fs_data>>
      BY <1>13, Zenon DEF UnlinkClear
    <2> QED BY <2>1, DirUpdate DEF TablesOK
  <1>14. CASE UnlinkCount(t)
    <2>1. /\ pc[t] = "u_count"
          /\ inode_table' = [inode_table EXCEPT ![i].i_hard_links = inode_table[i].i_hard_links - 1]
          /\ UNCHANGED <<freeinode_ts, dir, free_blocks, fs_data>>
      BY <1>14, Zenon DEF UnlinkCount
    <2>2. i \in Inums /\ inode_table[i] \in InodeOrLess
      BY <1>3, <2>1 DEF WithInum
    <2>3. inode_table[i].i_hard_links - 1 \in Int
      BY <2>2 DEF InodeOrLess
    <2> QED BY <1>11, <2>1, <2>2, <2>3
  <1>15. CASE tfs_destroy(t)
    <2>1. /\ inode_table' = NewInodeTable /\ freeinode_ts' = {} /\ dir' \in NewDirs(JunkNames)
          /\ free_blocks' = {} /\ fs_data' = NewData
      BY <1>15, Zenon DEF tfs_destroy, StateReset
    <2> QED BY <2>1, FreshTables DEF TablesOK
  <1> QED BY <1>1, <1>4, <1>5, <1>6, <1>7, <1>8, <1>9, <1>10, <1>12, <1>13, <1>14, <1>15, TablesChange

\* The types and the locks of a new file system.
LEMMA TypeInit == Init => TypeInv /\ LocksHeld
  <1> SUFFICES ASSUME Init PROVE TypeInv /\ LocksHeld
    OBVIOUS
  <1>1. TablesOK
    BY FreshTables DEF Init, StateInit, TablesOK
  <1>2. FilesOK
    BY Sizes DEF Init, StateInit, FilesOK, NewOpenFileTable, OpenFileEntry, Inums
  <1>3. "idle" \in Labels
    BY DEF Labels
  <1>4. ControlOK
    BY <1>3, NoLocalsOK, CallsAssumption DEF Init, ControlOK
  <1>5. LocalsSet
    BY NoLocalsOK DEF Init, LocalsSet
  <1>6. LocksHeld
    BY CallsAssumption DEF Init, LocksHeld, OpenHolders, Readers, Writers, Deleters
  <1> QED BY <1>1, <1>2, <1>4, <1>5, <1>6 DEF TypeInv

\* Every step keeps the types and the locks.
LEMMA TypeStep ==
    ASSUME TypeInv, LocksHeld, [Next]_vars
    PROVE  TypeInv' /\ LocksHeld'
  <1>1. CASE Next
    <2>1. PICK t \in Threads : Acts(t)
      BY <1>1 DEF Next, Acts
    <2> QED BY <2>1, ControlStep, FilesStep, TablesStep DEF TypeInv
  <1>2. CASE UNCHANGED vars
    <2>1. UNCHANGED <<inode_table, freeinode_ts, dir, free_blocks, fs_data, open_file_table,
                      free_open_file_entries, held, open_mutex, link_rd, link_wr, foe_mutex,
                      pc, loc, calls, panic>>
      BY <1>2 DEF vars, tables, files, locks
    <2> QED BY <2>1 DEF TypeInv, LocksHeld, TablesOK, FilesOK, ControlOK, LocalsSet, SetAt
  <1> QED BY <1>1, <1>2

\* Every variable has its type, every local variable is set where it is used, and a
\* lock that is kept across steps is held by the thread at one of the labels where
\* the code holds it, in every reachable state.
THEOREM TypesAndLocks == Spec => [](TypeInv /\ LocksHeld)
  BY TypeInit, TypeStep, PTL DEF Spec

\* CallsNeverStuck follows: the holder of a lock can always go on to give it back.
\* free_open_file_entries_mutex is the innermost lock, then link_lock, then open_mutex;
\* the holder of one of them waits only for one further in.
LEMMA SomeoneGoesOn ==
    ASSUME TypeInv, LocksHeld
    PROVE  CallsNeverStuck
  <1> SUFFICES ASSUME NEW t \in Threads, pc[t] # "idle"
               PROVE  \E u \in Threads : pc[u] # "idle" /\ ~Waits(u)
    BY DEF CallsNeverStuck
  <1>1. ASSUME NEW u \in Threads, pc[u] \in Deleters \cup Readers \cup OpenHolders \cup {"u_clear"}
        PROVE  pc[u] # "idle" /\ ~Waits(u)
    BY <1>1 DEF Waits, Deleters, Readers, OpenHolders
  <1>2. CASE foe_mutex # NULL
    <2>1. foe_mutex \in Threads /\ pc[foe_mutex] \in Deleters
      BY <1>2 DEF TypeInv, ControlOK, LocksHeld
    <2> QED BY <1>1, <2>1
  <1>3. CASE foe_mutex = NULL /\ link_wr # NULL
    <2>1. link_wr \in Threads /\ pc[link_wr] \in Writers
      BY <1>3 DEF TypeInv, ControlOK, LocksHeld
    <2>2. ~Waits(link_wr) /\ pc[link_wr] # "idle"
      BY <1>3, <2>1 DEF Waits, Writers
    <2> QED BY <2>1, <2>2
  <1>4. CASE foe_mutex = NULL /\ link_wr = NULL /\ link_rd # {}
    <2>1. PICK u \in link_rd : TRUE
      BY <1>4
    <2>2. u \in Threads /\ pc[u] \in Readers
      BY <2>1 DEF TypeInv, ControlOK, LocksHeld
    <2> QED BY <1>1, <2>2
  <1>5. CASE open_mutex # NULL
    <2>1. open_mutex \in Threads /\ pc[open_mutex] \in OpenHolders
      BY <1>5 DEF TypeInv, ControlOK, LocksHeld
    <2> QED BY <1>1, <2>1
  <1>6. CASE foe_mutex = NULL /\ link_wr = NULL /\ link_rd = {} /\ open_mutex = NULL
    <2>1. EntryFree(loc[t].fhandle)
      BY <1>6, CallsAssumption DEF EntryFree, LocksHeld, Deleters
    <2>2. ~Waits(t)
      BY <1>6, <2>1 DEF Waits
    <2> QED BY <2>2
  <1> QED BY <1>2, <1>3, <1>4, <1>5, <1>6

\* While there are threads inside calls one of them does not wait: the locks of
\* tfs_open, tfs_link, tfs_sym_link, tfs_unlink and tfs_close never close a cycle.
THEOREM NeverStuck == Spec => []CallsNeverStuck
  BY TypesAndLocks, SomeoneGoesOn, PTL
=============================================================================
