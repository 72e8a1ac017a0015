--------------------------- MODULE TecnicoFSNames ---------------------------
(***************************************************************************)
(* Proofs about the names of module TecnicoFS: the root directory lists a  *)
(* name once, and clear_dir_entry, which compares names only, stops at the *)
(* entry that was meant.                                                   *)
(***************************************************************************)
EXTENDS TecnicoFSProofs

\* An entry that is free, below one that is live, was cleared: its name is zeroed.
FreeBelowZeroed ==
    \A e \in Live, f \in Entries :
        f < e /\ dir[f].d_inumber = -1 => dir[f].d_name = NULL

\* The entry that tfs_unlink found is still there when it clears it, and the entry that
\* tfs_link made is still there, and nobody else's, when it counts it.
OwnEntry ==
    \A t \in Threads :
        /\ pc[t] = "u_clear" =>
              \E e \in Live : dir[e].d_name = loc[t].name /\ dir[e].d_inumber = loc[t].inum
        /\ pc[t] = "l_count" =>
              \E e \in Live : dir[e].d_name = loc[t].other /\ dir[e].d_inumber = loc[t].inum
        /\ \A u \in Threads :
              t # u /\ pc[t] = "l_count" /\ pc[u] = "l_count" => loc[t].other # loc[u].other

NamesInv == NamesUnique /\ FreeBelowZeroed /\ OwnEntry

-----------------------------------------------------------------------------
(* What add_dir_entry and clear_dir_entry do                               *)

\* The entry m, which was free, has a new name, and all the entries before it are live.
LEMMA AddEffect ==
    ASSUME TablesOK, NEW n, NEW i \in Inums, Live # Entries, dir' = add_dir_entry(n, i)
    PROVE  \E m \in Entries :
               /\ m \notin Live
               /\ \A f \in Entries : f < m => f \in Live
               /\ dir'[m].d_name = n /\ dir'[m].d_inumber = i
               /\ \A e \in Entries : e # m => dir'[e] = dir[e]
               /\ Live' = Live \cup {m}
  <1> DEFINE m == Min(Entries \ Live)
  <1>1. m \in Entries /\ dir[m].d_inumber = -1 /\ \A f \in Entries : f < m => f \in Live
    BY FirstFreeEntry
  <1>2. dir' = [dir EXCEPT ![m] = [d_name |-> n, d_inumber |-> i]]
    BY DEF add_dir_entry
  <1> HIDE DEF m
  <1>3. /\ dir'[m] = [d_name |-> n, d_inumber |-> i]
        /\ \A e \in Entries : e # m => dir'[e] = dir[e]
    BY <1>1, <1>2 DEF TablesOK
  <1>4. i # -1
    BY Sizes DEF Inums
  <1>5. Live' = Live \cup {m}
    BY <1>1, <1>3, <1>4 DEF Live
  <1>6. m \notin Live
    BY <1>1 DEF Live
  <1> QED BY <1>1, <1>3, <1>5, <1>6

\* The entry m, whose name was n, is zeroed and free.
LEMMA ClearEffect ==
    ASSUME TablesOK, NEW n, Matching(n) # {}, dir' = clear_dir_entry(n)
    PROVE  LET m == Min(Matching(n))
           IN  /\ m \in Entries /\ dir[m].d_name = n
               /\ dir'[m].d_name = NULL /\ dir'[m].d_inumber = -1
               /\ \A e \in Entries : e # m => dir'[e] = dir[e]
               /\ Live' = Live \ {m}
  <1> DEFINE m == Min(Matching(n))
  <1>1. Matching(n) \in SUBSET Nat
    BY Sizes DEF Matching, Entries
  <1>2. m \in Matching(n)
    BY <1>1, MinNat
  <1>3. m \in Entries /\ dir[m].d_name = n
    BY <1>2 DEF Matching
  <1>4. dir' = [dir EXCEPT ![m] = [d_name |-> NULL, d_inumber |-> -1]]
    BY DEF clear_dir_entry
  <1> HIDE DEF m
  <1>5. /\ dir'[m] = [d_name |-> NULL, d_inumber |-> -1]
        /\ \A e \in Entries : e # m => dir'[e] = dir[e]
    BY <1>3, <1>4 DEF TablesOK
  <1>6. Live' = Live \ {m}
    BY <1>3, <1>5 DEF Live
  <1> QED BY <1>3, <1>5, <1>6 DEF m

\* clear_dir_entry stops at the live entry with the name, not at one that is free.
LEMMA RightEntry ==
    ASSUME TablesOK, NamesUnique, FreeBelowZeroed, NEW n \in Names,
           NEW e \in Live, dir[e].d_name = n
    PROVE  Matching(n) # {} /\ Min(Matching(n)) = e
  <1> DEFINE m == Min(Matching(n))
  <1>1. e \in Matching(n) /\ e \in Entries
    BY DEF Matching, Live
  <1>2. Matching(n) \in SUBSET Nat
    BY Sizes DEF Matching, Entries
  <1>3. m \in Matching(n) /\ m <= e
    BY <1>1, <1>2, MinNat
  <1>4. m \in Entries /\ dir[m].d_name = n /\ m \in Nat /\ e \in Nat
    BY <1>1, <1>2, <1>3 DEF Matching
  <1> HIDE DEF m
  <1>5. CASE m \in Live
    BY <1>1, <1>4, <1>5 DEF NamesUnique, m
  <1>6. CASE m \notin Live /\ m # e
    <2>1. m < e /\ dir[m].d_inumber = -1
      BY <1>3, <1>4, <1>6 DEF Live
    <2> QED BY <1>4, <2>1, Sizes DEF FreeBelowZeroed
  <1> QED BY <1>1, <1>5, <1>6 DEF m

-----------------------------------------------------------------------------
(* The directory                                                           *)

\* What a step may do to the directory: nothing, an addition, a clearing, a new one.
LEMMA DirectoryStep ==
    ASSUME TablesOK, NamesUnique, FreeBelowZeroed,
           \/ UNCHANGED dir
           \/ \E n \in Names \cup {NULL}, i \in Inums : CanAdd(n) /\ dir' = add_dir_entry(n, i)
           \/ \E n : Matching(n) # {} /\ dir' = clear_dir_entry(n)
           \/ dir' \in NewDirs(JunkNames)
    PROVE  NamesUnique' /\ FreeBelowZeroed'
  <1>1. CASE UNCHANGED dir
    BY <1>1 DEF NamesUnique, FreeBelowZeroed, Live
  <1>2. ASSUME NEW n \in Names \cup {NULL}, NEW i \in Inums, CanAdd(n), dir' = add_dir_entry(n, i)
        PROVE  NamesUnique' /\ FreeBelowZeroed'
    <2>1. PICK m \in Entries :
              /\ m \notin Live
              /\ \A f \in Entries : f < m => f \in Live
              /\ dir'[m].d_name = n
              /\ \A e \in Entries : e # m => dir'[e] = dir[e]
              /\ Live' = Live \cup {m}
      BY <1>2, AddEffect DEF CanAdd
    <2>2. Live \subseteq Entries
      BY DEF Live
    <2>3. NamesUnique'
      <3>1. \A d \in Live : dir'[d] = dir[d] /\ dir'[d].d_name # n
        BY <1>2, <2>1, <2>2 DEF CanAdd
      <3> QED BY <2>1, <3>1 DEF NamesUnique
    <2>4. FreeBelowZeroed'
      <3> SUFFICES ASSUME NEW e \in Live', NEW f \in Entries, f < e, dir'[f].d_inumber = -1
                   PROVE  dir'[f].d_name = NULL
        BY DEF FreeBelowZeroed
      <3>1. f \notin Live'
        BY DEF Live
      <3>2. f # m /\ f \notin Live /\ dir'[f] = dir[f]
        BY <2>1, <3>1
      <3>3. e # m
        BY <2>1, <3>2
      <3> QED BY <2>1, <3>2, <3>3 DEF FreeBelowZeroed
    <2> QED BY <2>3, <2>4
  <1>3. ASSUME NEW n, Matching(n) # {}, dir' = clear_dir_entry(n)
        PROVE  NamesUnique' /\ FreeBelowZeroed'
    <2> DEFINE m == Min(Matching(n))
    <2>1. /\ m \in Entries /\ dir[m].d_name = n
          /\ dir'[m].d_name = NULL /\ dir'[m].d_inumber = -1
          /\ \A e \in Entries : e # m => dir'[e] = dir[e]
          /\ Live' = Live \ {m}
      BY <1>3, ClearEffect
    <2> HIDE DEF m
    <2>2. Live \subseteq Entries
      BY DEF Live
    <2>3. NamesUnique'
      BY <2>1, <2>2 DEF NamesUnique
    <2>4. FreeBelowZeroed'
      BY <2>1, <2>2 DEF FreeBelowZeroed
    <2> QED BY <2>3, <2>4
  <1>4. CASE dir' \in NewDirs(JunkNames)
    <2>1. Live' = {}
      BY <1>4 DEF NewDirs, Live
    <2> QED BY <2>1 DEF NamesUnique, FreeBelowZeroed
  <1> QED BY <1>1, <1>2, <1>3, <1>4

\* The steps other than those of tfs_link and tfs_unlink leave the live entries alone, and
\* lead to no place where an entry is somebody's own.
LEMMA QuietStep ==
    ASSUME TypeInv, NEW t \in Threads, Acts(t), ~tfs_link(t), ~tfs_unlink(t), ~tfs_destroy(t)
    PROVE  /\ pc'[t] \notin {"u_clear", "l_count"}
           /\ \/ UNCHANGED dir
              \/ \E n \in Names \cup {NULL}, i \in Inums : CanAdd(n) /\ dir' = add_dir_entry(n, i)
  <1> USE DEF TypeInv
  <1> DEFINE Quiet == pc'[t] \notin {"u_clear", "l_count"}
  <1>1. pc \in [Threads -> Labels]
    BY DEF ControlOK
  <1>2. CASE Begins(t)
    <2>1. UNCHANGED dir /\ \E l \in FirstLabels : pc' = [pc EXCEPT ![t] = l]
      BY <1>2, BeginsEffect, Zenon DEF tables
    <2> QED BY <1>1, <2>1 DEF FirstLabels
  <1>3. CASE tfs_close(t) \/ CopyClose(t)
    <2>1. /\ UNCHANGED dir
          /\ \E from \in {"idle", "x_write", "x_close"} :
               /\ pc[t] = from
               /\ \/ UNCHANGED pc
                  \/ pc' = [pc EXCEPT ![t] = "c_delete"]
                  \/ pc' = [pc EXCEPT ![t] = "idle"]
      <3>1. \E from \in {"idle", "x_write", "x_close"} : \E h : remove_from_open_file_table(t, from, h)
        BY <1>3 DEF tfs_close, CopyClose
      <3> QED BY <3>1, Zenon DEF remove_from_open_file_table, Return, Goto, tables
    <2> QED BY <1>1, <2>1
  <1>4. CASE Deletes(t)
    <2>1. /\ UNCHANGED dir
          /\ pc[t] \in {"o_undo", "s_undo", "c_delete", "u_delete"}
          /\ UNCHANGED pc \/ pc' = [pc EXCEPT ![t] = "idle"]
      BY <1>4, DeleteEffect, Zenon DEF tables
    <2> QED BY <1>1, <2>1
  <1>5. CASE OpenLookup(t) \/ OpenFile(t) \/ OpenSymLink(t) \/ OpenAlloc(t) \/ OpenInit(t)
             \/ OpenCheck(t) \/ OpenTable(t) \/ tfs_write(t) \/ tfs_read(t) \/ CopyWrite(t)
             \/ SymLinkAlloc(t) \/ SymLinkInit(t) \/ SymLinkBlock(t)
    <2>1. UNCHANGED dir
      BY <1>5, Zenon DEF OpenLookup, OpenFile, OpenSymLink, OpenAlloc, OpenInit, OpenCheck, OpenTable,
           tfs_write, tfs_read, CopyWrite, SymLinkAlloc, SymLinkInit, SymLinkBlock, Panic, tables
    <2>2. \/ pc[t] = "o_inode" /\ UNCHANGED pc
          \/ pc' = [pc EXCEPT ![t] = "o_inode"] \/ pc' = [pc EXCEPT ![t] = "o_alloc"]
          \/ pc' = [pc EXCEPT ![t] = "idle"] \/ pc' = [pc EXCEPT ![t] = "o_check"]
          \/ pc' = [pc EXCEPT ![t] = "o_lookup"] \/ pc' = [pc EXCEPT ![t] = "o_init"]
          \/ pc' = [pc EXCEPT ![t] = "o_entry"] \/ pc' = [pc EXCEPT ![t] = "o_table"]
          \/ pc' = [pc EXCEPT ![t] = "x_write"] \/ pc' = [pc EXCEPT ![t] = "x_close"]
          \/ pc' = [pc EXCEPT ![t] = "s_init"] \/ pc' = [pc EXCEPT ![t] = "s_block"]
          \/ pc' = [pc EXCEPT ![t] = "s_undo"] \/ pc' = [pc EXCEPT ![t] = "s_entry"]
      BY <1>5, Zenon DEF OpenLookup, OpenFile, OpenSymLink, OpenAlloc, OpenInit, OpenCheck, OpenTable,
           tfs_write, tfs_read, CopyWrite, SymLinkAlloc, SymLinkInit, SymLinkBlock, Panic,
           Goto, Return
    <2> QED BY <1>1, <2>1, <2>2
  <1>6. CASE OpenEntry(t) \/ SymLinkEntry(t)
    <2>1. /\ pc[t] \in {"o_entry", "s_entry"}
          /\ \/ pc' = [pc EXCEPT ![t] = "o_check"] \/ pc' = [pc EXCEPT ![t] = "o_undo"]
             \/ pc' = [pc EXCEPT ![t] = "s_undo"] \/ pc' = [pc EXCEPT ![t] = "idle"]
          /\ \/ UNCHANGED dir
             \/ CanAdd(Path(t)) /\ dir' = add_dir_entry(Path(t), loc[t].inum)
             \/ CanAdd(loc[t].other) /\ dir' = add_dir_entry(loc[t].other, loc[t].inum)
      BY <1>6 DEF OpenEntry, SymLinkEntry, Goto, Return
    <2>2. loc[t].inum \in Inums
      BY <2>1 DEF LocalsSet, SetAt, WithInum
    <2>3. loc[t].other \in Names \cup {NULL}
      BY DEF ControlOK, Locals
    <2>4. Quiet
      BY <1>1, <2>1
    <2> QED BY <2>1, <2>2, <2>3, <2>4, PathType, Zenon
  <1> QED BY <1>2, <1>3, <1>4, <1>5, <1>6
          DEF Acts, Invoke, Step, Begins, Deletes, tfs_open, tfs_sym_link

-----------------------------------------------------------------------------
(* Whose entry it is                                                       *)

\* What OwnEntry says of one thread, in the current state.
Owner(u) ==
    /\ pc[u] = "u_clear" =>
          \E e \in Live : dir[e].d_name = loc[u].name /\ dir[e].d_inumber = loc[u].inum
    /\ pc[u] = "l_count" =>
          \E e \in Live : dir[e].d_name = loc[u].other /\ dir[e].d_inumber = loc[u].inum

\* A thread that finds its entry where it was keeps it.
LEMMA OwnerKeeps ==
    ASSUME NEW u \in Threads, Owner(u), pc'[u] = pc[u], loc'[u] = loc[u],
           \A e \in Live : dir[e].d_name \in {loc[u].name, loc[u].other} =>
                             e \in Live' /\ dir'[e] = dir[e]
    PROVE  Owner(u)'
  BY DEF Owner

\* An addition keeps all the entries that are live.
LEMMA AddKeeps ==
    ASSUME TablesOK,
           \/ UNCHANGED dir
           \/ \E n \in Names \cup {NULL}, i \in Inums : CanAdd(n) /\ dir' = add_dir_entry(n, i)
    PROVE  \A e \in Live : e \in Live' /\ dir'[e] = dir[e]
  <1>1. CASE UNCHANGED dir
    BY <1>1 DEF Live
  <1>2. ASSUME NEW n \in Names \cup {NULL}, NEW i \in Inums, CanAdd(n), dir' = add_dir_entry(n, i)
        PROVE  \A e \in Live : e \in Live' /\ dir'[e] = dir[e]
    <2>1. PICK m \in Entries :
              /\ m \notin Live /\ Live' = Live \cup {m}
              /\ \A e \in Entries : e # m => dir'[e] = dir[e]
      BY <1>2, AddEffect DEF CanAdd
    <2>2. Live \subseteq Entries
      BY DEF Live
    <2> QED BY <2>1, <2>2
  <1> QED BY <1>1, <1>2

\* While one thread unlinks no other unlinks, and none is inside tfs_link.
LEMMA UnlinkAlone ==
    ASSUME TypeInv, LocksHeld, NEW t \in Threads, pc[t] \in Writers, NEW u \in Threads, u # t
    PROVE  pc[u] \notin Writers \cup Readers
  <1>1. link_wr = t /\ link_wr # NULL
    BY CallsAssumption DEF LocksHeld
  <1>2. link_rd = {}
    BY <1>1 DEF LocksHeld
  <1> QED BY <1>1, <1>2 DEF LocksHeld

\* Every step keeps the invariant of the names.
LEMMA NamesStep ==
    ASSUME TypeInv, LocksHeld, NamesInv, NEW t \in Threads, Acts(t)
    PROVE  NamesInv'
  <1> USE DEF TypeInv, NamesInv
  <1> DEFINE Dir == NamesUnique' /\ FreeBelowZeroed'
             Distinct == \A u, v \in Threads :
                 u # v /\ pc'[u] = "l_count" /\ pc'[v] = "l_count" => loc'[u].other # loc'[v].other
  <1>1. \A u \in Threads : Owner(u)
    BY DEF OwnEntry, Owner
  <1>2. \A u \in Threads : u # t => pc'[u] = pc[u] /\ loc'[u] = loc[u]
    BY OthersStay
  <1>3. ASSUME \A u \in Threads : Owner(u)', Distinct
        PROVE  OwnEntry'
    BY <1>3 DEF OwnEntry, Owner
  <1>4. ASSUME pc'[t] # "l_count"
        PROVE  Distinct
    BY <1>2, <1>4 DEF OwnEntry
  <1>5. pc \in [Threads -> Labels] /\ loc \in [Threads -> Locals]
    BY DEF ControlOK
  <1>6. CASE ~tfs_link(t) /\ ~tfs_unlink(t) /\ ~tfs_destroy(t)
    <2>1. /\ pc'[t] \notin {"u_clear", "l_count"}
          /\ \/ UNCHANGED dir
             \/ \E n \in Names \cup {NULL}, i \in Inums : CanAdd(n) /\ dir' = add_dir_entry(n, i)
      BY <1>6, QuietStep
    <2>2. Dir
      BY <2>1, DirectoryStep
    <2>3. ASSUME NEW u \in Threads
          PROVE  Owner(u)'
      <3>1. CASE u = t
        BY <2>1, <3>1 DEF Owner
      <3>2. CASE u # t
        BY <1>1, <1>2, <2>1, <3>2, AddKeeps, OwnerKeeps
      <3> QED BY <3>1, <3>2
    <2> QED BY <1>3, <1>4, <2>1, <2>2, <2>3
  <1>7. CASE UnlinkLookup(t) \/ LinkLookup(t) \/ UnlinkCount(t)
    <2>1. UNCHANGED dir
      BY <1>7, Zenon DEF UnlinkLookup, LinkLookup, UnlinkCount, tables
    <2>2. \/ /\ UnlinkLookup(t) /\ find_in_dir(loc[t].name) # -1
             /\ pc' = [pc EXCEPT ![t] = "u_clear"]
             /\ loc' = [loc EXCEPT ![t].inum = find_in_dir(loc[t].name)]
          \/ pc' = [pc EXCEPT ![t] = "idle"] \/ pc' = [pc EXCEPT ![t] = "l_entry"]
          \/ pc' = [pc EXCEPT ![t] = "u_delete"]
      BY <1>7, Zenon DEF UnlinkLookup, LinkLookup, UnlinkCount, Goto, Return
    <2>3. Dir
      BY <2>1, DirectoryStep
    <2>4. pc'[t] # "l_count"
      BY <1>5, <2>2
    <2>5. Owner(t)'
      <3>1. CASE pc'[t] = "u_clear"
        <4>1. /\ find_in_dir(loc[t].name) # -1
              /\ loc' = [loc EXCEPT ![t].inum = find_in_dir(loc[t].name)]
          BY <1>5, <2>2, <3>1
        <4>2. loc'[t].name = loc[t].name /\ loc'[t].inum = find_in_dir(loc[t].name)
          BY <1>5, <4>1, Zenon DEF Locals
        <4>3. \E e \in Live : dir[e].d_name = loc[t].name /\ dir[e].d_inumber = find_in_dir(loc[t].name)
          BY <4>1, FindInDir
        <4> QED BY <2>1, <3>1, <4>2, <4>3 DEF Owner, Live
      <3>2. CASE pc'[t] # "u_clear"
        BY <2>4, <3>2 DEF Owner
      <3> QED BY <3>1, <3>2
    <2>6. \A u \in Threads : Owner(u)'
      BY <1>1, <1>2, <2>1, <2>5, AddKeeps, OwnerKeeps
    <2> QED BY <1>3, <1>4, <2>3, <2>4, <2>6
  <1>8. CASE LinkEntry(t)
    <2> DEFINE n == loc[t].other
    <2>1. CASE CanAdd(n)
      <3>1. /\ pc[t] = "l_entry" /\ pc' = [pc EXCEPT ![t] = "l_count"] /\ UNCHANGED loc
            /\ dir' = add_dir_entry(n, loc[t].inum)
        BY <1>8, <2>1 DEF LinkEntry, Goto
      <3>2. loc[t].inum \in Inums /\ n \in Names
        BY <3>1 DEF LocalsSet, SetAt, WithInum, WithOther
      <3>3. Dir
        BY <2>1, <3>1, <3>2, DirectoryStep
      <3>4. \A e \in Live : e \in Live' /\ dir'[e] = dir[e]
        BY <2>1, <3>1, <3>2, AddKeeps
      <3>5. \E e \in Live' : dir'[e].d_name = n /\ dir'[e].d_inumber = loc[t].inum
        BY <2>1, <3>1, <3>2, AddEffect DEF CanAdd
      <3>6. pc'[t] = "l_count" /\ loc'[t] = loc[t]
        BY <1>5, <3>1
      <3>7. Owner(t)'
        BY <3>5, <3>6 DEF Owner
      <3>8. \A u \in Threads : Owner(u)'
        BY <1>1, <1>2, <3>4, <3>7, OwnerKeeps
      <3>9. \A u \in Threads : u # t /\ pc[u] = "l_count" => loc[u].other # n
        BY <1>1, <2>1 DEF Owner, CanAdd
      <3>10. Distinct
        BY <1>2, <3>6, <3>9 DEF OwnEntry
      <3> QED BY <1>3, <3>3, <3>8, <3>10
    <2>2. CASE ~CanAdd(n)
      <3>1. pc' = [pc EXCEPT ![t] = "idle"] /\ UNCHANGED dir
        BY <1>8, <2>2 DEF LinkEntry, Return, Goto
      <3>2. pc'[t] = "idle"
        BY <1>5, <3>1
      <3>3. Dir
        BY <3>1, DirectoryStep
      <3>4. Owner(t)'
        BY <3>2 DEF Owner
      <3>5. \A u \in Threads : Owner(u)'
        BY <1>1, <1>2, <3>1, <3>4, AddKeeps, OwnerKeeps
      <3> QED BY <1>3, <1>4, <3>2, <3>3, <3>5
    <2> QED BY <2>1, <2>2
  <1>9. ASSUME NEW n \in Names, dir' = clear_dir_entry(n), pc'[t] \notin {"u_clear", "l_count"},
               \E e \in Live : dir[e].d_name = n,
               \A u \in Threads : u # t => /\ pc[u] # "u_clear"
                                           /\ pc[u] = "l_count" => loc[u].other # n
        PROVE  NamesInv'
    <2> DEFINE m == Min(Matching(n))
    <2>1. Matching(n) # {}
      BY <1>9, RightEntry
    <2>2. /\ dir[m].d_name = n /\ Live' = Live \ {m}
          /\ \A e \in Entries : e # m => dir'[e] = dir[e]
      BY <1>9, <2>1, ClearEffect
    <2>3. Dir
      BY <1>9, <2>1, DirectoryStep
    <2> HIDE DEF m
    <2>4. ASSUME NEW u \in Threads
          PROVE  Owner(u)'
      <3>1. CASE u = t \/ pc[u] # "l_count"
        BY <1>2, <1>9, <3>1 DEF Owner
      <3>2. CASE u # t /\ pc[u] = "l_count"
        <4>1. pc'[u] = "l_count" /\ loc'[u] = loc[u] /\ loc[u].other # n
          BY <1>2, <1>9, <3>2
        <4>2. PICK e \in Live : dir[e].d_name = loc[u].other /\ dir[e].d_inumber = loc[u].inum
          BY <1>1, <3>2 DEF Owner
        <4>3. e \in Live' /\ dir'[e] = dir[e]
          BY <2>2, <4>1, <4>2 DEF Live
        <4> QED BY <4>1, <4>2, <4>3 DEF Owner
      <3> QED BY <3>1, <3>2
    <2> QED BY <1>3, <1>4, <1>9, <2>3, <2>4
  <1>10. CASE LinkCount(t)
    <2>1. /\ pc[t] = "l_count" /\ pc' = [pc EXCEPT ![t] = "idle"]
          /\ UNCHANGED dir \/ dir' = clear_dir_entry(loc[t].other)
      BY <1>10, Zenon DEF LinkCount, Return, Goto
    <2>2. pc'[t] = "idle"
      BY <1>5, <2>1
    <2>3. CASE UNCHANGED dir
      <3>1. Dir
        BY <2>3, DirectoryStep
      <3>2. Owner(t)'
        BY <2>2 DEF Owner
      <3>3. \A u \in Threads : Owner(u)'
        BY <1>1, <1>2, <2>3, <3>2, AddKeeps, OwnerKeeps
      <3> QED BY <1>3, <1>4, <2>2, <3>1, <3>3
    <2>4. CASE dir' = clear_dir_entry(loc[t].other)
      <3>1. loc[t].other \in Names
        BY <2>1 DEF LocalsSet, SetAt, WithOther
      <3>2. \E e \in Live : dir[e].d_name = loc[t].other
        BY <1>1, <2>1 DEF Owner
      <3>3. \A u \in Threads : u # t => /\ pc[u] # "u_clear"
                                        /\ pc[u] = "l_count" => loc[u].other # loc[t].other
        <4>1. \A u \in Threads : u # t => pc[u] # "u_clear"
          BY <2>1, UnlinkAlone DEF Writers, Readers
        <4> QED BY <2>1, <4>1 DEF OwnEntry
      <3> QED BY <1>9, <2>2, <2>4, <3>1, <3>2, <3>3
    <2> QED BY <2>1, <2>3, <2>4
  <1>11. CASE UnlinkClear(t)
    <2>1. /\ pc[t] = "u_clear" /\ pc' = [pc EXCEPT ![t] = "u_count"]
          /\ dir' = clear_dir_entry(loc[t].name)
      BY <1>11 DEF UnlinkClear, Goto
    <2>2. pc'[t] = "u_count"
      BY <1>5, <2>1
    <2>3. loc[t].name \in Names
      BY <2>1 DEF LocalsSet, SetAt, WithName
    <2>4. \E e \in Live : dir[e].d_name = loc[t].name
      BY <1>1, <2>1 DEF Owner
    <2>5. \A u \in Threads : u # t => pc[u] # "u_clear" /\ pc[u] # "l_count"
      BY <2>1, UnlinkAlone DEF Writers, Readers
    <2> QED BY <1>9, <2>1, <2>2, <2>3, <2>4, <2>5
  <1>12. CASE UnlinkDelete(t)
    <2>1. /\ UNCHANGED dir /\ pc[t] = "u_delete"
          /\ UNCHANGED pc \/ pc' = [pc EXCEPT ![t] = "idle"]
      BY <1>12, Zenon DEF UnlinkDelete, DeleteAndReturn, Return, Goto, Panic, tables
    <2>2. pc'[t] \notin {"u_clear", "l_count"}
      BY <1>5, <2>1
    <2>3. Dir
      BY <2>1, DirectoryStep
    <2>4. Owner(t)'
      BY <2>2 DEF Owner
    <2>5. \A u \in Threads : Owner(u)'
      BY <1>1, <1>2, <2>1, <2>4, AddKeeps, OwnerKeeps
    <2> QED BY <1>3, <1>4, <2>2, <2>3, <2>5
  <1>13. CASE tfs_destroy(t)
    <2>1. dir' \in NewDirs(JunkNames) /\ UNCHANGED pc /\ \A u \in Threads : pc[u] = "idle"
      BY <1>13, Zenon DEF tfs_destroy, StateReset
    <2>2. Dir
      BY <2>1, DirectoryStep
    <2>3. OwnEntry'
      BY <2>1 DEF OwnEntry
    <2> QED BY <2>2, <2>3
  <1> QED BY <1>6, <1>7, <1>8, <1>10, <1>11, <1>12, <1>13 DEF tfs_link, tfs_unlink

\* A new root directory lists nothing.
LEMMA NamesInit == Init => NamesInv
  <1> SUFFICES ASSUME Init PROVE NamesInv
    OBVIOUS
  <1>1. Live = {}
    BY DEF Init, StateInit, NewDirs, Live
  <1>2. \A t \in Threads : pc[t] = "idle"
    BY DEF Init
  <1> QED BY <1>1, <1>2 DEF NamesInv, NamesUnique, FreeBelowZeroed, OwnEntry

\* The inductive invariant of the names.
THEOREM NamesInvariant == Spec => [](TypeInv /\ LocksHeld /\ NamesInv)
  <1>1. Init => NamesInv
    BY NamesInit
  <1>2. ASSUME TypeInv, LocksHeld, NamesInv, [Next]_vars
        PROVE  NamesInv'
    <2>1. CASE Next
      <3>1. PICK t \in Threads : Acts(t)
        BY <2>1 DEF Next, Acts
      <3> QED BY <1>2, <3>1, NamesStep
    <2>2. CASE UNCHANGED vars
      <3>1. UNCHANGED <<dir, pc, loc>>
        BY <2>2 DEF vars, tables
      <3> QED BY <1>2, <3>1 DEF NamesInv, NamesUnique, FreeBelowZeroed, OwnEntry, Live
    <2> QED BY <1>2, <2>1, <2>2
  <1> QED BY <1>1, <1>2, TypesAndLocks, PTL DEF Spec

\* NamesUnique: tfs_open looks a name up under open_mutex, tfs_link and tfs_sym_link do
\* not take it, and still the root directory never lists a name twice.
THEOREM NamesAreUnique == Spec => []NamesUnique
  BY NamesInvariant, PTL DEF NamesInv

\* ClearsTheRightEntry: clear_dir_entry compares names and not inumbers, and the names of
\* free entries are whatever was there; it clears the entry of the inode that tfs_unlink
\* found, or that tfs_link added, all the same.
THEOREM RightEntryCleared == Spec => []ClearsTheRightEntry
  <1>1. ASSUME TypeInv, NamesInv
        PROVE  ClearsTheRightEntry
    <2> SUFFICES ASSUME NEW t \in Threads
                 PROVE  /\ pc[t] = "u_clear" => dir[Min(Matching(loc[t].name))].d_inumber = loc[t].inum
                        /\ pc[t] = "l_count" => dir[Min(Matching(loc[t].other))].d_inumber = loc[t].inum
      BY DEF ClearsTheRightEntry
    <2>1. CASE pc[t] = "u_clear"
      <3>1. loc[t].name \in Names
        BY <1>1, <2>1 DEF TypeInv, LocalsSet, SetAt, WithName
      <3>2. \E e \in Live : dir[e].d_name = loc[t].name /\ dir[e].d_inumber = loc[t].inum
        BY <1>1, <2>1 DEF NamesInv, OwnEntry
      <3> QED BY <1>1, <2>1, <3>1, <3>2, RightEntry DEF NamesInv, TypeInv
    <2>2. CASE pc[t] = "l_count"
      <3>1. loc[t].other \in Names
        BY <1>1, <2>2 DEF TypeInv, LocalsSet, SetAt, WithOther
      <3>2. \E e \in Live : dir[e].d_name = loc[t].other /\ dir[e].d_inumber = loc[t].inum
        BY <1>1, <2>2 DEF NamesInv, OwnEntry
      <3> QED BY <1>1, <2>2, <3>1, <3>2, RightEntry DEF NamesInv, TypeInv
    <2> QED BY <2>1, <2>2
  <1> QED BY <1>1, NamesInvariant, PTL
=============================================================================
