--------------------------- MODULE TecnicoFSLinks ---------------------------
(***************************************************************************)
(* Proofs about the hard link counters of module TecnicoFS: a counter      *)
(* counts the entries of its inode, every entry leads to an inode that     *)
(* exists, and an inode is freed once, when it has no links and no handles.*)
(* With the names of TecnicoFSNames this shows that the calls implement    *)
(* module Namespace.                                                       *)
(***************************************************************************)
EXTENDS TecnicoFSNames

\* A thread that works on the links of an inode it looked up.
Linkers == {"l_entry", "l_count", "u_clear", "u_count"}
Busy == Creators \cup Linkers \cup Deleters

Links(i) == inode_table[i].i_hard_links
EntriesOf(i) == {e \in Live : dir[e].d_inumber = i}
IsOpen(i) == is_file_open(i, free_open_file_entries)

\* A new inode is taken, and is nobody else's: no entry, link or deletion refers to it.
CreatorsAlone ==
    \A t \in Threads : pc[t] \in Creators =>
        /\ loc[t].inum \in freeinode_ts
        /\ \A e \in Live : dir[e].d_inumber # loc[t].inum
        /\ \A u \in Threads : t # u /\ pc[u] \in Busy => loc[u].inum # loc[t].inum

\* An inode that is free or new has the one link it is created with.
FreshLinks ==
    /\ \A i \in Inums \ freeinode_ts : Links(i) = 1
    /\ \A t \in Threads : pc[t] \in Creators => Links(loc[t].inum) = 1

\* The inode whose links are being changed is not lost meanwhile, and has links.
LinkersBusy ==
    \A t \in Threads : pc[t] \in Linkers =>
        loc[t].inum \in freeinode_ts /\ Links(loc[t].inum) >= 1

\* An inode that is about to be deleted has no links and no handles.
DeletersAlone ==
    \A t \in Threads : pc[t] \in Deleters =>
        loc[t].inum \in freeinode_ts /\ Links(loc[t].inum) = 0 /\ ~IsOpen(loc[t].inum)

LinksInv ==
    /\ CreatorsAlone /\ FreshLinks /\ LinkersBusy /\ DeletersAlone
    /\ LinkCountExact /\ EntriesTaken /\ NoOrphanInode

-----------------------------------------------------------------------------
(* Counting threads and entries                                            *)

\* The calls that have an entry to come or one that is gone already.
Pending == {"u_count", "o_entry", "o_undo", "s_block", "s_entry", "s_undo"}
Starting == {"o_init", "s_init"}

\* What LinkCountExact says of one inode.
Exact(i) ==
    At(Starting, i) = {} =>
        Links(i) + Cardinality(At({"l_count"}, i))
          = Cardinality(EntriesOf(i)) + Cardinality(At(Pending, i))

\* The inode that a thread works on at one of the labels L.
On(L, t, i) == pc[t] \in L /\ loc[t].inum = i

\* What NoOrphanInode says of one inode.
Kept(i) == Links(i) = 0 => IsOpen(i) \/ \E u \in Threads : On(Deleters, u, i)

\* The two invariants, inode by inode, before and after a step.
LEMMA InodeByInode ==
    /\ LinkCountExact <=> \A i \in freeinode_ts : Exact(i)
    /\ LinkCountExact' <=> \A i \in freeinode_ts' : Exact(i)'
    /\ NoOrphanInode <=> \A i \in freeinode_ts : Kept(i)
    /\ NoOrphanInode' <=> \A i \in freeinode_ts' : Kept(i)'
  <1>1. /\ LinkCountExact <=> \A i \in freeinode_ts : Exact(i)
        /\ LinkCountExact' <=> \A i \in freeinode_ts' : Exact(i)'
    BY DEF LinkCountExact, Exact, Starting, Pending, EntriesOf, Links
  <1>2. \A i : /\ At({"u_delete", "c_delete"}, i) # {} <=> \E u \in Threads : On(Deleters, u, i)
               /\ At({"u_delete", "c_delete"}, i)' # {} <=> \E u \in Threads : On(Deleters, u, i)'
    BY DEF At, On, Deleters
  <1>3. /\ NoOrphanInode <=> \A i \in freeinode_ts : Kept(i)
        /\ NoOrphanInode' <=> \A i \in freeinode_ts' : Kept(i)'
    BY <1>2 DEF NoOrphanInode, Kept, Links, IsOpen
  <1> QED BY <1>1, <1>3

\* There are finitely many threads at a label, and entries of an inode.
LEMMA Counts ==
    ASSUME NEW L, NEW i
    PROVE  /\ IsFiniteSet(At(L, i)) /\ Cardinality(At(L, i)) \in Nat
           /\ Cardinality(At(L, i)) = 0 <=> At(L, i) = {}
           /\ IsFiniteSet(EntriesOf(i)) /\ Cardinality(EntriesOf(i)) \in Nat
           /\ Cardinality(EntriesOf(i)) = 0 <=> EntriesOf(i) = {}
  <1>1. IsFiniteSet(At(L, i))
    BY CallsAssumption, FS_Subset DEF At
  <1>2. IsFiniteSet(EntriesOf(i))
    <2>1. IsFiniteSet(Entries)
      BY Sizes, FS_Interval DEF Entries
    <2> QED BY <2>1, FS_Subset DEF EntriesOf, Live
  <1> QED BY <1>1, <1>2, FS_CardinalityType, FS_EmptySet

\* The counts after a step of one thread.
LEMMA AtStep ==
    ASSUME NEW t \in Threads, \A u \in Threads \ {t} : pc'[u] = pc[u] /\ loc'[u] = loc[u],
           NEW L, NEW i
    PROVE  /\ (On(L, t, i)' <=> On(L, t, i)) => At(L, i)' = At(L, i)
           /\ ~On(L, t, i) /\ On(L, t, i)' => Cardinality(At(L, i)') = Cardinality(At(L, i)) + 1
           /\ On(L, t, i) /\ ~On(L, t, i)' => Cardinality(At(L, i)') = Cardinality(At(L, i)) - 1
  <1>1. (On(L, t, i)' <=> On(L, t, i)) => At(L, i)' = At(L, i)
    BY DEF At, On
  <1>2. ASSUME ~On(L, t, i), On(L, t, i)'
        PROVE  Cardinality(At(L, i)') = Cardinality(At(L, i)) + 1
    <2>1. t \notin At(L, i) /\ At(L, i)' = At(L, i) \cup {t}
      BY <1>2 DEF At, On
    <2> QED BY <2>1, Counts, FS_AddElement
  <1>3. ASSUME On(L, t, i), ~On(L, t, i)'
        PROVE  Cardinality(At(L, i)') = Cardinality(At(L, i)) - 1
    <2>1. t \in At(L, i) /\ At(L, i)' = At(L, i) \ {t}
      BY <1>3 DEF At, On
    <2> QED BY <2>1, Counts, FS_RemoveElement
  <1> QED BY <1>1, <1>2, <1>3

\* An entry for i is added, or taken away.
EntryAdded(i) ==
    \E m \in Entries :
        /\ m \notin Live /\ Live' = Live \cup {m} /\ dir'[m].d_inumber = i
        /\ \A e \in Live : dir'[e] = dir[e]
EntryCleared(i) ==
    \E m \in Live :
        /\ dir[m].d_inumber = i /\ Live' = Live \ {m}
        /\ \A e \in Live' : dir'[e] = dir[e]

\* The entries of an inode after a step.
LEMMA EntriesStep ==
    ASSUME NEW i, NEW j
    PROVE  /\ UNCHANGED dir => EntriesOf(j)' = EntriesOf(j) /\ Live' = Live
           /\ EntryAdded(i) \/ EntryCleared(i) => (j # i => EntriesOf(j)' = EntriesOf(j))
           /\ EntryAdded(i) => Cardinality(EntriesOf(i)') = Cardinality(EntriesOf(i)) + 1
           /\ EntryCleared(i) => Cardinality(EntriesOf(i)') = Cardinality(EntriesOf(i)) - 1
  <1>1. UNCHANGED dir => EntriesOf(j)' = EntriesOf(j) /\ Live' = Live
    BY DEF EntriesOf, Live
  <1>2. EntryAdded(i) \/ EntryCleared(i) => (j # i => EntriesOf(j)' = EntriesOf(j))
    BY DEF EntryAdded, EntryCleared, EntriesOf
  <1>3. ASSUME EntryAdded(i)
        PROVE  Cardinality(EntriesOf(i)') = Cardinality(EntriesOf(i)) + 1
    <2>1. PICK m \in Entries : m \notin EntriesOf(i) /\ EntriesOf(i)' = EntriesOf(i) \cup {m}
      BY <1>3 DEF EntryAdded, EntriesOf
    <2> QED BY <2>1, Counts, FS_AddElement
  <1>4. ASSUME EntryCleared(i)
        PROVE  Cardinality(EntriesOf(i)') = Cardinality(EntriesOf(i)) - 1
    <2>1. PICK m \in Live : m \in EntriesOf(i) /\ EntriesOf(i)' = EntriesOf(i) \ {m}
      BY <1>4 DEF EntryCleared, EntriesOf
    <2> QED BY <2>1, Counts, FS_RemoveElement
  <1> QED BY <1>1, <1>2, <1>3, <1>4

-----------------------------------------------------------------------------
(* What the steps do to links, entries and handles                         *)

SameLinks == \A i \in Inums : Links(i)' = Links(i)
NewLinks(i, k) == Links(i)' = k /\ \A j \in Inums \ {i} : Links(j)' = Links(j)
SameOpen == \A i \in Inums : IsOpen(i)' <=> IsOpen(i)

\* The entry that add_dir_entry fills.
LEMMA Adds ==
    ASSUME TablesOK, NEW n, NEW i \in Inums, CanAdd(n), dir' = add_dir_entry(n, i)
    PROVE  EntryAdded(i)
  <1>1. PICK m \in Entries :
          /\ m \notin Live /\ Live' = Live \cup {m} /\ dir'[m].d_inumber = i
          /\ \A e \in Entries : e # m => dir'[e] = dir[e]
    BY AddEffect DEF CanAdd
  <1> QED BY <1>1 DEF EntryAdded, Live

\* The entry that clear_dir_entry clears.
LEMMA Clears ==
    ASSUME TablesOK, NamesUnique, FreeBelowZeroed, NEW n \in Names, NEW i,
           \E e \in Live : dir[e].d_name = n /\ dir[e].d_inumber = i,
           dir' = clear_dir_entry(n)
    PROVE  EntryCleared(i)
  <1>1. PICK e \in Live : dir[e].d_name = n /\ dir[e].d_inumber = i
    OBVIOUS
  <1>2. Matching(n) # {} /\ Min(Matching(n)) = e
    BY <1>1, RightEntry
  <1>3. Live' = Live \ {e} /\ \A d \in Entries : d # e => dir'[d] = dir[d]
    BY <1>2, ClearEffect
  <1> QED BY <1>1, <1>3 DEF EntryCleared, Live

\* A step of a thread: nothing else of the other threads changes.
Only(t) == \A u \in Threads \ {t} : pc'[u] = pc[u] /\ loc'[u] = loc[u]

\* The count of an inode that a step leaves alone.
LEMMA ExactKept ==
    ASSUME NEW t \in Threads, Only(t), NEW i, Exact(i), Links(i)' = Links(i),
           EntriesOf(i)' = EntriesOf(i),
           On(Starting, t, i)' <=> On(Starting, t, i),
           On({"l_count"}, t, i)' <=> On({"l_count"}, t, i),
           On(Pending, t, i)' <=> On(Pending, t, i)
    PROVE  Exact(i)'
  <1>1. /\ At(Starting, i)' = At(Starting, i)
        /\ At({"l_count"}, i)' = At({"l_count"}, i)
        /\ At(Pending, i)' = At(Pending, i)
    BY AtStep DEF Only
  <1> QED BY <1>1 DEF Exact

\* The labels that the invariant is about.
LEMMA BusyLabels ==
    /\ Creators \subseteq Busy /\ Linkers \subseteq Busy /\ Deleters \subseteq Busy
    /\ Starting \subseteq Creators /\ Starting \subseteq Busy
    /\ {"l_count"} \subseteq Busy /\ Pending \subseteq Busy /\ Pending \subseteq Creators \cup {"u_count"}
    /\ Creators \cap Linkers = {} /\ Creators \cap Deleters = {} /\ Linkers \cap Deleters = {}
    /\ Starting \cap Pending = {} /\ "l_count" \notin Starting \cup Pending
    /\ "l_count" \in Linkers /\ "u_count" \in Linkers \cap Pending
  BY DEF Starting, Pending, Busy, Creators, Linkers, Deleters

\* A thread at one of them has an inode.
LEMMA BusyInum ==
    ASSUME LocalsSet, NEW u \in Threads, pc[u] \in Busy
    PROVE  loc[u].inum \in Inums
  BY DEF Busy, Creators, Linkers, Deleters, LocalsSet, SetAt, WithInum

-----------------------------------------------------------------------------
(* Each kind of step keeps the invariant                                   *)

\* A step that is not about links, or gives tfs_link up before it added an entry.  The
\* handles may grow when nobody is deleting.
LEMMA QuietKeeps ==
    ASSUME LinksInv, NEW t \in Threads, Only(t), SameLinks, UNCHANGED <<freeinode_ts, dir>>,
           TablesOK, LocalsSet,
           \A i \in Inums : IsOpen(i) => IsOpen(i)',
           SameOpen \/ \A u \in Threads : pc[u] \notin Deleters,
           UNCHANGED <<pc, loc>> \/ (pc[t] \notin Busy \ {"l_entry"} /\ pc'[t] \notin Busy)
    PROVE  LinksInv'
  <1> USE DEF LinksInv, Only
  <1>1. Live' = Live /\ \A i : EntriesOf(i)' = EntriesOf(i)
    BY EntriesStep
  <1>2. \A u \in Threads : pc'[u] \in Busy => pc'[u] = pc[u] /\ loc'[u] = loc[u]
    OBVIOUS
  <1>3. \A u \in Threads : pc[u] \in Busy \ {"l_entry"} => pc'[u] = pc[u] /\ loc'[u] = loc[u]
    OBVIOUS
  <1>4. \A u \in Threads : pc[u] \in Busy => loc[u].inum \in Inums
    BY BusyInum
  <1>5. Creators \subseteq Busy /\ Linkers \subseteq Busy /\ Deleters \subseteq Busy
    BY BusyLabels
  <1>6. CreatorsAlone'
    BY <1>1, <1>2, <1>5 DEF CreatorsAlone
  <1>7. FreshLinks'
    BY <1>2, <1>4, <1>5 DEF FreshLinks, SameLinks
  <1>8. LinkersBusy'
    BY <1>2, <1>4, <1>5 DEF LinkersBusy, SameLinks
  <1>9. DeletersAlone'
    BY <1>2, <1>4, <1>5 DEF DeletersAlone, SameLinks, SameOpen
  <1>10. LinkCountExact'
    <2>1. \A L \in {Starting, {"l_count"}, Pending} : L \subseteq Busy \ {"l_entry"}
      BY BusyLabels DEF Starting, Pending
    <2>2. ASSUME NEW i \in freeinode_ts
          PROVE  Exact(i)'
      <3>1. Links(i)' = Links(i) /\ Exact(i)
        BY InodeByInode DEF SameLinks, TablesOK
      <3>2. \A L \in {Starting, {"l_count"}, Pending} : On(L, t, i)' <=> On(L, t, i)
        BY <1>2, <1>3, <2>1 DEF On
      <3> QED BY <1>1, <3>1, <3>2, ExactKept
    <2>3. \A i \in freeinode_ts' : Exact(i)'
      BY <2>2
    <2> QED BY <2>3, InodeByInode
  <1>11. EntriesTaken'
    BY <1>1 DEF EntriesTaken
  <1>12. NoOrphanInode'
    <2>1. \A i : \A u \in Threads : On(Deleters, u, i) => On(Deleters, u, i)'
      BY <1>3, <1>5 DEF On, Deleters
    <2>2. \A i \in freeinode_ts' : Kept(i)'
      BY <2>1, InodeByInode DEF Kept, SameLinks, TablesOK
    <2> QED BY <2>2, InodeByInode
  <1> QED BY <1>6, <1>7, <1>8, <1>9, <1>10, <1>11, <1>12

\* A handle is closed.  While free_open_file_entries_mutex is free nobody is deleting; the
\* inode goes next if it has no links and no other handle.
LEMMA CloseKeeps ==
    ASSUME LinksInv, NEW t \in Threads, Only(t), SameLinks, UNCHANGED <<freeinode_ts, dir>>,
           TablesOK, LocalsSet,
           \A u \in Threads : pc[u] \notin Deleters,
           NEW i \in freeinode_ts,
           \A j \in Inums \ {i} : IsOpen(j)' <=> IsOpen(j),
           pc[t] \notin Busy,
           \/ pc'[t] = "c_delete" /\ loc'[t].inum = i /\ Links(i) = 0 /\ ~IsOpen(i)'
           \/ pc'[t] = "idle" /\ (Links(i) # 0 \/ IsOpen(i)')
    PROVE  LinksInv'
  <1> USE DEF LinksInv, Only
  <1>1. Live' = Live /\ \A j : EntriesOf(j)' = EntriesOf(j)
    BY EntriesStep
  <1>2. pc'[t] \in Deleters \/ pc'[t] \notin Busy
    BY DEF Busy, Creators, Linkers, Deleters
  <1>3. pc'[t] \notin Creators /\ pc'[t] \notin Linkers
    BY <1>2, BusyLabels
  <1>4. i \in Inums
    BY DEF TablesOK
  <1>5. \A u \in Threads : pc[u] \in Busy => loc[u].inum \in Inums /\ u # t
    BY BusyInum
  <1>6. CreatorsAlone'
    <2>1. \A u \in Threads : pc[u] \in Creators => Links(loc[u].inum) = 1
      BY DEF FreshLinks
    <2>2. pc'[t] \in Busy => loc'[t].inum = i /\ Links(i) = 0
      BY DEF Busy, Creators, Linkers, Deleters
    <2>3. \A u \in Threads : pc[u] \in Creators /\ pc'[t] \in Busy => loc[u].inum # loc'[t].inum
      BY <2>1, <2>2
    <2> QED BY <1>1, <1>3, <2>3 DEF CreatorsAlone
  <1>7. FreshLinks'
    BY <1>3, <1>5, BusyLabels DEF FreshLinks, SameLinks
  <1>8. LinkersBusy'
    BY <1>3, <1>5, BusyLabels DEF LinkersBusy, SameLinks
  <1>9. DeletersAlone'
    <2>1. \A u \in Threads : pc'[u] \in Deleters => u = t
      OBVIOUS
    <2>2. pc'[t] \in Deleters => loc'[t].inum = i /\ Links(i) = 0 /\ ~IsOpen(i)'
      BY DEF Deleters
    <2> QED BY <1>4, <2>1, <2>2 DEF DeletersAlone, SameLinks
  <1>10. LinkCountExact'
    <2>1. ASSUME NEW j \in freeinode_ts
          PROVE  Exact(j)'
      <3>1. Links(j)' = Links(j) /\ Exact(j)
        BY InodeByInode DEF SameLinks, TablesOK
      <3>2. \A L \in {Starting, {"l_count"}, Pending} : ~On(L, t, j) /\ ~On(L, t, j)'
        BY <1>3, BusyLabels DEF On
      <3> QED BY <1>1, <3>1, <3>2, ExactKept
    <2> QED BY <2>1, InodeByInode
  <1>11. EntriesTaken'
    BY <1>1 DEF EntriesTaken
  <1>12. NoOrphanInode'
    <2>1. ASSUME NEW j \in freeinode_ts, Links(j)' = 0
          PROVE  IsOpen(j)' \/ \E u \in Threads : On(Deleters, u, j)'
      <3>1. Links(j) = 0 /\ j \in Inums
        BY <2>1 DEF SameLinks, TablesOK
      <3>2. IsOpen(j)
        BY <3>1, InodeByInode DEF Kept, On
      <3>3. CASE j # i
        BY <3>1, <3>2, <3>3
      <3>4. CASE j = i /\ pc'[t] = "c_delete" /\ loc'[t].inum = i
        BY <3>4 DEF On, Deleters
      <3>5. CASE j = i /\ pc'[t] = "idle"
        BY <3>1, <3>5
      <3> QED BY <3>3, <3>4, <3>5
    <2>2. \A j \in freeinode_ts' : Kept(j)'
      BY <2>1 DEF Kept
    <2> QED BY <2>2, InodeByInode
  <1> QED BY <1>6, <1>7, <1>8, <1>9, <1>10, <1>11, <1>12

\* inode_alloc takes a free inode.
LEMMA AllocKeeps ==
    ASSUME LinksInv, NEW t \in Threads, Only(t), SameLinks, SameOpen, UNCHANGED dir,
           TablesOK, LocalsSet, NEW i \in Inums, i \notin freeinode_ts,
           freeinode_ts' = freeinode_ts \cup {i},
           pc[t] \notin Busy, pc'[t] \in Starting, loc'[t].inum = i
    PROVE  LinksInv'
  <1> USE DEF LinksInv, Only
  <1>1. Live' = Live /\ \A j : EntriesOf(j)' = EntriesOf(j)
    BY EntriesStep
  <1>2. pc'[t] \in Creators /\ pc'[t] \notin Linkers /\ pc'[t] \notin Deleters
    BY BusyLabels
  <1>3. \A u \in Threads : pc[u] \in Busy => loc[u].inum \in freeinode_ts /\ u # t
    BY DEF CreatorsAlone, LinkersBusy, DeletersAlone, Busy
  <1>4. Links(i) = 1
    BY DEF FreshLinks
  <1>5. \A j \in freeinode_ts : j \in Inums
    BY DEF TablesOK
  <1>6. CreatorsAlone'
    <2>1. \A e \in Live' : dir'[e].d_inumber # i
      BY <1>1 DEF EntriesTaken
    <2>2. \A u \in Threads : pc'[u] \in Busy /\ u # t => loc'[u].inum # i
      BY <1>3
    <2> QED BY <1>1, <1>2, <1>3, <2>1, <2>2 DEF CreatorsAlone
  <1>7. FreshLinks'
    BY <1>3, <1>4, <1>5, BusyLabels DEF FreshLinks, SameLinks
  <1>8. LinkersBusy'
    BY <1>2, <1>3, <1>5, BusyLabels DEF LinkersBusy, SameLinks
  <1>9. DeletersAlone'
    BY <1>2, <1>3, <1>5, BusyLabels DEF DeletersAlone, SameLinks, SameOpen
  <1>10. LinkCountExact'
    <2>1. ASSUME NEW j \in freeinode_ts
          PROVE  Exact(j)'
      <3>1. Links(j)' = Links(j) /\ Exact(j) /\ j # i
        BY <1>5, InodeByInode DEF SameLinks
      <3>2. \A L \in {Starting, {"l_count"}, Pending} : ~On(L, t, j) /\ ~On(L, t, j)'
        BY <3>1, BusyLabels DEF On
      <3> QED BY <1>1, <3>1, <3>2, ExactKept
    <2>2. Exact(i)'
      <3>1. t \in At(Starting, i)'
        BY DEF At
      <3> QED BY <3>1 DEF Exact
    <2> QED BY <2>1, <2>2, InodeByInode
  <1>11. EntriesTaken'
    BY <1>1 DEF EntriesTaken
  <1>12. NoOrphanInode'
    <2>1. \A j : \A u \in Threads : On(Deleters, u, j) => On(Deleters, u, j)'
      BY <1>3, BusyLabels DEF On
    <2>2. \A j \in freeinode_ts' : Kept(j)'
      BY <1>4, <1>5, <2>1, InodeByInode DEF Kept, SameLinks, SameOpen
    <2> QED BY <2>2, InodeByInode
  <1> QED BY <1>6, <1>7, <1>8, <1>9, <1>10, <1>11, <1>12

\* A new inode is filled in, given a block, or about to be given back.  When it has been
\* filled in its one link is the pending one.
LEMMA CreatorKeeps ==
    ASSUME LinksInv, NEW t \in Threads, Only(t), SameLinks, SameOpen,
           UNCHANGED <<freeinode_ts, dir>>, TablesOK, LocalsSet,
           NEW i, loc[t].inum = i, loc'[t].inum = i,
           pc[t] \in Creators, pc'[t] \in Creators \ Starting
    PROVE  LinksInv'
  <1> USE DEF LinksInv, Only
  <1>1. Live' = Live /\ \A j : EntriesOf(j)' = EntriesOf(j)
    BY EntriesStep
  <1>2. /\ pc'[t] \in Pending /\ pc'[t] # "l_count" /\ pc[t] # "l_count" /\ pc[t] \in Busy
        /\ pc[t] \notin Linkers /\ pc[t] \notin Deleters /\ pc[t] \in Starting \cup Pending
        /\ pc'[t] \notin Linkers /\ pc'[t] \notin Deleters
    BY DEF Pending, Starting, Creators, Linkers, Deleters, Busy
  <1>3. \A u \in Threads : pc[u] \in Busy => loc[u].inum \in Inums
    BY BusyInum
  <1>4. \A j \in freeinode_ts : j \in Inums
    BY DEF TablesOK
  <1>5. CreatorsAlone'
    BY <1>1, <1>2 DEF CreatorsAlone
  <1>6. FreshLinks'
    BY <1>2, <1>3, BusyLabels DEF FreshLinks, SameLinks
  <1>7. LinkersBusy'
    BY <1>2, <1>3, BusyLabels DEF LinkersBusy, SameLinks
  <1>8. DeletersAlone'
    BY <1>2, <1>3, BusyLabels DEF DeletersAlone, SameLinks, SameOpen
  <1>9. LinkCountExact'
    <2>1. ASSUME NEW j \in freeinode_ts, j # i \/ pc[t] \notin Starting
          PROVE  Exact(j)'
      <3>1. Links(j)' = Links(j) /\ Exact(j)
        BY <1>4, InodeByInode DEF SameLinks
      <3>2. \A L \in {Starting, {"l_count"}, Pending} : On(L, t, j)' <=> On(L, t, j)
        BY <1>2, <2>1, BusyLabels DEF On
      <3> QED BY <1>1, <3>1, <3>2, ExactKept
    <2>2. CASE pc[t] \in Starting
      <3>1. Links(i)' = 1
        BY <1>2, <1>3 DEF FreshLinks, SameLinks
      <3>2. EntriesOf(i)' = {}
        BY <1>1 DEF CreatorsAlone, EntriesOf
      <3>3. At({"l_count"}, i)' = {}
        BY <1>2, BusyLabels DEF CreatorsAlone, At
      <3>4. At(Pending, i)' = {t}
        BY <1>2, BusyLabels DEF CreatorsAlone, At
      <3>5. Cardinality(EntriesOf(i)') = 0 /\ Cardinality(At({"l_count"}, i)') = 0
        BY <3>2, <3>3, FS_EmptySet
      <3>6. Cardinality(At(Pending, i)') = 1
        BY <3>4, FS_Singleton
      <3>7. Exact(i)'
        BY <3>1, <3>5, <3>6 DEF Exact
      <3>8. \A j \in freeinode_ts' : Exact(j)'
        BY <2>1, <3>7
      <3> QED BY <3>8, InodeByInode
    <2>3. CASE pc[t] \notin Starting
      BY <2>1, <2>3, InodeByInode
    <2> QED BY <2>2, <2>3
  <1>10. EntriesTaken'
    BY <1>1 DEF EntriesTaken
  <1>11. NoOrphanInode'
    <2>1. \A j : \A u \in Threads : On(Deleters, u, j) => On(Deleters, u, j)'
      BY <1>2, BusyLabels DEF On
    <2>2. \A j \in freeinode_ts' : Kept(j)'
      BY <1>4, <2>1, InodeByInode DEF Kept, SameLinks, SameOpen
    <2> QED BY <2>2, InodeByInode
  <1> QED BY <1>5, <1>6, <1>7, <1>8, <1>9, <1>10, <1>11

\* An entry is added: for a new inode, which is then like any other, or by tfs_link, which
\* has still to count it.
LEMMA AddKeepsLinks ==
    ASSUME LinksInv, NEW t \in Threads, Only(t), SameLinks, SameOpen, UNCHANGED freeinode_ts,
           TablesOK, LocalsSet, NEW i, loc[t].inum = i, EntryAdded(i),
           \/ pc[t] \in {"o_entry", "s_entry"} /\ pc'[t] \notin Busy
           \/ pc[t] = "l_entry" /\ pc'[t] = "l_count" /\ loc'[t].inum = i
    PROVE  LinksInv'
  <1> USE DEF LinksInv, Only
  <1>1. \A e \in Live' : dir'[e].d_inumber = i \/ (e \in Live /\ dir'[e] = dir[e])
    BY DEF EntryAdded
  <1>2. /\ pc[t] \in Busy /\ pc[t] \notin Deleters /\ pc'[t] \notin Deleters /\ pc'[t] \notin Creators
        /\ pc'[t] \in Linkers => pc'[t] = "l_count" /\ pc[t] \in Linkers
        /\ pc'[t] \in Busy => loc'[t].inum = i
        /\ ~On(Starting, t, i) /\ ~On(Starting, t, i)'
        /\ \A j : j # i => \A L \in {Starting, {"l_count"}, Pending} : ~On(L, t, j) /\ ~On(L, t, j)'
    BY DEF Pending, Starting, Creators, Linkers, Deleters, Busy, On
  <1>3. \A u \in Threads : pc[u] \in Busy => loc[u].inum \in Inums
    BY BusyInum
  <1>4. \A j \in freeinode_ts : j \in Inums
    BY DEF TablesOK
  <1>5. i \in freeinode_ts
    BY DEF CreatorsAlone, LinkersBusy, Creators, Linkers
  <1>6. CreatorsAlone'
    <2>1. ASSUME NEW u \in Threads, pc'[u] \in Creators
          PROVE  /\ u # t /\ loc'[u].inum \in freeinode_ts'
                 /\ \A e \in Live' : dir'[e].d_inumber # loc'[u].inum
                 /\ \A v \in Threads : u # v /\ pc'[v] \in Busy => loc'[v].inum # loc'[u].inum
      <3>1. u # t /\ pc[u] \in Creators /\ loc'[u] = loc[u]
        BY <1>2, <2>1
      <3>2. i # loc[u].inum
        BY <1>2, <3>1 DEF CreatorsAlone
      <3>3. \A e \in Live' : dir'[e].d_inumber # loc[u].inum
        BY <1>1, <3>1, <3>2 DEF CreatorsAlone
      <3>4. \A v \in Threads : u # v /\ pc'[v] \in Busy => loc'[v].inum # loc[u].inum
        BY <1>2, <3>1, <3>2 DEF CreatorsAlone
      <3> QED BY <3>1, <3>3, <3>4 DEF CreatorsAlone
    <2> QED BY <2>1 DEF CreatorsAlone
  <1>7. FreshLinks'
    BY <1>2, <1>3, BusyLabels DEF FreshLinks, SameLinks
  <1>8. LinkersBusy'
    BY <1>2, <1>3, BusyLabels DEF LinkersBusy, SameLinks
  <1>9. DeletersAlone'
    BY <1>2, <1>3, BusyLabels DEF DeletersAlone, SameLinks, SameOpen
  <1>10. LinkCountExact'
    <2>1. ASSUME NEW j \in freeinode_ts, j # i
          PROVE  Exact(j)'
      <3>1. Links(j)' = Links(j) /\ Exact(j)
        BY <1>4, InodeByInode DEF SameLinks
      <3>2. EntriesOf(j)' = EntriesOf(j)
        BY <2>1, EntriesStep
      <3> QED BY <1>2, <2>1, <3>1, <3>2, ExactKept
    <2>2. Exact(i)'
      <3>1. Exact(i) /\ Links(i)' = Links(i) /\ Links(i) \in Int
        BY <1>4, <1>5, InodeByInode DEF SameLinks, Links, TablesOK, InodeOrLess
      <3>2. At(Starting, i)' = At(Starting, i)
        BY <1>2, AtStep
      <3>3. Cardinality(EntriesOf(i)') = Cardinality(EntriesOf(i)) + 1
        BY EntriesStep
      <3>4. CASE pc[t] \in {"o_entry", "s_entry"} /\ pc'[t] \notin Busy
        <4>1. /\ On(Pending, t, i) /\ ~On(Pending, t, i)'
              /\ ~On({"l_count"}, t, i) /\ ~On({"l_count"}, t, i)'
          BY <3>4 DEF On, Pending, Busy, Creators, Linkers
        <4>2. /\ Cardinality(At(Pending, i)') = Cardinality(At(Pending, i)) - 1
              /\ At({"l_count"}, i)' = At({"l_count"}, i)
          BY <4>1, AtStep
        <4> QED BY <3>1, <3>2, <3>3, <4>2, Counts DEF Exact
      <3>5. CASE pc[t] = "l_entry" /\ pc'[t] = "l_count" /\ loc'[t].inum = i
        <4>1. /\ ~On(Pending, t, i) /\ ~On(Pending, t, i)'
              /\ ~On({"l_count"}, t, i) /\ On({"l_count"}, t, i)'
          BY <3>5 DEF On, Pending
        <4>2. /\ Cardinality(At({"l_count"}, i)') = Cardinality(At({"l_count"}, i)) + 1
              /\ At(Pending, i)' = At(Pending, i)
          BY <4>1, AtStep
        <4> QED BY <3>1, <3>2, <3>3, <4>2, Counts DEF Exact
      <3> QED BY <3>4, <3>5
    <2>3. \A j \in freeinode_ts' : Exact(j)'
      BY <2>1, <2>2
    <2> QED BY <2>3, InodeByInode
  <1>11. EntriesTaken'
    BY <1>1, <1>5 DEF EntriesTaken
  <1>12. NoOrphanInode'
    <2>1. \A j : \A u \in Threads : On(Deleters, u, j) => On(Deleters, u, j)'
      BY <1>2, BusyLabels DEF On
    <2>2. \A j \in freeinode_ts' : Kept(j)'
      BY <1>4, <2>1, InodeByInode DEF Kept, SameLinks, SameOpen
    <2> QED BY <2>2, InodeByInode
  <1> QED BY <1>6, <1>7, <1>8, <1>9, <1>10, <1>11, <1>12

\* inode_delete: nobody else works on the inode, and no entry leads to it.
LEMMA DeleteKeeps ==
    ASSUME LinksInv, NEW t \in Threads, Only(t), SameOpen, UNCHANGED dir, TablesOK, LocalsSet,
           NEW i, loc[t].inum = i, NewLinks(i, 1), freeinode_ts' = freeinode_ts \ {i},
           pc[t] \in {"o_undo", "s_undo"} \cup Deleters, pc'[t] \notin Busy,
           pc[t] \in Deleters => \A u \in Threads \ {t} : pc[u] \notin Deleters
    PROVE  LinksInv'
  <1> USE DEF LinksInv, Only
  <1>1. Live' = Live /\ \A j : EntriesOf(j)' = EntriesOf(j)
    BY EntriesStep
  <1>2. pc[t] \in Busy /\ pc[t] \in Creators \cup Deleters
    BY BusyLabels DEF Creators
  <1>3. i \in Inums /\ \A u \in Threads : pc[u] \in Busy => loc[u].inum \in Inums
    BY <1>2, BusyInum
  <1>4. \A j \in freeinode_ts : j \in Inums
    BY DEF TablesOK
  <1>5. ASSUME NEW u \in Threads \ {t}, pc[u] \in Busy
        PROVE  loc[u].inum # i
    <2>1. CASE pc[t] \in Creators \/ pc[u] \in Creators
      BY <1>2, <1>5, <2>1 DEF CreatorsAlone
    <2>2. CASE pc[t] \in Deleters /\ pc[u] \in Linkers
      BY <2>2 DEF DeletersAlone, LinkersBusy
    <2> QED BY <1>2, <1>5, <2>1, <2>2 DEF Busy
  <1>6. \A e \in Live : dir[e].d_inumber # i
    <2>1. CASE pc[t] \in Creators
      BY <2>1 DEF CreatorsAlone
    <2>2. CASE pc[t] \in Deleters
      <3>1. i \in freeinode_ts /\ Links(i) = 0
        BY <2>2 DEF DeletersAlone
      <3>2. At(Starting, i) = {} /\ At({"l_count"}, i) = {}
        BY <1>5, <2>2, BusyLabels DEF At
      <3>3. Cardinality(At({"l_count"}, i)) = 0
        BY <3>2, Counts
      <3>4. 0 = Cardinality(EntriesOf(i)) + Cardinality(At(Pending, i))
        BY <3>1, <3>2, <3>3, InodeByInode DEF Exact
      <3>5. EntriesOf(i) = {}
        BY <3>4, Counts
      <3> QED BY <3>5 DEF EntriesOf
    <2> QED BY <1>2, <2>1, <2>2
  <1>7. CreatorsAlone'
    BY <1>1, <1>5, BusyLabels DEF CreatorsAlone
  <1>8. FreshLinks'
    BY <1>3, <1>5, BusyLabels DEF FreshLinks, NewLinks
  <1>9. LinkersBusy'
    BY <1>3, <1>5, BusyLabels DEF LinkersBusy, NewLinks
  <1>10. DeletersAlone'
    BY <1>3, <1>5, BusyLabels DEF DeletersAlone, NewLinks, SameOpen
  <1>11. LinkCountExact'
    <2>1. ASSUME NEW j \in freeinode_ts'
          PROVE  Exact(j)'
      <3>1. Links(j)' = Links(j) /\ Exact(j) /\ j # i
        BY <1>4, InodeByInode DEF NewLinks
      <3>2. \A L \in {Starting, {"l_count"}, Pending} : ~On(L, t, j) /\ ~On(L, t, j)'
        BY <3>1, BusyLabels DEF On
      <3> QED BY <1>1, <3>1, <3>2, ExactKept
    <2> QED BY <2>1, InodeByInode
  <1>12. EntriesTaken'
    BY <1>1, <1>6 DEF EntriesTaken
  <1>13. NoOrphanInode'
    <2>1. \A j : j # i => \A u \in Threads : On(Deleters, u, j) => On(Deleters, u, j)'
      BY DEF On
    <2>2. \A j \in freeinode_ts' : Kept(j)'
      BY <1>4, <2>1, InodeByInode DEF Kept, NewLinks, SameOpen
    <2> QED BY <2>2, InodeByInode
  <1> QED BY <1>7, <1>8, <1>9, <1>10, <1>11, <1>12, <1>13

\* tfs_link and tfs_unlink find an entry while nobody is between clearing an entry and
\* counting it: the inode they find has links.
LEMMA LookupKeeps ==
    ASSUME LinksInv, NEW t \in Threads, Only(t), SameLinks, SameOpen,
           UNCHANGED <<freeinode_ts, dir>>, TablesOK, LocalsSet,
           \A u \in Threads : pc[u] # "u_count",
           NEW i, \E e \in Live : dir[e].d_inumber = i,
           pc[t] \notin Busy, pc'[t] \in {"l_entry", "u_clear"}, loc'[t].inum = i
    PROVE  LinksInv'
  <1> USE DEF LinksInv, Only
  <1>1. Live' = Live /\ \A j : EntriesOf(j)' = EntriesOf(j)
    BY EntriesStep
  <1>2. /\ pc'[t] \in Linkers /\ pc'[t] \notin Deleters /\ pc'[t] \notin Creators
        /\ pc'[t] \notin Starting /\ pc'[t] # "l_count" /\ pc'[t] \notin Pending
    BY DEF Linkers, Deleters, Creators, Starting, Pending
  <1>3. \A u \in Threads : pc[u] \in Busy => loc[u].inum \in Inums
    BY BusyInum
  <1>4. \A j \in freeinode_ts : j \in Inums
    BY DEF TablesOK
  <1>5. i \in freeinode_ts /\ \A u \in Threads : pc[u] \in Creators => loc[u].inum # i
    BY DEF EntriesTaken, CreatorsAlone
  <1>6. Links(i) >= 1
    <2>1. At(Starting, i) = {} /\ At(Pending, i) = {}
      BY <1>5, BusyLabels DEF At
    <2>2. Links(i) + Cardinality(At({"l_count"}, i)) = Cardinality(EntriesOf(i))
      BY <1>5, <2>1, InodeByInode, FS_EmptySet, Counts DEF Exact
    <2>3. EntriesOf(i) # {}
      BY DEF EntriesOf
    <2>4. CASE At({"l_count"}, i) = {}
      <3>1. Links(i) \in Int
        BY <1>4, <1>5 DEF Links, TablesOK, InodeOrLess
      <3> QED BY <2>2, <2>3, <2>4, <3>1, Counts, FS_EmptySet
    <2>5. CASE At({"l_count"}, i) # {}
      BY <2>5, BusyLabels DEF At, LinkersBusy
    <2> QED BY <2>4, <2>5
  <1>7. CreatorsAlone'
    BY <1>1, <1>2, <1>5, BusyLabels DEF CreatorsAlone
  <1>8. FreshLinks'
    BY <1>2, <1>3, BusyLabels DEF FreshLinks, SameLinks
  <1>9. LinkersBusy'
    BY <1>3, <1>4, <1>5, <1>6, BusyLabels DEF LinkersBusy, SameLinks
  <1>10. DeletersAlone'
    BY <1>2, <1>3, BusyLabels DEF DeletersAlone, SameLinks, SameOpen
  <1>11. LinkCountExact'
    <2>1. ASSUME NEW j \in freeinode_ts
          PROVE  Exact(j)'
      <3>1. Links(j)' = Links(j) /\ Exact(j)
        BY <1>4, InodeByInode DEF SameLinks
      <3>2. \A L \in {Starting, {"l_count"}, Pending} : ~On(L, t, j) /\ ~On(L, t, j)'
        BY <1>2, BusyLabels DEF On
      <3> QED BY <1>1, <3>1, <3>2, ExactKept
    <2> QED BY <2>1, InodeByInode
  <1>12. EntriesTaken'
    BY <1>1 DEF EntriesTaken
  <1>13. NoOrphanInode'
    <2>1. \A j : \A u \in Threads : On(Deleters, u, j) => On(Deleters, u, j)'
      BY BusyLabels DEF On
    <2>2. \A j \in freeinode_ts' : Kept(j)'
      BY <1>4, <2>1, InodeByInode DEF Kept, SameLinks, SameOpen
    <2> QED BY <2>2, InodeByInode
  <1> QED BY <1>7, <1>8, <1>9, <1>10, <1>11, <1>12, <1>13

\* An entry is cleared: by tfs_link, which takes a link to a symbolic link back, or by
\* tfs_unlink, which has still to count it.
LEMMA ClearKeeps ==
    ASSUME LinksInv, NEW t \in Threads, Only(t), SameLinks, SameOpen, UNCHANGED freeinode_ts,
           TablesOK, LocalsSet, NEW i, loc[t].inum = i, EntryCleared(i),
           \/ pc[t] = "l_count" /\ pc'[t] = "idle"
           \/ pc[t] = "u_clear" /\ pc'[t] = "u_count" /\ loc'[t].inum = i
    PROVE  LinksInv'
  <1> USE DEF LinksInv, Only
  <1>1. \A e \in Live' : e \in Live /\ dir'[e] = dir[e]
    BY DEF EntryCleared
  <1>2. /\ pc[t] \in Linkers /\ pc[t] \in Busy /\ pc'[t] \notin Deleters /\ pc'[t] \notin Creators
        /\ pc'[t] \in Busy => pc'[t] \in Linkers /\ loc'[t].inum = i
        /\ ~On(Starting, t, i) /\ ~On(Starting, t, i)'
        /\ \A j : j # i => \A L \in {Starting, {"l_count"}, Pending} : ~On(L, t, j) /\ ~On(L, t, j)'
    BY DEF Pending, Starting, Creators, Linkers, Deleters, Busy, On
  <1>3. \A u \in Threads : pc[u] \in Busy => loc[u].inum \in Inums
    BY BusyInum
  <1>4. \A j \in freeinode_ts : j \in Inums
    BY DEF TablesOK
  <1>5. i \in freeinode_ts
    BY <1>2 DEF LinkersBusy
  <1>6. CreatorsAlone'
    <2>1. \A u \in Threads : pc[u] \in Creators => loc[u].inum # i
      BY <1>2, BusyLabels DEF CreatorsAlone
    <2> QED BY <1>1, <1>2, <2>1, BusyLabels DEF CreatorsAlone
  <1>7. FreshLinks'
    BY <1>2, <1>3, BusyLabels DEF FreshLinks, SameLinks
  <1>8. LinkersBusy'
    BY <1>2, <1>3, BusyLabels DEF LinkersBusy, SameLinks
  <1>9. DeletersAlone'
    BY <1>2, <1>3, BusyLabels DEF DeletersAlone, SameLinks, SameOpen
  <1>10. LinkCountExact'
    <2>1. ASSUME NEW j \in freeinode_ts, j # i
          PROVE  Exact(j)'
      <3>1. Links(j)' = Links(j) /\ Exact(j)
        BY <1>4, InodeByInode DEF SameLinks
      <3>2. EntriesOf(j)' = EntriesOf(j)
        BY <2>1, EntriesStep
      <3> QED BY <1>2, <2>1, <3>1, <3>2, ExactKept
    <2>2. Exact(i)'
      <3>1. Exact(i) /\ Links(i)' = Links(i) /\ Links(i) \in Int
        BY <1>4, <1>5, InodeByInode DEF SameLinks, Links, TablesOK, InodeOrLess
      <3>2. At(Starting, i)' = At(Starting, i)
        BY <1>2, AtStep
      <3>3. Cardinality(EntriesOf(i)') = Cardinality(EntriesOf(i)) - 1
        BY EntriesStep
      <3>4. CASE pc[t] = "l_count" /\ pc'[t] = "idle"
        <4>1. /\ ~On(Pending, t, i) /\ ~On(Pending, t, i)'
              /\ On({"l_count"}, t, i) /\ ~On({"l_count"}, t, i)'
          BY <3>4 DEF On, Pending
        <4>2. /\ Cardinality(At({"l_count"}, i)') = Cardinality(At({"l_count"}, i)) - 1
              /\ At(Pending, i)' = At(Pending, i)
          BY <4>1, AtStep
        <4> QED BY <3>1, <3>2, <3>3, <4>2, Counts DEF Exact
      <3>5. CASE pc[t] = "u_clear" /\ pc'[t] = "u_count" /\ loc'[t].inum = i
        <4>1. /\ ~On(Pending, t, i) /\ On(Pending, t, i)'
              /\ ~On({"l_count"}, t, i) /\ ~On({"l_count"}, t, i)'
          BY <3>5 DEF On, Pending
        <4>2. /\ Cardinality(At(Pending, i)') = Cardinality(At(Pending, i)) + 1
              /\ At({"l_count"}, i)' = At({"l_count"}, i)
          BY <4>1, AtStep
        <4> QED BY <3>1, <3>2, <3>3, <4>2, Counts DEF Exact
      <3> QED BY <3>4, <3>5
    <2>3. \A j \in freeinode_ts' : Exact(j)'
      BY <2>1, <2>2
    <2> QED BY <2>3, InodeByInode
  <1>11. EntriesTaken'
    BY <1>1 DEF EntriesTaken
  <1>12. NoOrphanInode'
    <2>1. \A j : \A u \in Threads : On(Deleters, u, j) => On(Deleters, u, j)'
      BY <1>2, BusyLabels DEF On
    <2>2. \A j \in freeinode_ts' : Kept(j)'
      BY <1>4, <2>1, InodeByInode DEF Kept, SameLinks, SameOpen
    <2> QED BY <2>2, InodeByInode
  <1> QED BY <1>6, <1>7, <1>8, <1>9, <1>10, <1>11, <1>12

\* The counter moves: up, at the end of tfs_link, or down, in tfs_unlink, which is then alone
\* and goes on to delete the inode if it has no links and no handles left.
LEMMA CountKeeps ==
    ASSUME LinksInv, NEW t \in Threads, Only(t), SameOpen, UNCHANGED <<freeinode_ts, dir>>,
           TablesOK, LocalsSet, NEW i, loc[t].inum = i, NEW k, NewLinks(i, k),
           \/ pc[t] = "l_count" /\ pc'[t] = "idle" /\ k = Links(i) + 1
           \/ /\ pc[t] = "u_count" /\ k = Links(i) - 1
              /\ \A u \in Threads \ {t} : pc[u] \notin Linkers \cup Deleters
              /\ \/ pc'[t] = "u_delete" /\ loc'[t].inum = i /\ k = 0 /\ ~IsOpen(i)
                 \/ pc'[t] = "idle" /\ (k # 0 \/ IsOpen(i))
    PROVE  LinksInv'
  <1> USE DEF LinksInv, Only
  <1>1. Live' = Live /\ \A j : EntriesOf(j)' = EntriesOf(j)
    BY EntriesStep
  <1>2. /\ pc[t] \in Linkers /\ pc[t] \in Busy /\ pc'[t] \notin Linkers /\ pc'[t] \notin Creators
        /\ pc'[t] \in Busy => pc'[t] = "u_delete" /\ loc'[t].inum = i
        /\ pc'[t] \in Deleters => pc'[t] = "u_delete"
        /\ ~On(Starting, t, i) /\ ~On(Starting, t, i)'
        /\ \A j : j # i => \A L \in {Starting, {"l_count"}, Pending} : ~On(L, t, j) /\ ~On(L, t, j)'
    BY DEF Pending, Starting, Creators, Linkers, Deleters, Busy, On
  <1>3. \A u \in Threads : pc[u] \in Busy => loc[u].inum \in Inums
    BY BusyInum
  <1>4. \A j \in freeinode_ts : j \in Inums
    BY DEF TablesOK
  <1>5. i \in freeinode_ts /\ i \in Inums /\ Links(i) >= 1 /\ Links(i) \in Int
    BY <1>2, <1>4 DEF LinkersBusy, Links, TablesOK, InodeOrLess
  <1>6. \A u \in Threads : pc[u] \in Creators \cup Deleters => loc[u].inum # i
    BY <1>2, <1>5, BusyLabels DEF CreatorsAlone, DeletersAlone
  <1>7. Links(i)' = k /\ \A j \in Inums \ {i} : Links(j)' = Links(j)
    BY DEF NewLinks
  <1>8. CreatorsAlone'
    BY <1>1, <1>2, <1>6, BusyLabels DEF CreatorsAlone
  <1>9. FreshLinks'
    BY <1>2, <1>3, <1>5, <1>6, <1>7, BusyLabels DEF FreshLinks
  <1>10. LinkersBusy'
    <2>1. ASSUME NEW u \in Threads, pc'[u] \in Linkers
          PROVE  loc'[u].inum \in freeinode_ts /\ Links(loc[u].inum)' >= 1
      <3>1. u # t /\ pc[u] \in Linkers /\ loc'[u] = loc[u]
        BY <1>2, <2>1
      <3>2. k = Links(i) + 1
        BY <3>1
      <3>3. loc[u].inum \in freeinode_ts /\ Links(loc[u].inum) >= 1
        BY <3>1 DEF LinkersBusy
      <3>4. PICK j : j = loc[u].inum
        OBVIOUS
      <3>5. Links(j)' >= 1
        BY <1>4, <1>5, <1>7, <3>2, <3>3, <3>4
      <3> QED BY <3>1, <3>3, <3>4, <3>5 DEF Links
    <2> QED BY <2>1 DEF LinkersBusy
  <1>11. DeletersAlone'
    <2>1. ASSUME NEW u \in Threads, pc'[u] \in Deleters
          PROVE  loc'[u].inum \in freeinode_ts /\ Links(loc[u].inum)' = 0 /\ ~IsOpen(loc[u].inum)'
      <3>1. CASE u = t
        <4>1. loc'[u].inum = i /\ k = 0 /\ ~IsOpen(i)
          BY <1>2, <2>1, <3>1
        <4>2. ~IsOpen(i)' /\ Links(i)' = 0
          BY <1>5, <1>7, <4>1 DEF SameOpen
        <4> QED BY <1>5, <4>1, <4>2 DEF Links, IsOpen
      <3>2. CASE u # t
        <4>1. pc[u] \in Deleters /\ loc'[u] = loc[u] /\ loc[u].inum # i
          BY <1>6, <2>1, <3>2
        <4>2. PICK j : j = loc[u].inum
          OBVIOUS
        <4>3. j \in freeinode_ts /\ Links(j) = 0 /\ ~IsOpen(j)
          BY <4>1, <4>2 DEF DeletersAlone
        <4>4. Links(j)' = 0 /\ ~IsOpen(j)'
          BY <1>4, <1>7, <4>1, <4>2, <4>3 DEF SameOpen
        <4> QED BY <4>1, <4>2, <4>3, <4>4 DEF Links, IsOpen
      <3> QED BY <3>1, <3>2
    <2> QED BY <2>1 DEF DeletersAlone
  <1>12. LinkCountExact'
    <2>1. ASSUME NEW j \in freeinode_ts, j # i
          PROVE  Exact(j)'
      <3>1. Links(j)' = Links(j) /\ Exact(j)
        BY <1>4, <1>7, <2>1, InodeByInode
      <3> QED BY <1>1, <1>2, <2>1, <3>1, ExactKept
    <2>2. Exact(i)'
      <3>1. Exact(i)
        BY <1>5, InodeByInode
      <3>2. At(Starting, i)' = At(Starting, i)
        BY <1>2, AtStep
      <3>3. CASE pc[t] = "l_count" /\ pc'[t] = "idle" /\ k = Links(i) + 1
        <4>1. /\ ~On(Pending, t, i) /\ ~On(Pending, t, i)'
              /\ On({"l_count"}, t, i) /\ ~On({"l_count"}, t, i)'
          BY <3>3 DEF On, Pending
        <4>2. /\ Cardinality(At({"l_count"}, i)') = Cardinality(At({"l_count"}, i)) - 1
              /\ At(Pending, i)' = At(Pending, i)
          BY <4>1, AtStep
        <4> QED BY <1>1, <1>5, <1>7, <3>1, <3>2, <3>3, <4>2, Counts DEF Exact
      <3>4. CASE pc[t] = "u_count" /\ k = Links(i) - 1
        <4>1. /\ On(Pending, t, i) /\ ~On(Pending, t, i)'
              /\ ~On({"l_count"}, t, i) /\ ~On({"l_count"}, t, i)'
          BY <3>4 DEF On, Pending
        <4>2. /\ Cardinality(At(Pending, i)') = Cardinality(At(Pending, i)) - 1
              /\ At({"l_count"}, i)' = At({"l_count"}, i)
          BY <4>1, AtStep
        <4> QED BY <1>1, <1>5, <1>7, <3>1, <3>2, <3>4, <4>2, Counts DEF Exact
      <3> QED BY <3>3, <3>4
    <2>3. \A j \in freeinode_ts' : Exact(j)'
      BY <2>1, <2>2
    <2> QED BY <2>3, InodeByInode
  <1>13. EntriesTaken'
    BY <1>1 DEF EntriesTaken
  <1>14. NoOrphanInode'
    <2>1. \A j : \A u \in Threads : On(Deleters, u, j) => On(Deleters, u, j)'
      BY <1>2, BusyLabels DEF On
    <2>2. Kept(i)'
      <3>1. CASE pc'[t] = "u_delete" /\ loc'[t].inum = i
        <4>1. On(Deleters, t, i)'
          BY <3>1 DEF On, Deleters
        <4> QED BY <4>1 DEF Kept
      <3>2. CASE k # 0 \/ IsOpen(i)
        BY <1>5, <1>7, <3>2 DEF Kept, SameOpen
      <3>3. k = Links(i) + 1 => k # 0
        BY <1>5
      <3> QED BY <3>1, <3>2, <3>3
    <2>3. \A j \in freeinode_ts' : Kept(j)'
      BY <1>4, <1>7, <2>1, <2>2, InodeByInode DEF Kept, SameOpen
    <2> QED BY <2>3, InodeByInode
  <1> QED BY <1>8, <1>9, <1>10, <1>11, <1>12, <1>13, <1>14

-----------------------------------------------------------------------------
(* Every step is one of these kinds                                        *)

\* A step that writes one inode.
LEMMA LinksUpdate ==
    ASSUME TablesOK, NEW i \in Inums, NEW r, inode_table' = [inode_table EXCEPT ![i] = r]
    PROVE  /\ NewLinks(i, r.i_hard_links)
           /\ r.i_hard_links = Links(i) => SameLinks
  BY DEF TablesOK, NewLinks, SameLinks, Links

\* Reading and writing move the offset of a handle, and leave the file it refers to.
LEMMA OffsetKeepsOpen ==
    ASSUME FilesOK, NEW h \in Handles, NEW o \in 0 .. BlockSize,
           open_file_table' = [open_file_table EXCEPT ![h].of_offset = o],
           UNCHANGED free_open_file_entries
    PROVE  SameOpen
  <1>1. \A k \in Handles : open_file_table'[k].of_inumber = open_file_table[k].of_inumber
    BY DEF FilesOK, OpenFileEntry
  <1> QED BY <1>1 DEF FilesOK, SameOpen, IsOpen, is_file_open

\* Steps that leave the tables and the files as they are.
LEMMA NothingChanges ==
    /\ UNCHANGED tables => SameLinks /\ UNCHANGED <<freeinode_ts, dir>>
    /\ UNCHANGED files => SameOpen
    /\ UNCHANGED inode_table => SameLinks
  BY DEF tables, files, SameLinks, Links, SameOpen, IsOpen, is_file_open

\* The steps of tfs_open, tfs_write, tfs_read and tfs_copy_from_external_fs that do not
\* create, delete or close anything, and the beginning of every call.
LEMMA QuietSteps ==
    ASSUME TypeInv, LinksInv, NEW t \in Threads, Acts(t), Only(t),
           \/ Begins(t) \/ OpenLookup(t) \/ OpenFile(t) \/ OpenSymLink(t) \/ OpenCheck(t)
           \/ tfs_write(t) \/ tfs_read(t) \/ CopyWrite(t)
    PROVE  LinksInv'
  <1> USE DEF TypeInv
  <1> DEFINE Calm == /\ SameLinks /\ SameOpen /\ UNCHANGED <<freeinode_ts, dir>>
                     /\ UNCHANGED <<pc, loc>> \/ (pc[t] \notin Busy /\ pc'[t] \notin Busy)
  <1>1. pc \in [Threads -> Labels]
    BY DEF ControlOK
  <1>2. CASE Begins(t)
    <2>1. /\ UNCHANGED <<tables, files>> /\ pc[t] = "idle"
          /\ \E l \in FirstLabels : pc' = [pc EXCEPT ![t] = l]
      BY <1>2, BeginsEffect, Zenon
    <2>2. pc[t] \notin Busy /\ pc'[t] \notin Busy
      BY <1>1, <2>1 DEF FirstLabels, Busy, Creators, Linkers, Deleters
    <2>3. Calm
      BY <2>1, <2>2, NothingChanges
    <2> QED BY <2>3, QuietKeeps DEF SameOpen
  <1>3. CASE OpenLookup(t) \/ OpenSymLink(t) \/ OpenCheck(t)
    <2>1. UNCHANGED <<tables, files>>
      BY <1>3, Zenon DEF OpenLookup, OpenSymLink, OpenCheck, Panic
    <2>2. \/ UNCHANGED <<pc, loc>>
          \/ /\ pc[t] \in {"o_lookup", "o_inode", "o_check"}
             /\ \/ pc' = [pc EXCEPT ![t] = "o_inode"] \/ pc' = [pc EXCEPT ![t] = "o_alloc"]
                \/ pc' = [pc EXCEPT ![t] = "idle"] \/ pc' = [pc EXCEPT ![t] = "o_lookup"]
                \/ pc' = [pc EXCEPT ![t] = "o_table"]
      BY <1>3, Zenon DEF OpenLookup, OpenSymLink, OpenCheck, Panic, Return, Goto
    <2>3. UNCHANGED <<pc, loc>> \/ (pc[t] \notin Busy /\ pc'[t] \notin Busy)
      BY <1>1, <2>2 DEF Busy, Creators, Linkers, Deleters
    <2>4. Calm
      BY <2>1, <2>3, NothingChanges
    <2> QED BY <2>4, QuietKeeps DEF SameOpen
  <1>4. CASE OpenFile(t)
    <2> DEFINE i == loc[t].inum
               size == IF "TRUNC" \in loc[t].mode THEN 0 ELSE inode_table[i].i_size
               r == [inode_table[i] EXCEPT !.i_size = size]
    <2>1. /\ pc[t] = "o_inode" /\ pc' = [pc EXCEPT ![t] = "o_check"]
          /\ UNCHANGED <<freeinode_ts, dir, files>>
          /\ inode_table' = [inode_table EXCEPT ![i] = r]
      BY <1>4, Zenon DEF OpenFile, Goto
    <2>2. i \in Inums /\ inode_table[i] \in InodeOrLess
      BY <2>1 DEF LocalsSet, SetAt, WithInum, TablesOK
    <2> HIDE DEF size
    <2>3. r.i_hard_links = inode_table[i].i_hard_links
      BY <2>2, Zenon DEF InodeOrLess
    <2> HIDE DEF r
    <2>4. SameLinks
      BY <2>1, <2>2, <2>3, LinksUpdate DEF Links
    <2>5. pc[t] \notin Busy /\ pc'[t] \notin Busy
      BY <1>1, <2>1 DEF Busy, Creators, Linkers, Deleters
    <2>6. Calm
      BY <2>1, <2>4, <2>5, NothingChanges
    <2> QED BY <2>6, QuietKeeps DEF SameOpen
  <1>5. CASE tfs_write(t) \/ CopyWrite(t)
    <2>1. UNCHANGED <<freeinode_ts, dir, free_open_file_entries>>
      BY <1>5, Zenon DEF tfs_write, CopyWrite
    <2>2. PICK n \in Nat : write_to_open_file(loc[t].fhandle, n) /\ loc[t].fhandle \in Handles
      BY <1>5, WritesAt
    <2> DEFINE k == open_file_table[loc[t].fhandle].of_inumber
    <2>3. k \in Inums
      BY <2>2 DEF FilesOK, OpenFileEntry
    <2>4. /\ \/ UNCHANGED inode_table
             \/ \E r \in InodeOrLess : /\ r.i_hard_links = Links(k)
                                       /\ inode_table' = [inode_table EXCEPT ![k] = r]
          /\ \E o \in 0 .. BlockSize :
                open_file_table' = [open_file_table EXCEPT ![loc[t].fhandle].of_offset = o]
      BY <2>2, WriteEffect DEF Links
    <2> HIDE DEF k
    <2>5. SameLinks
      BY <2>3, <2>4, LinksUpdate, NothingChanges
    <2>6. SameOpen
      BY <2>1, <2>2, <2>4, OffsetKeepsOpen
    <2>7. /\ pc[t] \in {"w_entry", "x_write"}
          /\ \/ pc' = [pc EXCEPT ![t] = "idle"] \/ pc' = [pc EXCEPT ![t] = "x_write"]
             \/ pc' = [pc EXCEPT ![t] = "x_close"]
      BY <1>5, Zenon DEF tfs_write, CopyWrite, Return, Goto
    <2>8. pc[t] \notin Busy /\ pc'[t] \notin Busy
      BY <1>1, <2>7 DEF Busy, Creators, Linkers, Deleters
    <2> QED BY <2>1, <2>5, <2>6, <2>8, QuietKeeps DEF SameOpen
  <1>6. CASE tfs_read(t)
    <2>1. /\ pc[t] = "r_entry" /\ pc' = [pc EXCEPT ![t] = "idle"]
          /\ UNCHANGED <<tables, free_open_file_entries>>
          /\ read_from_open_file(loc[t].fhandle, loc[t].len)
      BY <1>6 DEF tfs_read, Return, Goto
    <2>2. loc[t].fhandle \in Handles /\ loc[t].len \in Nat
      BY <2>1, HandleInUse DEF WithHandle
    <2>3. SameOpen
      BY <2>1, <2>2, ReadEffect, OffsetKeepsOpen
    <2>4. pc[t] \notin Busy /\ pc'[t] \notin Busy
      BY <1>1, <2>1 DEF Busy, Creators, Linkers, Deleters
    <2>5. Calm
      BY <2>1, <2>3, <2>4, NothingChanges
    <2> QED BY <2>5, QuietKeeps DEF SameOpen
  <1> QED BY <1>2, <1>3, <1>4, <1>5, <1>6

\* Who holds free_open_file_entries_mutex, and who holds link_lock.
LEMMA WhoHolds ==
    ASSUME LocksHeld
    PROVE  /\ foe_mutex = NULL => \A u \in Threads : pc[u] \notin Deleters
           /\ link_wr = NULL => \A u \in Threads : pc[u] # "u_count"
           /\ \A t, u \in Threads : pc[t] \in Deleters /\ pc[u] \in Deleters => t = u
           /\ \A t, u \in Threads : pc[t] = "u_count" /\ pc[u] \in Linkers => t = u
  BY CallsAssumption DEF LocksHeld, Deleters, Writers, Readers, Linkers

\* add_to_open_file_table and remove_from_open_file_table.
LEMMA HandleSteps ==
    ASSUME TypeInv, LocksHeld, LinksInv, NEW t \in Threads, Acts(t), Only(t),
           OpenTable(t) \/ tfs_close(t) \/ CopyClose(t)
    PROVE  LinksInv'
  <1> USE DEF TypeInv
  <1>1. pc \in [Threads -> Labels] /\ loc \in [Threads -> Locals]
    BY DEF ControlOK
  <1>2. CASE OpenTable(t)
    <2> DEFINE h == Min(FreeHandles)
               r == [of_inumber |-> loc[t].inum, of_offset |-> loc[t].offset]
    <2>1. /\ pc[t] = "o_table" /\ foe_mutex = NULL /\ UNCHANGED tables
          /\ \/ UNCHANGED files
             \/ /\ FreeHandles # {}
                /\ free_open_file_entries' = free_open_file_entries \cup {h}
                /\ open_file_table' = [open_file_table EXCEPT ![h] = r]
          /\ pc' = [pc EXCEPT ![t] = "idle"] \/ pc' = [pc EXCEPT ![t] = "x_write"]
      BY <1>2, Zenon DEF OpenTable, Return, Goto
    <2>2. pc[t] \notin Busy /\ pc'[t] \notin Busy
      BY <1>1, <2>1 DEF Busy, Creators, Linkers, Deleters
    <2>3. \A i \in Inums : IsOpen(i) => IsOpen(i)'
      <3>1. CASE UNCHANGED files
        BY <3>1, NothingChanges DEF SameOpen
      <3>2. CASE ~UNCHANGED files
        <4>1. h \notin free_open_file_entries
          BY <2>1, <3>2, FirstFreeHandle
        <4> HIDE DEF h, r
        <4> QED BY <2>1, <3>2, <4>1 DEF IsOpen, is_file_open, FilesOK
      <3> QED BY <3>1, <3>2
    <2>4. SameLinks /\ UNCHANGED <<freeinode_ts, dir>>
      BY <2>1, NothingChanges
    <2> QED BY <2>1, <2>2, <2>3, <2>4, WhoHolds, QuietKeeps
  <1>3. ASSUME NEW h \in Handles, NEW from \in {"idle", "x_write", "x_close"},
               remove_from_open_file_table(t, from, h)
        PROVE  LinksInv'
    <2>1. PICK i : i = open_file_table[h].of_inumber
      OBVIOUS
    <2>2. i \in Inums
      BY <2>1 DEF FilesOK, OpenFileEntry
    <2>3. pc[t] \notin Busy
      BY <1>3 DEF remove_from_open_file_table, Busy, Creators, Linkers, Deleters
    <2>4. foe_mutex = NULL /\ UNCHANGED <<tables, open_file_table>>
      BY <1>3, RemoveEffect, Zenon
    <2>5. SameLinks /\ UNCHANGED <<freeinode_ts, dir>>
      BY <2>4, NothingChanges
    <2>6. CASE i \notin freeinode_ts
      <3>1. UNCHANGED <<free_open_file_entries, pc, loc>>
        BY <1>3, <2>1, <2>6, RemoveEffect, Zenon
      <3>2. SameOpen
        BY <2>4, <3>1 DEF SameOpen, IsOpen, is_file_open
      <3> QED BY <2>5, <3>1, <3>2, QuietKeeps DEF SameOpen
    <2>7. CASE i \in freeinode_ts
      <3>1. /\ free_open_file_entries' = free_open_file_entries \ {h}
            /\ \/ /\ LastUse(i, inode_table[i].i_hard_links, free_open_file_entries \ {h})
                  /\ pc' = [pc EXCEPT ![t] = "c_delete"]
                  /\ \E r \in Locals : r.inum = i /\ loc' = [loc EXCEPT ![t] = r]
               \/ /\ ~LastUse(i, inode_table[i].i_hard_links, free_open_file_entries \ {h})
                  /\ Return(t, from)
        BY <1>3, <2>1, <2>7, RemoveEffect, Zenon
      <3>2. \A j \in Inums \ {i} : IsOpen(j)' <=> IsOpen(j)
        BY <2>1, <2>4, <3>1 DEF IsOpen, is_file_open
      <3>3. LastUse(i, inode_table[i].i_hard_links, free_open_file_entries \ {h})
               <=> Links(i) = 0 /\ ~IsOpen(i)'
        BY <2>4, <3>1 DEF LastUse, Links, IsOpen, is_file_open
      <3>4. \/ pc'[t] = "c_delete" /\ loc'[t].inum = i /\ Links(i) = 0 /\ ~IsOpen(i)'
            \/ pc'[t] = "idle" /\ (Links(i) # 0 \/ IsOpen(i)')
        <4>1. CASE LastUse(i, inode_table[i].i_hard_links, free_open_file_entries \ {h})
          BY <1>1, <3>1, <3>3, <4>1
        <4>2. CASE ~LastUse(i, inode_table[i].i_hard_links, free_open_file_entries \ {h})
          BY <1>1, <3>1, <3>3, <4>2 DEF Return, Goto
        <4> QED BY <4>1, <4>2
      <3> QED BY <2>3, <2>4, <2>5, <2>7, <3>2, <3>4, WhoHolds, CloseKeeps
    <2> QED BY <2>6, <2>7
  <1>4. CASE tfs_close(t)
    <2>1. PICK h \in held[t] : remove_from_open_file_table(t, "idle", h)
      BY <1>4 DEF tfs_close
    <2>2. h \in Handles
      BY DEF FilesOK
    <2> QED BY <1>3, <2>1, <2>2
  <1>5. CASE CopyClose(t)
    <2>1. PICK from \in {"x_write", "x_close"} :
             remove_from_open_file_table(t, from, loc[t].fhandle)
      BY <1>5 DEF CopyClose
    <2>2. loc[t].fhandle \in Handles
      BY <2>1 DEF remove_from_open_file_table, LocalsSet, SetAt, WithHandle
    <2> QED BY <1>3, <2>1, <2>2
  <1> QED BY <1>2, <1>4, <1>5

\* The steps of tfs_open and tfs_sym_link that make a new inode.
LEMMA CreateSteps ==
    ASSUME TypeInv, LinksInv, NEW t \in Threads, Acts(t), Only(t),
           \/ OpenAlloc(t) \/ OpenInit(t) \/ OpenEntry(t)
           \/ SymLinkAlloc(t) \/ SymLinkInit(t) \/ SymLinkBlock(t) \/ SymLinkEntry(t)
    PROVE  LinksInv'
  <1> USE DEF TypeInv
  <1>1. pc \in [Threads -> Labels] /\ loc \in [Threads -> Locals]
    BY DEF ControlOK
  <1>2. SameOpen
    <2>1. UNCHANGED files
      BY Zenon DEF OpenAlloc, OpenInit, OpenEntry, SymLinkAlloc, SymLinkInit, SymLinkBlock,
                   SymLinkEntry
    <2> QED BY <2>1, NothingChanges
  <1>3. PICK i : i = loc[t].inum
    OBVIOUS
  <1>4. pc[t] \in Busy => i \in Inums /\ inode_table[i] \in InodeOrLess
    BY <1>3, BusyInum DEF TablesOK
  <1>5. CASE OpenAlloc(t) \/ SymLinkAlloc(t)
    <2>1. PICK m : m = Min(FreeInums)
      OBVIOUS
    <2>2. /\ pc[t] \in {"o_alloc", "s_alloc"} /\ UNCHANGED <<inode_table, dir>>
          /\ \/ UNCHANGED freeinode_ts /\ pc' = [pc EXCEPT ![t] = "idle"]
             \/ /\ FreeInums # {} /\ freeinode_ts' = freeinode_ts \cup {m}
                /\ pc' = [pc EXCEPT ![t] = "o_init"] \/ pc' = [pc EXCEPT ![t] = "s_init"]
                /\ loc' = [loc EXCEPT ![t].inum = m]
      BY <1>5, <2>1 DEF OpenAlloc, SymLinkAlloc, Return, Goto
    <2>3. SameLinks
      BY <2>2, NothingChanges
    <2>4. pc[t] \notin Busy
      BY <2>2 DEF Busy, Creators, Linkers, Deleters
    <2>5. CASE UNCHANGED freeinode_ts /\ pc' = [pc EXCEPT ![t] = "idle"]
      <3>1. pc'[t] \notin Busy
        BY <1>1, <2>5 DEF Busy, Creators, Linkers, Deleters
      <3> QED BY <1>2, <2>2, <2>3, <2>4, <2>5, <3>1, QuietKeeps DEF SameOpen
    <2>6. CASE /\ FreeInums # {} /\ freeinode_ts' = freeinode_ts \cup {m}
               /\ pc' = [pc EXCEPT ![t] = "o_init"] \/ pc' = [pc EXCEPT ![t] = "s_init"]
               /\ loc' = [loc EXCEPT ![t].inum = m]
      <3>1. m \in Inums /\ m \notin freeinode_ts
        BY <2>1, <2>6, FirstFreeInode
      <3>2. pc'[t] \in Starting
        BY <1>1, <2>6 DEF Starting
      <3>3. loc'[t].inum = m
        BY <1>1, <2>6, Zenon DEF Locals
      <3> QED BY <1>2, <2>2, <2>3, <2>4, <2>6, <3>1, <3>2, <3>3, AllocKeeps
    <2> QED BY <2>2, <2>5, <2>6
  <1>6. CASE OpenInit(t) \/ SymLinkInit(t)
    <2>1. /\ pc[t] \in {"o_init", "s_init"} /\ UNCHANGED <<freeinode_ts, dir, loc>>
          /\ pc' = [pc EXCEPT ![t] = "o_entry"] \/ pc' = [pc EXCEPT ![t] = "s_block"]
          /\ \E type : inode_table' = [inode_table EXCEPT ![i] = NewInode(type)]
      BY <1>3, <1>6 DEF OpenInit, SymLinkInit, Goto
    <2>2. pc[t] \in Creators /\ pc'[t] \in Creators \ Starting
      BY <1>1, <2>1 DEF Creators, Starting
    <2>3. Links(i) = 1 /\ i \in Inums
      BY <1>3, <1>4, <2>2, BusyLabels DEF LinksInv, FreshLinks
    <2>4. \A type : NewInode(type).i_hard_links = 1
      BY DEF NewInode
    <2>5. PICK r : inode_table' = [inode_table EXCEPT ![i] = r] /\ r.i_hard_links = 1
      BY <2>1, <2>4
    <2>6. SameLinks
      BY <2>3, <2>5, LinksUpdate
    <2> QED BY <1>2, <1>3, <2>1, <2>2, <2>6, CreatorKeeps
  <1>7. CASE SymLinkBlock(t)
    <2> DEFINE b == Min(FreeBlocks)
               r == [inode_table[i] EXCEPT !.i_data_block = b]
    <2>1. /\ pc[t] = "s_block" /\ UNCHANGED <<freeinode_ts, dir, loc>>
          /\ pc' = [pc EXCEPT ![t] = "s_undo"] \/ pc' = [pc EXCEPT ![t] = "s_entry"]
          /\ UNCHANGED inode_table \/ inode_table' = [inode_table EXCEPT ![i] = r]
      BY <1>3, <1>7, Zenon DEF SymLinkBlock, Goto
    <2>2. pc[t] \in Creators /\ pc'[t] \in Creators \ Starting
      BY <1>1, <2>1 DEF Creators, Starting
    <2>3. i \in Inums /\ inode_table[i] \in InodeOrLess
      BY <1>4, <2>2, BusyLabels
    <2> HIDE DEF b
    <2>4. r.i_hard_links = inode_table[i].i_hard_links
      BY <2>3, Zenon DEF InodeOrLess
    <2> HIDE DEF r
    <2>5. SameLinks
      BY <2>1, <2>3, <2>4, LinksUpdate, NothingChanges DEF Links
    <2> QED BY <1>2, <1>3, <2>1, <2>2, <2>5, CreatorKeeps
  <1>8. CASE OpenEntry(t) \/ SymLinkEntry(t)
    <2>1. /\ pc[t] \in {"o_entry", "s_entry"} /\ UNCHANGED <<inode_table, freeinode_ts>>
          /\ \/ /\ \E n : CanAdd(n) /\ dir' = add_dir_entry(n, i)
                /\ pc' = [pc EXCEPT ![t] = "o_check"] \/ pc' = [pc EXCEPT ![t] = "idle"]
             \/ /\ UNCHANGED <<dir, loc>>
                /\ pc' = [pc EXCEPT ![t] = "o_undo"] \/ pc' = [pc EXCEPT ![t] = "s_undo"]
      BY <1>3, <1>8 DEF OpenEntry, SymLinkEntry, Goto, Return
    <2>2. pc[t] \in Creators /\ i \in Inums
      BY <1>4, <2>1, BusyLabels DEF Creators
    <2>3. SameLinks
      BY <2>1, NothingChanges
    <2>4. CASE /\ \E n : CanAdd(n) /\ dir' = add_dir_entry(n, i)
               /\ pc' = [pc EXCEPT ![t] = "o_check"] \/ pc' = [pc EXCEPT ![t] = "idle"]
      <3>1. pc'[t] \notin Busy
        BY <1>1, <2>4 DEF Busy, Creators, Linkers, Deleters
      <3>2. EntryAdded(i)
        BY <2>2, <2>4, Adds
      <3> QED BY <1>2, <1>3, <2>1, <2>3, <3>1, <3>2, AddKeepsLinks
    <2>5. CASE /\ UNCHANGED <<dir, loc>>
               /\ pc' = [pc EXCEPT ![t] = "o_undo"] \/ pc' = [pc EXCEPT ![t] = "s_undo"]
      <3>1. pc'[t] \in Creators \ Starting
        BY <1>1, <2>5 DEF Creators, Starting
      <3> QED BY <1>2, <1>3, <2>1, <2>2, <2>3, <2>5, <3>1, CreatorKeeps
    <2> QED BY <2>1, <2>4, <2>5
  <1> QED BY <1>5, <1>6, <1>7, <1>8

\* inode_delete, in the calls that end with it.  The inode is always taken.
LEMMA DeleteSteps ==
    ASSUME TypeInv, LocksHeld, LinksInv, NEW t \in Threads, Acts(t), Only(t), Deletes(t)
    PROVE  LinksInv' /\ loc[t].inum \in freeinode_ts /\ UNCHANGED panic
  <1> USE DEF TypeInv
  <1>1. pc \in [Threads -> Labels]
    BY DEF ControlOK
  <1>2. PICK i : i = loc[t].inum
    OBVIOUS
  <1>3. pc[t] \in {"o_undo", "s_undo", "c_delete", "u_delete"} /\ i \in Inums
    BY <1>2, DeleteEffect, Zenon
  <1>4. i \in freeinode_ts
    BY <1>2, <1>3 DEF LinksInv, CreatorsAlone, DeletersAlone, Creators, Deleters
  <1>5. /\ \E r \in InodeOrLess : /\ r.i_hard_links = 1
                                  /\ inode_table' = [inode_table EXCEPT ![i] = r]
        /\ freeinode_ts' = freeinode_ts \ {i}
        /\ pc' = [pc EXCEPT ![t] = "idle"]
        /\ UNCHANGED <<dir, files, panic>>
    BY <1>2, <1>4, DeleteEffect, Zenon
  <1>6. NewLinks(i, 1)
    BY <1>3, <1>5, LinksUpdate
  <1>7. pc[t] \in {"o_undo", "s_undo"} \cup Deleters /\ pc'[t] \notin Busy
    BY <1>1, <1>3, <1>5 DEF Busy, Creators, Linkers, Deleters
  <1>8. pc[t] \in Deleters => \A u \in Threads \ {t} : pc[u] \notin Deleters
    BY WhoHolds
  <1> QED BY <1>2, <1>4, <1>5, <1>6, <1>7, <1>8, NothingChanges, DeleteKeeps

\* The steps of tfs_link and tfs_unlink.
LEMMA LinkSteps ==
    ASSUME TypeInv, LocksHeld, NamesInv, LinksInv, NEW t \in Threads, Acts(t), Only(t),
           \/ LinkLookup(t) \/ LinkEntry(t) \/ LinkCount(t)
           \/ UnlinkLookup(t) \/ UnlinkClear(t) \/ UnlinkCount(t)
    PROVE  LinksInv'
  <1> USE DEF TypeInv
  <1>1. pc \in [Threads -> Labels] /\ loc \in [Threads -> Locals]
    BY DEF ControlOK
  <1>2. SameOpen
    <2>1. UNCHANGED files
      BY Zenon DEF LinkLookup, LinkEntry, LinkCount, UnlinkLookup, UnlinkClear, UnlinkCount
    <2> QED BY <2>1, NothingChanges
  <1>3. PICK i : i = loc[t].inum
    OBVIOUS
  <1>4. pc[t] \in Busy => i \in Inums /\ inode_table[i] \in InodeOrLess
    BY <1>3, BusyInum DEF TablesOK
  <1>5. CASE LinkLookup(t) \/ UnlinkLookup(t)
    <2>1. PICK j : j = find_in_dir(loc[t].name)
      OBVIOUS
    <2>2. /\ pc[t] \in {"l_lookup", "u_lookup"} /\ link_wr = NULL /\ UNCHANGED tables
          /\ \/ pc' = [pc EXCEPT ![t] = "idle"]
             \/ /\ j # -1 /\ loc' = [loc EXCEPT ![t].inum = j]
                /\ pc' = [pc EXCEPT ![t] = "l_entry"] \/ pc' = [pc EXCEPT ![t] = "u_clear"]
      BY <1>5, <2>1 DEF LinkLookup, UnlinkLookup, Return, Goto
    <2>3. SameLinks /\ UNCHANGED <<freeinode_ts, dir>>
      BY <2>2, NothingChanges
    <2>4. pc[t] \notin Busy
      BY <2>2 DEF Busy, Creators, Linkers, Deleters
    <2>5. CASE pc' = [pc EXCEPT ![t] = "idle"]
      <3>1. pc'[t] \notin Busy
        BY <1>1, <2>5 DEF Busy, Creators, Linkers, Deleters
      <3> QED BY <1>2, <2>3, <2>4, <3>1, QuietKeeps DEF SameOpen
    <2>6. CASE /\ j # -1 /\ loc' = [loc EXCEPT ![t].inum = j]
               /\ pc' = [pc EXCEPT ![t] = "l_entry"] \/ pc' = [pc EXCEPT ![t] = "u_clear"]
      <3>1. \E e \in Live : dir[e].d_inumber = j
        BY <2>1, <2>6, FindInDir
      <3>2. pc'[t] \in {"l_entry", "u_clear"}
        BY <1>1, <2>6
      <3>3. loc'[t].inum = j
        BY <1>1, <2>6, Zenon DEF Locals
      <3> QED BY <1>2, <2>2, <2>3, <2>4, <3>1, <3>2, <3>3, WhoHolds, LookupKeeps
    <2> QED BY <2>2, <2>5, <2>6
  <1>6. CASE LinkEntry(t)
    <2>1. /\ pc[t] = "l_entry" /\ UNCHANGED <<inode_table, freeinode_ts>>
          /\ \/ /\ CanAdd(loc[t].other) /\ dir' = add_dir_entry(loc[t].other, i) /\ UNCHANGED loc
                /\ pc' = [pc EXCEPT ![t] = "l_count"]
             \/ UNCHANGED dir /\ pc' = [pc EXCEPT ![t] = "idle"]
      BY <1>3, <1>6 DEF LinkEntry, Return, Goto
    <2>2. i \in Inums
      BY <1>4, <2>1 DEF Busy, Linkers
    <2>3. SameLinks
      BY <2>1, NothingChanges
    <2>4. CASE /\ CanAdd(loc[t].other) /\ dir' = add_dir_entry(loc[t].other, i) /\ UNCHANGED loc
               /\ pc' = [pc EXCEPT ![t] = "l_count"]
      <3>1. EntryAdded(i)
        BY <2>2, <2>4, Adds
      <3>2. pc'[t] = "l_count" /\ loc'[t].inum = i
        BY <1>1, <1>3, <2>4
      <3> QED BY <1>2, <1>3, <2>1, <2>3, <3>1, <3>2, AddKeepsLinks
    <2>5. CASE UNCHANGED dir /\ pc' = [pc EXCEPT ![t] = "idle"]
      <3>1. pc'[t] \notin Busy
        BY <1>1, <2>5 DEF Busy, Creators, Linkers, Deleters
      <3> QED BY <1>2, <2>1, <2>3, <2>5, <3>1, QuietKeeps DEF SameOpen
    <2> QED BY <2>1, <2>4, <2>5
  <1>7. CASE LinkCount(t)
    <2> DEFINE k == inode_table[i].i_hard_links + 1
               r == [inode_table[i] EXCEPT !.i_hard_links = k]
    <2>1. /\ pc[t] = "l_count" /\ pc' = [pc EXCEPT ![t] = "idle"] /\ UNCHANGED freeinode_ts
          /\ \/ UNCHANGED inode_table /\ dir' = clear_dir_entry(loc[t].other)
             \/ UNCHANGED dir /\ inode_table' = [inode_table EXCEPT ![i] = r]
      BY <1>3, <1>7, Zenon DEF LinkCount, Return, Goto
    <2>2. i \in Inums /\ inode_table[i] \in InodeOrLess
      BY <1>4, <2>1 DEF Busy, Linkers
    <2>3. pc'[t] = "idle"
      BY <1>1, <2>1
    <2>4. CASE UNCHANGED inode_table /\ dir' = clear_dir_entry(loc[t].other)
      <3>1. loc[t].other \in Names
        BY <2>1 DEF LocalsSet, SetAt, WithOther
      <3>2. \E e \in Live : dir[e].d_name = loc[t].other /\ dir[e].d_inumber = i
        BY <1>3, <2>1 DEF NamesInv, OwnEntry
      <3>3. EntryCleared(i)
        BY <2>4, <3>1, <3>2, Clears DEF NamesInv
      <3> QED BY <1>2, <1>3, <2>1, <2>3, <2>4, <3>3, NothingChanges, ClearKeeps
    <2>5. CASE UNCHANGED dir /\ inode_table' = [inode_table EXCEPT ![i] = r]
      <3> HIDE DEF k
      <3>1. r.i_hard_links = k
        BY <2>2, Zenon DEF InodeOrLess
      <3> HIDE DEF r
      <3>2. NewLinks(i, k)
        BY <2>2, <2>5, <3>1, LinksUpdate
      <3>3. k = Links(i) + 1
        BY DEF k, Links
      <3> QED BY <1>2, <1>3, <2>1, <2>3, <2>5, <3>2, <3>3, CountKeeps
    <2> QED BY <2>1, <2>4, <2>5
  <1>8. CASE UnlinkClear(t)
    <2>1. /\ pc[t] = "u_clear" /\ pc' = [pc EXCEPT ![t] = "u_count"]
          /\ UNCHANGED <<inode_table, freeinode_ts, loc>>
          /\ dir' = clear_dir_entry(loc[t].name)
      BY <1>8 DEF UnlinkClear, Goto
    <2>2. pc'[t] = "u_count" /\ loc'[t].inum = i
      BY <1>1, <1>3, <2>1
    <2>3. loc[t].name \in Names
      BY <2>1 DEF LocalsSet, SetAt, WithName
    <2>4. \E e \in Live : dir[e].d_name = loc[t].name /\ dir[e].d_inumber = i
      BY <1>3, <2>1 DEF NamesInv, OwnEntry
    <2>5. EntryCleared(i)
      BY <2>1, <2>3, <2>4, Clears DEF NamesInv
    <2> QED BY <1>2, <1>3, <2>1, <2>2, <2>5, NothingChanges, ClearKeeps
  <1>9. CASE UnlinkCount(t)
    <2> DEFINE k == inode_table[i].i_hard_links - 1
               r == [inode_table[i] EXCEPT !.i_hard_links = k]
    <2>1. /\ pc[t] = "u_count" /\ foe_mutex = NULL /\ UNCHANGED <<freeinode_ts, dir>>
          /\ inode_table' = [inode_table EXCEPT ![i] = r]
          /\ \/ /\ LastUse(i, k, free_open_file_entries) /\ UNCHANGED loc
                /\ pc' = [pc EXCEPT ![t] = "u_delete"]
             \/ /\ ~LastUse(i, k, free_open_file_entries)
                /\ pc' = [pc EXCEPT ![t] = "idle"]
      BY <1>3, <1>9, Zenon DEF UnlinkCount, Return, Goto
    <2>2. i \in Inums /\ inode_table[i] \in InodeOrLess
      BY <1>4, <2>1 DEF Busy, Linkers
    <2>3. \A u \in Threads \ {t} : pc[u] \notin Linkers \cup Deleters
      BY <2>1, WhoHolds
    <2> HIDE DEF k
    <2>4. r.i_hard_links = k
      BY <2>2, Zenon DEF InodeOrLess
    <2> HIDE DEF r
    <2>5. NewLinks(i, k)
      BY <2>1, <2>2, <2>4, LinksUpdate
    <2>6. k = Links(i) - 1
      BY DEF k, Links
    <2>7. \/ pc'[t] = "u_delete" /\ loc'[t].inum = i /\ k = 0 /\ ~IsOpen(i)
          \/ pc'[t] = "idle" /\ (k # 0 \/ IsOpen(i))
      BY <1>1, <1>3, <2>1 DEF LastUse, IsOpen
    <2> QED BY <1>2, <1>3, <2>1, <2>3, <2>5, <2>6, <2>7, CountKeeps
  <1> QED BY <1>5, <1>6, <1>7, <1>8, <1>9

\* tfs_destroy starts over: nothing is taken, there are no entries, and nobody is
\* inside a call.
LEMMA DestroyStep ==
    ASSUME NEW t \in Threads, tfs_destroy(t)
    PROVE  LinksInv' /\ free_open_file_entries' = {} /\ UNCHANGED panic
  <1>1. /\ inode_table' = NewInodeTable /\ freeinode_ts' = {} /\ dir' \in NewDirs(JunkNames)
        /\ free_open_file_entries' = {} /\ UNCHANGED <<pc, panic>>
        /\ \A u \in Threads : pc[u] = "idle"
    BY Zenon DEF tfs_destroy, StateReset
  <1>2. Live' = {}
    BY <1>1 DEF NewDirs, Live
  <1>3. \A u \in Threads : pc'[u] \notin Busy
    BY <1>1 DEF Busy, Creators, Linkers, Deleters
  <1>4. \A i \in Inums : Links(i)' = 1
    BY <1>1 DEF Links, NewInodeTable, NewInode
  <1>5. CreatorsAlone' /\ LinkersBusy' /\ DeletersAlone'
    BY <1>3, BusyLabels DEF CreatorsAlone, LinkersBusy, DeletersAlone
  <1>6. FreshLinks'
    BY <1>3, <1>4, BusyLabels DEF FreshLinks
  <1>7. LinkCountExact' /\ EntriesTaken' /\ NoOrphanInode'
    BY <1>1, <1>2 DEF LinkCountExact, EntriesTaken, NoOrphanInode
  <1> QED BY <1>1, <1>5, <1>6, <1>7 DEF LinksInv

\* Every step keeps the invariant of the links.
LEMMA LinksStep ==
    ASSUME TypeInv, LocksHeld, NamesInv, LinksInv, NEW t \in Threads, Acts(t)
    PROVE  LinksInv'
  <1>1. Only(t)
    BY OthersStay DEF Only
  <1>2. CASE Deletes(t)
    BY <1>1, <1>2, DeleteSteps
  <1>3. CASE tfs_destroy(t)
    BY <1>3, DestroyStep
  <1>4. CASE OpenTable(t) \/ tfs_close(t) \/ CopyClose(t)
    BY <1>1, <1>4, HandleSteps
  <1>5. CASE \/ LinkLookup(t) \/ LinkEntry(t) \/ LinkCount(t)
             \/ UnlinkLookup(t) \/ UnlinkClear(t) \/ UnlinkCount(t)
    BY <1>1, <1>5, LinkSteps
  <1>6. CASE \/ OpenAlloc(t) \/ OpenInit(t) \/ OpenEntry(t)
             \/ SymLinkAlloc(t) \/ SymLinkInit(t) \/ SymLinkBlock(t) \/ SymLinkEntry(t)
    BY <1>1, <1>6, CreateSteps
  <1>7. CASE \/ Begins(t) \/ OpenLookup(t) \/ OpenFile(t) \/ OpenSymLink(t) \/ OpenCheck(t)
             \/ tfs_write(t) \/ tfs_read(t) \/ CopyWrite(t)
    BY <1>1, <1>7, QuietSteps
  <1> QED BY <1>2, <1>3, <1>4, <1>5, <1>6, <1>7
          DEF Acts, Invoke, Step, Begins, Deletes, tfs_open, tfs_sym_link, tfs_link, tfs_unlink

\* The invariant of the links holds in a new file system.
LEMMA LinksInit == Init => LinksInv
  <1> SUFFICES ASSUME Init PROVE LinksInv
    OBVIOUS
  <1>1. /\ inode_table = NewInodeTable /\ freeinode_ts = {} /\ dir \in NewDirs(JunkNames)
        /\ pc = [u \in Threads |-> "idle"]
    BY DEF Init, StateInit
  <1>2. Live = {}
    BY <1>1 DEF NewDirs, Live
  <1>3. \A u \in Threads : pc[u] \notin Busy
    BY <1>1 DEF Busy, Creators, Linkers, Deleters
  <1>4. \A i \in Inums : Links(i) = 1
    BY <1>1 DEF Links, NewInodeTable, NewInode
  <1>5. CreatorsAlone /\ LinkersBusy /\ DeletersAlone /\ FreshLinks
    BY <1>3, <1>4, BusyLabels DEF CreatorsAlone, LinkersBusy, DeletersAlone, FreshLinks
  <1>6. LinkCountExact /\ EntriesTaken /\ NoOrphanInode
    BY <1>1, <1>2 DEF LinkCountExact, EntriesTaken, NoOrphanInode
  <1> QED BY <1>5, <1>6 DEF LinksInv

-----------------------------------------------------------------------------
(* Theorems                                                                *)

\* The inductive invariant of the links, with those it rests on.
THEOREM LinksInvariant == Spec => [](TypeInv /\ LocksHeld /\ NamesInv /\ LinksInv)
  <1>1. ASSUME TypeInv, LocksHeld, NamesInv, LinksInv, [Next]_vars
        PROVE  LinksInv'
    <2>1. CASE Next
      <3>1. PICK t \in Threads : Acts(t)
        BY <2>1 DEF Next, Acts
      <3> QED BY <1>1, <3>1, LinksStep
    <2>2. CASE UNCHANGED vars
      <3>1. UNCHANGED <<inode_table, freeinode_ts, dir, open_file_table, free_open_file_entries,
                        pc, loc>>
        BY <2>2 DEF vars, tables, files
      <3>2. Live' = Live /\ \A i : Links(i)' = Links(i)
        BY <3>1 DEF Live, Links
      <3>3. \A i : (IsOpen(i)' <=> IsOpen(i)) /\ \A L : At(L, i)' = At(L, i)
        BY <3>1 DEF IsOpen, is_file_open, At
      <3>4. CreatorsAlone' /\ FreshLinks' /\ LinkersBusy'
        BY <1>1, <3>1, <3>2 DEF LinksInv, CreatorsAlone, FreshLinks, LinkersBusy
      <3>5. DeletersAlone' /\ EntriesTaken'
        BY <1>1, <3>1, <3>2, <3>3 DEF LinksInv, DeletersAlone, EntriesTaken
      <3>6. LinkCountExact' /\ NoOrphanInode'
        BY <1>1, <3>1, <3>2, <3>3
           DEF LinksInv, LinkCountExact, NoOrphanInode, Links, IsOpen
      <3> QED BY <3>4, <3>5, <3>6 DEF LinksInv
    <2> QED BY <1>1, <2>1, <2>2
  <1> QED BY <1>1, LinksInit, NamesInvariant, PTL DEF Spec

\* LinkCountExact: a hard link counter is the number of the inode's entries, but for the
\* calls that are between changing the one and the other.
THEOREM LinksAreExact == Spec => []LinkCountExact
  BY LinksInvariant, PTL DEF LinksInv

\* EntriesTaken: no entry of the root directory leads to an inode that was freed.
THEOREM EntriesLeadToInodes == Spec => []EntriesTaken
  BY LinksInvariant, PTL DEF LinksInv

\* NoOrphanInode: an inode whose last link is gone is open, or about to be freed by
\* tfs_unlink or by the last close.
THEOREM NoOrphans == Spec => []NoOrphanInode
  BY LinksInvariant, PTL DEF LinksInv

\* The assertions that fail outside inode_delete.
LEMMA OtherAsserts ==
    ASSUME NEW t \in Threads, Acts(t), ~Deletes(t)
    PROVE  \/ UNCHANGED panic
           \/ panic' = "data_block_get: invalid block number"
           \/ panic' = "remove_from_open_file_table: file content deleted before closing"
  <1>1. Begins(t) => UNCHANGED panic
    BY BeginsEffect, Zenon
  <1>2. tfs_open(t) /\ ~OpenUndo(t)
        => UNCHANGED panic \/ panic' = "data_block_get: invalid block number"
    BY Zenon DEF tfs_open, OpenLookup, OpenFile, OpenSymLink, OpenAlloc, OpenInit, OpenEntry,
                 OpenCheck, OpenTable, Panic
  <1>3. tfs_close(t) \/ CopyClose(t)
        => \/ UNCHANGED panic
           \/ panic' = "remove_from_open_file_table: file content deleted before closing"
    BY Zenon DEF tfs_close, CopyClose, remove_from_open_file_table
  <1>4. \/ tfs_write(t) \/ tfs_read(t) \/ CopyWrite(t) \/ tfs_link(t) \/ tfs_destroy(t)
        \/ tfs_sym_link(t) /\ ~SymLinkUndo(t)
        \/ tfs_unlink(t) /\ ~UnlinkDelete(t)
        => UNCHANGED panic
    BY Zenon DEF tfs_write, tfs_read, CopyWrite, tfs_link, LinkLookup, LinkEntry, LinkCount,
                 tfs_destroy, tfs_sym_link, SymLinkAlloc, SymLinkInit, SymLinkBlock, SymLinkEntry,
                 tfs_unlink, UnlinkLookup, UnlinkClear, UnlinkCount
  <1> QED BY <1>1, <1>2, <1>3, <1>4 DEF Acts, Invoke, Step, Begins, Deletes

\* Of all steps only inode_delete and tfs_destroy free inodes.
LEMMA WhoFrees ==
    ASSUME TypeInv, NEW t \in Threads, Acts(t), ~Deletes(t), ~tfs_destroy(t)
    PROVE  freeinode_ts \subseteq freeinode_ts'
  <1>1. CASE UNCHANGED tables
    BY <1>1 DEF tables
  <1>2. CASE ~UNCHANGED tables
    <2>1. \/ OpenAlloc(t) \/ SymLinkAlloc(t)
          \/ OpenFile(t) \/ OpenInit(t) \/ OpenEntry(t) \/ tfs_write(t) \/ CopyWrite(t)
          \/ SymLinkInit(t) \/ SymLinkBlock(t) \/ SymLinkEntry(t) \/ LinkEntry(t)
          \/ LinkCount(t) \/ UnlinkClear(t) \/ UnlinkCount(t)
      BY <1>2, TablesChange
    <2>2. CASE OpenAlloc(t) \/ SymLinkAlloc(t)
      BY <2>2 DEF OpenAlloc, SymLinkAlloc
    <2>3. CASE ~(OpenAlloc(t) \/ SymLinkAlloc(t))
      <3>1. UNCHANGED freeinode_ts
        BY <2>1, <2>3, Zenon
           DEF OpenFile, OpenInit, OpenEntry, tfs_write, CopyWrite, SymLinkInit, SymLinkBlock,
               SymLinkEntry, LinkEntry, LinkCount, UnlinkClear, UnlinkCount
      <3> QED BY <3>1
    <2> QED BY <2>2, <2>3
  <1> QED BY <1>1, <1>2

\* FreedOnlyWhenClosed: an inode is freed while a handle refers to it only by the call
\* that created it and could not finish.
THEOREM FreedWhenClosed == Spec => FreedOnlyWhenClosed
  <1> DEFINE Freed == \A i \in freeinode_ts \ freeinode_ts' :
                          is_file_open(i, free_open_file_entries') => At({"o_undo", "s_undo"}, i) # {}
  <1>1. ASSUME TypeInv, LinksInv, [Next]_vars
        PROVE  [Freed]_vars
    <2>1. CASE Next
      <3>1. PICK t \in Threads : Acts(t)
        BY <2>1 DEF Next, Acts
      <3>2. CASE tfs_destroy(t)
        BY <3>2, DestroyStep DEF is_file_open
      <3>3. CASE Deletes(t)
        <4>1. PICK j : j = loc[t].inum
          OBVIOUS
        <4>2. /\ pc[t] \in {"o_undo", "s_undo", "c_delete", "u_delete"}
              /\ UNCHANGED tables \/ (freeinode_ts' = freeinode_ts \ {j} /\ UNCHANGED files)
          BY <1>1, <3>3, <4>1, DeleteEffect, Zenon DEF TypeInv
        <4>3. CASE UNCHANGED tables
          BY <4>3 DEF tables
        <4>4. CASE freeinode_ts' = freeinode_ts \ {j} /\ UNCHANGED files
          <5>1. UNCHANGED free_open_file_entries
            BY <4>4 DEF files
          <5>2. CASE pc[t] \in {"o_undo", "s_undo"}
            BY <4>1, <4>4, <5>2 DEF At
          <5>3. CASE pc[t] \in {"c_delete", "u_delete"}
            <6>1. ~is_file_open(j, free_open_file_entries)
              BY <1>1, <4>1, <5>3 DEF LinksInv, DeletersAlone, Deleters, IsOpen
            <6> QED BY <4>4, <5>1, <6>1
          <5> QED BY <4>2, <5>2, <5>3
        <4> QED BY <4>2, <4>3, <4>4
      <3>4. CASE ~Deletes(t) /\ ~tfs_destroy(t)
        BY <1>1, <3>1, <3>4, WhoFrees
      <3> QED BY <3>2, <3>3, <3>4
    <2>2. CASE UNCHANGED vars
      BY <2>2
    <2> QED BY <1>1, <2>1, <2>2
  <1> QED BY <1>1, LinksInvariant, PTL DEF Spec, FreedOnlyWhenClosed

\* NoDoubleFree: inode_delete always finds the inode taken, although tfs_unlink and the
\* last close decide on the deletion in one critical section and do it in a later one.
THEOREM FreedOnce == Spec => []NoDoubleFree
  <1>1. Init => NoDoubleFree
    BY DEF Init, NoDoubleFree
  <1>2. ASSUME TypeInv, LocksHeld, LinksInv, NoDoubleFree, [Next]_vars
        PROVE  NoDoubleFree'
    <2>1. CASE Next
      <3>1. PICK t \in Threads : Acts(t)
        BY <2>1 DEF Next, Acts
      <3>2. CASE Deletes(t)
        <4>1. Only(t)
          BY <1>2, <3>1, OthersStay DEF Only
        <4> QED BY <1>2, <3>1, <3>2, <4>1, DeleteSteps DEF NoDoubleFree
      <3>3. CASE ~Deletes(t)
        <4>1. \/ UNCHANGED panic
              \/ panic' = "data_block_get: invalid block number"
              \/ panic' = "remove_from_open_file_table: file content deleted before closing"
          BY <3>1, <3>3, OtherAsserts
        <4> QED BY <1>2, <4>1 DEF NoDoubleFree
      <3> QED BY <3>2, <3>3
    <2>2. CASE UNCHANGED vars
      BY <1>2, <2>2 DEF vars, NoDoubleFree
    <2> QED BY <1>2, <2>1, <2>2
  <1> QED BY <1>1, <1>2, LinksInvariant, PTL DEF Spec

\* The counters never go below 0, and every other variable has its values.
THEOREM TypeCorrect == Spec => []TypeOK
  <1>1. ASSUME TypeInv, LinksInv
        PROVE  TypeOK
    <2> USE <1>1 DEF LinksInv, TypeInv
    <2>1. ASSUME NEW i \in Inums
          PROVE  Links(i) \in Nat
      <3>1. Links(i) \in Int
        BY DEF TablesOK, Links, InodeOrLess
      <3>2. CASE i \notin freeinode_ts \/ At(Starting, i) # {}
        BY <3>2 DEF FreshLinks, At, Starting, Creators
      <3>3. CASE \E u \in Threads : pc[u] \in Linkers /\ loc[u].inum = i
        BY <3>1, <3>3 DEF LinkersBusy
      <3>4. CASE /\ i \in freeinode_ts /\ At(Starting, i) = {}
                 /\ ~\E u \in Threads : pc[u] \in Linkers /\ loc[u].inum = i
        <4>1. Exact(i)
          BY <3>4, InodeByInode
        <4>2. At({"l_count"}, i) = {}
          BY <3>4 DEF At, Linkers
        <4> QED BY <3>1, <3>4, <4>1, <4>2, Counts DEF Exact
      <3> QED BY <3>2, <3>3, <3>4
    <2>2. inode_table \in [Inums -> Inode]
      <3>1. \A i \in Inums : inode_table[i] \in Inode
        BY <2>1 DEF TablesOK, Links, InodeOrLess, Inode
      <3> QED BY <3>1 DEF TablesOK
    <2> QED BY <2>2 DEF TypeOK, TablesOK, FilesOK, ControlOK, DirEntry, OpenFileEntry, Locals
  <1> QED BY <1>1, LinksInvariant, PTL

-----------------------------------------------------------------------------
(* The names that the directory binds                                      *)

\* What find_in_dir returns after a step that leaves one entry with the name, or none,
\* or the same ones.
LEMMA FoundAfter ==
    ASSUME NEW n
    PROVE  /\ \A e \in Live' : /\ dir'[e].d_name = n
                               /\ \A d \in Live' : dir'[d].d_name = n => d = e
                               => find_in_dir(n)' = dir'[e].d_inumber
           /\ (\A d \in Live' : dir'[d].d_name # n) => find_in_dir(n)' = -1
  <1> DEFINE match == {d \in Live' : dir'[d].d_name = n}
  <1>1. find_in_dir(n)' = IF match = {} THEN -1 ELSE dir'[Min(match)].d_inumber
    BY DEF find_in_dir
  <1>2. ASSUME NEW e \in Live', dir'[e].d_name = n, \A d \in Live' : dir'[d].d_name = n => d = e
        PROVE  find_in_dir(n)' = dir'[e].d_inumber
    <2>1. match = {e} /\ match \in SUBSET Nat
      BY <1>2, Sizes DEF Live, Entries
    <2>2. Min(match) = e
      BY <2>1, MinNat
    <2> QED BY <1>1, <2>1, <2>2
  <1> QED BY <1>1, <1>2

\* An entry of the name is what find_in_dir finds.
LEMMA Found ==
    ASSUME TablesOK, NamesUnique, NEW e \in Live, NEW n, dir[e].d_name = n
    PROVE  find_in_dir(n) = dir[e].d_inumber /\ find_in_dir(n) \in Inums
  <1>1. PICK d \in Live : find_in_dir(n) \in Inums /\ dir[d].d_name = n /\ dir[d].d_inumber = find_in_dir(n)
    BY FindInDir
  <1> QED BY <1>1 DEF NamesUnique

\* What the names lead to after a step that leaves the directory alone.
LEMMA BoundSame == UNCHANGED dir => UNCHANGED bound
  BY DEF bound, find_in_dir, Live

\* What they lead to after add_dir_entry.
LEMMA BoundAdded ==
    ASSUME TablesOK, NamesUnique, NEW n \in Names \cup {NULL}, NEW i \in Inums, CanAdd(n),
           dir' = add_dir_entry(n, i)
    PROVE  bound[n] = -1 /\ bound' = [bound EXCEPT ![n] = i]
  <1>1. PICK m \in Entries :
               /\ m \notin Live
               /\ dir'[m].d_name = n /\ dir'[m].d_inumber = i
               /\ \A e \in Entries : e # m => dir'[e] = dir[e]
               /\ Live' = Live \cup {m}
    BY AddEffect DEF CanAdd
  <1>2. \A e \in Live : dir[e].d_name # n /\ dir'[e] = dir[e]
    BY <1>1 DEF CanAdd, Live
  <1>3. find_in_dir(n) = -1
    BY <1>2, FindInDir
  <1>4. find_in_dir(n)' = i
    BY <1>1, <1>2, FoundAfter
  <1>5. ASSUME NEW k \in Names \cup {NULL}, k # n
        PROVE  find_in_dir(k)' = find_in_dir(k)
    <2>1. CASE \A e \in Live : dir[e].d_name # k
      <3>1. \A e \in Live' : dir'[e].d_name # k
        BY <1>1, <1>2, <1>5, <2>1
      <3> QED BY <2>1, <3>1, FindInDir, FoundAfter
    <2>2. ASSUME NEW e \in Live, dir[e].d_name = k
          PROVE  find_in_dir(k)' = find_in_dir(k)
      <3>1. /\ e \in Live' /\ dir'[e].d_name = k /\ dir'[e] = dir[e]
            /\ \A d \in Live' : dir'[d].d_name = k => d = e
        BY <1>1, <1>2, <1>5, <2>2 DEF NamesUnique
      <3> QED BY <2>2, <3>1, Found, FoundAfter
    <2> QED BY <2>1, <2>2
  <1>6. bound' = [k \in Names \cup {NULL} |-> find_in_dir(k)']
    BY DEF bound
  <1> QED BY <1>3, <1>4, <1>5, <1>6 DEF bound

\* What they lead to after clear_dir_entry.
LEMMA BoundCleared ==
    ASSUME TablesOK, NamesUnique, FreeBelowZeroed, NEW n \in Names,
           NEW e \in Live, dir[e].d_name = n, dir' = clear_dir_entry(n)
    PROVE  bound[n] # -1 /\ bound' = [bound EXCEPT ![n] = -1]
  <1>1. Matching(n) # {} /\ Min(Matching(n)) = e
    BY RightEntry
  <1>2. Live' = Live \ {e} /\ \A d \in Entries : d # e => dir'[d] = dir[d]
    BY <1>1, ClearEffect
  <1>3. \A d \in Live : d # e => dir[d].d_name # n /\ dir'[d] = dir[d]
    BY <1>2 DEF NamesUnique, Live
  <1>4. find_in_dir(n) # -1
    BY Found DEF Inums
  <1>5. find_in_dir(n)' = -1
    BY <1>2, <1>3, FoundAfter
  <1>6. ASSUME NEW k \in Names \cup {NULL}, k # n
        PROVE  find_in_dir(k)' = find_in_dir(k)
    <2>1. CASE \A d \in Live : dir[d].d_name # k
      <3>1. \A d \in Live' : dir'[d].d_name # k
        BY <1>2, <1>3, <2>1
      <3> QED BY <2>1, <3>1, FindInDir, FoundAfter
    <2>2. ASSUME NEW d \in Live, dir[d].d_name = k
          PROVE  find_in_dir(k)' = find_in_dir(k)
      <3>1. /\ d \in Live' /\ dir'[d].d_name = k /\ dir'[d] = dir[d]
            /\ \A f \in Live' : dir'[f].d_name = k => f = d
        BY <1>2, <1>3, <1>6, <2>2 DEF NamesUnique
      <3> QED BY <2>2, <3>1, Found, FoundAfter
    <2> QED BY <2>1, <2>2
  <1>7. bound' = [k \in Names \cup {NULL} |-> find_in_dir(k)']
    BY DEF bound
  <1> QED BY <1>4, <1>5, <1>6, <1>7 DEF bound

\* A file has a name when it has an entry.
LEMMA NamedByEntry ==
    ASSUME TablesOK, NamesUnique, NEW i \in Inums
    PROVE  Directory!Named(i) <=> EntriesOf(i) # {}
  <1>1. ASSUME NEW n \in Names \cup {NULL}, bound[n] = i
        PROVE  EntriesOf(i) # {}
    <2>1. find_in_dir(n) = i /\ i # -1
      BY <1>1 DEF bound, Inums
    <2> QED BY <2>1, FindInDir DEF EntriesOf
  <1>2. ASSUME NEW e \in EntriesOf(i)
        PROVE  \E n \in Names \cup {NULL} : bound[n] = i
    <2>1. e \in Live /\ dir[e].d_inumber = i /\ dir[e].d_name \in Names \cup {NULL}
      BY <1>2 DEF EntriesOf, Live, TablesOK, DirEntry
    <2>2. bound[dir[e].d_name] = i
      BY <2>1, Found DEF bound
    <2> QED BY <2>1, <2>2
  <1> QED BY <1>1, <1>2 DEF Directory!Named

-----------------------------------------------------------------------------
(* The files that exist                                                    *)

\* A thread makes i.
Makes(u, i) == On(Creators, u, i)

\* The files that exist are the inodes that are taken and not being made.
LEMMA MadeFiles ==
    /\ \A i : i \in made <=> i \in freeinode_ts /\ \A u \in Threads : ~Makes(u, i)
    /\ \A i : i \in made' <=> i \in freeinode_ts' /\ \A u \in Threads : ~Makes(u, i)'
  BY DEF made, Makes, On

\* The files that exist, after a step of a thread that makes none, or goes on with the one it
\* makes, or allocates one that it is going to make.
LEMMA MadeSame ==
    ASSUME NEW t \in Threads, Only(t),
           \/ /\ UNCHANGED freeinode_ts
              /\ \A i : Makes(t, i)' <=> Makes(t, i)
           \/ \E m : /\ m \notin freeinode_ts /\ freeinode_ts' = freeinode_ts \cup {m}
                     /\ \A i : Makes(t, i)' <=> i = m
                     /\ \A i : ~Makes(t, i)
    PROVE  UNCHANGED made
  <1>1. \A u \in Threads \ {t} : \A i : Makes(u, i)' <=> Makes(u, i)
    BY DEF Only, Makes, On
  <1>2. ASSUME NEW i
        PROVE  i \in made' <=> i \in made
    BY <1>1, MadeFiles
  <1> QED BY <1>2 DEF made

\* They are one more when the inode gets its first entry.
LEMMA MadeMore ==
    ASSUME CreatorsAlone, NEW t \in Threads, Only(t), pc[t] \in Creators, pc'[t] \notin Creators,
           UNCHANGED freeinode_ts
    PROVE  loc[t].inum \notin made /\ made' = made \cup {loc[t].inum}
  <1>1. \A u \in Threads \ {t} : \A i : Makes(u, i)' <=> Makes(u, i)
    BY DEF Only, Makes, On
  <1>2. PICK j : j = loc[t].inum
    OBVIOUS
  <1>3. /\ \A i : Makes(t, i) <=> i = j
        /\ \A i : ~Makes(t, i)'
        /\ j \in freeinode_ts /\ \A u \in Threads \ {t} : ~Makes(u, j)
    BY <1>2 DEF Makes, On, CreatorsAlone, Busy
  <1>4. ASSUME NEW i
        PROVE  i \in made' <=> i \in made \/ i = j
    BY <1>1, <1>3, MadeFiles
  <1>5. j \notin made
    BY <1>3, MadeFiles
  <1> QED BY <1>2, <1>4, <1>5

\* They are as many, or one less, after inode_delete.
LEMMA MadeLess ==
    ASSUME CreatorsAlone, NEW t \in Threads, Only(t), pc[t] \in Creators \cup Deleters,
           pc'[t] \notin Creators, loc[t].inum \in freeinode_ts,
           freeinode_ts' = freeinode_ts \ {loc[t].inum}
    PROVE  /\ pc[t] \in Creators => UNCHANGED made
           /\ pc[t] \in Deleters => loc[t].inum \in made /\ made' = made \ {loc[t].inum}
  <1>1. \A u \in Threads \ {t} : \A i : Makes(u, i)' <=> Makes(u, i)
    BY DEF Only, Makes, On
  <1>2. PICK j : j = loc[t].inum
    OBVIOUS
  <1>3. /\ \A u \in Threads \ {t} : ~Makes(u, j)
        /\ \A i : ~Makes(t, i)'
        /\ pc[t] \in Deleters => \A i : ~Makes(t, i)
        /\ \A i : Makes(t, i) => i = j
    BY <1>2 DEF Makes, On, CreatorsAlone, Busy, Creators, Deleters
  <1>4. CASE pc[t] \in Creators
    <2>1. Makes(t, j)
      BY <1>2, <1>4 DEF Makes, On
    <2>2. ASSUME NEW i
          PROVE  i \in made' <=> i \in made
      BY <1>1, <1>2, <1>3, <2>1, MadeFiles
    <2> QED BY <1>4, <2>2 DEF made, Creators, Deleters
  <1>5. CASE pc[t] \in Deleters
    <2>1. ASSUME NEW i
          PROVE  i \in made' <=> i \in made /\ i # j
      BY <1>1, <1>2, <1>3, <1>5, MadeFiles
    <2>2. j \in made
      BY <1>2, <1>3, <1>5, MadeFiles
    <2>3. pc[t] \notin Creators
      BY <1>5 DEF Creators, Deleters
    <2> QED BY <1>2, <2>1, <2>2, <2>3
  <1> QED BY <1>4, <1>5

-----------------------------------------------------------------------------
(* The directory implements Namespace                                      *)

\* The steps that change neither the directory nor which inodes are taken, and neither begin
\* nor end the making of one.
LEMMA NamespaceStutter ==
    ASSUME NEW t \in Threads, Only(t), UNCHANGED <<dir, freeinode_ts>>,
           \/ UNCHANGED <<pc, loc>>
           \/ pc[t] \notin Creators /\ pc'[t] \notin Creators
           \/ pc[t] \in Creators /\ pc'[t] \in Creators /\ UNCHANGED loc
    PROVE  UNCHANGED Directory!vars
  <1>1. \A i : Makes(t, i)' <=> Makes(t, i)
    BY DEF Makes, On
  <1>2. UNCHANGED made
    BY <1>1, MadeSame
  <1> QED BY <1>2, BoundSame DEF Directory!vars

\* tfs_link finds a file that has a name, and keeps it named until the new entry is made.
LEMMA LinkedIsNamed ==
    ASSUME TypeInv, LocksHeld, NamesInv, LinksInv, NEW t \in Threads, pc[t] = "l_entry"
    PROVE  loc[t].inum \in made /\ Directory!Named(loc[t].inum)
  <1>1. PICK i : i = loc[t].inum
    OBVIOUS
  <1>2. i \in Inums /\ i \in freeinode_ts /\ Links(i) >= 1
    BY <1>1, BusyInum DEF TypeInv, LinksInv, LinkersBusy, Linkers, Busy
  <1>3. \A u \in Threads : pc[u] \in Creators => loc[u].inum # i
    BY <1>1 DEF LinksInv, CreatorsAlone, Busy, Linkers, Creators
  <1>4. \A u \in Threads : pc[u] # "u_count"
    BY WhoHolds DEF Linkers
  <1>5. At(Starting, i) = {} /\ At(Pending, i) = {}
    BY <1>3, <1>4 DEF At, Starting, Pending, Creators
  <1>6. Exact(i)
    BY <1>2, InodeByInode DEF LinksInv
  <1>7. Links(i) \in Int
    BY <1>2 DEF TypeInv, TablesOK, Links, InodeOrLess
  <1>8. Cardinality(EntriesOf(i)) # 0
    BY <1>2, <1>5, <1>6, <1>7, Counts DEF Exact
  <1>9. EntriesOf(i) # {}
    BY <1>8, Counts
  <1>10. i \in made
    BY <1>2, <1>3, MadeFiles DEF Makes, On
  <1> QED BY <1>1, <1>2, <1>9, <1>10, NamedByEntry DEF TypeInv, NamesInv

\* A file that tfs_unlink or tfs_close is about to delete has no name.
LEMMA DeletedIsNameless ==
    ASSUME TypeInv, LocksHeld, NamesInv, LinksInv, NEW t \in Threads, pc[t] \in Deleters
    PROVE  ~Directory!Named(loc[t].inum)
  <1>1. PICK i : i = loc[t].inum
    OBVIOUS
  <1>2. i \in Inums /\ i \in freeinode_ts /\ Links(i) = 0
    BY <1>1, BusyInum DEF TypeInv, LinksInv, DeletersAlone, Busy
  <1>3. \A u \in Threads : pc[u] \in Creators => loc[u].inum # i
    BY <1>1 DEF LinksInv, CreatorsAlone, Busy, Deleters, Creators
  <1>4. \A u \in Threads : pc[u] \in Linkers => loc[u].inum # i
    BY <1>2 DEF LinksInv, LinkersBusy
  <1>5. At(Starting, i) = {} /\ At({"l_count"}, i) = {}
    BY <1>3, <1>4 DEF At, Starting, Linkers, Creators
  <1>6. Exact(i)
    BY <1>2, InodeByInode DEF LinksInv
  <1>7. Cardinality(EntriesOf(i)) = 0
    BY <1>2, <1>5, <1>6, Counts DEF Exact
  <1>8. EntriesOf(i) = {}
    BY <1>7, Counts
  <1> QED BY <1>1, <1>2, <1>8, NamedByEntry DEF TypeInv, NamesInv

\* add_dir_entry, called by tfs_open and tfs_sym_link for a new inode and by tfs_link.
LEMMA NamespaceAdds ==
    ASSUME TypeInv, LocksHeld, NamesInv, LinksInv, NEW t \in Threads, Only(t),
           OpenEntry(t) \/ SymLinkEntry(t) \/ LinkEntry(t)
    PROVE  [Directory!Next]_(Directory!vars)
  <1>1. pc \in [Threads -> Labels] /\ loc \in [Threads -> Locals] /\ TablesOK /\ LocalsSet
    BY DEF TypeInv, ControlOK
  <1>2. PICK i : i = loc[t].inum
    OBVIOUS
  <1>3. CASE OpenEntry(t) \/ SymLinkEntry(t)
    <2>1. /\ pc[t] \in {"o_entry", "s_entry"} /\ UNCHANGED freeinode_ts
          /\ \/ /\ \E n \in {Path(t), loc[t].other} : CanAdd(n) /\ dir' = add_dir_entry(n, i)
                /\ pc' = [pc EXCEPT ![t] = "o_check"] \/ pc' = [pc EXCEPT ![t] = "idle"]
             \/ /\ UNCHANGED <<dir, loc>>
                /\ pc' = [pc EXCEPT ![t] = "o_undo"] \/ pc' = [pc EXCEPT ![t] = "s_undo"]
      BY <1>2, <1>3 DEF OpenEntry, SymLinkEntry, Goto, Return
    <2>2. i \in Inums /\ pc[t] \in Creators
      BY <1>1, <1>2, <2>1, BusyInum, BusyLabels DEF Creators
    <2>3. CASE /\ \E n \in {Path(t), loc[t].other} : CanAdd(n) /\ dir' = add_dir_entry(n, i)
               /\ pc' = [pc EXCEPT ![t] = "o_check"] \/ pc' = [pc EXCEPT ![t] = "idle"]
      <3>1. PICK n \in {Path(t), loc[t].other} : CanAdd(n) /\ dir' = add_dir_entry(n, i)
        BY <2>3
      <3>2. n \in Names \cup {NULL}
        BY <1>1, PathType DEF Locals
      <3>3. bound[n] = -1 /\ bound' = [bound EXCEPT ![n] = i]
        BY <1>1, <2>2, <3>1, <3>2, BoundAdded DEF NamesInv
      <3>4. pc'[t] \notin Creators
        BY <1>1, <2>3 DEF Creators
      <3>5. i \notin made /\ made' = made \cup {i}
        BY <1>2, <2>1, <2>2, <3>4, MadeMore DEF LinksInv
      <3>6. Directory!Create(n, i)
        BY <3>3, <3>5 DEF Directory!Create
      <3> QED BY <2>2, <3>2, <3>6 DEF Directory!Next
    <2>4. CASE /\ UNCHANGED <<dir, loc>>
               /\ pc' = [pc EXCEPT ![t] = "o_undo"] \/ pc' = [pc EXCEPT ![t] = "s_undo"]
      <3>1. pc'[t] \in Creators
        BY <1>1, <2>4 DEF Creators
      <3> QED BY <2>1, <2>2, <2>4, <3>1, NamespaceStutter
    <2> QED BY <2>1, <2>3, <2>4
  <1>4. CASE LinkEntry(t)
    <2>1. /\ pc[t] = "l_entry" /\ UNCHANGED freeinode_ts
          /\ \/ /\ CanAdd(loc[t].other) /\ dir' = add_dir_entry(loc[t].other, i)
                /\ pc' = [pc EXCEPT ![t] = "l_count"]
             \/ UNCHANGED dir /\ pc' = [pc EXCEPT ![t] = "idle"]
      BY <1>2, <1>4 DEF LinkEntry, Return, Goto
    <2>2. i \in Inums /\ loc[t].other \in Names
      BY <1>1, <1>2, <2>1, BusyInum DEF Busy, Linkers, LocalsSet, SetAt, WithOther
    <2>3. pc[t] \notin Creators /\ pc'[t] \notin Creators
      BY <1>1, <2>1 DEF Creators
    <2>4. CASE CanAdd(loc[t].other) /\ dir' = add_dir_entry(loc[t].other, i)
      <3>1. bound[loc[t].other] = -1 /\ bound' = [bound EXCEPT ![loc[t].other] = i]
        BY <1>1, <2>2, <2>4, BoundAdded DEF NamesInv
      <3>2. UNCHANGED made
        BY <2>1, <2>3, MadeSame DEF Makes, On
      <3>3. i \in made /\ Directory!Named(i)
        BY <1>2, <2>1, LinkedIsNamed
      <3>4. Directory!Link(loc[t].other, i)
        BY <3>1, <3>2, <3>3 DEF Directory!Link
      <3> QED BY <2>2, <3>4 DEF Directory!Next
    <2>5. CASE UNCHANGED dir
      BY <2>1, <2>3, <2>5, NamespaceStutter
    <2> QED BY <2>1, <2>4, <2>5
  <1> QED BY <1>3, <1>4

\* clear_dir_entry, called by tfs_unlink, and by tfs_link for a symbolic link.
LEMMA NamespaceClears ==
    ASSUME TypeInv, LocksHeld, NamesInv, LinksInv, NEW t \in Threads, Only(t),
           UnlinkClear(t) \/ LinkCount(t)
    PROVE  [Directory!Next]_(Directory!vars)
  <1>1. pc \in [Threads -> Labels] /\ loc \in [Threads -> Locals] /\ TablesOK /\ LocalsSet
    BY DEF TypeInv, ControlOK
  <1>2. PICK n : n = IF pc[t] = "u_clear" THEN loc[t].name ELSE loc[t].other
    OBVIOUS
  <1>3. /\ pc[t] \in {"u_clear", "l_count"} /\ UNCHANGED freeinode_ts
        /\ pc' = [pc EXCEPT ![t] = "u_count"] \/ pc' = [pc EXCEPT ![t] = "idle"]
        /\ UNCHANGED dir \/ dir' = clear_dir_entry(n)
    BY <1>2 DEF UnlinkClear, LinkCount, Goto, Return
  <1>4. pc[t] \notin Creators /\ pc'[t] \notin Creators
    BY <1>1, <1>3 DEF Creators
  <1>5. CASE UNCHANGED dir
    BY <1>3, <1>4, <1>5, NamespaceStutter
  <1>6. CASE dir' = clear_dir_entry(n)
    <2>1. n \in Names
      BY <1>1, <1>2, <1>3 DEF LocalsSet, SetAt, WithOther, WithName
    <2>2. \E e \in Live : dir[e].d_name = n
      BY <1>2, <1>3 DEF NamesInv, OwnEntry
    <2>3. bound[n] # -1 /\ bound' = [bound EXCEPT ![n] = -1]
      BY <1>1, <1>6, <2>1, <2>2, BoundCleared DEF NamesInv
    <2>4. UNCHANGED made
      BY <1>3, <1>4, MadeSame DEF Makes, On
    <2>5. Directory!Unlink(n)
      BY <2>3, <2>4 DEF Directory!Unlink
    <2> QED BY <2>1, <2>5 DEF Directory!Next
  <1> QED BY <1>3, <1>5, <1>6

\* inode_delete ends a file that lost its names, or one that never had any.
LEMMA NamespaceDeletes ==
    ASSUME TypeInv, LocksHeld, NamesInv, LinksInv, NEW t \in Threads, Acts(t), Only(t), Deletes(t)
    PROVE  [Directory!Next]_(Directory!vars)
  <1>1. pc \in [Threads -> Labels] /\ TablesOK /\ LocalsSet
    BY DEF TypeInv, ControlOK
  <1>2. PICK i : i = loc[t].inum
    OBVIOUS
  <1>3. pc[t] \in {"o_undo", "s_undo", "c_delete", "u_delete"} /\ i \in Inums
    BY <1>1, <1>2, DeleteEffect, Zenon
  <1>4. i \in freeinode_ts
    BY <1>2, DeleteSteps
  <1>5. /\ freeinode_ts' = freeinode_ts \ {i}
        /\ pc' = [pc EXCEPT ![t] = "idle"]
        /\ UNCHANGED dir
    BY <1>1, <1>2, <1>4, DeleteEffect, Zenon
  <1>6. pc[t] \in Creators \cup Deleters /\ pc'[t] \notin Creators
    BY <1>1, <1>3, <1>5 DEF Creators, Deleters
  <1>7. /\ pc[t] \in Creators => UNCHANGED made
        /\ pc[t] \in Deleters => i \in made /\ made' = made \ {i}
    BY <1>2, <1>4, <1>5, <1>6, MadeLess DEF LinksInv
  <1>8. UNCHANGED bound
    BY <1>5, BoundSame
  <1>9. CASE pc[t] \in Creators
    BY <1>7, <1>8, <1>9 DEF Directory!vars
  <1>10. CASE pc[t] \in Deleters
    <2>1. ~Directory!Named(i)
      BY <1>2, <1>10, DeletedIsNameless
    <2>2. Directory!Delete(i)
      BY <1>7, <1>8, <1>10, <2>1 DEF Directory!Delete
    <2> QED BY <1>3, <2>2 DEF Directory!Next
  <1> QED BY <1>6, <1>9, <1>10

\* tfs_destroy starts over.
LEMMA NamespaceRestarts ==
    ASSUME NEW t \in Threads, tfs_destroy(t)
    PROVE  [Directory!Next]_(Directory!vars)
  <1>1. freeinode_ts' = {} /\ dir' \in NewDirs(JunkNames)
    BY Zenon DEF tfs_destroy, StateReset
  <1>2. Live' = {}
    BY <1>1 DEF NewDirs, Live
  <1>3. \A n : find_in_dir(n)' = -1
    BY <1>2, FoundAfter
  <1>4. bound' = [n \in Names \cup {NULL} |-> find_in_dir(n)']
    BY DEF bound
  <1>5. bound' = [n \in Names \cup {NULL} |-> -1]
    BY <1>3, <1>4
  <1>6. made' = {}
    BY <1>1 DEF made
  <1> QED BY <1>5, <1>6 DEF Directory!Next, Directory!Restart

\* The steps of a thread that makes an inode, before its entry.
LEMMA NamespaceMakes ==
    ASSUME TypeInv, NEW t \in Threads, Only(t),
           \/ OpenAlloc(t) \/ SymLinkAlloc(t)
           \/ OpenInit(t) \/ SymLinkInit(t) \/ SymLinkBlock(t)
    PROVE  UNCHANGED Directory!vars
  <1>1. pc \in [Threads -> Labels] /\ loc \in [Threads -> Locals]
    BY DEF TypeInv, ControlOK
  <1>2. CASE OpenAlloc(t) \/ SymLinkAlloc(t)
    <2>1. PICK m : m = Min(FreeInums)
      OBVIOUS
    <2>2. /\ pc[t] \in {"o_alloc", "s_alloc"} /\ UNCHANGED dir
          /\ \/ UNCHANGED freeinode_ts /\ pc' = [pc EXCEPT ![t] = "idle"]
             \/ /\ FreeInums # {} /\ freeinode_ts' = freeinode_ts \cup {m}
                /\ pc' = [pc EXCEPT ![t] = "o_init"] \/ pc' = [pc EXCEPT ![t] = "s_init"]
                /\ loc' = [loc EXCEPT ![t].inum = m]
      BY <1>2, <2>1 DEF OpenAlloc, SymLinkAlloc, Return, Goto
    <2>3. pc[t] \notin Creators
      BY <2>2 DEF Creators
    <2>4. CASE UNCHANGED freeinode_ts /\ pc' = [pc EXCEPT ![t] = "idle"]
      <3>1. pc'[t] \notin Creators
        BY <1>1, <2>4 DEF Creators
      <3> QED BY <2>2, <2>3, <2>4, <3>1, NamespaceStutter
    <2>5. CASE /\ FreeInums # {} /\ freeinode_ts' = freeinode_ts \cup {m}
               /\ pc' = [pc EXCEPT ![t] = "o_init"] \/ pc' = [pc EXCEPT ![t] = "s_init"]
               /\ loc' = [loc EXCEPT ![t].inum = m]
      <3>1. m \notin freeinode_ts
        BY <2>1, <2>5, FirstFreeInode DEF TypeInv
      <3>2. pc'[t] \in Creators
        BY <1>1, <2>5 DEF Creators
      <3>3. loc'[t].inum = m
        BY <1>1, <2>5, Zenon DEF Locals
      <3>4. \A i : (Makes(t, i)' <=> i = m) /\ ~Makes(t, i)
        BY <2>3, <3>2, <3>3 DEF Makes, On
      <3>5. UNCHANGED made
        BY <2>5, <3>1, <3>4, MadeSame
      <3> QED BY <2>2, <3>5, BoundSame DEF Directory!vars
    <2> QED BY <2>2, <2>4, <2>5
  <1>3. CASE OpenInit(t) \/ SymLinkInit(t) \/ SymLinkBlock(t)
    <2>1. /\ pc[t] \in {"o_init", "s_init", "s_block"} /\ UNCHANGED <<freeinode_ts, dir, loc>>
          /\ \/ pc' = [pc EXCEPT ![t] = "o_entry"] \/ pc' = [pc EXCEPT ![t] = "s_block"]
             \/ pc' = [pc EXCEPT ![t] = "s_undo"] \/ pc' = [pc EXCEPT ![t] = "s_entry"]
      BY <1>3, Zenon DEF OpenInit, SymLinkInit, SymLinkBlock, Goto
    <2>2. pc[t] \in Creators /\ pc'[t] \in Creators
      BY <1>1, <2>1 DEF Creators
    <2> QED BY <2>1, <2>2, NamespaceStutter
  <1> QED BY <1>2, <1>3

\* All the other steps leave names and files alone.
LEMMA NamespaceQuiet ==
    ASSUME TypeInv, NEW t \in Threads, Only(t),
           \/ Begins(t) \/ OpenLookup(t) \/ OpenFile(t) \/ OpenSymLink(t) \/ OpenCheck(t)
           \/ OpenTable(t) \/ tfs_close(t) \/ CopyClose(t)
           \/ tfs_write(t) \/ tfs_read(t) \/ CopyWrite(t)
           \/ LinkLookup(t) \/ UnlinkLookup(t) \/ UnlinkCount(t)
    PROVE  UNCHANGED Directory!vars
  <1>1. pc \in [Threads -> Labels]
    BY DEF TypeInv, ControlOK
  <1>2. CASE Begins(t)
    <2>1. /\ UNCHANGED tables /\ pc[t] = "idle"
          /\ \E l \in FirstLabels : pc' = [pc EXCEPT ![t] = l]
      BY <1>2, BeginsEffect, Zenon
    <2>2. pc[t] \notin Creators /\ pc'[t] \notin Creators
      BY <1>1, <2>1 DEF FirstLabels, Creators
    <2> QED BY <2>1, <2>2, NamespaceStutter DEF tables
  <1>3. CASE OpenLookup(t) \/ OpenFile(t) \/ OpenSymLink(t) \/ OpenCheck(t) \/ OpenTable(t)
    <2>1. UNCHANGED <<dir, freeinode_ts>>
      BY <1>3, Zenon DEF OpenLookup, OpenFile, OpenSymLink, OpenCheck, OpenTable, Panic, tables
    <2>2. \/ UNCHANGED <<pc, loc>>
          \/ /\ pc[t] \in {"o_lookup", "o_inode", "o_check", "o_table"}
             /\ \E l \in {"o_inode", "o_alloc", "idle", "o_lookup", "o_table", "o_check", "x_write"} :
                    pc' = [pc EXCEPT ![t] = l]
      BY <1>3 DEF OpenLookup, OpenFile, OpenSymLink, OpenCheck, OpenTable, Panic, Return, Goto
    <2>3. UNCHANGED <<pc, loc>> \/ (pc[t] \notin Creators /\ pc'[t] \notin Creators)
      BY <1>1, <2>2 DEF Creators
    <2> QED BY <2>1, <2>3, NamespaceStutter
  <1>4. CASE tfs_close(t) \/ CopyClose(t)
    <2>1. PICK from \in {"idle", "x_write", "x_close"} :
             \E h : remove_from_open_file_table(t, from, h)
      BY <1>4 DEF tfs_close, CopyClose
    <2>2. /\ UNCHANGED tables
          /\ \/ UNCHANGED <<pc, loc>>
             \/ /\ pc[t] = from
                /\ \E l \in {"c_delete", "idle"} : pc' = [pc EXCEPT ![t] = l]
      BY <2>1 DEF remove_from_open_file_table, Return, Goto
    <2>3. UNCHANGED <<pc, loc>> \/ (pc[t] \notin Creators /\ pc'[t] \notin Creators)
      BY <1>1, <2>2 DEF Creators
    <2> QED BY <2>2, <2>3, NamespaceStutter DEF tables
  <1>5. CASE tfs_write(t) \/ tfs_read(t) \/ CopyWrite(t)
    <2>1. UNCHANGED <<dir, freeinode_ts>>
      BY <1>5, Zenon DEF tfs_write, tfs_read, CopyWrite, tables
    <2>2. /\ pc[t] \in {"w_entry", "r_entry", "x_write"}
          /\ \E l \in {"idle", "x_write", "x_close"} : pc' = [pc EXCEPT ![t] = l]
      BY <1>5, Zenon DEF tfs_write, tfs_read, CopyWrite, Return, Goto
    <2>3. pc[t] \notin Creators /\ pc'[t] \notin Creators
      BY <1>1, <2>2 DEF Creators
    <2> QED BY <2>1, <2>3, NamespaceStutter
  <1>6. CASE LinkLookup(t) \/ UnlinkLookup(t) \/ UnlinkCount(t)
    <2>1. UNCHANGED <<dir, freeinode_ts>>
      BY <1>6, Zenon DEF LinkLookup, UnlinkLookup, UnlinkCount, tables
    <2>2. /\ pc[t] \in {"l_lookup", "u_lookup", "u_count"}
          /\ \E l \in {"idle", "l_entry", "u_clear", "u_delete"} : pc' = [pc EXCEPT ![t] = l]
      BY <1>6 DEF LinkLookup, UnlinkLookup, UnlinkCount, Return, Goto
    <2>3. pc[t] \notin Creators /\ pc'[t] \notin Creators
      BY <1>1, <2>2 DEF Creators
    <2> QED BY <2>1, <2>3, NamespaceStutter
  <1> QED BY <1>2, <1>3, <1>4, <1>5, <1>6

\* Every step of a thread is a step of the namespace, or does not show there.
LEMMA NamespaceStep ==
    ASSUME TypeInv, LocksHeld, NamesInv, LinksInv, NEW t \in Threads, Acts(t)
    PROVE  [Directory!Next]_(Directory!vars)
  <1>1. Only(t)
    BY OthersStay DEF Only
  <1>2. CASE Deletes(t)
    BY <1>1, <1>2, NamespaceDeletes
  <1>3. CASE tfs_destroy(t)
    BY <1>3, NamespaceRestarts
  <1>4. CASE OpenEntry(t) \/ SymLinkEntry(t) \/ LinkEntry(t)
    BY <1>1, <1>4, NamespaceAdds
  <1>5. CASE UnlinkClear(t) \/ LinkCount(t)
    BY <1>1, <1>5, NamespaceClears
  <1>6. CASE \/ OpenAlloc(t) \/ SymLinkAlloc(t)
             \/ OpenInit(t) \/ SymLinkInit(t) \/ SymLinkBlock(t)
    BY <1>1, <1>6, NamespaceMakes
  <1>7. CASE \/ Begins(t) \/ OpenLookup(t) \/ OpenFile(t) \/ OpenSymLink(t) \/ OpenCheck(t)
             \/ OpenTable(t) \/ tfs_close(t) \/ CopyClose(t)
             \/ tfs_write(t) \/ tfs_read(t) \/ CopyWrite(t)
             \/ LinkLookup(t) \/ UnlinkLookup(t) \/ UnlinkCount(t)
    BY <1>1, <1>7, NamespaceQuiet
  <1> QED BY <1>2, <1>3, <1>4, <1>5, <1>6, <1>7
          DEF Acts, Invoke, Step, Begins, Deletes, tfs_open, tfs_sym_link, tfs_link, tfs_unlink

\* ImplementsNamespace: for any number of threads and size of the tables the calls of
\* operations.c are atomic on names and files.  A creation takes effect when its entry is
\* made, tfs_link likewise, tfs_unlink when the entry is cleared; the file goes in
\* inode_delete.
THEOREM DirectoryImplementsNamespace == Spec => ImplementsNamespace
  <1>1. Init => Directory!Init
    <2> SUFFICES ASSUME Init PROVE Directory!Init
      OBVIOUS
    <2>1. freeinode_ts = {} /\ dir \in NewDirs(JunkNames)
      BY DEF Init, StateInit
    <2>2. Live = {}
      BY <2>1 DEF NewDirs, Live
    <2>3. \A n : find_in_dir(n) = -1
      BY <2>2 DEF find_in_dir
    <2> QED BY <2>1, <2>3 DEF Directory!Init, bound, made
  <1>2. ASSUME TypeInv, LocksHeld, NamesInv, LinksInv, [Next]_vars
        PROVE  [Directory!Next]_(Directory!vars)
    <2>1. CASE Next
      <3>1. PICK t \in Threads : Acts(t)
        BY <2>1 DEF Next, Acts
      <3> QED BY <1>2, <3>1, NamespaceStep
    <2>2. CASE UNCHANGED vars
      <3>1. UNCHANGED <<dir, freeinode_ts, pc, loc>>
        BY <2>2 DEF vars, tables
      <3>2. UNCHANGED made
        BY <3>1 DEF made
      <3> QED BY <3>1, <3>2, BoundSame DEF Directory!vars
    <2> QED BY <1>2, <2>1, <2>2
  <1> QED BY <1>1, <1>2, LinksInvariant, PTL DEF Spec, ImplementsNamespace, Directory!Spec
=============================================================================
