------------------------------- MODULE Fat32 -------------------------------
(* The FAT32 filesystem (kernel/fs/fat/fat32.c) and its VFS adapter          *)
(* (fat32_vfs.c): the mirrored file allocation table with its one-sector     *)
(* cache, the entries of one directory, the FSInfo free count, and the file  *)
(* sizes the adapter caches.                                                 *)
(*                                                                           *)
(* Every call holds write_lock with interrupts disabled and the scheduler    *)
(* runs on one processor, so calls do not interleave; what can come between  *)
(* two writes of a call is a failed transfer or the loss of power            *)
(* (FaultyDisk).  The table fits in the cached sector; a directory fits in   *)
(* one cluster.  A call that reads a sector, changes it and writes it back   *)
(* is one write: a failed read leaves what a failed write leaves.  The       *)
(* next-free hint of FSInfo is written and never used, and is left out.      *)
EXTENDS FaultyDisk, Integers, FiniteSets, SequencesExt

CONSTANTS
    FatClusters,     \* data clusters of the volume, the root directory's included
    FatCopies,       \* how many copies of the table the volume keeps
    FatClusterSize,  \* bytes in a cluster
    FatNames,        \* short names
    FatSlots,        \* entries the directory has room for
    FatMaxSize,      \* bound: the largest file
    FatFaults,       \* bound: transfers that fail
    FatCrashes       \* bound: power failures

VARIABLES
    fat32,     \* the volume and its in-memory state (fat32_fs_t)
    fatSize    \* fat32_vfs_file_t.size of each name, or Unreached

fat32Vars == <<fat32, fatSize>>

RootCluster == 2
Clusters == RootCluster .. FatClusters + 1
FreeMark == 0
EndMark == FatClusters + 2
NoCluster == 0
UnknownCount == -1   \* 0xffffffff
NoFatCache == <<>>
Unreached == -1
NoEntry == [name |-> "", directory |-> FALSE, first |-> NoCluster, size |-> 0]

cluster_valid(c) == c \in Clusters

Fat32Init ==
    /\ fat32 = [fat |-> [k \in 1 .. FatCopies |->
                            [c \in Clusters |-> IF c = RootCluster THEN EndMark ELSE FreeMark]],
                entries |-> [s \in 1 .. FatSlots |-> NoEntry],
                fsinfo |-> FatClusters - 1,
                count |-> FatClusters - 1,
                cache |-> NoFatCache,
                found |-> NoCluster] @@ DiskFields(FatFaults, FatCrashes)
    /\ fatSize = [n \in FatNames |-> Unreached]

-----------------------------------------------------------------------------
(* The table. *)

(* Loads the table's sector into the cache, which answers fat_next until the *)
(* next fat_set.                                                             *)
fat_load_sector(S) ==
    IF S.cache # NoFatCache THEN {[S EXCEPT !.ok = S.up]}
    ELSE Then(DiskRead(S), LAMBDA T : {[T EXCEPT !.cache = T.fat[1]]})

RECURSIVE SetCopies(_, _, _, _)
SetCopies(S, c, value, copy) ==
    IF copy > FatCopies THEN {[S EXCEPT !.cache = NoFatCache, !.ok = TRUE]}
    ELSE Then(DiskWrite(S, [S EXCEPT !.fat[copy][c] = value]),
              LAMBDA T : SetCopies(T, c, value, copy + 1))

(* Writes the copies one after the other; the cache is dropped only once all *)
(* are written.                                                              *)
fat_set(S, c, value) ==
    IF cluster_valid(c) THEN SetCopies(S, c, value, 1) ELSE {[S EXCEPT !.ok = FALSE]}

(* The cluster n links after c in table f, NoCluster where the chain ends or *)
(* leaves the volume first.                                                  *)
RECURSIVE Walk(_, _, _)
Walk(f, c, n) ==
    IF ~cluster_valid(c) THEN NoCluster
    ELSE IF n = 0 THEN c ELSE Walk(f, f[c], n - 1)

(* The chain from c in table f, at most n clusters of it. *)
RECURSIVE ChainFrom(_, _, _)
ChainFrom(f, c, n) ==
    IF n = 0 \/ ~cluster_valid(c) THEN <<>> ELSE <<c>> \o ChainFrom(f, f[c], n - 1)
Chain(f, c) == ChainFrom(f, c, FatClusters)

(* The first free cluster, in `found`. *)
fat32_find_free_cluster(S) ==
    Then(fat_load_sector(S),
         LAMBDA T : LET free == {c \in Clusters : T.cache[c] = FreeMark}
                    IN  {IF free = {} THEN [T EXCEPT !.ok = FALSE]
                         ELSE [T EXCEPT !.found = Min(free)]})

(* The free count after a change by delta: unknown once it would leave the   *)
(* volume's range.                                                           *)
AdjustedCount(count, delta) ==
    IF count = UnknownCount \/ count + delta \notin 0 .. FatClusters
    THEN UnknownCount ELSE count + delta

fat32_fsinfo_adjust(S, delta) ==
    Then(DiskRead(S),
         LAMBDA T : LET M == [T EXCEPT !.count = AdjustedCount(@, delta)]
                    IN  DiskWrite(M, [M EXCEPT !.fsinfo = M.count]))

RECURSIVE FreeFrom(_, _, _)
FreeFrom(S, c, hops) ==
    IF hops = 0 \/ ~cluster_valid(c) THEN {S}
    ELSE Then(fat_load_sector(S),
              LAMBDA T : Then(fat_set(T, c, FreeMark),
                  LAMBDA U : Always(fat32_fsinfo_adjust(U, 1),
                      LAMBDA V : FreeFrom(V, T.cache[c], hops - 1))))

fat32_free_chain(S, first) == FreeFrom(S, first, FatClusters)

-----------------------------------------------------------------------------
(* The directory. *)

SlotsOf(S, name) == {s \in 1 .. FatSlots : S.entries[s].name = name}
FreeSlots(S) == {s \in 1 .. FatSlots : S.entries[s] = NoEntry}

(* Whether a name resolves: a regular file needs a cluster unless it is      *)
(* empty.  A failed read looks like an absent name.                          *)
fat32_lookup_in_directory(S, name) ==
    {[T EXCEPT !.ok = @ /\ SlotsOf(T, name) # {}
                        /\ LET e == T.entries[Min(SlotsOf(T, name))]
                           IN  cluster_valid(e.first) \/ (~e.directory /\ e.size = 0)] :
        T \in DiskRead(S)}

(* The regular file called name. *)
fat32_find_entry(S, name) ==
    {[T EXCEPT !.ok = @ /\ SlotsOf(T, name) # {}
                        /\ ~T.entries[Min(SlotsOf(T, name))].directory] :
        T \in DiskRead(S)}

fat32_find_free_entry(S) == {[T EXCEPT !.ok = @ /\ FreeSlots(T) # {}] : T \in DiskRead(S)}

fat32_update_entry(S, s, first, size) ==
    DiskWrite(S, [S EXCEPT !.entries[s].first = first, !.entries[s].size = size])

WriteEntry(S, s, entry) == DiskWrite(S, [S EXCEPT !.entries[s] = entry])

-----------------------------------------------------------------------------
(* The calls.  Each is the set of volumes it may leave, `ok` its result. *)

(* The data writes of size bytes at offset: they need the chain, and change  *)
(* no metadata.                                                              *)
WriteData(S, e, offset, size) ==
    Then(fat_load_sector(S),
         LAMBDA T : IF Walk(T.cache, e.first, (offset + size - 1) \div FatClusterSize) = NoCluster
                    THEN {[T EXCEPT !.ok = FALSE]}
                    ELSE DiskWrite(T, T))

fat32_write_file_unlocked(S, name, offset, size) ==
    Then(fat32_lookup_in_directory(S, name),
         LAMBDA T : LET e == T.entries[Min(SlotsOf(T, name))]
                    IN  IF e.directory \/ offset + size > e.size
                        THEN {[T EXCEPT !.ok = FALSE]}
                        ELSE WriteData(T, e, offset, size))

(* Allocates need clusters and links them after last; the first of them is   *)
(* left in `found`.  A failure frees what was allocated.                     *)
RECURSIVE GrowChain(_, _, _, _)
GrowChain(S, need, first, last) ==
    IF need = 0 THEN {[S EXCEPT !.ok = TRUE, !.found = first]}
    ELSE Always(Then(fat32_find_free_cluster(S), LAMBDA T : fat_set(T, T.found, EndMark)),
         LAMBDA U :
           IF ~U.ok THEN Refuse(fat32_free_chain(U, first))
           ELSE Always(fat32_fsinfo_adjust(U, -1),
                LAMBDA V :
                  IF last = NoCluster THEN GrowChain(V, need - 1, V.found, V.found)
                  ELSE Always(fat_set(V, last, V.found),
                       LAMBDA W :
                         IF W.ok THEN GrowChain(W, need - 1, first, W.found)
                         ELSE Refuse(Always(fat_set(W, W.found, FreeMark),
                                            LAMBDA X : fat32_free_chain(X, first))))))

(* Detaches the clusters an append added: the old tail ends the chain again. *)
UndoGrowth(S, tail, added) ==
    Refuse(Always(IF tail # NoCluster THEN fat_set(S, tail, EndMark) ELSE {S},
                  LAMBDA T : fat32_free_chain(T, added)))

(* The part of an append after the allocation, with the new clusters in      *)
(* `found`: link, entry, data.                                               *)
PublishGrowth(S, name, s, old, tail, size) ==
    LET added == S.found
        first == IF old.first = NoCluster THEN added ELSE old.first
    IN  Always(IF added # NoCluster /\ tail # NoCluster THEN fat_set(S, tail, added)
               ELSE {[S EXCEPT !.ok = TRUE]},
        LAMBDA T :
          IF ~T.ok THEN Refuse(fat32_free_chain(T, added))
          ELSE Always(fat32_update_entry(T, s, first, old.size + size),
               LAMBDA U :
                 IF ~U.ok THEN UndoGrowth(U, tail, added)
                 ELSE Always(fat32_write_file_unlocked(U, name, old.size, size),
                      LAMBDA V :
                        IF V.ok THEN {V}
                        ELSE Always(fat32_update_entry(V, s, first, old.size),
                                    LAMBDA W : UndoGrowth(W, tail, added)))))

fat32_append_file_in_directory(S, name, size) ==
    Then(fat32_find_entry(S, name),
    LAMBDA T :
      LET s == Min(SlotsOf(T, name))
          old == T.entries[s]
      IN  Then(IF cluster_valid(old.first) THEN fat_load_sector(T) ELSE {T},
          LAMBDA U :
            LET chain == IF cluster_valid(old.first) THEN Chain(U.cache, old.first) ELSE <<>>
                tail == IF chain = <<>> THEN NoCluster ELSE Last(chain)
                required == CeilDiv(old.size + size, FatClusterSize)
            IN  IF \/ tail # NoCluster /\ U.cache[tail] = FreeMark
                   \/ old.size # 0 /\ chain = <<>>
                   \/ required > FatClusters
                THEN {[U EXCEPT !.ok = FALSE]}
                ELSE Then(GrowChain(U, IF required > Len(chain) THEN required - Len(chain) ELSE 0,
                                    NoCluster, NoCluster),
                          LAMBDA V : PublishGrowth(V, name, s, old, tail, size))))

(* The writes of a truncation: entry, end mark, then the detached clusters. *)
PublishTruncation(S, s, first, size, retained, detached) ==
    Then(fat32_update_entry(S, s, IF retained = NoCluster THEN NoCluster ELSE first, size),
    LAMBDA T : Then(IF retained = NoCluster THEN {T} ELSE fat_set(T, retained, EndMark),
               LAMBDA U : Accept(fat32_free_chain(U, detached))))

fat32_truncate_file_in_directory(S, name, size) ==
    Then(fat32_find_entry(S, name),
    LAMBDA T :
      LET s == Min(SlotsOf(T, name))
          first == T.entries[s].first
          required == CeilDiv(size, FatClusterSize)
      IN  IF size > T.entries[s].size THEN {[T EXCEPT !.ok = FALSE]}
          ELSE IF size = T.entries[s].size THEN {T}
          ELSE IF required = 0 THEN PublishTruncation(T, s, first, size, NoCluster, first)
          ELSE Then(fat_load_sector(T),
               LAMBDA U :
                 LET retained == Walk(U.cache, first, required - 1)
                 IN  IF retained = NoCluster THEN {[U EXCEPT !.ok = FALSE]}
                     ELSE PublishTruncation(U, s, first, size, retained, U.cache[retained])))

(* A lookup that finds the name refuses the call; one that fails to read the *)
(* directory does not.                                                       *)
fat32_create_file_in_directory(S, name) ==
    Always(fat32_lookup_in_directory(S, name),
    LAMBDA T : IF T.ok THEN Refuse({T})
               ELSE Then(fat32_find_free_entry(T),
                    LAMBDA U : WriteEntry(U, Min(FreeSlots(U)), [NoEntry EXCEPT !.name = name])))

(* The writes of a directory's creation, its cluster in `found`: table,      *)
(* free count, the child's sectors, the parent's entry.                      *)
PublishDirectory(S, name, s) ==
    Then(fat_set(S, S.found, EndMark),
    LAMBDA T : Always(fat32_fsinfo_adjust(T, -1),
               LAMBDA U :
                 Always(Then(DiskWrite(U, U),
                             LAMBDA V : WriteEntry(V, s, [name |-> name, directory |-> TRUE,
                                                          first |-> V.found, size |-> 0])),
                        LAMBDA W : IF W.ok THEN {W}
                                   ELSE Refuse(fat32_free_chain(W, W.found)))))

fat32_create_directory_in_directory(S, name) ==
    Always(fat32_lookup_in_directory(S, name),
    LAMBDA T : IF T.ok THEN Refuse({T})
               ELSE Then(fat32_find_free_entry(T),
                    LAMBDA U : Then(fat32_find_free_cluster(U),
                               LAMBDA V : PublishDirectory(V, name, Min(FreeSlots(V))))))

fat32_unlink_file_in_directory(S, name) ==
    Then(fat32_find_entry(S, name),
    LAMBDA T : LET s == Min(SlotsOf(T, name))
               IN  Then(WriteEntry(T, s, NoEntry),
                        LAMBDA U : Accept(fat32_free_chain(U, T.entries[s].first))))

-----------------------------------------------------------------------------
(* The actions. *)

(* What a call leaves: the registers of the call are dropped, and everything *)
(* in memory is gone with the power.                                         *)
Settled(T) ==
    IF T.up THEN [T EXCEPT !.found = NoCluster, !.ok = TRUE]
    ELSE [T EXCEPT !.found = NoCluster, !.ok = TRUE, !.cache = NoFatCache, !.count = UnknownCount]

(* The volume takes calls.  Bound: a behaviour is followed to the end of the *)
(* call in which a transfer fails.                                           *)
Ready == fat32.up /\ ~fat32.marred

(* One call through the filesystem's interface. *)
Called(Ts) ==
    \E T \in Ts :
        /\ fat32' = Settled(T)
        /\ fatSize' = IF T.up THEN fatSize ELSE [n \in FatNames |-> Unreached]

(* One call through the adapter: it changes the size it keeps only when the  *)
(* filesystem reports success.                                               *)
CalledThrough(name, Ts, size) ==
    \E T \in Ts :
        /\ fat32' = Settled(T)
        /\ fatSize' = IF ~T.up THEN [n \in FatNames |-> Unreached]
                      ELSE IF T.ok THEN [fatSize EXCEPT ![name] = size] ELSE fatSize

fat32_create_file(name) ==
    Ready /\ Called(fat32_create_file_in_directory(fat32, name))

fat32_create_directory(name) ==
    Ready /\ Called(fat32_create_directory_in_directory(fat32, name))

(* The adapter installs no unlink callback: a file is unlinked through the   *)
(* filesystem's interface, and only while no node is attached to it.         *)
fat32_unlink_file(name) ==
    /\ Ready /\ fatSize[name] = Unreached
    /\ Called(fat32_unlink_file_in_directory(fat32, name))

fat32_vfs_attach_file(name) ==
    /\ Ready /\ fatSize[name] = Unreached
    /\ \E T \in fat32_lookup_in_directory(fat32, name) :
        LET e == T.entries[Min(SlotsOf(T, name))]
        IN  /\ fat32' = Settled(T)
            /\ fatSize' = IF T.ok THEN IF e.directory THEN fatSize
                                       ELSE [fatSize EXCEPT ![name] = e.size]
                          ELSE fatSize

(* A write inside the file, or an append at its end; any other is refused. *)
fat32_vfs_write(name, offset, size) ==
    /\ Ready /\ fatSize[name] # Unreached
    /\ offset + size <= FatMaxSize
    /\ \/ /\ offset + size <= fatSize[name]
          /\ CalledThrough(name, fat32_write_file_unlocked(fat32, name, offset, size),
                           fatSize[name])
       \/ /\ offset = fatSize[name]
          /\ CalledThrough(name, fat32_append_file_in_directory(fat32, name, size),
                           fatSize[name] + size)

fat32_vfs_truncate(name, size) ==
    /\ Ready /\ fatSize[name] # Unreached /\ size <= fatSize[name]
    /\ CalledThrough(name, fat32_truncate_file_in_directory(fat32, name, size), size)

(* The next boot, after the power failed or between two calls: the cache is  *)
(* empty, FSInfo is read again, and no file is attached.                     *)
fat32_mount ==
    /\ ~fat32.marred
    /\ fat32' = [fat32 EXCEPT !.up = TRUE, !.cache = NoFatCache, !.count = fat32.fsinfo]
    /\ fatSize' = [n \in FatNames |-> Unreached]

Fat32Next ==
    \/ fat32_mount
    \/ \E name \in FatNames :
        \/ fat32_create_file(name)
        \/ fat32_create_directory(name)
        \/ fat32_unlink_file(name)
        \/ fat32_vfs_attach_file(name)
        \/ \E size \in 0 .. FatMaxSize : fat32_vfs_truncate(name, size)
        \/ \E offset \in 0 .. FatMaxSize, size \in 1 .. FatMaxSize :
              fat32_vfs_write(name, offset, size)

Fat32Spec == Fat32Init /\ [][Fat32Next]_fat32Vars

-----------------------------------------------------------------------------
(* Properties. *)

Fat32TypeOK ==
    /\ fat32.fat \in [1 .. FatCopies -> [Clusters -> Clusters \cup {FreeMark, EndMark}]]
    /\ \A s \in 1 .. FatSlots :
          /\ fat32.entries[s].name \in FatNames \cup {""}
          /\ fat32.entries[s].first \in Clusters \cup {NoCluster}
          /\ fat32.entries[s].size \in Nat
    /\ {fat32.count, fat32.fsinfo} \subseteq 0 .. FatClusters \cup {UnknownCount}
    /\ fatSize \in [FatNames -> Nat \cup {Unreached}]

ChainOf(s) == Chain(fat32.fat[1], fat32.entries[s].first)
UsedSlots == {s \in 1 .. FatSlots : fat32.entries[s] # NoEntry}

(* Whatever write the power fails after, and without it, the directory names *)
(* only clusters the table holds for it: the chain of every entry ends with  *)
(* the end mark, is long enough for the entry's size, and shares no cluster  *)
(* with another entry's or the root directory's.  This is the order of the   *)
(* writes in append (table, entry, data), truncate (entry, table) and unlink *)
(* (entry, table).                                                           *)
Fat32CrashSafe ==
    fat32.present /\ ~fat32.marred =>
        /\ \A s \in UsedSlots :
              /\ ChainOf(s) # <<>> => fat32.fat[1][Last(ChainOf(s))] = EndMark
              /\ Len(ChainOf(s)) * FatClusterSize >= fat32.entries[s].size
              /\ RootCluster \notin Range(ChainOf(s))
        /\ \A s, t \in UsedSlots :
              s # t => Range(ChainOf(s)) \cap Range(ChainOf(t)) = {}

(* Without a failed transfer or a power failure no cluster is lost: every    *)
(* cluster the table marks used is the root directory's or in the chain of   *)
(* an entry, and the copies of the table are equal.                          *)
Fat32NothingLost ==
    fat32.present /\ ~fat32.marred /\ ~fat32.cut =>
        /\ {c \in Clusters : fat32.fat[1][c] # FreeMark} \ {RootCluster}
              = UNION {Range(ChainOf(s)) : s \in UsedSlots}
        /\ \A k \in 2 .. FatCopies : fat32.fat[k] = fat32.fat[1]

(* Without a failed transfer or a power failure the free count, in memory    *)
(* and in the FSInfo sector, is the number of free clusters: appends,        *)
(* truncations, unlinks and new directories adjust it by what they take and  *)
(* return (ROADMAP: "keeps its free-cluster count and next-free hint         *)
(* synchronized across bounded append allocation and chain release").        *)
FsInfoExact ==
    fat32.present /\ ~fat32.marred /\ ~fat32.cut =>
        /\ fat32.count = Cardinality({c \in Clusters : fat32.fat[1][c] = FreeMark})
        /\ fat32.fsinfo = fat32.count

(* The cached sector is the first table's: a chain is never followed, and a  *)
(* cluster never allocated, from links the disk no longer holds.             *)
FatCacheCurrent ==
    fat32.present /\ ~fat32.marred /\ fat32.cache # NoFatCache => fat32.cache = fat32.fat[1]

(* The size the adapter keeps for an attached file is the size of its        *)
(* directory entry, also after a call that failed for want of clusters.      *)
Fat32SizeAgrees ==
    fat32.present /\ ~fat32.marred =>
        \A name \in FatNames : fatSize[name] # Unreached =>
            \E s \in UsedSlots : /\ fat32.entries[s].name = name
                                 /\ fat32.entries[s].size = fatSize[name]

(* A transfer that fails inside a call leaves every entry with clusters for  *)
(* its size and no cluster in two chains, unless the medium took the write   *)
(* that was reported to have failed: what append, truncate, unlink and       *)
(* directory creation undo, and in which order.                              *)
Fat32FailureContained ==
    fat32.present /\ ~fat32.late =>
        /\ \A s \in UsedSlots :
              Len(ChainOf(s)) * FatClusterSize >= fat32.entries[s].size
        /\ \A s, t \in UsedSlots :
              s # t => Range(ChainOf(s)) \cap Range(ChainOf(t)) = {}

=============================================================================
