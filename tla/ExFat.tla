------------------------------- MODULE ExFat -------------------------------
(* The exFAT filesystem (kernel/fs/exfat/exfat.c) and its VFS adapter        *)
(* (exfat_vfs.c): the allocation table, directories of entry sets, and the   *)
(* file sizes the adapter caches.  As for FAT32, every call holds the write  *)
(* lock with interrupts disabled on the one scheduled processor; what comes  *)
(* between two writes of a call is a failed transfer (FaultyDisk).           *)
(*                                                                           *)
(* A directory is one cluster of a few entry sets.  Deleting a set clears    *)
(* the in-use bit of its entries, which leaves secondary entry types that    *)
(* exfat_find_free_entries does not count as free: a deleted set is not      *)
(* used again.  A contiguous file has no links in the table                  *)
(* (NoFatChain); this code never makes one, it finds them on the volume.     *)
(* The code takes a cluster for free when the table says so; it does not     *)
(* read the volume's allocation bitmap.                                      *)
EXTENDS FaultyDisk, Integers, FiniteSets, SequencesExt

CONSTANTS
    ExClusters,      \* clusters of the volume, the root directory's included
    ExClusterSize,   \* bytes in a cluster
    ExNames,         \* names, equal up to case
    ExSets,          \* entry sets a directory cluster has room for
    ExContiguous,    \* initial: clusters of the contiguous file on the volume (0: none)
    ExMaxSize,       \* bound: the largest file
    ExFaults         \* bound: transfers that fail

VARIABLES
    exfat,      \* the volume
    exfatSize   \* exfat_vfs_file_t.size of each name attached in the root, or ExDetached

exfatVars == <<exfat, exfatSize>>

ExRoot == 2
ExHeap == ExRoot .. ExClusters + 1
EXFAT_FREE == 0
EXFAT_END == ExClusters + 2
ExNoCluster == 0
ExDetached == -1
Unused == [name |-> "unused", directory |-> FALSE, first |-> ExNoCluster, size |-> 0,
           contiguous |-> FALSE]
Deleted == [Unused EXCEPT !.name = "deleted"]
ZeroedDirectory == [i \in 1 .. ExSets |-> Unused]

exfat_cluster_valid(c) == c \in ExHeap

(* A contiguous file of ExContiguous clusters, behind the root directory. *)
ForeignFile == [name |-> CHOOSE n \in ExNames : TRUE, directory |-> FALSE, first |-> ExRoot + 1,
                size |-> ExContiguous * ExClusterSize, contiguous |-> TRUE]

ExFatInit ==
    /\ exfat = [fat |-> [c \in ExHeap |-> IF c = ExRoot THEN EXFAT_END ELSE EXFAT_FREE],
                dirs |-> [c \in ExHeap |->
                            IF c = ExRoot /\ ExContiguous > 0
                            THEN [ZeroedDirectory EXCEPT ![1] = ForeignFile]
                            ELSE ZeroedDirectory],
                found |-> ExNoCluster] @@ DiskFields(ExFaults, 0)
    /\ exfatSize = [n \in ExNames |-> ExDetached]

-----------------------------------------------------------------------------
(* The table and the directories. *)

exfat_write_fat(S, c, value) ==
    IF exfat_cluster_valid(c) THEN DiskWrite(S, [S EXCEPT !.fat[c] = value])
    ELSE {[S EXCEPT !.ok = FALSE]}

(* The first cluster the table marks free, in `found`; a cluster whose entry *)
(* cannot be read is passed over.                                            *)
exfat_find_free(S) ==
    LET free == {c \in ExHeap : S.fat[c] = EXFAT_FREE}
    IN  {IF free = {} THEN [S EXCEPT !.ok = FALSE]
         ELSE [S EXCEPT !.ok = TRUE, !.found = Min(free)]}

exfat_zero_cluster(S, c) == DiskWrite(S, [S EXCEPT !.dirs[c] = ZeroedDirectory])

(* Where a file's next cluster is: behind this one, or where the table says. *)
NextCluster(S, c, contiguous) == IF contiguous THEN c + 1 ELSE S.fat[c]

(* The cluster n places into a file, ExNoCluster past its chain. *)
RECURSIVE ClusterAt(_, _, _, _)
ClusterAt(S, c, contiguous, n) ==
    IF ~exfat_cluster_valid(c) THEN ExNoCluster
    ELSE IF n = 0 THEN c
    ELSE ClusterAt(S, NextCluster(S, c, contiguous), contiguous, n - 1)

(* The entry sets of directory d called name: the search ends at the first   *)
(* set that was never used.                                                  *)
SetsOf(S, d, name) == {i \in 1 .. ExSets : S.dirs[d][i].name = name}

exfat_locate_entry(S, d, name) ==
    {[T EXCEPT !.ok = @ /\ SetsOf(T, d, name) # {}] : T \in DiskRead(S)}

(* A file resolves if it has a cluster or is empty. *)
exfat_lookup_in_directory(S, d, name) ==
    {[T EXCEPT !.ok = @ /\ SetsOf(T, d, name) # {}
                        /\ LET e == T.dirs[d][Min(SetsOf(T, d, name))]
                           IN  exfat_cluster_valid(e.first) \/ e.size = 0] :
        T \in DiskRead(S)}

(* A directory counts as empty when its search meets an unused set before    *)
(* any active one.                                                           *)
exfat_directory_empty(S, d) ==
    {[T EXCEPT !.ok = @ /\ \A i \in 1 .. ExSets : T.dirs[d][i] \in {Unused, Deleted}
                        /\ \E j \in 1 .. ExSets : T.dirs[d][j] = Unused] :
        T \in DiskRead(S)}

FreeSets(S, d) == {i \in 1 .. ExSets : S.dirs[d][i] = Unused}

exfat_find_free_entries(S, d) ==
    {[T EXCEPT !.ok = @ /\ FreeSets(T, d) # {}] : T \in DiskRead(S)}

WriteSet(S, d, i, entry) == DiskWrite(S, [S EXCEPT !.dirs[d][i] = entry])

RECURSIVE ReleaseFrom(_, _, _, _)
ReleaseFrom(S, c, contiguous, hops) ==
    IF hops = 0 \/ ~exfat_cluster_valid(c) THEN {S}
    ELSE Then(exfat_write_fat(S, c, EXFAT_FREE),
              LAMBDA T : IF contiguous THEN {T} ELSE ReleaseFrom(T, S.fat[c], FALSE, hops - 1))

(* Frees the chain from first; of a contiguous file, its first cluster. *)
exfat_free_chain(S, first, contiguous) == ReleaseFrom(S, first, contiguous, ExClusters)

-----------------------------------------------------------------------------
(* exfat_resize_file. *)

(* Allocates need clusters behind previous; first is the file's first one.   *)
(* The first cluster of the grown file is left in `found`.  A failure leaves *)
(* what was allocated.                                                       *)
RECURSIVE Extend(_, _, _, _)
Extend(S, need, previous, first) ==
    IF need = 0 THEN {[S EXCEPT !.ok = TRUE, !.found = first]}
    ELSE Then(exfat_find_free(S),
         LAMBDA T : Then(exfat_zero_cluster(T, T.found),
         LAMBDA U : Then(IF previous = ExNoCluster THEN {U}
                         ELSE exfat_write_fat(U, previous, U.found),
         LAMBDA V : Then(exfat_write_fat(V, V.found, EXFAT_END),
         LAMBDA W : Extend(W, need - 1, W.found,
                           IF first = ExNoCluster THEN W.found ELSE first)))))

(* Frees a whole file: each cluster's link is read before it is freed. *)
RECURSIVE ReleaseAll(_, _, _, _)
ReleaseAll(S, c, contiguous, n) ==
    IF n = 0 \/ ~exfat_cluster_valid(c) THEN {[S EXCEPT !.ok = TRUE]}
    ELSE Then(exfat_write_fat(S, c, EXFAT_FREE),
              LAMBDA T : ReleaseAll(T, NextCluster(S, c, contiguous), contiguous, n - 1))

(* Frees the tail of a file: each cluster is freed before its link is read. *)
RECURSIVE ReleaseTail(_, _, _, _)
ReleaseTail(S, c, contiguous, n) ==
    IF n = 0 THEN {[S EXCEPT !.ok = TRUE]}
    ELSE Then(exfat_write_fat(S, c, EXFAT_FREE),
              LAMBDA T : LET next == NextCluster(T, c, contiguous)
                         IN  IF exfat_cluster_valid(next)
                             THEN ReleaseTail(T, next, contiguous, n - 1) ELSE {T})

(* The table's part of a resize, old the entry and count clusters wanted:    *)
(* the file's first cluster is left in `found`.                              *)
ResizeChain(S, old, count) ==
    LET oldCount == CeilDiv(old.size, ExClusterSize)
        tail == IF oldCount = 0 THEN ExNoCluster
                ELSE ClusterAt(S, old.first, old.contiguous, oldCount - 1)
        retained == ClusterAt(S, old.first, old.contiguous, count - 1)
    IN  IF oldCount > 0 /\ tail = ExNoCluster THEN {[S EXCEPT !.ok = FALSE]}
        ELSE IF count > oldCount THEN Extend(S, count - oldCount, tail, old.first)
        ELSE IF count = oldCount THEN {[S EXCEPT !.found = old.first]}
        ELSE IF count = 0
        THEN Then(ReleaseAll(S, old.first, old.contiguous, oldCount),
                  LAMBDA T : {[T EXCEPT !.found = ExNoCluster]})
        ELSE Then(exfat_write_fat(S, retained, EXFAT_END),
                  LAMBDA T : Then(ReleaseTail(T, NextCluster(S, retained, old.contiguous),
                                              old.contiguous, oldCount - count),
                                  LAMBDA U : {[U EXCEPT !.found = old.first]}))

(* Changes the chain, then publishes the entry with its size, first cluster  *)
(* and, when the number of clusters changed to another than zero, without    *)
(* the contiguous flag.                                                      *)
exfat_resize_file(S, d, name, size) ==
    Then(exfat_locate_entry(S, d, name),
    LAMBDA T :
      LET i == Min(SetsOf(T, d, name))
          old == T.dirs[d][i]
          count == CeilDiv(size, ExClusterSize)
      IN  IF count > ExClusters THEN {[T EXCEPT !.ok = FALSE]}
          ELSE Then(ResizeChain(T, old, count),
               LAMBDA U : WriteSet(U, d, i,
                   [old EXCEPT !.first = U.found, !.size = size,
                               !.contiguous = @ /\ count \in {0, CeilDiv(old.size, ExClusterSize)}])))

-----------------------------------------------------------------------------
(* The calls. *)

(* Grows the file to hold the range if it must, then writes the data. *)
exfat_write_file_in_directory(S, d, name, offset, size) ==
    Then(exfat_lookup_in_directory(S, d, name),
    LAMBDA T :
      Then(exfat_resize_file(T, d, name,
                             Max({T.dirs[d][Min(SetsOf(T, d, name))].size, offset + size})),
      LAMBDA U : Then(exfat_lookup_in_directory(U, d, name),
      LAMBDA V :
        LET e == V.dirs[d][Min(SetsOf(V, d, name))]
        IN  IF ClusterAt(V, e.first, e.contiguous, (offset + size - 1) \div ExClusterSize)
                 = ExNoCluster
            THEN {[V EXCEPT !.ok = FALSE]}
            ELSE DiskWrite(V, V))))

exfat_create_file_in_directory(S, d, name) ==
    Always(exfat_lookup_in_directory(S, d, name),
    LAMBDA T : IF T.ok THEN Refuse({T})
               ELSE Then(exfat_find_free_entries(T, d),
                    LAMBDA U : WriteSet(U, d, Min(FreeSets(U, d)), [Unused EXCEPT !.name = name])))

(* The child's cluster is taken and zeroed, then the parent names it; any    *)
(* failure frees the cluster.                                                *)
exfat_create_directory_in_directory(S, d, name) ==
    Always(exfat_lookup_in_directory(S, d, name),
    LAMBDA T :
      IF T.ok THEN Refuse({T})
      ELSE Then(exfat_find_free_entries(T, d),
           LAMBDA U : Then(exfat_find_free(U),
           LAMBDA V :
             Always(Then(exfat_write_fat(V, V.found, EXFAT_END),
                    LAMBDA W : Then(exfat_zero_cluster(W, W.found),
                    LAMBDA X : WriteSet(X, d, Min(FreeSets(X, d)),
                                        [Unused EXCEPT !.name = name, !.directory = TRUE,
                                                       !.first = X.found]))),
             LAMBDA Y : IF Y.ok THEN {Y}
                        ELSE Refuse(exfat_free_chain(Y, Y.found, FALSE))))))

(* Mutant of exfat_unlink_file_in_directory: a directory is removed whatever *)
(* it holds.                                                                 *)
RemoveAnyDirectory(S, d, name) ==
    Then(exfat_locate_entry(S, d, name),
    LAMBDA T : LET i == Min(SetsOf(T, d, name))
               IN  Then(WriteSet(T, d, i, Deleted),
                        LAMBDA U : Accept(exfat_free_chain(U, T.dirs[d][i].first, FALSE))))

exfat_unlink_file_in_directory(S, d, name) ==
    Then(exfat_locate_entry(S, d, name),
    LAMBDA T :
      LET i == Min(SetsOf(T, d, name))
          e == T.dirs[d][i]
      IN  Then(IF ~e.directory THEN {T}
               ELSE IF e.first = ExNoCluster THEN {[T EXCEPT !.ok = FALSE]}
               ELSE exfat_directory_empty(T, e.first),
          LAMBDA U : Then(WriteSet(U, d, i, Deleted),
                     LAMBDA V : Accept(exfat_free_chain(V, e.first, e.contiguous)))))

-----------------------------------------------------------------------------
(* The actions. *)

(* The volume takes calls.  Bound: a behaviour is followed to the end of the *)
(* call in which a transfer fails.                                           *)
ExReady == ~exfat.marred

ExSettled(T) == [T EXCEPT !.found = ExNoCluster, !.ok = TRUE]

(* The directories: the root, and each that one of them names. *)
DirectoriesIn(S, d) ==
    {S.dirs[d][i].first : i \in {k \in 1 .. ExSets : S.dirs[d][k].directory}}
Directories(S) == {ExRoot} \cup DirectoriesIn(S, ExRoot)

exfat_create_file(d, name) ==
    /\ ExReady
    /\ \E T \in exfat_create_file_in_directory(exfat, d, name) : exfat' = ExSettled(T)
    /\ UNCHANGED exfatSize

(* Bound: directories are made in the root. *)
exfat_create_directory(name) ==
    /\ ExReady
    /\ \E T \in exfat_create_directory_in_directory(exfat, ExRoot, name) : exfat' = ExSettled(T)
    /\ UNCHANGED exfatSize

(* The adapter installs no unlink callback: a name is unlinked through the   *)
(* filesystem's interface, and only while no node is attached to it.         *)
exfat_unlink_file(d, name) ==
    /\ ExReady /\ (d = ExRoot => exfatSize[name] = ExDetached)
    /\ \E T \in exfat_unlink_file_in_directory(exfat, d, name) : exfat' = ExSettled(T)
    /\ UNCHANGED exfatSize

(* A file of the root is attached; the adapter leaves it to its caller that  *)
(* the name is a regular file's.                                             *)
exfat_vfs_attach_file(name) ==
    /\ ExReady /\ exfatSize[name] = ExDetached
    /\ \A i \in SetsOf(exfat, ExRoot, name) : ~exfat.dirs[ExRoot][i].directory
    /\ \E T \in exfat_lookup_in_directory(exfat, ExRoot, name) :
        /\ exfat' = ExSettled(T)
        /\ exfatSize' = IF T.ok
                        THEN [exfatSize EXCEPT ![name] =
                                T.dirs[ExRoot][Min(SetsOf(T, ExRoot, name))].size]
                        ELSE exfatSize

(* A write at any offset; past the end it grows the file. *)
exfat_vfs_write(name, offset, size) ==
    /\ ExReady /\ exfatSize[name] # ExDetached /\ offset + size <= ExMaxSize
    /\ \E T \in exfat_write_file_in_directory(exfat, ExRoot, name, offset, size) :
        /\ exfat' = ExSettled(T)
        /\ exfatSize' = IF T.ok THEN [exfatSize EXCEPT ![name] = Max({@, offset + size})]
                        ELSE exfatSize

exfat_vfs_truncate(name, size) ==
    /\ ExReady /\ exfatSize[name] # ExDetached /\ size < exfatSize[name]
    /\ \E T \in exfat_resize_file(exfat, ExRoot, name, size) :
        /\ exfat' = ExSettled(T)
        /\ exfatSize' = IF T.ok THEN [exfatSize EXCEPT ![name] = size] ELSE exfatSize

ExFatNext ==
    \E name \in ExNames :
        \/ exfat_create_directory(name)
        \/ exfat_vfs_attach_file(name)
        \/ \E d \in Directories(exfat) : exfat_create_file(d, name) \/ exfat_unlink_file(d, name)
        \/ \E size \in 0 .. ExMaxSize : exfat_vfs_truncate(name, size)
        \/ \E offset \in 0 .. ExMaxSize, size \in 1 .. ExMaxSize :
              exfat_vfs_write(name, offset, size)

ExFatSpec == ExFatInit /\ [][ExFatNext]_exfatVars

-----------------------------------------------------------------------------
(* Properties. *)

ExFatTypeOK ==
    /\ exfat.fat \in [ExHeap -> ExHeap \cup {EXFAT_FREE, EXFAT_END}]
    /\ \A d \in ExHeap, i \in 1 .. ExSets :
          /\ exfat.dirs[d][i].first \in ExHeap \cup {ExNoCluster}
          /\ exfat.dirs[d][i].size \in 0 .. ExMaxSize
    /\ exfatSize \in [ExNames -> ExDetached .. ExMaxSize]

(* The active entries, as directory and place. *)
ActiveSets ==
    {p \in Directories(exfat) \X (1 .. ExSets) : exfat.dirs[p[1]][p[2]].name \in ExNames}
SetAt(p) == exfat.dirs[p[1]][p[2]]

(* The clusters an entry may touch: as many as its size needs, a directory's *)
(* one.                                                                      *)
ClustersOf(p) ==
    LET e == SetAt(p)
        n == IF e.directory THEN 1 ELSE CeilDiv(e.size, ExClusterSize)
    IN  {ClusterAt(exfat, e.first, e.contiguous, k) : k \in 0 .. n - 1}

(* While no transfer fails, every file has a cluster for every part of its   *)
(* size, each marked used in the table, no cluster serves two entries or the *)
(* root directory, and no directory has two entries of one name: growth,     *)
(* truncation and unlink in any order, with full volumes and directories.    *)
ExFatSound ==
    exfat.present /\ ~exfat.marred =>
        /\ \A p \in ActiveSets : \A c \in ClustersOf(p) :
              /\ exfat_cluster_valid(c) /\ c # ExRoot
              /\ ~SetAt(p).contiguous => exfat.fat[c] # EXFAT_FREE
        /\ \A p, q \in ActiveSets :
              p # q => /\ ClustersOf(p) \cap ClustersOf(q) = {}
                       /\ p[1] # q[1] \/ SetAt(p).name # SetAt(q).name

(* A directory that goes held no active entry (ROADMAP.md:1137: "directory   *)
(* removal now rejects non-empty ... child directories before marking the    *)
(* entry set inactive"): the clusters of a file in it would have no name.    *)
NonEmptyDirectoryKept ==
    exfat.present => \A d \in Directories(exfat) :
        d \notin Directories(exfat') =>
            \A i \in 1 .. ExSets : exfat.dirs[d][i] \in {Unused, Deleted}

(* The size the adapter keeps for an attached file is its entry's, also      *)
(* after a call that failed for want of clusters.                            *)
ExFatSizeAgrees ==
    exfat.present /\ ~exfat.marred =>
        \A name \in ExNames : exfatSize[name] # ExDetached =>
            \E i \in SetsOf(exfat, ExRoot, name) : exfat.dirs[ExRoot][i].size = exfatSize[name]

(* The clusters that the table marks used and no entry's chain leads to. *)
ChainClusters(S, e) ==
    IF e.contiguous THEN e.first .. e.first + CeilDiv(e.size, ExClusterSize) - 1
    ELSE {ClusterAt(S, e.first, FALSE, k) : k \in 0 .. ExClusters} \ {ExNoCluster}
LostClusters(S) ==
    {c \in ExHeap \ {ExRoot} : S.fat[c] # EXFAT_FREE}
      \ UNION {ChainClusters(S, S.dirs[d][i]) :
                  d \in Directories(S),
                  i \in 1 .. ExSets}

(* A directory's creation loses no cluster, whichever of its transfers fails *)
(* (unless the medium took what was reported to have failed): ROADMAP.md:    *)
(* 1134-1136, "releases the child allocation if parent metadata publication  *)
(* fails".                                                                   *)
DirectoryCreationUndone ==
    exfat.present /\ (\E name \in ExNames : exfat_create_directory(name)) /\ ~exfat'.late
        => LostClusters(exfat') \subseteq LostClusters(exfat)
=============================================================================
