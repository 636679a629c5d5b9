-------------------------------- MODULE Vfs --------------------------------
(***************************************************************************)
(* The virtual file system: kernel/fs/vfs (vfs.c, mount.c, file.c) and the  *)
(* namespace calls of core/syscall/syscall.c and core/process/process.c.    *)
(*                                                                          *)
(* System calls run with interrupts off on the one processor that           *)
(* schedules, and none of these blocks, so a call is one action.  The       *)
(* functions it is made of are operators on the node table N, applied in    *)
(* the order of the code.  A call that fails before it changes anything is  *)
(* not an action.                                                           *)
(*                                                                          *)
(* A directory's child list and child_count are the nodes whose parent it   *)
(* is: the code changes the list, the count and the parent together.        *)
(* Permission bits, path syntax and file contents are left out: any path    *)
(* may be looked up, and any lookup may fail.                               *)
(***************************************************************************)
EXTENDS Integers, Sequences, FiniteSets, FiniteSetsExt, SequencesExt

CONSTANTS
    Nodes,       \* node addresses
    Root,        \* vfs_root
    Volumes,     \* roots of file systems that can be mounted
    Names,       \* names of directory entries
    Procs,       \* processes
    Slots,       \* VFS_MAX_MOUNTS
    MaxHandles,  \* bound: handles open on one file description
    None         \* the null pointer

ASSUME VfsAssumption ==
    /\ Root \in Nodes \ Volumes
    /\ Volumes \subseteq Nodes
    /\ None \notin Nodes \cup Names
    /\ Slots \in Nat \ {0} /\ MaxHandles \in Nat \ {0}

VARIABLES
    node,        \* node[n]: the fields of a node
    mounts,      \* mounts[i]: a slot of the mount table
    shutting,    \* shutting_down
    cwd,         \* cwd[p]: working_directory; None when there is no process p
    file         \* file[p]: the file description p has open

vars == <<node, mounts, shutting, cwd, file>>

Free == [live |-> FALSE, type |-> "DIRECTORY", name |-> None, parent |-> None,
         refs |-> 0, destroying |-> TRUE]
NoMount == [mountpoint |-> None, root |-> None]
NoFile == [node |-> None, refs |-> 0]

Children(N, n) == {c \in Nodes : N[c].live /\ N[c].parent = n}

-----------------------------------------------------------------------------
(* References: vfs_node_retain, vfs_node_release and try_destroy. *)

\* vfs_node_retain succeeds.
Retainable(N, n) == n # None /\ ~N[n].destroying /\ N[n].refs # 0

vfs_node_retain(N, n) == [N EXCEPT ![n].refs = @ + 1]

Unused(N, n) == ~N[n].destroying /\ N[n].refs = 0 /\ Children(N, n) = {}

try_destroy(N, n) == IF Unused(N, n) THEN [N EXCEPT ![n] = Free] ELSE N

vfs_node_release(N, n) ==
    IF ~Retainable(N, n) THEN N
    ELSE try_destroy([N EXCEPT ![n].refs = @ - 1], n)

-----------------------------------------------------------------------------
(* The directory tree. *)

\* n and the directories above it.
Ancestors(N, n) ==
    LET up[k \in 0..Cardinality(Nodes)] ==
            IF k = 0 THEN n
            ELSE IF up[k - 1] = None THEN None ELSE N[up[k - 1]].parent
    IN  {up[k] : k \in DOMAIN up} \ {None}

vfs_node_create(N, n, name, type) ==
    [N EXCEPT ![n] = [live |-> TRUE, type |-> type, name |-> name, parent |-> None,
                      refs |-> 1, destroying |-> FALSE]]

\* Mutant: an entry of the same name is not noticed.
AnyName(N, parent, child) ==
    N[parent].type = "DIRECTORY" /\ N[child].parent = None /\ Retainable(N, child)

Attachable(N, parent, child) ==
    /\ N[parent].type = "DIRECTORY"
    /\ N[child].parent = None /\ Retainable(N, child)
    /\ child \notin Ancestors(N, parent)
    /\ \A c \in Children(N, parent) : N[c].name # N[child].name

vfs_node_add_child(N, parent, child) ==
    [N EXCEPT ![child].parent = parent, ![child].refs = @ + 1]

\* The entry of directory n called name, if it can be retained.
vfs_node_lookup(N, n, name) ==
    LET found == {c \in Children(N, n) : N[c].name = name}
    IN  IF N[n].type # "DIRECTORY" \/ found = {} THEN None
        ELSE LET c == CHOOSE c \in found : TRUE
             IN  IF Retainable(N, c) THEN c ELSE None

Removable(N, parent, child) ==
    /\ N[parent].type = "DIRECTORY" /\ N[child].parent = parent
    /\ Children(N, child) = {}

\* Mutant: the reference of the directory entry is not given up.
EntryKept(N, parent, child) == try_destroy([N EXCEPT ![child].parent = None], parent)

vfs_node_remove(N, parent, child) ==
    try_destroy(vfs_node_release([N EXCEPT ![child].parent = None], child), parent)

\* No other entry of directory n is called name.
NameFree(N, n, child, name) ==
    \A c \in Children(N, n) \ {child} : N[c].name # name

Renamable(N, parent, child, name) ==
    /\ N[child].parent = parent /\ Retainable(N, child)
    /\ NameFree(N, parent, child, name)

vfs_node_rename(N, child, name) == [N EXCEPT ![child].name = name]

\* Only regular files move.
Movable(N, old, new, child, name) ==
    /\ old # new /\ new # child
    /\ N[new].type = "DIRECTORY" /\ N[child].type = "REGULAR"
    /\ N[child].parent = old /\ Retainable(N, child)
    /\ NameFree(N, new, child, name)

vfs_node_move(N, old, new, child, name) ==
    try_destroy(try_destroy([N EXCEPT ![child].parent = new, ![child].name = name], old), new)

-----------------------------------------------------------------------------
(* Path lookup.  Every node on the way is retained before the one behind it *)
(* is released, and the start is held by the caller, so a lookup changes    *)
(* nothing but the references of the node it returns.                       *)

\* The node `..' leads to from n, confined to Root.
parent_reference(N, n) ==
    LET up == IF n # Root /\ N[n].parent # None THEN N[n].parent ELSE n
    IN  IF Retainable(N, up) THEN up ELSE None

\* The nodes that paths of up to |Nodes| components lead to, when one
\* component leads from n to one of Steps(n).
Closure(start, Steps(_)) ==
    LET found[k \in 0..Cardinality(Nodes)] ==
            IF k = 0 THEN {start}
            ELSE found[k - 1] \cup (UNION {Steps(n) : n \in found[k - 1]} \ {None})
    IN  found[Cardinality(Nodes)]

\* vfs_lookup_path_at_access, from a start.
vfs_lookup_path_at(N, start) ==
    LET Steps(n) == {parent_reference(N, n)} \cup {vfs_node_lookup(N, n, name) : name \in Names}
    IN  Closure(start, Steps)

\* The slots of table T whose mountpoint, or root, is n.
MountedAt(T, n) == {i \in 1..Slots : n # None /\ T[i].mountpoint = n}
MountedFrom(T, n) == {i \in 1..Slots : n # None /\ T[i].root = n}

\* A mountpoint gives way to what is mounted on it.
mounted_root(N, T, n) ==
    LET root == IF MountedAt(T, n) = {} THEN None ELSE T[Min(MountedAt(T, n))].root
    IN  IF Retainable(N, root) THEN root ELSE n

\* `..' from a mounted root: the mountpoint's parent.
mounted_mountpoint(N, T, n) ==
    LET point == IF MountedFrom(T, n) = {} THEN None ELSE T[Min(MountedFrom(T, n))].mountpoint
        up == IF point # None /\ N[point].parent # None THEN N[point].parent ELSE point
    IN  IF Retainable(N, up) THEN up ELSE None

\* A component that names a mountpoint crosses it, but `..' out of a mounted
\* root does not cross the node it comes to.
MountedSteps(N, T, n) ==
    {IF mounted_mountpoint(N, T, n) # None THEN mounted_mountpoint(N, T, n)
     ELSE mounted_root(N, T, parent_reference(N, n))}
    \cup {mounted_root(N, T, vfs_node_lookup(N, n, name)) : name \in Names}

\* The end of the path crosses once more.
vfs_lookup_path_mounted(N, T, start) ==
    LET Steps(n) == MountedSteps(N, T, n)
    IN  {mounted_root(N, T, n) : n \in Closure(start, Steps)}

\* Mutant: the names are put together from the bottom up.
BottomUp(N, n) ==
    LET path[k \in 0..Cardinality(Nodes)] ==
            IF k = 0 THEN [at |-> n, names |-> <<>>]
            ELSE LET here == path[k - 1].at
                 IN  IF here \in {Root, None} THEN path[k - 1]
                     ELSE [at |-> N[here].parent,
                           names |-> Append(path[k - 1].names, N[here].name)]
    IN  path[Cardinality(Nodes)]

\* GETCWD: the names from Root down to n; a detached directory has no path.
GetCwd(N, n) ==
    LET path[k \in 0..Cardinality(Nodes)] ==
            IF k = 0 THEN [at |-> n, names |-> <<>>]
            ELSE LET here == path[k - 1].at
                 IN  IF here \in {Root, None} THEN path[k - 1]
                     ELSE [at |-> N[here].parent,
                           names |-> <<N[here].name>> \o path[k - 1].names]
    IN  path[Cardinality(Nodes)]

-----------------------------------------------------------------------------
(* System calls.  A call also retains root and working directory for its    *)
(* duration, which the process itself holds.                                *)

\* What paths of process p lead to: absolute ones start at Root.
Paths(p) == IF cwd[p] = None THEN {}
            ELSE vfs_lookup_path_at(node, Root) \cup vfs_lookup_path_at(node, cwd[p])

\* Directory parent is looked up, and node n made in it.
Made(parent, n, name, type) ==
    vfs_node_create(vfs_node_retain(node, parent), n, name, type)

FreeNodes == {n \in Nodes : ~node[n].live}

\* OPEN: vfs_file_open_handle, then the lookup's reference is given up.
OPEN(p) ==
    /\ file[p].refs = 0
    /\ \E n \in Paths(p) :
           /\ node' = vfs_node_release(vfs_node_retain(vfs_node_retain(node, n), n), n)
           /\ file' = [file EXCEPT ![p] = [node |-> n, refs |-> 1]]
    /\ UNCHANGED <<mounts, shutting, cwd>>

\* DUP: vfs_file_retain.
DUP(p) ==
    /\ file[p].refs \in 1..MaxHandles - 1
    /\ file' = [file EXCEPT ![p].refs = @ + 1]
    /\ UNCHANGED <<node, mounts, shutting, cwd>>

\* Mutant: the last close leaves the node in the description.
KeepsPointer(f) == [f EXCEPT !.refs = @ - 1]

\* A file description after one of its handles is closed.
Closed(f) == IF f.refs = 1 THEN NoFile ELSE [f EXCEPT !.refs = @ - 1]

\* CLOSE: vfs_file_release.
CLOSE(p) ==
    /\ file[p].refs # 0
    /\ node' = IF file[p].refs = 1 THEN vfs_node_release(node, file[p].node) ELSE node
    /\ file' = [file EXCEPT ![p] = Closed(@)]
    /\ UNCHANGED <<mounts, shutting, cwd>>

\* CHDIR resolves every path from Root; process_set_working_directory.
CHDIR(p) ==
    /\ cwd[p] # None
    /\ \E n \in vfs_lookup_path_at(node, Root) :
           /\ node[n].type = "DIRECTORY"
           /\ node' = vfs_node_release(vfs_node_release(
                          vfs_node_retain(vfs_node_retain(node, n), n), cwd[p]), n)
           /\ cwd' = [cwd EXCEPT ![p] = n]
    /\ UNCHANGED <<mounts, shutting, file>>

MKDIR(p) ==
    /\ \E parent \in Paths(p), n \in FreeNodes, name \in Names :
           LET N == Made(parent, n, name, "DIRECTORY")
           IN  /\ Attachable(N, parent, n)
               /\ node' = vfs_node_release(vfs_node_release(
                              vfs_node_add_child(N, parent, n), n), parent)
    /\ UNCHANGED <<mounts, shutting, cwd, file>>

CREATE(p) ==
    /\ file[p].refs = 0
    /\ \E parent \in Paths(p), n \in FreeNodes, name \in Names :
           LET N == Made(parent, n, name, "REGULAR")
           IN  /\ Attachable(N, parent, n)
               /\ node' = vfs_node_release(vfs_node_release(vfs_node_retain(
                              vfs_node_add_child(N, parent, n), n), n), parent)
               /\ file' = [file EXCEPT ![p] = [node |-> n, refs |-> 1]]
    /\ UNCHANGED <<mounts, shutting, cwd>>

\* CREATE when the handle table is full: the new file is removed again.
CreateFull(p) ==
    /\ \E parent \in Paths(p), n \in FreeNodes, name \in Names :
           LET N == Made(parent, n, name, "REGULAR")
           IN  /\ Attachable(N, parent, n)
               /\ node' = vfs_node_release(vfs_node_release(vfs_node_remove(
                              vfs_node_add_child(N, parent, n), parent, n), n), parent)
    /\ UNCHANGED <<mounts, shutting, cwd, file>>

\* CREATE or MKDIR when the name exists, or the parent is no directory.
CreateExists(p) ==
    /\ \E parent \in Paths(p), n \in FreeNodes, name \in Names, type \in {"DIRECTORY", "REGULAR"} :
           LET N == Made(parent, n, name, type)
           IN  /\ ~Attachable(N, parent, n)
               /\ node' = vfs_node_release(vfs_node_release(N, n), parent)
    /\ UNCHANGED <<mounts, shutting, cwd, file>>

\* UNLINK of regular files, RMDIR of directories.
RemoveEntry(p, type) ==
    /\ \E parent \in Paths(p), name \in Names :
           LET N == vfs_node_retain(node, parent)
               child == vfs_node_lookup(N, parent, name)
           IN  /\ child # None
               /\ N[child].type = type
               /\ Removable(N, parent, child)
               /\ node' = vfs_node_release(vfs_node_release(vfs_node_remove(
                              vfs_node_retain(N, child), parent, child), child), parent)
    /\ UNCHANGED <<mounts, shutting, cwd, file>>

UNLINK(p) == RemoveEntry(p, "REGULAR")
RMDIR(p) == RemoveEntry(p, "DIRECTORY")

\* RENAME within a directory, then from one directory to another.
Rename(p) ==
    /\ \E parent \in Paths(p), name, new \in Names :
           LET child == vfs_node_lookup(node, parent, name)
           IN  /\ child # None
               /\ Renamable(node, parent, child, new)
               /\ node' = vfs_node_release(vfs_node_release(vfs_node_rename(
                              vfs_node_retain(vfs_node_retain(node, parent), child),
                              child, new), child), parent)
    /\ UNCHANGED <<mounts, shutting, cwd, file>>

Move(p) ==
    /\ \E old, new \in Paths(p), name, newName \in Names :
           LET child == vfs_node_lookup(node, old, name)
           IN  /\ child # None
               /\ Movable(node, old, new, child, newName)
               /\ node' = vfs_node_release(vfs_node_release(vfs_node_release(vfs_node_move(
                              vfs_node_retain(vfs_node_retain(vfs_node_retain(node, old), new),
                                              child),
                              old, new, child, newName), child), new), old)
    /\ UNCHANGED <<mounts, shutting, cwd, file>>

\* SPAWN: process_inherit_namespace.
process_inherit_namespace(p, child) ==
    /\ cwd[p] # None /\ cwd[child] = None
    /\ node' = vfs_node_retain(vfs_node_retain(node, Root), cwd[p])
    /\ cwd' = [cwd EXCEPT ![child] = cwd[p]]
    /\ UNCHANGED <<mounts, shutting, file>>

\* process_destroy closes the handles, then gives up the namespace.
process_destroy(p) ==
    /\ cwd[p] # None
    /\ node' = vfs_node_release(vfs_node_release(
                   vfs_node_release(node, file[p].node), cwd[p]), Root)
    /\ file' = [file EXCEPT ![p] = NoFile]
    /\ cwd' = [cwd EXCEPT ![p] = None]
    /\ UNCHANGED <<mounts, shutting>>

-----------------------------------------------------------------------------
(* Calls of the kernel itself: the mount table, and file system adapters    *)
(* that attach the files of a volume.                                       *)

\* A directory of the tree, or of a volume, becomes a mountpoint.
vfs_mount(root) ==
    LET slots == {i \in 1..Slots : mounts[i] = NoMount}
    IN  /\ ~shutting /\ slots # {}
        /\ \E point \in vfs_lookup_path_at(node, Root)
                        \cup UNION {vfs_lookup_path_at(node, v) : v \in Volumes} :
               /\ node[point].type = "DIRECTORY" /\ point # root
               /\ root \notin Ancestors(node, point)
               /\ MountedAt(mounts, point) = {}
               /\ node' = vfs_node_retain(vfs_node_retain(node, point), root)
               /\ mounts' = [mounts EXCEPT ![Min(slots)] = [mountpoint |-> point, root |-> root]]
        /\ UNCHANGED <<shutting, cwd, file>>

\* Slot i is emptied, then the root and the mountpoint released.
vfs_unmount(i) ==
    /\ mounts[i] # NoMount
    /\ mounts' = [mounts EXCEPT ![i] = NoMount]
    /\ node' = vfs_node_release(vfs_node_release(node, mounts[i].root), mounts[i].mountpoint)
    /\ UNCHANGED <<shutting, cwd, file>>

\* Nothing can be mounted any more, and every mount is undone in slot order.
vfs_mount_table_shutdown ==
    /\ shutting' = TRUE
    /\ mounts' = [i \in 1..Slots |-> NoMount]
    /\ node' = FoldLeft(LAMBDA N, m : vfs_node_release(vfs_node_release(N, m.root), m.mountpoint),
                        node, mounts)
    /\ UNCHANGED <<cwd, file>>

AttachFile ==
    /\ \E parent \in vfs_lookup_path_mounted(node, mounts, Root), n \in FreeNodes, name \in Names :
           LET N == Made(parent, n, name, "REGULAR")
           IN  /\ Attachable(N, parent, n)
               /\ node' = vfs_node_release(vfs_node_release(
                              vfs_node_add_child(N, parent, n), n), parent)
    /\ UNCHANGED <<mounts, shutting, cwd, file>>

Init ==
    \E first \in Procs :
        /\ node = [n \in Nodes |->
               IF n \in Volumes \cup {Root}
               THEN [live |-> TRUE, type |-> "DIRECTORY", name |-> None, parent |-> None,
                     refs |-> IF n = Root THEN 3 ELSE 1, destroying |-> FALSE]
               ELSE Free]
        /\ mounts = [i \in 1..Slots |-> NoMount]
        /\ shutting = FALSE
        /\ cwd = [p \in Procs |-> IF p = first THEN Root ELSE None]
        /\ file = [p \in Procs |-> NoFile]

Next ==
    \/ \E p \in Procs :
          \/ OPEN(p) \/ DUP(p) \/ CLOSE(p) \/ CHDIR(p)
          \/ CREATE(p) \/ CreateFull(p) \/ CreateExists(p) \/ MKDIR(p)
          \/ UNLINK(p) \/ RMDIR(p) \/ Rename(p) \/ Move(p)
          \/ process_destroy(p)
          \/ \E child \in Procs : process_inherit_namespace(p, child)
    \/ \E root \in Volumes : vfs_mount(root)
    \/ \E i \in 1..Slots : vfs_unmount(i)
    \/ vfs_mount_table_shutdown
    \/ AttachFile

Spec == Init /\ [][Next]_vars

-----------------------------------------------------------------------------
(* Properties. *)

\* Every variable has its type; a description without handles has no node.
TypeOK ==
    /\ \A n \in Nodes :
          /\ node[n].type \in {"DIRECTORY", "REGULAR"}
          /\ node[n].name \in Names \cup {None}
          /\ node[n].parent \in Nodes \cup {None}
          /\ node[n].refs \in Nat
          /\ node[n].live \in BOOLEAN /\ node[n].destroying = ~node[n].live
    /\ \A i \in 1..Slots : /\ mounts[i].mountpoint \in Nodes \cup {None}
                           /\ mounts[i].root \in Volumes \cup {None}
    /\ shutting \in BOOLEAN
    /\ cwd \in [Procs -> Nodes \cup {None}]
    /\ \A p \in Procs : /\ file[p].node \in Nodes \cup {None}
                        /\ file[p].refs \in 0..MaxHandles
                        /\ (file[p].refs = 0) = (file[p].node = None)

\* Nothing points to a freed node: not the tree, the mount table, a working
\* directory or an open file.  This is what retain and release are for.
FreedUnreachable ==
    \A n \in Nodes : ~node[n].live =>
        /\ \A c \in Nodes : node[c].live => node[c].parent # n
        /\ \A i \in 1..Slots : n \notin {mounts[i].mountpoint, mounts[i].root}
        /\ \A p \in Procs : n # cwd[p] /\ n # file[p].node

\* vfs_node.references counts exactly the creator of a root, the entry in the
\* parent directory, and the namespaces, open files and mounts that use the
\* node: no path through a call, failing or not, leaks or overdraws one.
ReferencesAccounted ==
    \A n \in Nodes : node[n].live =>
        node[n].refs =
            (IF n \in Volumes \cup {Root} THEN 1 ELSE 0)
            + (IF node[n].parent # None THEN 1 ELSE 0)
            + (IF n = Root THEN Cardinality({p \in Procs : cwd[p] # None}) ELSE 0)
            + Cardinality({p \in Procs : cwd[p] = n})
            + Cardinality({p \in Procs : file[p].node = n})
            + Cardinality(MountedAt(mounts, n)) + Cardinality(MountedFrom(mounts, n))

\* Create, rename, move and remove keep a tree: entries of a directory have
\* different names, a parent is a directory, no directory is below itself, and
\* no mounted root is above its own mountpoint.
TreeShape ==
    /\ \A m, n \in Nodes :
          /\ node[m].live /\ node[n].live
          /\ m # n /\ node[m].parent # None /\ node[m].parent = node[n].parent
          => node[m].name # node[n].name
    /\ \A n \in Nodes : node[n].live /\ node[n].parent # None =>
          /\ node[node[n].parent].type = "DIRECTORY"
          /\ n \notin Ancestors(node, node[n].parent)
    /\ \A i \in 1..Slots : mounts[i] # NoMount =>
          mounts[i].root \notin Ancestors(node, mounts[i].mountpoint)

\* The path GETCWD reports leads back to the working directory.
CwdResolves ==
    \A p \in Procs : cwd[p] # None =>
        LET path == GetCwd(node, cwd[p])
        IN  path.at = Root =>
                cwd[p] = FoldLeft(LAMBDA n, name :
                                      IF n = None THEN None ELSE vfs_node_lookup(node, n, name),
                                  Root, path.names)

\* A node that nothing references and that has no children has been freed.
Reclaimed ==
    \A n \in Nodes : node[n].live => node[n].refs # 0 \/ Children(node, n) # {}

\* vfs_lookup_path_mounted never returns a node that is covered by a mount,
\* other than the root of another mount.
CoveredHidden ==
    \A n \in vfs_lookup_path_mounted(node, mounts, Root) :
        MountedAt(mounts, n) # {} => MountedFrom(mounts, n) # {}

\* ROADMAP.md: "VFS node destruction now retries after the final child is
\* removed, preventing directories released before their children from becoming
\* permanent leaks."  A node without references cannot be retained again, so no
\* later call can remove its children: it must not outlive the call.
NoPermanentLeak ==
    \A n \in Nodes : node[n].live => node[n].refs # 0

\* References are exact, and so is reclamation: nothing points to a freed node,
\* and what nothing points to has been freed.
NodesReclaimedExactly == ReferencesAccounted /\ FreedUnreachable /\ Reclaimed

\* The namespace is a tree, and lookup through mounts never shows what a mount
\* covers.
NamespaceSound == TreeShape /\ CoveredHidden
=============================================================================
