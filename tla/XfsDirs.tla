------------------------------ MODULE XfsDirs -------------------------------
(* The short-form directories of the XFS driver (kernel/fs/xfs/xfs.c):       *)
(* insertion, removal and renaming of entries, in one directory and between  *)
(* two.  A directory is the sequence of its records, all inside its inode,   *)
(* and is published with the inode; a rename between two directories         *)
(* publishes both inodes as one transaction (XfsJournal).  Inode 0 never     *)
(* names a child, and every name takes the same room.                        *)
EXTENDS FaultyDisk, FiniteSets, SequencesExt

CONSTANTS
    XfsDirs,       \* directories
    XfsNames,      \* names of entries
    XfsChildInos,  \* inodes that entries name
    XfsDirMax,     \* records an inode has room for
    XfsDirFaults   \* bound: transfers that fail

VARIABLES
    xfsd,      \* the directories
    xfsLinks   \* how many entries of each child the callers made and did not remove

xfsDirsVars == <<xfsd, xfsLinks>>

Entry(name, child) == [name |-> name, child |-> child]

XfsDirsInit ==
    /\ xfsd = [dir |-> [d \in XfsDirs |-> <<>>]] @@ DiskFields(XfsDirFaults, 0)
    /\ xfsLinks = [c \in XfsChildInos |-> 0]

(* The position of a name, 0 if the directory has no such entry. *)
xfs_lookup(entries, name) == SelectInSeq(entries, LAMBDA e : e.name = name)

WriteDirectory(S, d, entries) == DiskWrite(S, [S EXCEPT !.dir[d] = entries])

(* The inode is read twice: by xfs_add_local_entry and by xfs_lookup, whose  *)
(* failure to read it counts as a name that is not there.                    *)
xfs_add_local_entry(S, d, name, child) ==
    LET Add(T) ==
            IF \/ Len(S.dir[d]) >= XfsDirMax
               \/ T.ok /\ xfs_lookup(S.dir[d], name) # 0 THEN Refuse({T})
            ELSE WriteDirectory(T, d, Append(S.dir[d], Entry(name, child)))
        Checked(T) == UNION {Add(U) : U \in DiskRead(T)}
    IN  Then(DiskRead(S), Checked)

xfs_remove_local_entry(S, d, name) ==
    LET i == xfs_lookup(S.dir[d], name)
        Cut(T) == WriteDirectory(T, d, RemoveAt(S.dir[d], i))
    IN  IF i = 0 THEN Refuse({S}) ELSE Then(DiskRead(S), Cut)

xfs_rename_local_entry(S, d, old, new) ==
    LET i == xfs_lookup(S.dir[d], old)
        Rename(T) == WriteDirectory(T, d, [S.dir[d] EXCEPT ![i].name = new])
    IN  IF i = 0 \/ (new # old /\ xfs_lookup(S.dir[d], new) # 0) THEN Refuse({S})
        ELSE Then(DiskRead(S), Rename)

WritePair(S, from, source, to, target) ==
    DiskWrite(S, [S EXCEPT !.dir[from] = source, !.dir[to] = target])

xfs_rename_local_entry_between(S, from, old, to, new) ==
    LET i == xfs_lookup(S.dir[from], old)
        Move(T) == WritePair(T, from, RemoveAt(S.dir[from], i), to,
                                        Append(S.dir[to], Entry(new, S.dir[from][i].child)))
    IN  IF from = to THEN xfs_rename_local_entry(S, from, old, new)
        ELSE IF i = 0 \/ xfs_lookup(S.dir[to], new) # 0 \/ Len(S.dir[to]) >= XfsDirMax
        THEN Refuse({S})
        ELSE Then(DiskRead(S), Move)

-----------------------------------------------------------------------------
xfs_add ==
    /\ ~xfsd.marred
    /\ \E d \in XfsDirs, name \in XfsNames, child \in XfsChildInos :
          \E T \in xfs_add_local_entry(xfsd, d, name, child) :
              /\ xfsd' = T
              /\ xfsLinks' = [xfsLinks EXCEPT ![child] = @ + (IF T.ok THEN 1 ELSE 0)]

xfs_remove ==
    /\ ~xfsd.marred
    /\ \E d \in XfsDirs, name \in XfsNames :
          LET i == xfs_lookup(xfsd.dir[d], name)
          IN  \E T \in xfs_remove_local_entry(xfsd, d, name) :
                 /\ xfsd' = T
                 /\ xfsLinks' = IF T.ok THEN [xfsLinks EXCEPT ![xfsd.dir[d][i].child] = @ - 1]
                                ELSE xfsLinks

xfs_rename ==
    /\ ~xfsd.marred
    /\ \E from, to \in XfsDirs, old, new \in XfsNames :
          \E T \in xfs_rename_local_entry_between(xfsd, from, old, to, new) : xfsd' = T
    /\ UNCHANGED xfsLinks

XfsDirsNext == xfs_add \/ xfs_remove \/ xfs_rename

XfsDirsSpec == XfsDirsInit /\ [][XfsDirsNext]_xfsDirsVars

-----------------------------------------------------------------------------
(* The variables keep their shape. *)
XfsDirsTypeOK ==
    /\ \A d \in XfsDirs : /\ Len(xfsd.dir[d]) <= XfsDirMax
                          /\ \A i \in DOMAIN xfsd.dir[d] : xfsd.dir[d][i].child \in XfsChildInos
    /\ xfsLinks \in [XfsChildInos -> Nat]

(* As long as no transfer failed, a name leads to one child: neither adding  *)
(* nor renaming makes a second entry of a name (xfs_add_local_entry,         *)
(* xfs_rename_local_entry, xfs_rename_local_entry_between).                  *)
XfsNamesUnique ==
    xfsd.present /\ ~xfsd.marred => \A d \in XfsDirs : \A i, j \in DOMAIN xfsd.dir[d] :
        i # j => xfsd.dir[d][i].name # xfsd.dir[d][j].name

(* A rename neither loses a child nor links it twice, and a call that        *)
(* reports failure before its block reached the medium has changed nothing:  *)
(* a child has as many entries as were made and not removed                  *)
(* (xfs_write_inode_pair).                                                   *)
XfsLinksKept ==
    xfsd.present /\ ~xfsd.late => \A c \in XfsChildInos :
        xfsLinks[c] = Cardinality({p \in XfsDirs \X (1 .. XfsDirMax) :
                          p[2] <= Len(xfsd.dir[p[1]]) /\ xfsd.dir[p[1]][p[2]].child = c})
=============================================================================
