------------------------------- MODULE Btrfs --------------------------------
(* Reading and updating files of a Btrfs volume in place                     *)
(* (kernel/fs/btrfs/btrfs.c) and their VFS adapter (btrfs_vfs.c): sectors    *)
(* of file data and tree nodes, each with an optional mirror, the checksums  *)
(* of the data in the checksum tree, and the inline file kept in a node.     *)
(*                                                                           *)
(* A sector is the value it holds and its checksum is that value.  A tree is *)
(* the leaf that holds the item, its index nodes are only read.  A node is   *)
(* written by one transfer, and one that fails its own checksum is Rotten.   *)
(* The writers hold the volume's lock with interrupts disabled, and every    *)
(* reader the lock of its file.                                              *)
EXTENDS FaultyDisk, FiniteSets, Integers, Sequences, TLC

CONSTANTS
    BtrfsLayouts,  \* where mirrors are: "single" (none), "apart" (at another
                   \* offset), "same" (at the same offset of another device)
    BtrfsSectors,  \* sectors of the file with a disk extent, 1 .. BtrfsSectors
    BtrfsInline,   \* bytes of the inline file
    BtrfsHandles,  \* nodes of the VFS attached to the inline file
    BtrfsRot,      \* which first copies are unreadable in the image
    BtrfsFaults,   \* bound: transfers that fail
    BtrfsPower,    \* bound: power failures
    BtrfsWrites    \* bound: writes to the file with a disk extent

VARIABLES
    btrfs,        \* the volume
    btrfsMay,     \* what each sector was last given, and what a failed write tried
    btrfsSize,    \* btrfs_vfs_file_t.size, of every handle of the inline file
    btrfsWritten  \* writes so far

btrfsVars == <<btrfs, btrfsMay, btrfsSize, btrfsWritten>>

BtrfsSector == 1 .. BtrfsSectors
Rotten == -1
Trees == {"csum", "fs"}

(* The leaf of the checksum tree, and the one with the inline file: its      *)
(* inode's size and the bytes of its extent item.                            *)
CsumLeaf == [sums |-> [s \in BtrfsSector |-> 0], size |-> 0, bytes |-> <<>>, bad |-> FALSE]
InlineLeaf == [CsumLeaf EXCEPT !.size = BtrfsInline, !.bytes = [i \in 1 .. BtrfsInline |-> 0]]

BtrfsInit ==
    /\ \E layout \in BtrfsLayouts, rot \in BtrfsRot :
          /\ rot # "none" => layout # "single"
          /\ btrfs = [layout |-> layout,
                      data |-> [c \in 1 .. 2 |-> [s \in BtrfsSector |->
                                  IF c = 1 /\ rot = "data" THEN Rotten ELSE 0]],
                      tree |-> [t \in Trees |-> [c \in 1 .. 2 |->
                                  [(IF t = "csum" THEN CsumLeaf ELSE InlineLeaf) EXCEPT
                                     !.bad = (c = 1 /\ rot = t)]]],
                      node |-> CsumLeaf, sector |-> 0]
                     @@ DiskFields(BtrfsFaults, BtrfsPower)
    /\ btrfsMay = [s \in BtrfsSector |-> {0}]
    /\ btrfsSize = [h \in BtrfsHandles |-> BtrfsInline]
    /\ btrfsWritten = 0

-----------------------------------------------------------------------------
(* Copies, nodes and checksums. *)

(* The copy a transfer goes to; a chunk without a mirror has only the first. *)
btrfs_map_at(S, mirror) == IF mirror = 1 /\ S.layout # "single" THEN 2 ELSE 1

(* A node, from its mirror when the first copy cannot be read or is bad. *)
btrfs_read_node(S, tree) ==
    LET m == btrfs_map_at(S, 1)
        Mirror(T) == Then(DiskRead(T), LAMBDA U :
                        IF U.tree[tree][m].bad THEN Refuse({U})
                        ELSE {[U EXCEPT !.node = U.tree[tree][m]]})
    IN  UNION {IF T.ok /\ ~T.tree[tree][1].bad THEN {[T EXCEPT !.node = T.tree[tree][1]]}
               ELSE Mirror(T) : T \in DiskRead(S)}

WriteCopy(S, tree, copy, node) == DiskWrite(S, [S EXCEPT !.tree[tree][copy] = node])

(* Both copies; when the second fails, both are put back as they were. *)
btrfs_write_node(S, tree, node) ==
    LET fresh == [node EXCEPT !.bad = FALSE]
        original == S.tree[tree]
        Restore(T) == Refuse(UNION {WriteCopy(U, tree, 2, original[2]) :
                                       U \in WriteCopy(T, tree, 1, original[1])})
        Mirror(T) == UNION {IF U.ok THEN {U} ELSE Restore(U) : U \in WriteCopy(T, tree, 2, fresh)}
        Second(T) == UNION {IF U.ok THEN Mirror(U) ELSE Refuse(WriteCopy(U, tree, 1, original[1])) :
                               U \in DiskRead(T)}
    IN  Then(Then(DiskRead(S), LAMBDA T : WriteCopy(T, tree, 1, fresh)), LAMBDA T :
            IF S.layout = "single" THEN {T} ELSE Second(T))

btrfs_find_data_csum(S) == btrfs_read_node(S, "csum")

(* Whether what was read is what the checksum tree says. *)
btrfs_validate_data(S, s, value) ==
    Then(btrfs_find_data_csum(S), LAMBDA T :
        IF T.node.sums[s] = value THEN {T} ELSE Refuse({T}))

(* A sector of data: the first copy if it is right, or else the mirror. *)
btrfs_read_checked(S, s) ==
    LET m == btrfs_map_at(S, 1)
        Copy(T, c) == [T EXCEPT !.sector = T.data[c][s]]
        First == Then(DiskRead(S), LAMBDA T : btrfs_validate_data(Copy(T, 1), s, T.data[1][s]))
    IN  UNION {IF T.ok THEN {T}
               ELSE Then(DiskRead(T), LAMBDA U : btrfs_validate_data(Copy(U, m), s, U.data[m][s])) :
                  T \in First}

btrfs_update_data_csum(S, s, value) ==
    Then(btrfs_read_node(S, "csum"), LAMBDA T :
        btrfs_write_node(T, "csum", [T.node EXCEPT !.sums[s] = value]))

-----------------------------------------------------------------------------
(* Writing a file with a disk extent, sector by sector, in place. *)

WriteStripe(S, copy, s, value) == DiskWrite(S, [S EXCEPT !.data[copy][s] = value])

(* The first copy, the mirror, the checksum.  A later failure puts the data  *)
(* back; behind a failed checksum the mirror is put back only where it is at *)
(* another offset.                                                           *)
WriteSector(S, s, value) ==
    LET Undo(original, T) == Refuse(WriteStripe(T, 1, s, original))
        UndoBoth(original, T) ==
            IF T.layout # "apart" THEN Undo(original, T)
            ELSE Refuse(UNION {WriteStripe(U, 2, s, original) : U \in WriteStripe(T, 1, s, original)})
        Mirror(original, T) ==
            IF T.layout = "single" THEN {T}
            ELSE UNION {IF U.ok THEN {U} ELSE Undo(original, U) : U \in WriteStripe(T, 2, s, value)}
        Checksum(original, T) ==
            UNION {IF U.ok THEN {U} ELSE UndoBoth(original, U) : U \in btrfs_update_data_csum(T, s, value)}
        Write(T) == Then(Then(WriteStripe(T, 1, s, value), LAMBDA U : Mirror(T.sector, U)),
                         LAMBDA U : Checksum(T.sector, U))
    IN  Then(Then(btrfs_read_node(S, "fs"), LAMBDA T : btrfs_read_checked(T, s)), Write)

RECURSIVE WriteSectors(_, _, _, _)
WriteSectors(S, first, last, value) ==
    IF first > last THEN Accept({S})
    ELSE Then(WriteSector(S, first, value), LAMBDA T : WriteSectors(T, first + 1, last, value))

-----------------------------------------------------------------------------
(* The inline file. *)

btrfs_update_inode_size(S, size) ==
    Then(btrfs_read_node(S, "fs"), LAMBDA T :
        btrfs_write_node(T, "fs", [T.node EXCEPT !.size = size]))

btrfs_update_inline_item(S, from, to) ==
    Then(btrfs_read_node(S, "fs"), LAMBDA T :
        IF to > Len(T.node.bytes) THEN Refuse({T})
        ELSE btrfs_write_node(T, "fs", [T.node EXCEPT !.bytes =
                 [i \in DOMAIN @ |-> IF i > from /\ i <= to THEN 1 ELSE @[i]]]))

(* The item made as long as the file is to be, which never shortens it. *)
btrfs_grow_inline_item(S, size) ==
    Then(btrfs_read_node(S, "fs"), LAMBDA T :
        IF size < Len(T.node.bytes) THEN Refuse({T})
        ELSE btrfs_write_node(T, "fs", [T.node EXCEPT !.bytes =
                 [i \in 1 .. size |-> IF i <= Len(@) THEN @[i] ELSE 0]]))

(* A read of the inline file; one that goes past its end makes it longer. *)
btrfs_read_file(S, offset, end) ==
    LET Stat(T) ==
            IF offset > T.node.size THEN Refuse({T})
            ELSE IF end <= T.node.size THEN {T}
            ELSE Then(btrfs_grow_inline_item(T, end), LAMBDA U : btrfs_update_inode_size(U, end))
    IN  Then(Then(btrfs_read_node(S, "fs"), Stat), LAMBDA T : btrfs_read_node(T, "fs"))

btrfs_write_file(S, offset, end) ==
    Then(btrfs_read_node(S, "fs"), LAMBDA T :
        IF end > T.node.size THEN Refuse({T}) ELSE btrfs_update_inline_item(T, offset, end))

btrfs_truncate_file(S, size) ==
    Then(btrfs_read_node(S, "fs"), LAMBDA T :
        IF size >= T.node.size THEN Refuse({T}) ELSE btrfs_update_inode_size(T, size))

-----------------------------------------------------------------------------
(* The calls.  Once a transfer has failed or the power is gone nothing more  *)
(* is called but a read of the data.                                         *)

Working == btrfs.up /\ ~btrfs.marred

BtrfsSettled(T) == [T EXCEPT !.node = CsumLeaf, !.sector = 0, !.ok = TRUE]

(* btrfs_vfs_write on the file with a disk extent. *)
btrfs_write_extent ==
    /\ Working /\ btrfsWritten < BtrfsWrites
    /\ \E first \in BtrfsSector : \E last \in first .. BtrfsSectors, value \in 1 .. 2 :
          \E T \in WriteSectors(btrfs, first, last, value) :
              /\ btrfs' = BtrfsSettled(T)
              /\ btrfsMay' = [s \in BtrfsSector |->
                                 IF s \notin first .. last THEN btrfsMay[s]
                                 ELSE IF T.ok THEN {value} ELSE btrfsMay[s] \cup {value}]
    /\ btrfsWritten' = btrfsWritten + 1
    /\ UNCHANGED btrfsSize

btrfs_vfs_read ==
    /\ Working
    /\ \E h \in BtrfsHandles : \E offset \in 0 .. btrfsSize[h] : \E end \in offset + 1 .. btrfsSize[h] :
          \E T \in btrfs_read_file(btrfs, offset, end) : btrfs' = BtrfsSettled(T)
    /\ UNCHANGED <<btrfsMay, btrfsSize, btrfsWritten>>

btrfs_vfs_write ==
    /\ Working
    /\ \E h \in BtrfsHandles : \E offset \in 0 .. btrfsSize[h] : \E end \in offset + 1 .. btrfsSize[h] :
          \E T \in btrfs_write_file(btrfs, offset, end) : btrfs' = BtrfsSettled(T)
    /\ UNCHANGED <<btrfsMay, btrfsSize, btrfsWritten>>

btrfs_vfs_truncate ==
    /\ Working
    /\ \E h \in BtrfsHandles : \E size \in 0 .. btrfsSize[h] - 1 :
          \E T \in btrfs_truncate_file(btrfs, size) :
              /\ btrfs' = BtrfsSettled(T)
              /\ btrfsSize' = [btrfsSize EXCEPT ![h] = IF T.ok THEN size ELSE @]
    /\ UNCHANGED <<btrfsMay, btrfsWritten>>

BtrfsNext == btrfs_write_extent \/ btrfs_vfs_read \/ btrfs_vfs_write \/ btrfs_vfs_truncate

BtrfsSpec == BtrfsInit /\ [][BtrfsNext]_btrfsVars

-----------------------------------------------------------------------------
(* Properties. *)

(* What reads of a sector may return, on a device that works again. *)
Healthy == [btrfs EXCEPT !.up = TRUE, !.faults = 0, !.power = 0]
Read(s) == btrfs_read_checked(Healthy, s)

(* The variables keep their shape. *)
BtrfsTypeOK ==
    /\ \A c \in 1 .. 2, s \in BtrfsSector : btrfs.data[c][s] \in {Rotten, 0, 1, 2}
    /\ \A h \in BtrfsHandles : btrfsSize[h] \in 0 .. BtrfsInline
    /\ btrfsWritten \in 0 .. BtrfsWrites

(* A sector that can be read holds what it was last given, or what the write *)
(* that failed was giving it: the two copies and the checksum never agree    *)
(* on anything else, whichever transfer failed and whenever the power went   *)
(* (btrfs_read_checked, btrfs_write_file_unlocked).                          *)
BtrfsReadsWritten ==
    btrfs.present => \A s \in BtrfsSector : \A T \in Read(s) : T.ok => T.sector \in btrfsMay[s]

(* A write that fails on a transfer the medium did not take leaves every     *)
(* sector readable, with rotten first copies and without                     *)
(* (btrfs_write_file_unlocked, btrfs_write_node).                            *)
BtrfsFailedWriteUndone ==
    btrfs.present /\ ~btrfs.late /\ ~btrfs.cut => \A s \in BtrfsSector : \A T \in Read(s) : T.ok

(* As long as no transfer failed, both copies of a node that was written are *)
(* the same (btrfs_write_node).                                              *)
BtrfsNodesMirrored ==
    btrfs.present /\ ~btrfs.marred /\ ~btrfs.cut /\ btrfs.layout # "single" =>
        \A t \in Trees : ~btrfs.tree[t][1].bad => btrfs.tree[t][1] = btrfs.tree[t][2]

=============================================================================
