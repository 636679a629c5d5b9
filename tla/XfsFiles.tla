------------------------------ MODULE XfsFiles ------------------------------
(* The files of an XFS volume (kernel/fs/xfs/xfs.c) and their VFS adapter    *)
(* (xfs_vfs.c): inline and extent files, the unwritten extents an append     *)
(* allocates, and truncation.                                                *)
(*                                                                           *)
(* The free space is that of XfsSpace, in the same record as the inodes and  *)
(* the data blocks.  An inode and a data block are each published as one     *)
(* block or one transaction (XfsJournal).  A block holds a few bytes, and a  *)
(* byte says who wrote it: a file, nobody yet (what a block held before the  *)
(* volume was made), or a clearing.                                          *)
EXTENDS XfsSpace

CONSTANTS
    XfsExtentFiles,   \* inodes in extent format
    XfsLocalFiles,    \* inodes with their bytes inline
    XfsFileBlocks,    \* bound: blocks the files have between them
    XfsBlockSize,     \* bytes of a block
    XfsExtentMax,     \* extent records an inode has room for
    XfsInline,        \* bytes an inode has room for
    XfsMaxSize,       \* bound: the largest file
    XfsWriteMax       \* bound: the longest write

VARIABLES
    xfsf,        \* the volume: free space, inodes, data blocks
    xfsContent,  \* what was written to each file, byte by byte
    xfsSize      \* xfs_vfs_file_t.size

xfsFilesVars == <<xfsf, xfsContent, xfsSize>>

XfsFile == XfsExtentFiles \cup XfsLocalFiles
Extent(logical, physical, length, unwritten) ==
    [logical |-> logical, physical |-> physical, length |-> length, unwritten |-> unwritten]
Zero == "zero"
Stale == "stale"
Zeros(n) == [i \in 1 .. n |-> Zero]
EmptyInode == [size |-> 0, extents |-> <<>>, bytes |-> <<>>]

XfsFilesInit ==
    LET recs == <<Free(0, XfsFileBlocks)>>
    IN  /\ xfsf = [layout |-> "legacy", leaves |-> <<recs>>, cnt |-> <<>>, free |-> XfsFileBlocks,
                   longest |-> XfsFileBlocks, start |-> 0,
                   inode |-> [f \in XfsFile |-> EmptyInode],
                   data |-> [b \in 0 .. XfsFileBlocks - 1 |-> [i \in 1 .. XfsBlockSize |-> Stale]]]
                  @@ DiskFields(XfsSpaceFaults, 0)
        /\ xfsContent = [f \in XfsFile |-> <<>>]
        /\ xfsSize = [f \in XfsFile |-> 0]

-----------------------------------------------------------------------------
(* Inodes and extents. *)

xfs_write_inode(S, f, inode) == DiskWrite(S, [S EXCEPT !.inode[f] = inode])

(* The record that maps a logical block, 0 if none does. *)
xfs_extent(extents, logical) ==
    SelectInSeq(extents, LAMBDA e : logical >= e.logical /\ logical < e.logical + e.length)

Physical(extents, logical) ==
    LET e == extents[xfs_extent(extents, logical)] IN e.physical + (logical - e.logical)

(* What a read returns: zeroes where nothing is mapped or written yet. *)
BlockRead(S, extents, logical) ==
    LET i == xfs_extent(extents, logical)
    IN  IF i = 0 \/ extents[i].unwritten THEN Zeros(XfsBlockSize)
        ELSE S.data[Physical(extents, logical)]

xfs_read_file(S, f) ==
    IF f \in XfsLocalFiles THEN S.inode[f].bytes
    ELSE [i \in 1 .. S.inode[f].size |->
             BlockRead(S, S.inode[f].extents, (i - 1) \div XfsBlockSize)[((i - 1) % XfsBlockSize) + 1]]

(* The unwritten extent i, with the block at `logical` written: up to three  *)
(* records in its place.  Without room for two more it is refused.           *)
CanSplit(extents, i) == extents[i].length = 1 \/ Len(extents) <= XfsExtentMax - 2

(* Mutant of xfs_split_unwritten_extent: the extent with the block stays    *)
(* unwritten.                                                                *)
NotConverted(extents, i, logical) == extents

xfs_split_unwritten_extent(extents, i, logical) ==
    LET e == extents[i]
        ahead == logical - e.logical
        behind == e.length - ahead - 1
        here == e.physical + ahead
    IN  SubSeq(extents, 1, i - 1)
        \o (IF ahead > 0 THEN <<Extent(e.logical, e.physical, ahead, TRUE)>> ELSE <<>>)
        \o <<Extent(logical, here, 1, FALSE)>>
        \o (IF behind > 0 THEN <<Extent(logical + 1, here + 1, behind, TRUE)>> ELSE <<>>)
        \o SubSeq(extents, i + 1, Len(extents))

-----------------------------------------------------------------------------
(* Growing, writing and truncating, on a volume in the legacy layout. *)

AllocateBlocks(S, blocks) == PublishSpace(S, LegacyAllocate(S, blocks))
ReleaseBlocks(S, start, blocks) == PublishSpace(S, LegacyFree(S, start, blocks))

MappedEnd(extents) == IF extents = <<>> THEN 0 ELSE Last(extents).logical + Last(extents).length

(* The blocks up to `size` are allocated as one unwritten extent and         *)
(* published with the size; the extent goes back when that fails.            *)
xfs_extend_file(S, f, size) ==
    LET inode == S.inode[f]
        old == CeilDiv(inode.size, XfsBlockSize)
        blocks == CeilDiv(size, XfsBlockSize) - old
        Publish(T) == xfs_write_inode(T, f, [inode EXCEPT
                          !.size = size,
                          !.extents = Append(@, Extent(old, T.start, blocks, TRUE))])
        Attach(T) ==
            UNION {IF U.ok THEN {U} ELSE Refuse(ReleaseBlocks(U, T.start, blocks)) :
                      U \in Publish(T)}
    IN  IF \/ size <= inode.size \/ blocks <= 0
           \/ Len(inode.extents) >= XfsExtentMax
           \/ MappedEnd(inode.extents) # old THEN Refuse({S})
        ELSE Then(AllocateBlocks(S, blocks), Attach)

(* The bytes from `from` to `to` of a block, overwritten. *)
Overwrite(block, from, to, byte) ==
    [i \in 1 .. XfsBlockSize |-> IF i > from /\ i <= to THEN byte ELSE block[i]]

(* The blocks of the range from `from` to `to`, one after the other, with    *)
(* the extents as they are in memory; they are published at the end.         *)
RECURSIVE WriteBlocks(_, _, _, _, _, _)
WriteBlocks(S, f, extents, from, to, inode) ==
    IF from >= to
    THEN IF inode.size # S.inode[f].size \/ extents # S.inode[f].extents
         THEN xfs_write_inode(S, f, [inode EXCEPT !.extents = extents])
         ELSE DiskWrite(S, S)
    ELSE LET logical == from \div XfsBlockSize
             i == xfs_extent(extents, logical)
             next == IF (logical + 1) * XfsBlockSize < to THEN (logical + 1) * XfsBlockSize ELSE to
             fresh == Overwrite(BlockRead(S, extents, logical), from - logical * XfsBlockSize,
                                next - logical * XfsBlockSize, f)
             Write(T) == DiskWrite(T, [T EXCEPT !.data[Physical(extents, logical)] = fresh])
             Rest(T) ==
                IF ~extents[i].unwritten THEN WriteBlocks(T, f, extents, next, to, inode)
                ELSE IF CanSplit(extents, i)
                THEN WriteBlocks(T, f, xfs_split_unwritten_extent(extents, i, logical), next, to, inode)
                ELSE Refuse({T})
         IN  IF i = 0 THEN Refuse({S})
             ELSE Then(Then(IF extents[i].unwritten THEN Accept({S}) ELSE DiskRead(S), Write), Rest)

WriteExtents(S, f, offset, end) ==
    LET size == IF end > S.inode[f].size THEN end ELSE S.inode[f].size
        All(T) == WriteBlocks(T, f, T.inode[f].extents, offset, end, [T.inode[f] EXCEPT !.size = size])
    IN  IF end > S.inode[f].size /\ xfs_extent(S.inode[f].extents, (end - 1) \div XfsBlockSize) = 0
        THEN Then(xfs_extend_file(S, f, end), All)
        ELSE All(S)

(* The bytes of an inline file with a range overwritten. *)
InlineWrite(bytes, f, offset, end) ==
    [i \in 1 .. (IF end > Len(bytes) THEN end ELSE Len(bytes)) |->
        IF i > offset /\ i <= end THEN f ELSE bytes[i]]

xfs_write_file(S, f, offset, end) ==
    IF offset > S.inode[f].size THEN Refuse({S})
    ELSE IF f \in XfsExtentFiles THEN WriteExtents(S, f, offset, end)
    ELSE IF end > XfsInline THEN Refuse({S})
    ELSE LET bytes == InlineWrite(S.inode[f].bytes, f, offset, end)
         IN  xfs_write_inode(S, f, [S.inode[f] EXCEPT !.bytes = bytes, !.size = Len(bytes)])

(* The records a truncation keeps, the last one cut, and what it detaches. *)
Retained(extents, keep) ==
    LET cut == [i \in DOMAIN extents |->
                  IF extents[i].logical + extents[i].length <= keep THEN extents[i]
                  ELSE [extents[i] EXCEPT !.length = keep - extents[i].logical]]
    IN  SelectSeq(cut, LAMBDA e : e.logical < keep)

Detached(extents, keep) ==
    LET past == SelectSeq(extents, LAMBDA e : e.logical + e.length > keep)
        Cut(e) == IF e.logical >= keep THEN 0 ELSE keep - e.logical
    IN  [i \in DOMAIN past |-> Free(past[i].physical + Cut(past[i]), past[i].length - Cut(past[i]))]

RECURSIVE ReleaseExtents(_, _)
ReleaseExtents(S, extents) ==
    IF extents = <<>> THEN Accept({S})
    ELSE LET Rest(T) == ReleaseExtents(T, Tail(extents))
         IN  Then(ReleaseBlocks(S, Head(extents).start, Head(extents).count), Rest)

(* The bytes behind the new end of the last block are cleared. *)
ClearTail(S, extents, size) ==
    LET logical == size \div XfsBlockSize
        i == xfs_extent(extents, logical)
        Clear(T) == DiskWrite(T, [T EXCEPT !.data[Physical(extents, logical)] =
                                        Overwrite(@, size % XfsBlockSize, XfsBlockSize, Zero)])
    IN  IF size % XfsBlockSize = 0 \/ i = 0 THEN Accept({S})
        ELSE IF extents[i].unwritten THEN Accept({S})
        ELSE Then(DiskRead(S), Clear)

TruncateExtents(S, f, size) ==
    LET keep == CeilDiv(size, XfsBlockSize)
        retained == Retained(S.inode[f].extents, keep)
        Shorten(T) == xfs_write_inode(T, f, [S.inode[f] EXCEPT !.size = size, !.extents = retained])
        Release(T) == ReleaseExtents(T, Detached(S.inode[f].extents, keep))
    IN  IF S.inode[f].extents = <<>> THEN Refuse({S})
        ELSE Then(Then(ClearTail(S, retained, size), Shorten), Release)

xfs_truncate_file(S, f, size) ==
    IF size > S.inode[f].size THEN Refuse({S})
    ELSE IF f \in XfsExtentFiles THEN TruncateExtents(S, f, size)
    ELSE xfs_write_inode(S, f, [S.inode[f] EXCEPT !.bytes = SubSeq(@, 1, size), !.size = size])

-----------------------------------------------------------------------------
(* The adapter, which holds the file's lock over each call. *)

Settle(T) == [T EXCEPT !.start = 0]

(* A call that fails may leave its own file in between; the bytes expected   *)
(* of it are then those it has.                                              *)
Observe(f, T, content) ==
    xfsContent' = [xfsContent EXCEPT ![f] = IF T.ok THEN content ELSE xfs_read_file(T, f)]

xfs_vfs_write ==
    /\ ~xfsf.marred
    /\ \E f \in XfsFile : \E offset \in 0 .. xfsSize[f], n \in 1 .. XfsWriteMax :
          LET end == offset + n
          IN  /\ end <= XfsMaxSize
              /\ \E T \in xfs_write_file(xfsf, f, offset, end) :
                    /\ xfsf' = Settle(T)
                    /\ Observe(f, T, InlineWrite(xfsContent[f], f, offset, end))
                    /\ xfsSize' = [xfsSize EXCEPT ![f] = IF T.ok /\ end > @ THEN end ELSE @]

xfs_vfs_truncate ==
    /\ ~xfsf.marred
    /\ \E f \in XfsFile : \E size \in 0 .. xfsSize[f] - 1 :
          \E T \in xfs_truncate_file(xfsf, f, size) :
              /\ xfsf' = Settle(T)
              /\ Observe(f, T, SubSeq(xfsContent[f], 1, size))
              /\ xfsSize' = [xfsSize EXCEPT ![f] = IF T.ok THEN size ELSE @]

(* Attaching a file again reads its size from the inode. *)
xfs_vfs_attach_file ==
    /\ ~xfsf.marred
    /\ \E f \in XfsFile :
          /\ xfsSize[f] # xfsf.inode[f].size
          /\ xfsSize' = [xfsSize EXCEPT ![f] = xfsf.inode[f].size]
    /\ UNCHANGED <<xfsf, xfsContent>>

XfsFilesNext == xfs_vfs_write \/ xfs_vfs_truncate \/ xfs_vfs_attach_file

XfsFilesSpec == XfsFilesInit /\ [][XfsFilesNext]_xfsFilesVars

-----------------------------------------------------------------------------
(* Properties. *)

FileExtents(f) == {Free(e.physical, e.length) : e \in ToSet(xfsf.inode[f].extents)}

(* The variables keep their shape. *)
XfsFilesTypeOK ==
    /\ \A f \in XfsExtentFiles : Len(xfsf.inode[f].extents) <= XfsExtentMax
    /\ \A f \in XfsLocalFiles : /\ xfsf.inode[f].extents = <<>>
                                /\ xfsf.inode[f].size = Len(xfsf.inode[f].bytes)
                                /\ xfsf.inode[f].size <= XfsInline
    /\ \A f \in XfsFile : xfsSize[f] \in 0 .. XfsMaxSize

(* A file reads back as it was written, every byte of it: no sequence of     *)
(* appends, partial writes into unwritten extents and truncations shows what *)
(* an earlier owner of a block left there, and a call on one file, failed    *)
(* or not, changes no other (xfs_write_file, xfs_split_unwritten_extent,     *)
(* xfs_truncate_file, xfs_read_file).                                        *)
XfsReadsBack == xfsf.present => \A f \in XfsFile : xfs_read_file(xfsf, f) = xfsContent[f]

ExtentsSound ==
    /\ BlocksOf(ToSet(Records(xfsf))) \cap BlocksOf(UNION {FileExtents(f) : f \in XfsExtentFiles}) = {}
    /\ \A f, g \in XfsExtentFiles :
          f # g => BlocksOf(FileExtents(f)) \cap BlocksOf(FileExtents(g)) = {}
    /\ \A f \in XfsExtentFiles :
          LET extents == xfsf.inode[f].extents
          IN  /\ \A i \in DOMAIN extents :
                    extents[i].logical = IF i = 1 THEN 0 ELSE extents[i - 1].logical + extents[i - 1].length
              /\ MappedEnd(extents) = CeilDiv(xfsf.inode[f].size, XfsBlockSize)
              /\ Cardinality(BlocksOf(FileExtents(f))) = MappedEnd(extents)

(* No block belongs to two files or to a file and the free space, after any  *)
(* call and any publication that failed before it reached the medium; the    *)
(* extents of a file follow each other from block 0 to its size              *)
(* (xfs_extend_file, xfs_truncate_file).                                     *)
XfsExtentsSound == xfsf.present /\ ~xfsf.late => ExtentsSound

(* Without a failed publication every block is free or part of a file: no    *)
(* refused call and no truncation leaks one.                                 *)
XfsNothingLeaked ==
    xfsf.present /\ ~xfsf.marred =>
        xfsf.free + Cardinality(BlocksOf(UNION {FileExtents(f) : f \in XfsExtentFiles})) = XfsFileBlocks

(* The adapter never believes a file longer than it is, so a read it lets    *)
(* through is one the volume can serve (xfs_vfs_read).                       *)
XfsSizeBounded ==
    xfsf.present /\ ~xfsf.marred => \A f \in XfsFile : xfsSize[f] <= xfsf.inode[f].size

=============================================================================
