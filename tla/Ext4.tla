-------------------------------- MODULE Ext4 --------------------------------
(* Growing, writing and truncating the regular files of an ext4 volume       *)
(* (kernel/fs/ext4/ext4.c) and their VFS adapter (ext4_vfs.c): the block     *)
(* bitmaps, files mapped by direct, single, double and triple indirect       *)
(* tables, and files mapped by extent trees of depth 0 to 3.                 *)
(*                                                                           *)
(* The driver never makes a tree deeper, so the files start out as an image  *)
(* holds them: empty, or of one block below a tree of the given depth.       *)
(* A block is the table or the tree node it holds, and a block of file data  *)
(* holds neither.  Reads that follow each other without a write between them *)
(* fail alike and are one transfer.  Every call holds the volume's lock with *)
(* interrupts disabled.                                                      *)
EXTENDS FaultyDisk, FiniteSets, SequencesExt

CONSTANTS
    Ext4Blocks,     \* blocks of the volume, 1 .. Ext4Blocks; block 0 is "none"
    Ext4Span,       \* blocks of a group
    Ext4BlockSize,  \* bytes of a block
    Ext4Direct,     \* pointers in the inode (12)
    Ext4Pointers,   \* pointers in a table
    Ext4RootMax,    \* records in the root of a tree (4)
    Ext4LeafMax,    \* records in a leaf
    Ext4IndexMax,   \* records in an index node
    Ext4MaxDelta,   \* blocks an extent file may change by in one call (1024)
    Ext4Kinds,      \* how the file "a" is mapped; "b" is an empty extent file.
                    \* "mapped" and "tables" are files with tables; only "mapped"
                    \* reaches the third level, and only there no transfer fails
    Ext4MaxMapped,  \* bound: the largest file of kind "mapped"
    Ext4MaxTree,    \* bound: the largest file of any other kind
    Ext4MaxOther,   \* bound: the largest size of the file "b"
    Ext4WriteMax,   \* bound: the longest write
    Ext4Faults      \* bound: transfers that fail

VARIABLES
    ext4,      \* the volume
    ext4Size,  \* ext4_vfs_file_t.size
    ext4Last   \* the call whose transfer failed

ext4Vars == <<ext4, ext4Size, ext4Last>>

Ext4Files == {"a", "b"}
Ext4Block == 1 .. Ext4Blocks

NoPointers == [i \in 0 .. Ext4Pointers - 1 |-> 0]
ZeroFilled == [level |-> -1, entries |-> <<>>, ptr |-> NoPointers]
TreeNode(level, entries) == [level |-> level, entries |-> entries, ptr |-> NoPointers]
Record(first, start, length, hole) ==
    [first |-> first, start |-> start, length |-> length, hole |-> hole]
Index(first, block) == [first |-> first, block |-> block]

MappedInode == [size |-> 0, mapped |-> TRUE, depth |-> 0, root |-> <<>>,
                direct |-> [i \in 0 .. Ext4Direct - 1 |-> 0], table |-> <<0, 0, 0>>]
ExtentInode(size, depth, root) ==
    [MappedInode EXCEPT !.size = size, !.mapped = FALSE, !.depth = depth, !.root = root]

(* A file of one block at block 1, its tree in the blocks behind it. *)
KindDepth(kind) ==
    CASE kind = "depth1" -> 1 [] kind = "depth2" -> 2 [] kind = "depth3" -> 3 [] OTHER -> 0

ImageInode(kind) ==
    CASE kind \in {"mapped", "tables"} -> MappedInode
      [] kind = "extent"    -> ExtentInode(0, 0, <<>>)
      [] kind = "unwritten" -> ExtentInode(Ext4BlockSize, 0, <<Record(0, 1, 1, TRUE)>>)
      [] OTHER -> ExtentInode(Ext4BlockSize, KindDepth(kind), <<Index(0, KindDepth(kind) + 1)>>)

ImageNodes(kind) ==
    [b \in Ext4Block |->
        IF b \in 2 .. KindDepth(kind) + 1
        THEN TreeNode(b - 2, IF b = 2 THEN <<Record(0, 1, 1, FALSE)>> ELSE <<Index(0, b - 1)>>)
        ELSE ZeroFilled]

ImageUsed(kind) == IF kind \in {"mapped", "tables", "extent"} THEN {} ELSE 1 .. KindDepth(kind) + 1

Ext4Init ==
    /\ \E kind \in Ext4Kinds :
          ext4 = [used |-> ImageUsed(kind), node |-> ImageNodes(kind),
                  inode |-> [f \in Ext4Files |-> ImageInode(IF f = "a" THEN kind ELSE "extent")],
                  mem |-> MappedInode, block |-> 0, empty |-> FALSE,
                  leaf |-> [block |-> 0, records |-> <<>>], middle |-> <<>>, got |-> <<>>]
                 @@ DiskFields(IF kind = "mapped" THEN 0 ELSE Ext4Faults, 0)
    /\ ext4Size = [f \in Ext4Files |-> ext4.inode[f].size]
    /\ ext4Last = "none"

RECURSIVE TableBlocks(_, _, _)
TableBlocks(S, table, level) ==
    IF table = 0 THEN {}
    ELSE {table} \cup (IF level = 0 THEN {}
                       ELSE UNION {TableBlocks(S, S.node[table].ptr[i], level - 1) :
                                      i \in DOMAIN NoPointers})

RECURSIVE TreeBlocks(_, _, _)
TreeBlocks(S, depth, entries) ==
    UNION {IF depth = 0 THEN entries[i].start .. entries[i].start + entries[i].length - 1
           ELSE {entries[i].block} \cup TreeBlocks(S, depth - 1, S.node[entries[i].block].entries) :
              i \in DOMAIN entries}

(* Every block a file names: its data, its tables, the nodes of its tree. *)
BlocksNamed(S, f) ==
    LET inode == S.inode[f]
    IN  IF inode.mapped
        THEN (Range(inode.direct) \ {0}) \cup UNION {TableBlocks(S, inode.table[l], l) : l \in 1 .. 3}
        ELSE TreeBlocks(S, inode.depth, inode.root)

(* What a call leaves behind, without its local variables.  A block that is  *)
(* free and that no file names is zeroed before anyone reads it.             *)
Ext4Settled(T) ==
    LET alive == T.used \cup BlocksNamed(T, "a") \cup BlocksNamed(T, "b")
    IN  [T EXCEPT !.node = [b \in Ext4Block |-> IF b \in alive THEN @[b] ELSE ZeroFilled],
              !.ok = TRUE, !.mem = MappedInode, !.block = 0, !.empty = FALSE,
              !.leaf = [block |-> 0, records |-> <<>>], !.middle = <<>>, !.got = <<>>]

-----------------------------------------------------------------------------
(* Inodes and the bitmaps. *)

write_inode(S, f, inode) ==
    Then(DiskRead(S), LAMBDA T : DiskWrite(T, [T EXCEPT !.inode[f] = inode]))

ext4_set_block_used(S, block, used) ==
    Then(DiskRead(S), LAMBDA T : DiskWrite(T,
        [T EXCEPT !.used = IF used THEN @ \cup {block} ELSE @ \ {block}]))

group_bitmap(S, group) ==
    {b \in Ext4Block : (b - 1) \div Ext4Span = group /\ b \notin S.used}

(* Mutant of AllocateIn: the bitmap is not written. *)
Unmarked(S, block) ==
    Then(DiskWrite(S, [S EXCEPT !.node[block] = ZeroFilled]), LAMBDA T : {[T EXCEPT !.block = block]})

(* The block is marked, zeroed, and given back when that fails. *)
AllocateIn(S, block) ==
    Then(ext4_set_block_used(S, block, TRUE), LAMBDA T :
        UNION {IF U.ok THEN {[U EXCEPT !.block = block]}
               ELSE Refuse(ext4_set_block_used(U, block, FALSE)) :
                  U \in DiskWrite(T, [T EXCEPT !.node[block] = ZeroFilled])})

(* The first free block; a group whose bitmap cannot be read is passed over. *)
RECURSIVE AllocateFrom(_, _)
AllocateFrom(S, group) ==
    IF group * Ext4Span >= Ext4Blocks THEN Refuse({S})
    ELSE UNION {IF T.ok /\ group_bitmap(T, group) # {}
                THEN AllocateIn(T, CHOOSE b \in group_bitmap(T, group) :
                                      \A c \in group_bitmap(T, group) : b <= c)
                ELSE AllocateFrom(T, group + 1) : T \in DiskRead(S)}

ext4_alloc_block(S) == AllocateFrom(S, 0)

-----------------------------------------------------------------------------
(* Files mapped by tables. *)

Pow(n, e) == IF e = 0 THEN 1 ELSE IF e = 1 THEN n ELSE IF e = 2 THEN n * n ELSE n * n * n

(* Where the blocks of each level begin. *)
LevelStart == <<Ext4Direct, Ext4Direct + Ext4Pointers,
                Ext4Direct + Ext4Pointers + Pow(Ext4Pointers, 2)>>
triple_limit == LevelStart[3] + Pow(Ext4Pointers, 3)
LevelOf(i) == CHOOSE l \in 1 .. 3 : /\ LevelStart[l] <= i
                                    /\ l = 3 \/ i < LevelStart[l + 1]

AllocateTable(S) ==
    Then(ext4_alloc_block(S), LAMBDA T : DiskWrite(T, [T EXCEPT !.node[T.block] = ZeroFilled]))

(* The pointer at `index` below a table: missing tables are made and linked, *)
(* and the pointer itself must not be there yet.                             *)
RECURSIVE InsertBelow(_, _, _, _)
InsertBelow(S, table, level, index) ==
    LET span == Pow(Ext4Pointers, level - 1)
        i == index \div span
        Link(T) == DiskWrite(T, [T EXCEPT !.node[table].ptr[i] = T.block])
        Down(T) == InsertBelow(T, T.node[table].ptr[i], level - 1, index % span)
        Here(T) ==
            IF level = 1
            THEN IF T.node[table].ptr[i] # 0 THEN Refuse({T}) ELSE Then(ext4_alloc_block(T), Link)
            ELSE Then(IF T.node[table].ptr[i] # 0 THEN {T} ELSE Then(AllocateTable(T), Link), Down)
    IN  Then(DiskRead(S), Here)

NeedTable(S, level) ==
    IF S.mem.table[level] # 0 THEN Accept({S})
    ELSE Then(AllocateTable(S), LAMBDA T : {[T EXCEPT !.mem.table[level] = T.block]})

RECURSIVE GrowBlocks(_, _, _)
GrowBlocks(S, i, blocks) ==
    LET l == LevelOf(i)
        Direct(T) == {[T EXCEPT !.mem.direct[i] = T.block]}
        Indirect(T) == Then(NeedTable(T, l), LAMBDA U :
                            InsertBelow(U, U.mem.table[l], l, i - LevelStart[l]))
    IN  IF i >= blocks THEN Accept({S})
        ELSE Then(IF i < Ext4Direct THEN Then(ext4_alloc_block(S), Direct)
                  ELSE Then(NeedTable(S, 1), Indirect),
                  LAMBDA T : GrowBlocks(T, i + 1, blocks))

(* One pointer of a lowest table: the data block behind it, kept or freed. *)
TrimChild(S, table, index, ptr, changed, has_child, keep) ==
    IF keep = 0 THEN Then(ext4_set_block_used(S, ptr[index], FALSE), LAMBDA T :
                        {[T EXCEPT !.middle = <<[ptr EXCEPT ![index] = 0], TRUE, has_child>>]})
    ELSE Accept({[S EXCEPT !.middle = <<ptr, changed, TRUE>>]})

(* The pointers from `index` on; the table is written when one was cleared   *)
(* and freed when none is left.                                              *)
RECURSIVE ext4_trim_tree(_, _, _, _, _, _, _, _)
ext4_trim_tree(S, table, depth, keep, index, ptr, changed, has_child) ==
    LET span == Pow(Ext4Pointers, depth - 1)
        child_keep == IF keep <= index * span THEN 0
                      ELSE IF keep - index * span > span THEN span ELSE keep - index * span
        Next4(T) == ext4_trim_tree(T, table, depth, keep, index + 1,
                                   T.middle[1], T.middle[2], T.middle[3])
        Below(T) == ext4_trim_tree(T, ptr[index], depth - 1, child_keep, 0,
                                   T.node[ptr[index]].ptr, FALSE, FALSE)
        Back(T) == {[T EXCEPT !.middle = IF T.empty THEN <<[ptr EXCEPT ![index] = 0], TRUE, has_child>>
                                         ELSE <<ptr, changed, TRUE>>]}
        Close(T) == IF has_child THEN {[T EXCEPT !.empty = FALSE]}
                    ELSE Then(ext4_set_block_used(T, table, FALSE),
                              LAMBDA U : {[U EXCEPT !.empty = TRUE]})
    IN  IF index = Ext4Pointers
        THEN Then(IF changed THEN DiskWrite(S, [S EXCEPT !.node[table].ptr = ptr]) ELSE Accept({S}),
                  Close)
        ELSE IF ptr[index] = 0
        THEN ext4_trim_tree(S, table, depth, keep, index + 1, ptr, changed, has_child)
        ELSE Then(IF depth = 1 THEN TrimChild(S, table, index, ptr, changed, has_child, child_keep)
                  ELSE Then(Then(DiskRead(S), Below), Back), Next4)

TrimTable(S, level, blocks) ==
    LET table == S.mem.table[level]
        past == IF blocks > LevelStart[level] THEN blocks - LevelStart[level] ELSE 0
        keep == IF past > Pow(Ext4Pointers, level) THEN Pow(Ext4Pointers, level) ELSE past
    IN  IF table = 0 THEN Accept({S})
        ELSE Then(Then(DiskRead(S), LAMBDA T :
                      ext4_trim_tree(T, table, level, keep, 0, T.node[table].ptr, FALSE, FALSE)),
                  LAMBDA T : {IF T.empty THEN [T EXCEPT !.mem.table[level] = 0] ELSE T})

RECURSIVE TrimDirect(_, _, _)
TrimDirect(S, i, old) ==
    LET Clear(T) == TrimDirect([T EXCEPT !.mem.direct[i] = 0], i + 1, old)
    IN  IF i >= Ext4Direct \/ i >= old THEN Accept({S})
        ELSE Then(IF S.mem.direct[i] = 0 THEN Accept({S})
                  ELSE ext4_set_block_used(S, S.mem.direct[i], FALSE), Clear)

ShrinkBlocks(S, blocks, old) ==
    Then(Then(Then(TrimDirect(S, blocks, old), LAMBDA T : TrimTable(T, 1, blocks)),
              LAMBDA T : TrimTable(T, 2, blocks)),
         LAMBDA T : TrimTable(T, 3, blocks))

ext4_resize_blocks(S, f, size) ==
    LET old == CeilDiv(S.inode[f].size, Ext4BlockSize)
        new == CeilDiv(size, Ext4BlockSize)
        M == [S EXCEPT !.mem = S.inode[f]]
        Resized == IF new > old THEN GrowBlocks(M, old, new)
                   ELSE IF new < old THEN ShrinkBlocks(M, new, old) ELSE {M}
    IN  IF new > triple_limit THEN Refuse({S})
        ELSE Then(Resized, LAMBDA T : write_inode(T, f, [T.mem EXCEPT !.size = size]))

-----------------------------------------------------------------------------
(* Files mapped by extent trees. *)

(* The nodes on the last path of a tree, or <<>> where one is not a node of  *)
(* its level or an index without entries.                                    *)
RECURSIVE LastPath(_, _, _)
LastPath(S, depth, entries) ==
    IF entries = <<>> THEN <<>>
    ELSE LET b == Last(entries).block
             below == LastPath(S, depth - 1, S.node[b].entries)
         IN  IF S.node[b].level # depth - 1 THEN <<>>
             ELSE IF depth = 1 THEN <<b>>
             ELSE IF below = <<>> THEN <<>> ELSE <<b>> \o below

(* The root and the last nodes, copied to memory. *)
LoadTree(S, f) ==
    LET inode == S.inode[f]
        path == LastPath(S, inode.depth, inode.root)
    IN  IF inode.depth = 0
        THEN {[S EXCEPT !.mem = inode, !.leaf = [block |-> 0, records |-> inode.root]]}
        ELSE Then(DiskRead(S), LAMBDA T :
                IF path = <<>> THEN Refuse({T})
                ELSE {[T EXCEPT !.mem = inode,
                                !.leaf = [block |-> Last(path), records |-> T.node[Last(path)].entries],
                                !.middle = IF inode.depth = 1 THEN <<>>
                                           ELSE T.node[path[Len(path) - 1]].entries]})

Contiguous(record, logical, physical) ==
    /\ ~record.hole
    /\ record.first + record.length = logical
    /\ record.start + record.length = physical

(* A leaf is full: the next one is begun, at the end of the last index node. *)
(* The copy of the full leaf is given up.                                    *)
NewLeaf(S, logical) ==
    LET full == CASE S.mem.depth = 1 -> Len(S.mem.root) >= Ext4RootMax
                  [] S.mem.depth = 2 -> Len(S.middle) >= Ext4IndexMax
                  [] OTHER -> TRUE
        Begin(T) ==
            LET U == [T EXCEPT !.got = Append(@, T.block),
                               !.leaf = [block |-> T.block, records |-> <<>>]]
            IN  {IF T.mem.depth = 1 THEN [U EXCEPT !.mem.root = Append(@, Index(logical, T.block))]
                 ELSE [U EXCEPT !.middle = Append(@, Index(logical, T.block))]}
    IN  IF full THEN Refuse({S}) ELSE Then(ext4_alloc_block(S), Begin)

(* One more block: the last record is made longer, or a record is added. *)
AddBlock(S, logical) ==
    LET capacity == IF S.mem.depth = 0 THEN Ext4RootMax ELSE Ext4LeafMax
        Add(physical, T) ==
            {[T EXCEPT !.leaf.records = Append(@, Record(logical, physical, 1, FALSE))]}
        Place(T) ==
            LET U == [T EXCEPT !.got = Append(@, T.block)]
                n == Len(U.leaf.records)
            IN  IF n > 0 /\ Contiguous(Last(<<Record(0, 0, 0, FALSE)>> \o U.leaf.records), logical, T.block)
                THEN {[U EXCEPT !.leaf.records[n].length = @ + 1]}
                ELSE IF n >= capacity THEN Then(NewLeaf(U, logical), LAMBDA V : Add(T.block, V))
                ELSE Add(T.block, U)
    IN  Then(ext4_alloc_block(S), Place)

RECURSIVE AddBlocks(_, _, _)
AddBlocks(S, logical, blocks) ==
    IF logical >= blocks THEN Accept({S})
    ELSE Then(AddBlock(S, logical), LAMBDA T : AddBlocks(T, logical + 1, blocks))

(* Mutant of PublishTree: the records first, the size in a second write. *)
SizeAfterwards(S, f, size) ==
    LET grown == [S.mem EXCEPT !.root = IF S.mem.depth = 0 THEN S.leaf.records ELSE @]
    IN  Then(write_inode(S, f, [grown EXCEPT !.size = S.inode[f].size]),
             LAMBDA T : write_inode(T, f, [grown EXCEPT !.size = size]))

(* The leaf, the index above it at depth 2, and the inode. *)
PublishTree(S, f, size) ==
    LET depth == S.mem.depth
        Leaf(T) == IF depth = 0 THEN Accept({T})
                   ELSE DiskWrite(T, [T EXCEPT !.node[T.leaf.block] = TreeNode(0, T.leaf.records)])
        Middle(T) == IF depth # 2 THEN Accept({T})
                     ELSE DiskWrite(T, [T EXCEPT !.node[Last(T.inode[f].root).block].entries = T.middle])
        Inode(T) == write_inode(T, f, [T.mem EXCEPT !.size = size,
                        !.root = IF depth = 0 THEN T.leaf.records ELSE @])
    IN  Then(Then(Leaf(S), Middle), Inode)

(* Every block that was allocated is freed, the last one first. *)
RECURSIVE ReleaseNew(_)
ReleaseNew(S) ==
    IF S.got = <<>> THEN Refuse({S})
    ELSE Then(ext4_set_block_used([S EXCEPT !.got = Front(@)], Last(S.got), FALSE), ReleaseNew)

ext4_resize_extent_file(S, f, size) ==
    LET old == CeilDiv(S.inode[f].size, Ext4BlockSize)
        new == CeilDiv(size, Ext4BlockSize)
        Grown(T) == Then(AddBlocks(T, old, new), LAMBDA U : PublishTree(U, f, size))
    IN  IF new = old \/ new - old > Ext4MaxDelta THEN Refuse({S})
        ELSE Then(LoadTree(S, f), LAMBDA T :
                UNION {IF U.ok THEN {U} ELSE ReleaseNew(U) : U \in Grown(T)})

(* The records of a leaf, cut at `blocks`; a record that loses all its       *)
(* blocks goes.  The blocks are freed at once, record by record.             *)
Kept(record, blocks) ==
    IF blocks <= record.first THEN 0
    ELSE IF blocks - record.first > record.length THEN record.length ELSE blocks - record.first

RECURSIVE FreeRun(_, _, _)
FreeRun(S, start, length) ==
    IF length = 0 THEN Accept({S})
    ELSE Then(ext4_set_block_used(S, start, FALSE), LAMBDA T : FreeRun(T, start + 1, length - 1))

RECURSIVE ext4_trim_extent_leaf(_, _, _)
ext4_trim_extent_leaf(S, records, blocks) ==
    IF records = <<>> THEN Accept({[S EXCEPT !.leaf.records = <<>>]})
    ELSE LET r == Head(records)
             keep == Kept(r, blocks)
             Rest(T) == ext4_trim_extent_leaf(T, Tail(records), blocks)
             Cut(T) == {[T EXCEPT !.leaf.records =
                            (IF keep = 0 THEN <<>> ELSE <<[r EXCEPT !.length = keep]>>) \o @]}
         IN  Then(Then(FreeRun(S, r.start + keep, r.length - keep), Rest), Cut)

(* The leaves below an index, from the last to the first: an empty leaf is   *)
(* freed and loses its index, any other is written.  S.middle holds the      *)
(* index.                                                                    *)
RECURSIVE TrimLeaves(_, _, _)
TrimLeaves(S, i, blocks) ==
    LET b == S.middle[i].block
        Close(T) == IF T.leaf.records = <<>>
                    THEN Then(ext4_set_block_used(T, b, FALSE),
                              LAMBDA U : {[U EXCEPT !.middle = RemoveAt(@, i)]})
                    ELSE DiskWrite(T, [T EXCEPT !.node[b].entries = T.leaf.records])
        Leaf(T) == IF T.node[b].level # 0 THEN Refuse({T})
                   ELSE Then(ext4_trim_extent_leaf(T, T.node[b].entries, blocks), Close)
    IN  IF i = 0 THEN Accept({S})
        ELSE Then(Then(DiskRead(S), Leaf), LAMBDA T : TrimLeaves(T, i - 1, blocks))

ShrinkRoot(S, blocks) ==
    Then(ext4_trim_extent_leaf(S, S.mem.root, blocks),
         LAMBDA T : {[T EXCEPT !.mem.root = T.leaf.records]})

ShrinkDepth1(S, blocks) ==
    IF S.mem.root = <<>> THEN Refuse({S})
    ELSE Then(TrimLeaves([S EXCEPT !.middle = S.mem.root], Len(S.mem.root), blocks),
              LAMBDA T : {[T EXCEPT !.mem.root = T.middle]})

ShrinkDepth2(S, blocks) ==
    LET b == S.mem.root[1].block
        Load(T) == IF T.node[b].level # 1 \/ T.node[b].entries = <<>> THEN Refuse({T})
                   ELSE TrimLeaves([T EXCEPT !.middle = T.node[b].entries],
                                   Len(T.node[b].entries), blocks)
        Close(T) == IF T.middle = <<>>
                    THEN Then(ext4_set_block_used(T, b, FALSE), LAMBDA U : {[U EXCEPT !.mem.root = <<>>]})
                    ELSE DiskWrite(T, [T EXCEPT !.node[b].entries = T.middle])
    IN  IF Len(S.mem.root) # 1 THEN Refuse({S}) ELSE Then(Then(DiskRead(S), Load), Close)

(* One chain of single nodes.  The count of the root is cleared when the     *)
(* leaf is empty, and stored again from the copy that was read at first.     *)
ShrinkDepth3(S, blocks) ==
    LET path == LastPath(S, 3, S.mem.root)
        Single == \A i \in 1 .. 2 : Len(S.node[path[i]].entries) = 1
        FreeAll(T) == Then(Then(ext4_set_block_used(T, path[3], FALSE),
                                LAMBDA U : ext4_set_block_used(U, path[2], FALSE)),
                           LAMBDA U : ext4_set_block_used(U, path[1], FALSE))
        Close(T) == IF T.leaf.records = <<>> THEN FreeAll(T)
                    ELSE DiskWrite(T, [T EXCEPT !.node[path[3]].entries = T.leaf.records])
        Trim(T) == ext4_trim_extent_leaf(T, T.node[path[3]].entries, blocks)
    IN  IF Len(S.mem.root) # 1 THEN Refuse({S})
        ELSE Then(DiskRead(S), LAMBDA T :
                IF Len(path) # 3 THEN Refuse({T})
                ELSE IF ~Single THEN Refuse({T}) ELSE Then(Trim(T), Close))

(* The record that maps a logical block, <<>> if there is none. *)
RECURSIVE extent_data_block(_, _, _, _)
extent_data_block(S, depth, entries, logical) ==
    IF depth = 0
    THEN SelectSeq(entries, LAMBDA r : logical >= r.first /\ logical - r.first < r.length)
    ELSE LET before == SelectSeq(entries, LAMBDA x : x.first <= logical)
         IN  IF before = <<>> THEN <<>>
             ELSE LET b == Last(before).block
                  IN  IF S.node[b].level # depth - 1 THEN <<>>
                      ELSE extent_data_block(S, depth - 1, S.node[b].entries, logical)

RECURSIVE TableEntry(_, _, _, _)
TableEntry(S, table, level, index) ==
    LET span == Pow(Ext4Pointers, level - 1)
    IN  IF table = 0 \/ level = 0 THEN table
        ELSE TableEntry(S, S.node[table].ptr[index \div span], level - 1, index % span)

(* The block that holds a logical block of a file, 0 if none does. *)
inode_data_block(S, f, logical) ==
    LET inode == S.inode[f]
        records == extent_data_block(S, inode.depth, inode.root, logical)
    IN  IF ~inode.mapped
        THEN IF records = <<>> THEN 0
             ELSE IF records[1].hole THEN 0 ELSE records[1].start + (logical - records[1].first)
        ELSE IF logical < Ext4Direct THEN inode.direct[logical]
        ELSE TableEntry(S, inode.table[LevelOf(logical)], LevelOf(logical),
                        logical - LevelStart[LevelOf(logical)])

(* The bytes behind the new end are cleared first. *)
ext4_shrink_extent_file(S, f, size) ==
    LET old == CeilDiv(S.inode[f].size, Ext4BlockSize)
        new == CeilDiv(size, Ext4BlockSize)
        depth == S.inode[f].depth
        M == [S EXCEPT !.mem = S.inode[f]]
        Clear == IF size % Ext4BlockSize # 0 /\ inode_data_block(S, f, new - 1) # 0
                 THEN Then(DiskRead(M), LAMBDA T : DiskWrite(T, T)) ELSE {M}
        Shrink(T) == CASE depth = 0 -> ShrinkRoot(T, new)
                       [] depth = 1 -> ShrinkDepth1(T, new)
                       [] depth = 2 -> ShrinkDepth2(T, new)
                       [] depth = 3 -> ShrinkDepth3(T, new)
    IN  IF old - new > Ext4MaxDelta THEN Refuse({S})
        ELSE Then(Then(Clear, Shrink), LAMBDA T : write_inode(T, f, [T.mem EXCEPT !.size = size]))

-----------------------------------------------------------------------------
(* The file operations and the adapter. *)

ext4_write_file(S, f, offset, end) ==
    LET size == S.inode[f].size
        found(T) == \A l \in (offset \div Ext4BlockSize) .. ((end - 1) \div Ext4BlockSize) :
                        inode_data_block(T, f, l) # 0
        Grow(T) == CASE end <= size         -> {T}
                     [] T.inode[f].mapped   -> ext4_resize_blocks(T, f, end)
                     [] OTHER               -> ext4_resize_extent_file(T, f, end)
        Data(T) == IF ~found(T) THEN Refuse({T})
                   ELSE Then(DiskRead(T), LAMBDA U : DiskWrite(U, U))
    IN  IF offset > size THEN Refuse({S})
        ELSE Then(Then(DiskRead(S), Grow), Data)

ext4_truncate_file(S, f, size) ==
    Then(DiskRead(S), LAMBDA T :
        IF size > T.inode[f].size THEN Refuse({T})
        ELSE IF T.inode[f].mapped THEN ext4_resize_blocks(T, f, size)
        ELSE IF size = T.inode[f].size THEN {T}
        ELSE ext4_shrink_extent_file(T, f, size))

(* Bounds of the calls: a write begins at the start or at the end of a file, *)
(* and a file grows into the third level of tables only where no transfer    *)
(* fails.                                                                    *)
Ext4MaxSize(f) ==
    IF f = "b" THEN Ext4MaxOther 
    ELSE IF ext4.inode[f].mapped /\ ext4.faults = 0 THEN Ext4MaxMapped ELSE Ext4MaxTree

ext4_vfs_write ==
    /\ ~ext4.marred
    /\ \E f \in Ext4Files, n \in 1 .. Ext4WriteMax : \E offset \in {0, ext4Size[f]} :
          /\ offset + n <= Ext4MaxSize(f)
          /\ \E T \in ext4_write_file(ext4, f, offset, offset + n) :
                /\ ext4' = Ext4Settled(T)
                /\ ext4Size' = [ext4Size EXCEPT ![f] = IF T.ok /\ offset + n > @ THEN offset + n ELSE @]
    /\ ext4Last' = IF ext4'.marred THEN "write" ELSE "none"

ext4_vfs_truncate ==
    /\ ~ext4.marred
    /\ \E f \in Ext4Files : \E size \in 0 .. ext4Size[f] - 1 :
          \E T \in ext4_truncate_file(ext4, f, size) :
              /\ ext4' = Ext4Settled(T)
              /\ ext4Size' = [ext4Size EXCEPT ![f] = IF T.ok THEN size ELSE @]
    /\ ext4Last' = IF ext4'.marred THEN "truncate" ELSE "none"

ext4_vfs_attach_file ==
    /\ ~ext4.marred
    /\ \E f \in Ext4Files :
          /\ ext4Size[f] # ext4.inode[f].size
          /\ ext4Size' = [ext4Size EXCEPT ![f] = ext4.inode[f].size]
    /\ UNCHANGED <<ext4, ext4Last>>

Ext4Next == ext4_vfs_write \/ ext4_vfs_truncate \/ ext4_vfs_attach_file

Ext4Spec == Ext4Init /\ [][Ext4Next]_ext4Vars

-----------------------------------------------------------------------------
(* Properties. *)

Logicals(f) == 0 .. CeilDiv(ext4.inode[f].size, Ext4BlockSize) - 1

(* Files whose tree is at most as deep as `depth`. *)
Shallow(depth) == \A f \in Ext4Files : ext4.inode[f].depth <= depth

Exclusive ==
    /\ BlocksNamed(ext4, "a") \cap BlocksNamed(ext4, "b") = {}
    /\ BlocksNamed(ext4, "a") \cup BlocksNamed(ext4, "b") \subseteq ext4.used

(* The variables keep their shape. *)
Ext4TypeOK ==
    /\ ext4.used \subseteq Ext4Block
    /\ \A f \in Ext4Files :
          /\ ext4Size[f] \in Nat /\ ext4.inode[f].size \in Nat
          /\ Len(ext4.inode[f].root) <= Ext4RootMax
    /\ \A b \in Ext4Block : Len(ext4.node[b].entries) <= (IF Ext4LeafMax > Ext4IndexMax THEN Ext4LeafMax
                                                          ELSE Ext4IndexMax)

(* As long as no transfer failed, no block belongs to two files, and every   *)
(* block a file names is marked in the bitmap: growth and truncation of      *)
(* tables and trees, in any order, never hand out a block in use             *)
(* (ext4_alloc_block, ext4_trim_tree, ext4_trim_extent_leaf).  Trees of      *)
(* depth 3 are left out: truncating one to nothing keeps its root.           *)
Ext4Exclusive == ext4.present /\ Shallow(2) /\ ~ext4.marred => Exclusive

(* As long as no transfer failed, the bitmap marks no block but those the    *)
(* files name: truncation frees every data block and every table that        *)
(* became empty, whatever the level, and a growth that runs out of blocks    *)
(* frees what it took, in a file of depth 0 (ext4_trim_tree, the error exit  *)
(* of ext4_resize_extent_file).  A growth of tables that runs out of blocks  *)
(* keeps what it took, so the free blocks are not exhausted here.            *)
Ext4NothingLeaked ==
    ext4.present /\ Shallow(0) /\ ~ext4.marred =>
        \/ ext4.used = BlocksNamed(ext4, "a") \cup BlocksNamed(ext4, "b")
        \/ ext4.inode["a"].mapped

(* Every block up to the size of a file is mapped, to a block of its own     *)
(* (GrowBlocks, AddBlocks: ext4_resize_blocks, ext4_resize_extent_file).     *)
Mapped(f) ==
    /\ \A l \in Logicals(f) : inode_data_block(ext4, f, l) # 0
    /\ \A l, m \in Logicals(f) : l # m => inode_data_block(ext4, f, l) # inode_data_block(ext4, f, m)
Ext4Mapped ==
    ext4.present /\ Shallow(0) /\ ~ext4.marred =>
        \A f \in Ext4Files : Mapped(f) \/ \E i \in DOMAIN ext4.inode[f].root : ext4.inode[f].root[i].hole

(* A growth that fails on a transfer that did not reach the medium takes no  *)
(* block from a file and gives none out twice, for tables and for trees of   *)
(* depth 0.                                                                  *)
Ext4GrowthContained ==
    ext4.present /\ ext4Last = "write" /\ ~ext4.late /\ Shallow(0) => Exclusive

(* As long as no transfer failed, the adapter never believes a file longer   *)
(* than it is: a read it lets through is inside the file (ext4_vfs_write,    *)
(* ext4_vfs_read).                                                           *)
Ext4SizeBounded ==
    ext4.present /\ ~ext4.marred => \A f \in Ext4Files : ext4Size[f] <= ext4.inode[f].size

=============================================================================
