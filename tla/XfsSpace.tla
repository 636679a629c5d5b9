------------------------------ MODULE XfsSpace ------------------------------
(* The free space of an XFS allocation group (kernel/fs/xfs/xfs.c): the      *)
(* by-block tree of free records, the by-count tree of the authentic layout, *)
(* and the AGF's totals, as xfs_allocate_extent and xfs_free_extent change   *)
(* them in each of the layouts the driver tells apart:                       *)
(*   "legacy"  one leaf, no by-count tree;                                   *)
(*   "leaf"    authentic, one leaf in each tree;                             *)
(*   "child"   authentic, a root over one leaf;                              *)
(*   "multi"   authentic, a root over up to four leaves;                     *)
(*   "two"     no by-count tree, a root over leaves;                         *)
(*   "deep"    no by-count tree, two or more index levels over leaves.       *)
(* A tree is the sequence of its leaves: the keys of a root are the first    *)
(* records of its leaves, which every path rewrites.  The trees and the AGF  *)
(* are published as one (XfsJournal); the publication may fail and leave     *)
(* them as they were, or fail when they are on the medium.  The volume's     *)
(* lock makes each call atomic.                                              *)
EXTENDS FaultyDisk, FiniteSets, SequencesExt

CONSTANTS
    XfsLayouts,       \* the layouts a volume may have
    XfsAgBlocks,      \* data blocks of the group
    XfsLeaves,        \* initial: the leaves, as sequences of <<start, count>>
    XfsLeafCapacity,  \* records a leaf has room for
    XfsRecordLimit,   \* records the "multi" path has room for
    XfsChildren,      \* leaves under the root of the "multi" layout
    XfsRequest,       \* bound: the longest extent asked for
    XfsSpaceFaults    \* bound: publications that fail

VARIABLES
    xfsag,     \* the group's free space
    xfsOwned   \* the blocks callers hold, as extents

xfsSpaceVars == <<xfsag, xfsOwned>>

Free(start, count) == [start |-> start, count |-> count]
End(r) == r.start + r.count
Total(recs) == FoldLeft(LAMBDA n, r : n + r.count, 0, recs)
Longest(recs) == FoldLeft(LAMBDA n, r : IF r.count > n THEN r.count ELSE n, 0, recs)
BlocksOf(extents) == UNION {e.start .. End(e) - 1 : e \in extents}

Authentic(S) == S.layout \in {"leaf", "child", "multi"}
Records(S) == FlattenSeq(S.leaves)

-----------------------------------------------------------------------------
(* Records. *)

xfs_sort_count_records(recs) ==
    SortSeq(recs, LAMBDA a, b : a.count < b.count \/ (a.count = b.count /\ a.start < b.start))

(* The first of the smallest records that are large enough, 0 if there is    *)
(* none.                                                                     *)
BestFit(recs, blocks) ==
    SelectInSeq(recs, LAMBDA r :
        /\ r.count >= blocks
        /\ \A i \in DOMAIN recs : recs[i].count >= blocks => r.count <= recs[i].count)

TakeFrom(recs, i, blocks) ==
    IF recs[i].count = blocks THEN RemoveAt(recs, i)
    ELSE [recs EXCEPT ![i] = Free(@.start + blocks, @.count - blocks)]

(* Where a released extent goes: before the first record behind it. *)
Position(recs, target) ==
    LET behind == SelectInSeq(recs, LAMBDA r : target < r.start)
    IN  IF behind = 0 THEN Len(recs) + 1 ELSE behind

Overlaps(recs, target, blocks) ==
    \E i \in DOMAIN recs : target < End(recs[i]) /\ recs[i].start < target + blocks

JoinsPrevious(recs, target) ==
    LET at == Position(recs, target) IN at > 1 /\ End(recs[at - 1]) = target

JoinsNext(recs, target, blocks) ==
    LET at == Position(recs, target)
    IN  at <= Len(recs) /\ target + blocks = recs[at].start

GiveTo(recs, target, blocks) ==
    LET at == Position(recs, target)
        previous == JoinsPrevious(recs, target)
        next == JoinsNext(recs, target, blocks)
    IN  CASE previous /\ next ->
                RemoveAt([recs EXCEPT ![at - 1].count = @ + blocks + recs[at].count], at)
          [] previous /\ ~next -> [recs EXCEPT ![at - 1].count = @ + blocks]
          [] ~previous /\ next -> [recs EXCEPT ![at] = Free(target, @.count + blocks)]
          [] OTHER -> InsertAt(recs, at, Free(target, blocks))

NoRoom(recs, target, blocks, capacity) ==
    /\ ~JoinsPrevious(recs, target) /\ ~JoinsNext(recs, target, blocks)
    /\ Len(recs) >= capacity

(* The leaves of the authentic layouts after a change: the records are       *)
(* spread evenly over as many leaves as there are records for, and the       *)
(* others stay behind empty.                                                 *)
Spread(recs, children) ==
    LET used == IF Len(recs) < children THEN Len(recs) ELSE children
        share == [i \in 1 .. children |->
                    IF i > used THEN 0
                    ELSE Len(recs) \div used + (IF i <= Len(recs) % used THEN 1 ELSE 0)]
        first == [i \in 1 .. children |-> FoldLeft(LAMBDA n, k : n + k, 0, SubSeq(share, 1, i - 1))]
    IN  [i \in 1 .. children |-> SubSeq(recs, first[i] + 1, first[i] + share[i])]

-----------------------------------------------------------------------------
(* What the trees and the AGF become.  A path that refuses gives Refused.    *)

Refused == [ok |-> FALSE]
Changed(S, leaves, longest, free, start) ==
    [S EXCEPT !.ok = TRUE, !.leaves = leaves, !.longest = longest, !.free = free,
              !.start = start]

(* The volume check of every path. *)
Consistent(S) ==
    /\ \A i \in 1 .. Len(Records(S)) - 1 : End(Records(S)[i]) <= Records(S)[i + 1].start
    /\ Total(Records(S)) = S.free

xfs_mutate_free_records(recs, capacity, blocks, target, allocate) ==
    IF allocate
    THEN IF BestFit(recs, blocks) = 0 THEN Refused
         ELSE [ok |-> TRUE, recs |-> TakeFrom(recs, BestFit(recs, blocks), blocks),
               start |-> recs[BestFit(recs, blocks)].start]
    ELSE IF \/ target > XfsAgBlocks - blocks
            \/ Overlaps(recs, target, blocks)
            \/ NoRoom(recs, target, blocks, capacity) THEN Refused
         ELSE [ok |-> TRUE, recs |-> GiveTo(recs, target, blocks), start |-> target]

(* The two checks a mount makes of an authentic volume: the records of the   *)
(* by-block tree in order and disjoint, those of the by-count tree by count  *)
(* and then by start, no leaf overfull and none empty before a filled one,   *)
(* and the AGF's totals those of the records.                                *)
LeavesFilled(leaves) ==
    \A l \in DOMAIN leaves :
        /\ Len(leaves[l]) <= XfsLeafCapacity
        /\ leaves[l] = <<>> => \A m \in DOMAIN leaves : m > l => leaves[m] = <<>>

xfs_validate_auth_bno(S) ==
    /\ LeavesFilled(S.leaves)
    /\ Consistent(S)
    /\ S.longest = Longest(Records(S))

xfs_validate_auth_cnt(S) ==
    /\ LeavesFilled(Spread(S.cnt, Len(S.leaves)))
    /\ S.cnt = xfs_sort_count_records(S.cnt)
    /\ \A i, j \in DOMAIN S.cnt : S.cnt[i] = S.cnt[j] => i = j
    /\ Total(S.cnt) = S.free /\ S.longest = Longest(S.cnt)

(* What every authentic path asks of the trees it has read: the records of   *)
(* the one in order, and the other the same records.                         *)
TreesAgree(S) ==
    /\ Consistent(S)
    /\ \A l \in DOMAIN S.leaves : Len(S.leaves[l]) <= XfsLeafCapacity
    /\ S.cnt = xfs_sort_count_records(Records(S))

(* Both trees and the AGF rewritten from the changed records. *)
Rewritten(S, done, blocks, allocate) ==
    [Changed(S, Spread(done.recs, Len(S.leaves)), Longest(done.recs),
             IF allocate THEN S.free - blocks ELSE S.free + blocks, done.start)
     EXCEPT !.cnt = xfs_sort_count_records(done.recs)]

(* A root over several leaves: room for XfsRecordLimit records in all. *)
xfs_auth_multi_child_mutate(S, blocks, target, allocate) ==
    LET done == xfs_mutate_free_records(Records(S), XfsRecordLimit, blocks, target, allocate)
    IN  IF \/ ~TreesAgree(S)
           \/ allocate /\ (Records(S) = <<>> \/ S.free < blocks)
           \/ ~done.ok THEN Refused
        ELSE Rewritten(S, done, blocks, allocate)

(* A root over one leaf, which an empty group leaves behind empty. *)
xfs_auth_one_child_mutate(S, blocks, target, allocate) ==
    LET done == xfs_mutate_free_records(Records(S), XfsLeafCapacity, blocks, target, allocate)
    IN  IF \/ ~TreesAgree(S)
           \/ Records(S) = <<>> /\ (S.free # 0 \/ S.longest # 0)
           \/ ~done.ok THEN Refused
        ELSE Rewritten(S, done, blocks, allocate)

(* The authentic layouts: level-1 trees here, the level-2 ones in paths of   *)
(* their own.                                                                *)
xfs_auth_bno_mutate(S, blocks, target, allocate) ==
    LET done == xfs_mutate_free_records(Records(S), XfsLeafCapacity, blocks, target, allocate)
    IN  CASE S.layout = "child" -> xfs_auth_one_child_mutate(S, blocks, target, allocate)
          [] S.layout = "multi" -> xfs_auth_multi_child_mutate(S, blocks, target, allocate)
          [] S.layout = "leaf" ->
                IF ~TreesAgree(S) \/ ~done.ok THEN Refused
                ELSE Rewritten(S, done, blocks, allocate)

(* One leaf. *)
LegacyAllocate(S, blocks) ==
    LET recs == S.leaves[1]
        i == BestFit(recs, blocks)
        left == TakeFrom(recs, i, blocks)
    IN  IF ~Consistent(S) \/ i = 0 THEN Refused
        ELSE Changed(S, <<left>>, Longest(left), S.free - blocks, recs[i].start)

LegacyFree(S, target, blocks) ==
    LET recs == S.leaves[1]
        grown == GiveTo(recs, target, blocks)
    IN  IF \/ ~Consistent(S) \/ Overlaps(recs, target, blocks)
           \/ NoRoom(recs, target, blocks, XfsLeafCapacity) \/ S.free > XfsAgBlocks - blocks THEN Refused
        ELSE Changed(S, <<grown>>, Longest(grown), S.free + blocks, target)

(* The leaf of the record that the flattened position i falls in. *)
LeafOf(S, i) ==
    CHOOSE l \in DOMAIN S.leaves :
        LET before == Len(FlattenSeq(SubSeq(S.leaves, 1, l - 1)))
        IN  i > before /\ i <= before + Len(S.leaves[l])
WithinLeaf(S, i) == i - Len(FlattenSeq(SubSeq(S.leaves, 1, LeafOf(S, i) - 1)))

(* A root over leaves.  An emptied leaf is taken out of the root while the   *)
(* loop over the root's entries goes on, so the entry that moves into its    *)
(* place is not looked at for the longest record.                            *)
xfs_allocate_real_bno(S, blocks) ==
    LET i == BestFit(Records(S), blocks)
        l == LeafOf(S, i)
        left == TakeFrom(S.leaves[l], WithinLeaf(S, i), blocks)
        leaves == IF left = <<>> THEN RemoveAt(S.leaves, l) ELSE [S.leaves EXCEPT ![l] = left]
        seen == IF left = <<>> /\ l <= Len(leaves) THEN RemoveAt(leaves, l) ELSE leaves
    IN  IF S.leaves = <<>> \/ ~Consistent(S) \/ i = 0 THEN Refused
        ELSE Changed(S, leaves, Longest(FlattenSeq(seen)), S.free - blocks, Records(S)[i].start)

(* The leaf a released extent goes to: the one in front of it when it ends   *)
(* where the extent begins, else the one with the first record behind it,    *)
(* else the last.                                                            *)
ReleaseLeaf(S, target) ==
    LET behind == SelectInSeq(S.leaves, LAMBDA leaf : target < Last(leaf).start)
        joined == SelectInSeq(S.leaves, LAMBDA leaf : End(Last(leaf)) = target)
    IN  IF joined # 0 /\ (behind = 0 \/ joined < behind) THEN joined
        ELSE IF behind # 0 THEN behind ELSE Len(S.leaves)

(* Release under a root.  When the extent joins the record in front of it    *)
(* and another leaf follows, the code goes on to join that leaf's first      *)
(* record, and refuses the release when the two do not touch.                *)
xfs_free_real_bno(S, target, blocks) ==
    LET l == ReleaseLeaf(S, target)
        leaf == GiveTo(S.leaves[l], target, blocks)
        joins == JoinsPrevious(S.leaves[l], target)
        across == joins /\ l < Len(S.leaves)
        next == S.leaves[l + 1]
        merged == [leaf EXCEPT ![Len(leaf)].count = @ + Head(next).count]
        leaves == IF ~across THEN [S.leaves EXCEPT ![l] = leaf]
                  ELSE IF Len(next) > 1 THEN [S.leaves EXCEPT ![l] = merged, ![l + 1] = Tail(next)]
                  ELSE RemoveAt([S.leaves EXCEPT ![l] = merged], l + 1)
    IN  IF \/ S.leaves = <<>>
           \/ ~Consistent(S)
           \/ Overlaps(Records(S), target, blocks)
           \/ NoRoom(S.leaves[l], target, blocks, XfsLeafCapacity)
           \/ across /\ Head(next).start # target + blocks THEN Refused
        ELSE Changed(S, leaves, Longest(FlattenSeq(leaves)), S.free + blocks, target)

(* Index levels over leaves.  A record is never used up.  The longest        *)
(* record is looked for again only in the leaf that lost it.                 *)
DeepAllocate(S, blocks) ==
    LET i == BestFit(Records(S), blocks)
        l == LeafOf(S, i)
        taken == Records(S)[i].count
        longest == Longest(Records(S))
        left == TakeFrom(S.leaves[l], WithinLeaf(S, i), blocks)
        sole == Cardinality({j \in DOMAIN Records(S) : Records(S)[j].count = longest}) = 1
    IN  IF ~Consistent(S) \/ i = 0 \/ taken = blocks THEN Refused
        ELSE Changed(S, [S.leaves EXCEPT ![l] = left],
                     IF taken = longest /\ sole THEN Longest(left) ELSE longest,
                     S.free - blocks, Records(S)[i].start)

(* The leaf the scan selects for a release: the first that reaches up to     *)
(* the target, or else the last one.                                         *)
xfs_deep_scan(S, target) ==
    LET reached == SelectInSeq(S.leaves, LAMBDA leaf : target <= End(Last(leaf)))
    IN  IF reached = 0 THEN Len(S.leaves) ELSE reached

(* A release does not join across leaves.  What is rejected is a target that *)
(* begins inside a record.                                                   *)
DeepFree(S, target, blocks) ==
    LET l == xfs_deep_scan(S, target)
        leaf == GiveTo(S.leaves[l], target, blocks)
    IN  IF \/ ~Consistent(S)
           \/ Overlaps(Records(S), target, 1)
           \/ NoRoom(S.leaves[l], target, blocks, XfsLeafCapacity) THEN Refused
        ELSE Changed(S, [S.leaves EXCEPT ![l] = leaf],
                     Longest(<<Free(0, Longest(Records(S)))>> \o leaf), S.free + blocks, target)

xfs_deep_bno_mutate(S, blocks, target, allocate) ==
    IF allocate THEN DeepAllocate(S, blocks) ELSE DeepFree(S, target, blocks)

(* The choice of a path, and the publication. *)
Allocated(S, blocks) ==
    CASE Authentic(S) -> xfs_auth_bno_mutate(S, blocks, 0, TRUE)
      [] S.layout = "two" -> xfs_allocate_real_bno(S, blocks)
      [] S.layout = "deep" -> xfs_deep_bno_mutate(S, blocks, 0, TRUE)
      [] S.layout = "legacy" -> LegacyAllocate(S, blocks)

Released(S, target, blocks) ==
    CASE Authentic(S) -> xfs_auth_bno_mutate(S, blocks, target, FALSE)
      [] S.layout = "two" -> xfs_free_real_bno(S, target, blocks)
      [] S.layout = "deep" -> xfs_deep_bno_mutate(S, blocks, target, FALSE)
      [] S.layout = "legacy" -> LegacyFree(S, target, blocks)

PublishSpace(S, T) == IF T.ok THEN DiskWrite(S, T) ELSE Refuse({S})

xfs_allocate_extent_locked(S, blocks) == PublishSpace(S, Allocated(S, blocks))
xfs_free_extent_locked(S, target, blocks) == PublishSpace(S, Released(S, target, blocks))

-----------------------------------------------------------------------------
(* The specification. *)

XfsSpaceInit ==
    \E layout \in XfsLayouts :
        LET given == [l \in DOMAIN XfsLeaves |->
                        [i \in DOMAIN XfsLeaves[l] |-> Free(XfsLeaves[l][i][1], XfsLeaves[l][i][2])]]
            recs == FlattenSeq(given)
            used == (0 .. XfsAgBlocks - 1) \ BlocksOf(ToSet(recs))
        IN  /\ xfsag = [layout |-> layout,
                        leaves |-> CASE layout \in {"two", "deep"} -> given
                                     [] layout = "multi" -> Spread(recs, XfsChildren)
                                     [] OTHER -> <<recs>>,
                        cnt |-> IF layout \in {"leaf", "child", "multi"}
                                THEN xfs_sort_count_records(recs) ELSE <<>>,
                        free |-> Total(recs), longest |-> Longest(recs), start |-> 0]
                       @@ DiskFields(XfsSpaceFaults, 0)
            /\ xfsOwned = {Free(b, 1) : b \in used}

(* `start` is the call's result, not a part of the volume. *)
SettledSpace(T) == [T EXCEPT !.start = 0]

xfs_allocate_extent ==
    /\ ~xfsag.marred
    /\ \E blocks \in 1 .. XfsRequest :
          \E T \in xfs_allocate_extent_locked(xfsag, blocks) :
              /\ xfsag' = SettledSpace(T)
              /\ xfsOwned' = IF T.ok THEN xfsOwned \cup {Free(T.start, blocks)} ELSE xfsOwned

(* A holder gives back an extent, or the tail of one. *)
xfs_free_extent ==
    /\ ~xfsag.marred
    /\ \E e \in xfsOwned : \E kept \in 0 .. e.count - 1 :
          \E T \in xfs_free_extent_locked(xfsag, e.start + kept, e.count - kept) :
              /\ xfsag' = SettledSpace(T)
              /\ xfsOwned' = IF ~T.ok THEN xfsOwned
                             ELSE (xfsOwned \ {e})
                                  \cup (IF kept = 0 THEN {} ELSE {Free(e.start, kept)})

XfsSpaceNext == xfs_allocate_extent \/ xfs_free_extent

XfsSpaceSpec == XfsSpaceInit /\ [][XfsSpaceNext]_xfsSpaceVars

-----------------------------------------------------------------------------
(* Properties. *)

(* The variables keep their shape; only the authentic layouts have a         *)
(* by-count tree.                                                            *)
XfsSpaceTypeOK ==
    /\ \A i \in DOMAIN Records(xfsag) :
          /\ Records(xfsag)[i].count \in 1 .. XfsAgBlocks
          /\ Records(xfsag)[i].start \in 0 .. XfsAgBlocks - Records(xfsag)[i].count
    /\ xfsag.free \in 0 .. XfsAgBlocks /\ xfsag.longest \in 0 .. XfsAgBlocks
    /\ ~Authentic(xfsag) => xfsag.cnt = <<>>

(* No block is handed out twice and none is lost, in any layout: the free    *)
(* records are in order and disjoint, no holder's block is among them, and   *)
(* as long as no publication failed every block is free or held              *)
(* (xfs_allocate_extent, xfs_free_extent).                                   *)
FreeSpaceExact == xfsag.present =>
    /\ Consistent(xfsag)
    /\ \A e, f \in xfsOwned : e # f => BlocksOf({e}) \cap BlocksOf({f}) = {}
    /\ ~xfsag.late => BlocksOf(ToSet(Records(xfsag))) = (0 .. XfsAgBlocks - 1) \ BlocksOf(xfsOwned)

(* An authentic volume can always be mounted: both trees pass                *)
(* xfs_validate_auth_bno and xfs_validate_auth_cnt, hold the same records,   *)
(* and no two records touch.                                                 *)
AuthVolumeValid ==
    xfsag.present /\ Authentic(xfsag) =>
        /\ xfs_validate_auth_bno(xfsag) /\ xfs_validate_auth_cnt(xfsag)
        /\ ToSet(xfsag.cnt) = ToSet(Records(xfsag))
        /\ \A i \in 1 .. Len(Records(xfsag)) - 1 : End(Records(xfsag)[i]) < Records(xfsag)[i + 1].start

CanRelease ==
    Len(Records(xfsag)) < XfsLeafCapacity =>
        \A e \in xfsOwned : Released(xfsag, e.start, e.count).ok

(* What was handed out can be given back, under one leaf and in the          *)
(* authentic layouts (xfs_free_extent).                                      *)
ReleaseAccepted ==
    xfsag.present /\ ~xfsag.marred /\ (Authentic(xfsag) \/ xfsag.layout = "legacy") => CanRelease

=============================================================================
