----------------------------- MODULE XfsJournal -----------------------------
(* The intent journal of the XFS driver (kernel/fs/xfs/xfs.c): how a group   *)
(* of metadata blocks is published, restored when a write of the group       *)
(* fails, and replayed at mount after a power failure.                       *)
(*                                                                           *)
(* The device has a volatile write cache, which is what xfs_flush_metadata   *)
(* is for: `disk` is what a read returns, and `maybe` is, for each block,    *)
(* everything a power failure may leave there (a write adds to it, a flush   *)
(* leaves the last write).  A block is written whole.  A checksum is         *)
(* the content it is the checksum of: two contents never share one.          *)
(*                                                                           *)
(* The blocks are numbered: the journal's first, its header block 0, then    *)
(* the home blocks transactions publish.  A call holds journal_lock from     *)
(* xfs_journal_prepare to xfs_journal_clear, so calls do not interleave;     *)
(* what comes between two writes is a failed transfer or a power failure.    *)
EXTENDS FaultyDisk, FiniteSets, Sequences, TLC, FiniteSetsExt

CONSTANTS
    XfsJournalBlocks,  \* fs->journal_blocks, 0 when none is configured
    XfsHomeBlocks,     \* metadata blocks outside the journal
    XfsCalls,          \* bound: transactions
    XfsTroubles        \* bound: failed transfers and power failures together

ASSUME XfsAssumption ==
    /\ XfsJournalBlocks \in Nat \ {1}       \* xfs_mount refuses a journal of one block
    /\ XfsHomeBlocks \in Nat \ {0}
    /\ XfsCalls \in Nat
    /\ XfsTroubles \in Nat

VARIABLE xfsj   \* the device, and what the last transaction did to it

XfsLog == 0 .. XfsJournalBlocks - 1
XfsHome == XfsJournalBlocks .. XfsJournalBlocks + XfsHomeBlocks - 1
XfsBlock == XfsLog \cup XfsHome
XfsHeader == 0

ZeroBlock == <<>>
Image(n) == <<n>>

(* A header: its state, the blocks the images are for and their checksums. *)
HeaderOf(state, targets, images) == <<state, targets, images>>
IsHeader(content) == Len(content) = 3

XfsJournalInit ==
    LET blank == [b \in XfsBlock |-> IF b \in XfsHome THEN Image(0) ELSE ZeroBlock]
    IN  xfsj = [disk |-> blank, maybe |-> [b \in XfsBlock |-> {blank[b]}], calls |-> 0,
                mounted |-> TRUE, targets |-> <<>>, before |-> blank]
               @@ DiskFields(XfsTroubles, XfsTroubles)

-----------------------------------------------------------------------------
(* Blocks. *)

(* A trouble taken from one budget is taken from both. *)
OneBudget(Ts) ==
    {[T EXCEPT !.faults = IF @ < T.power THEN @ ELSE T.power,
               !.power = IF @ < T.faults THEN @ ELSE T.faults] : T \in Ts}

xfs_write_block(S, b, content) ==
    OneBudget(DiskWrite(S, [S EXCEPT !.disk[b] = content, !.maybe[b] = @ \cup {content}]))

xfs_flush_metadata(S) ==
    OneBudget(DiskWrite(S, [S EXCEPT !.maybe = [b \in XfsBlock |-> {S.disk[b]}]]))

RECURSIVE WriteAll(_, _, _)
WriteAll(S, blocks, contents) ==
    IF blocks = <<>> THEN Accept({S})
    ELSE LET Rest(T) == WriteAll(T, Tail(blocks), Tail(contents))
         IN  Then(xfs_write_block(S, Head(blocks), Head(contents)), Rest)

-----------------------------------------------------------------------------
(* The journal. *)

xfs_journal_configured(records) == XfsJournalBlocks >= records + 1 /\ XfsJournalBlocks >= 2

xfs_journal_clear(S) ==
    Then(WriteAll(S, [i \in 1 .. XfsJournalBlocks |-> i - 1],
                  [i \in 1 .. XfsJournalBlocks |-> ZeroBlock]),
         xfs_flush_metadata)

xfs_journal_prepare(S, targets, images) ==
    IF ~xfs_journal_configured(Len(targets)) THEN Refuse({S})
    ELSE LET n == Len(targets)
             Images(T) == WriteAll(T, [i \in 1 .. n |-> i], images)
             Commit(T) == xfs_write_block(T, XfsHeader, HeaderOf("commit", targets, images))
             prepared == Then(xfs_write_block(S, XfsHeader, HeaderOf("prepare", targets, images)),
                              Images)
         IN  Then(Then(Then(prepared, xfs_flush_metadata), Commit), xfs_flush_metadata)

(* The images of a committed header, written to their blocks one by one; one *)
(* that does not have its checksum ends the recovery.                        *)
RECURSIVE Replay(_, _, _)
Replay(S, header, i) ==
    IF i > Len(header[2]) THEN Accept({S})
    ELSE IF S.disk[i] # header[3][i] THEN Refuse({S})
    ELSE LET Rest(T) == Replay(T, header, i + 1)
         IN  Then(xfs_write_block(S, header[2][i], S.disk[i]), Rest)

xfs_journal_recover(S) ==
    IF XfsJournalBlocks = 0 \/ ~IsHeader(S.disk[XfsHeader]) THEN Accept({S})
    ELSE IF S.disk[XfsHeader][1] = "commit"
         THEN Then(Then(Replay(S, S.disk[XfsHeader], 1), xfs_flush_metadata), xfs_journal_clear)
         ELSE xfs_journal_clear(S)

-----------------------------------------------------------------------------
(* Transactions.  Every publication of the driver has this shape: the free   *)
(* space paths and the pair of inodes put the original blocks back when a    *)
(* write fails, the single blocks (an inode, a data block) do not.  When the *)
(* journal cannot be prepared the call returns what clearing it returns.     *)

RestoreAll(S, targets, originals) ==
    LET RECURSIVE Restore(_, _)
        Restore(T, i) ==
            IF i > Len(targets) THEN {T}
            ELSE UNION {Restore(U, i + 1) : U \in xfs_write_block(T, targets[i], originals[i])}
    IN  Restore(S, 1)

ClearIfActive(S) == IF XfsJournalBlocks > 0 THEN xfs_journal_clear(S) ELSE Accept({S})

(* Mutant of Publish: the blocks already written are left as they are. *)
PublishNoRestore(S, targets, images, restores) ==
    LET Written(T) == Then(WriteAll(T, targets, images), xfs_flush_metadata)
        Finish(T) == UNION {IF U.ok THEN ClearIfActive(U) ELSE Refuse(ClearIfActive(U)) :
                               U \in Written(T)}
    IN  IF XfsJournalBlocks = 0 THEN Finish(S)
        ELSE UNION {IF T.ok THEN Finish(T) ELSE xfs_journal_clear(T) :
                       T \in xfs_journal_prepare(S, targets, images)}

Publish(S, targets, images, restores) ==
    LET originals == [i \in 1 .. Len(targets) |-> S.disk[targets[i]]]
        Undo(T) == IF restores THEN RestoreAll(T, targets, originals) ELSE {T}
        Finish(T) ==
            UNION {IF U.ok THEN ClearIfActive(U)
                   ELSE UNION {Refuse(ClearIfActive(V)) : V \in Undo(U)} :
                      U \in Then(WriteAll(T, targets, images), xfs_flush_metadata)}
    IN  IF XfsJournalBlocks = 0 THEN Finish(S)
        ELSE UNION {IF T.ok THEN Finish(T) ELSE xfs_journal_clear(T) :
                       T \in xfs_journal_prepare(S, targets, images)}

(* One call on fresh content for its targets; the home blocks before it are  *)
(* kept to compare with.                                                     *)
Transaction(targets, restores) ==
    /\ xfsj.up /\ xfsj.mounted
    /\ xfsj.calls < XfsCalls
    /\ LET n == xfsj.calls + 1
           S == [xfsj EXCEPT !.calls = n, !.targets = targets, !.before = xfsj.disk]
       IN  \E T \in Publish(S, targets, [i \in 1 .. Len(targets) |-> Image(n)], restores) :
              xfsj' = T

(* xfs_write_inode and xfs_write_journaled_block. *)
xfs_write_journaled_block == \E b \in XfsHome : Transaction(<<b>>, FALSE)

(* Two directories in different blocks; in the same block they are one. *)
xfs_write_inode_pair == \E a, b \in XfsHome : a # b /\ Transaction(<<a, b>>, TRUE)

(* The leaf, the root or the other index, and the AGF. *)
xfs_publish_free_space ==
    \E a, b, c \in XfsHome : a < b /\ b < c /\ Transaction(<<a, b, c>>, TRUE)

(* What the blocks may hold after a power failure. *)
Surviving(maybe) ==
    FoldSet(LAMBDA b, all : {d @@ (b :> c) : d \in all, c \in maybe[b]}, {<<>>}, XfsBlock)

(* The machine comes up again, or a mount that failed is tried again. *)
xfs_mount ==
    /\ ~xfsj.up \/ ~xfsj.mounted
    /\ \E d \in IF xfsj.up THEN {xfsj.disk} ELSE Surviving(xfsj.maybe) :
          LET S == [xfsj EXCEPT !.disk = d, !.up = TRUE, !.maybe = [b \in XfsBlock |-> {d[b]}]]
          IN  \E T \in xfs_journal_recover(S) : xfsj' = [T EXCEPT !.mounted = T.ok]

XfsJournalNext ==
    \/ xfs_write_journaled_block
    \/ xfs_write_inode_pair
    \/ xfs_publish_free_space
    \/ xfs_mount

xfsjVars == <<xfsj>>

XfsJournalSpec == XfsJournalInit /\ [][XfsJournalNext]_xfsjVars

-----------------------------------------------------------------------------
(* Properties. *)

(* The home blocks before the last transaction, and with its images. *)
BeforeLast == [b \in XfsHome |-> xfsj.before[b]]
AfterLast ==
    [b \in XfsHome |-> IF \E i \in DOMAIN xfsj.targets : xfsj.targets[i] = b
                       THEN Image(xfsj.calls) ELSE xfsj.before[b]]
HomeNow == [b \in XfsHome |-> xfsj.disk[b]]

(* The variable keeps its shape: a block holds nothing, an image or, block 0 *)
(* alone, a header, and what a read returns is among what may survive.       *)
XfsJournalTypeOK ==
    /\ DOMAIN xfsj.disk = XfsBlock
    /\ \A b \in XfsBlock : xfsj.up => xfsj.disk[b] \in xfsj.maybe[b]
    /\ \A b \in XfsBlock : IsHeader(xfsj.disk[b]) => b = XfsHeader
    /\ xfsj.calls \in 0 .. XfsCalls

(* A transaction is applied to all of its blocks or to none: when its call   *)
(* has returned, whatever it returned, and when the machine has been mounted *)
(* again after a power failure at any point of it, with any of the cached    *)
(* writes lost (xfs_journal_prepare, the restore branches,                   *)
(* xfs_journal_recover).                                                     *)
XfsAtomic == xfsj.present /\ xfsj.up /\ xfsj.mounted => HomeNow \in {BeforeLast, AfterLast}

(* A call that reports success leaves nothing to a later flush and no        *)
(* transaction in the journal: a power failure right after it changes        *)
(* nothing.                                                                  *)
PublishedIsDurable ==
    xfsj.present /\ xfsj.up /\ xfsj.mounted /\ xfsj.ok =>
        /\ \A b \in XfsBlock : xfsj.maybe[b] = {xfsj.disk[b]}
        /\ \A b \in XfsLog : ~IsHeader(xfsj.disk[b])

(* A mount that is refused although no transfer failed finds the last        *)
(* transaction whole: the images were on their blocks before the journal was *)
(* being cleared.                                                            *)
RefusedMountIsWhole ==
    xfsj.present /\ xfsj.up /\ ~xfsj.mounted /\ ~xfsj.marred => HomeNow = AfterLast

=============================================================================
