-------------------------------- MODULE Ata ---------------------------------
(***************************************************************************)
(* The ATA PIO driver of kernel/drivers/storage/ata.c under the generic     *)
(* storage layer of kernel/drivers/storage/storage.c.                       *)
(*                                                                          *)
(* ata_lock is held, with interrupts off, from ata_issue to the last status *)
(* poll, so each request is one action.  The device answers each poll with  *)
(* one of the statuses it may show at that point.  Sector numbers are       *)
(* AtaWidth-bit words, as uint64_t is a 64-bit one.                         *)
(***************************************************************************)
EXTENDS Integers

CONSTANTS
    AtaWidth,       \* width of a sector number in bits
    AtaSectors,     \* sector_count, from IDENTIFY
    MaxAtaWrites    \* bound: write requests in a behaviour

ASSUME AtaAssumption ==
    /\ AtaWidth \in Nat
    /\ AtaSectors \in 1 .. 2 ^ AtaWidth - 1
    /\ MaxAtaWrites \in Nat

Word == 0 .. 2 ^ AtaWidth - 1

VARIABLE ata
ataVars == <<ata>>

Bits == {"BSY", "DRQ", "ERR"}

AtaState == [
    status : SUBSET Bits,
    span : [lba : Word, count : Word],      \* the last command's sectors
    late : BOOLEAN,         \* history: a poll loop ran out
    overlapped : BOOLEAN,   \* history: a command was issued to a busy device
    flushError : BOOLEAN,   \* history: a flush ended with ERR
    cached : SUBSET (1 .. MaxAtaWrites),    \* writes in the device's volatile cache
    acked : SUBSET (1 .. MaxAtaWrites),     \* writes reported successful
    writes : 0 .. MaxAtaWrites,
    ok : BOOLEAN ]

AtaInit ==
    ata = [status |-> {}, span |-> [lba |-> 0, count |-> 1], late |-> FALSE,
           overlapped |-> FALSE, flushError |-> FALSE, cached |-> {}, acked |-> {},
           writes |-> 0, ok |-> FALSE]

-----------------------------------------------------------------------------
Answer(S, r) == [S EXCEPT !.ok = r]

\* wait_status: the device shows one of the statuses in shows.  The loop ends
\* on the wanted value of the masked bits, then on ERR, then on its count.
wait_status(S, mask, wanted, shows) ==
    {[S EXCEPT !.status = st, !.ok = st \cap mask = wanted,
               !.late = @ \/ (st \cap mask # wanted /\ "ERR" \notin st)]
        : st \in shows}

\* What the device shows when it has data to move, and when it is done.
DataShows == {{"DRQ"}, {"ERR"}, {"BSY"}}
EndShows == {{}, {"ERR"}, {"BSY"}}

\* The command register is written without a look at the status.
ata_issue(S, lba, count) ==
    [S EXCEPT !.span = [lba |-> lba, count |-> count],
              !.overlapped = @ \/ S.status \cap {"BSY", "DRQ"} # {},
              !.status = {"BSY"}]

\* A transfer in PIO: DRQ before each sector.
MoveSectors(S, count) ==
    LET step[n \in 0 .. count] ==
            IF n = 0 THEN {Answer(S, TRUE)}
            ELSE UNION {IF T.ok THEN wait_status(T, {"BSY", "DRQ"}, {"DRQ"}, DataShows) ELSE {T}
                        : T \in step[n - 1]}
    IN step[count]

\* storage_read, storage_write and ata_read_locked: the request is in range.
InRange(lba, count) == count # 0 /\ lba < AtaSectors /\ count <= AtaSectors - lba

ata_read_locked(S, lba, count) ==
    UNION {IF T.ok THEN wait_status(T, {"BSY", "ERR"}, {}, EndShows) ELSE {T}
            : T \in MoveSectors(ata_issue(S, lba, count), count)}

\* FLUSH CACHE; only BSY is looked at.  A flush that ends well empties the cache.
FlushCache(S) ==
    {[T EXCEPT !.cached = IF T.status = {} THEN {} ELSE @,
               !.flushError = @ \/ "ERR" \in T.status]
        : T \in wait_status([S EXCEPT !.overlapped = @ \/ S.status \cap {"BSY", "DRQ"} # {},
                                      !.status = {"BSY"}],
                            {"BSY"}, {}, EndShows)}

ata_write_locked(S, lba, count, w) ==
    UNION {IF T.ok THEN FlushCache([T EXCEPT !.cached = @ \cup {w}]) ELSE {T}
            : T \in UNION {IF U.ok THEN wait_status(U, {"BSY", "ERR"}, {}, EndShows) ELSE {U}
                            : U \in MoveSectors(ata_issue(S, lba, count), count)}}

-----------------------------------------------------------------------------
storage_read(lba, count) ==
    /\ InRange(lba, count)
    /\ ata' \in ata_read_locked(ata, lba, count)

storage_write(lba, count) ==
    /\ InRange(lba, count)
    /\ ata.writes < MaxAtaWrites
    /\ LET w == ata.writes + 1
       IN ata' \in {IF T.ok THEN [T EXCEPT !.acked = @ \cup {w}] ELSE T
                        : T \in ata_write_locked([ata EXCEPT !.writes = w], lba, count, w)}

\* storage_flush through ata_flush.
ata_flush == ata' \in FlushCache(ata)

\* The device finishes what a poll loop gave up on.
AtaSettles ==
    /\ "BSY" \in ata.status
    /\ ata' \in {[ata EXCEPT !.status = st] : st \in {{}, {"DRQ"}, {"ERR"}}}

AtaNext ==
    \/ \E lba, count \in Word : storage_read(lba, count) \/ storage_write(lba, count)
    \/ ata_flush
    \/ AtaSettles

-----------------------------------------------------------------------------
\* Type correctness of the driver's view of the device.
AtaTypeOK == ata \in AtaState

\* A request never reaches past the last sector, although lba and count are
\* any words and their sum may wrap: both layers compare count with what is
\* left after lba.
TransfersInRange == ata.span.lba + ata.span.count <= AtaSectors

\* Two commands overlap on the device only after a poll loop ran out: every
\* request that ends on time leaves the device idle, since reads and writes
\* wait for BSY to clear after the last sector.
OverlapNeedsTimeout == ata.overlapped => ata.late

\* A write reported successful has left the device's cache, unless the flush
\* itself ended in an error, which the final poll of BSY alone does not see.
DurableUnlessFlushError == ata.acked \cap ata.cached = {} \/ ata.flushError
=============================================================================
