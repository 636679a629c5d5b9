----------------------------- MODULE BlockCache -----------------------------
(***************************************************************************)
(* The write-through sector cache of kernel/fs/cache/cache.c over one block *)
(* device of kernel/fs/block/block.c.                                       *)
(*                                                                          *)
(* cache->lock covers the lookup and the merge of a result and is dropped   *)
(* around the device transfer, so a read that misses and a write are each   *)
(* several actions and other tasks run in between.  The contents of a       *)
(* sector are the number of the write that put them there.  Only the order  *)
(* of entry->age is ever used: lru lists the lines, least recent first.     *)
(***************************************************************************)
EXTENDS Integers

CONSTANTS
    CacheTasks,     \* kernel tasks that use the cache
    Sectors,        \* sectors of the device
    CacheLines,     \* BLOCK_CACHE_ENTRIES (16)
    MaxWrites       \* bound: device writes in a behaviour

ASSUME CacheAssumption == CacheLines \in Nat \ {0} /\ MaxWrites \in Nat

Line == 1 .. CacheLines

VARIABLES
    lines,      \* cache->entries: valid, sector, data
    lru,        \* the lines in the order of entry->age
    disk,       \* what the device holds
    job,        \* job[t]: the operation t is in the middle of
    writes,     \* device writes so far
    raced       \* history: the sectors on which two operations collided

cacheVars == <<lines, lru, disk, job, writes, raced>>

\* An operation at a label, about sector s, with data in its buffer.  dropped is
\* history: the sector lost its line while the operation held a copy of it.
Job(label, s, d) == [pc |-> label, sector |-> s, data |-> d, dropped |-> FALSE]

Idle == Job("idle", 0, 0)

\* An invalid line.  The code leaves the sector and the data in it; nothing reads
\* them before the line is filled again.
Empty == [valid |-> FALSE, sector |-> 0, data |-> 0]

-----------------------------------------------------------------------------
block_cache_initialize ==
    /\ lines = [i \in Line |-> Empty]
    /\ lru = [i \in Line |-> i]
    /\ disk = [s \in Sectors |-> 0]
    /\ job = [t \in CacheTasks |-> Idle]
    /\ writes = 0
    /\ raced = {}

find_entry(s) == {i \in Line : lines[i].valid /\ lines[i].sector = s}

\* The first invalid line, or else the least recent one.
choose_entry ==
    LET free == {i \in Line : ~lines[i].valid}
    IN IF free # {} THEN CHOOSE i \in free : \A j \in free : i <= j ELSE lru[1]

\* entry->age = ++cache->clock
Touch(i) ==
    LET place == CHOOSE k \in Line : lru[k] = i
    IN lru' = [k \in Line |-> IF k < place THEN lru[k]
                              ELSE IF k < CacheLines THEN lru[k + 1] ELSE i]

Store(i, s, d) == [lines EXCEPT ![i] = [valid |-> TRUE, sector |-> s, data |-> d]]

\* The jobs after the cached copies of the sectors in S are dropped: a reader
\* that holds a fetched copy of one of them no longer sees what replaced it.
Dropping(jobs, S) ==
    [t \in CacheTasks |->
        IF jobs[t].pc = "merge" /\ jobs[t].sector \in S
        THEN [jobs[t] EXCEPT !.dropped = TRUE] ELSE jobs[t]]

\* The sector that loses its line when s is stored in line i.
Evicted(i, s) == IF lines[i].valid THEN {lines[i].sector} \ {s} ELSE {}

-----------------------------------------------------------------------------
\* block_cache_read, lines 42-55: the lookup under the lock.
ReadHit(t, s) ==
    /\ job[t] = Idle
    /\ \E i \in find_entry(s) : Touch(i)
    /\ UNCHANGED <<lines, disk, job, writes, raced>>

ReadMiss(t, s) ==
    /\ job[t] = Idle
    /\ find_entry(s) = {}
    /\ job' = [job EXCEPT ![t] = Job("fetch", s, 0)]
    /\ UNCHANGED <<lines, lru, disk, writes, raced>>

\* Lines 57-58: the device read, with no lock held; it may fail.
Fetch(t) ==
    /\ job[t].pc = "fetch"
    /\ \/ job' = [job EXCEPT ![t] = Job("merge", job[t].sector, disk[job[t].sector])]
       \/ job' = [job EXCEPT ![t] = Idle]
    /\ UNCHANGED <<lines, lru, disk, writes, raced>>

\* Lines 59-73: whoever cached the sector meanwhile wins.
ReadMerge(t) ==
    LET s == job[t].sector
        found == find_entry(s)
    IN /\ job[t].pc = "merge"
       /\ \/ /\ found # {}
             /\ \E i \in found : Touch(i)
             /\ job' = [job EXCEPT ![t] = Idle]
             /\ UNCHANGED <<lines, raced>>
          \/ /\ found = {}
             /\ lines' = Store(choose_entry, s, job[t].data)
             /\ Touch(choose_entry)
             /\ job' = Dropping([job EXCEPT ![t] = Idle], Evicted(choose_entry, s))
             /\ raced' = IF job[t].dropped THEN raced \cup {s} ELSE raced
       /\ UNCHANGED <<disk, writes>>

\* Does another task hold a written copy of s that is not yet in the cache?
Writing(s) == \E t \in CacheTasks : job[t].pc = "store" /\ job[t].sector = s

\* block_cache_write, lines 83-90: the device write, with no lock held.
WriteDevice(t, s) ==
    /\ job[t] = Idle
    /\ writes < MaxWrites
    /\ writes' = writes + 1
    /\ disk' = [disk EXCEPT ![s] = writes + 1]
    /\ job' = [job EXCEPT ![t] = Job("store", s, writes + 1)]
    /\ raced' = IF Writing(s) THEN raced \cup {s} ELSE raced
    /\ UNCHANGED <<lines, lru>>

\* Line 90: the device reports failure, whether or not the sector changed.
WriteFails(t, s) ==
    /\ job[t] = Idle
    /\ writes < MaxWrites
    /\ writes' = writes + 1
    /\ \/ /\ disk' = [disk EXCEPT ![s] = writes + 1]
          /\ raced' = raced \cup {s}
       \/ UNCHANGED <<disk, raced>>
    /\ UNCHANGED <<lines, lru, job>>

\* Mutant: a write leaves the sector's line as it was.
StoreForgotten(t) ==
    /\ job[t].pc = "store"
    /\ job' = [job EXCEPT ![t] = Idle]
    /\ UNCHANGED <<lines, lru, disk, writes, raced>>

\* Lines 91-102: the written data go into the sector's line, or a chosen one.
WriteMerge(t) ==
    LET s == job[t].sector
        found == find_entry(s)
    IN /\ job[t].pc = "store"
       /\ \E i \in (IF found # {} THEN found ELSE {choose_entry}) :
             /\ lines' = Store(i, s, job[t].data)
             /\ Touch(i)
             /\ job' = Dropping([job EXCEPT ![t] = Idle], Evicted(i, s))
       /\ UNCHANGED <<disk, writes, raced>>

block_cache_invalidate(s) ==
    /\ find_entry(s) # {}
    /\ lines' = [i \in Line |-> IF i \in find_entry(s) THEN Empty ELSE lines[i]]
    /\ job' = Dropping(job, {s})
    /\ UNCHANGED <<lru, disk, writes, raced>>

block_cache_invalidate_device ==
    /\ \E i \in Line : lines[i].valid
    /\ lines' = [i \in Line |-> Empty]
    /\ job' = Dropping(job, Sectors)
    /\ UNCHANGED <<lru, disk, writes, raced>>

CacheNext ==
    \/ \E t \in CacheTasks, s \in Sectors :
          ReadHit(t, s) \/ ReadMiss(t, s) \/ WriteDevice(t, s) \/ WriteFails(t, s)
    \/ \E t \in CacheTasks : Fetch(t) \/ ReadMerge(t) \/ WriteMerge(t)
    \/ \E s \in Sectors : block_cache_invalidate(s)
    \/ block_cache_invalidate_device

CacheSpec == block_cache_initialize /\ [][CacheNext]_cacheVars

-----------------------------------------------------------------------------
\* Type correctness of the cache, the device and the operations under way.
CacheTypeOK ==
    /\ lines \in [Line -> [valid : BOOLEAN, sector : Sectors \cup {0}, data : 0 .. MaxWrites]]
    /\ lru \in [Line -> Line] /\ \A i \in Line : \E k \in Line : lru[k] = i
    /\ disk \in [Sectors -> 0 .. MaxWrites]
    /\ job \in [CacheTasks -> [pc : {"idle", "fetch", "merge", "store"}, sector : Sectors \cup {0},
                              data : 0 .. MaxWrites, dropped : BOOLEAN]]
    /\ writes \in 0 .. MaxWrites
    /\ raced \subseteq Sectors

\* A sector is never cached twice, although two readers may miss it together
\* and a writer may store it while they fetch: block_cache_read and
\* block_cache_write look it up again once they hold the lock.
OneLinePerSector ==
    \A i, j \in Line :
        lines[i].valid /\ lines[j].valid /\ lines[i].sector = lines[j].sector => i = j

\* Write-through: a cached sector that no write is storing holds what the
\* device holds.  The exceptions are exactly the sectors on which two writes
\* overlapped, a write failed after it reached the device, or a line was
\* dropped under a reader that had fetched an older copy.
WriteThrough ==
    \A i \in Line :
        lines[i].valid => \/ lines[i].data = disk[lines[i].sector]
                          \/ Writing(lines[i].sector)
                          \/ lines[i].sector \in raced

\* The cache under concurrent calls: typed, one line per sector, write-through.
CacheCoherent == CacheTypeOK /\ OneLinePerSector /\ WriteThrough
=============================================================================
