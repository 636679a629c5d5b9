-------------------------- MODULE BlockCacheProofs ---------------------------
(***************************************************************************)
(* The sector cache stays coherent for every number of tasks, sectors,      *)
(* lines and writes.                                                        *)
(***************************************************************************)
EXTENDS BlockCache, DataLemmas

\* Lines and operations are about sectors of the device.
SectorsKnown ==
    /\ \A i \in Line : lines[i].valid => lines[i].sector \in Sectors
    /\ \A t \in CacheTasks : job[t].pc # "idle" => job[t].sector \in Sectors

\* A writer that has not stored its copy yet holds what the device holds,
\* unless another write overtook it.
StoreCurrent ==
    \A t \in CacheTasks :
        job[t].pc = "store" => \/ job[t].data = disk[job[t].sector]
                               \/ job[t].sector \in raced

\* A reader that has fetched a copy holds what the device holds, or will not
\* cache it (someone else did, or is about to), or its sector lost its line
\* meanwhile.
MergeCurrent ==
    \A t \in CacheTasks :
        job[t].pc = "merge" => \/ job[t].data = disk[job[t].sector]
                               \/ job[t].dropped
                               \/ find_entry(job[t].sector) # {}
                               \/ Writing(job[t].sector)
                               \/ job[t].sector \in raced

CacheInv == CacheCoherent /\ SectorsKnown /\ StoreCurrent /\ MergeCurrent

-----------------------------------------------------------------------------
\* choose_entry finds a line.
LEMMA ChosenLine ==
    ASSUME CacheTypeOK
    PROVE  choose_entry \in Line
<1> DEFINE free == {i \in Line : ~lines[i].valid}
<1>1. CASE free # {}
  <2>1. free \in SUBSET Nat
    BY DEF Line
  <2>2. \E i \in free : \A j \in free : i <= j
    BY <1>1, <2>1, LeastExists
  <2>3. (CHOOSE i \in free : \A j \in free : i <= j) \in free
    BY <2>2
  <2> QED
    BY <1>1, <2>3 DEF choose_entry
<1>2. CASE free = {}
  <2>1. 1 \in Line
    BY CacheAssumption DEF Line
  <2> QED
    BY <1>2, <2>1 DEF choose_entry, CacheTypeOK
<1> QED
  BY <1>1, <1>2

\* Touching a line keeps every line in the order of use.
LEMMA TouchedOrder ==
    ASSUME CacheTypeOK, NEW i \in Line, Touch(i)
    PROVE  lru' \in [Line -> Line] /\ \A x \in Line : \E k \in Line : lru'[k] = x
<1> DEFINE place == CHOOSE k \in Line : lru[k] = i
<1>1. place \in Line /\ lru[place] = i
  BY DEF CacheTypeOK
<1>2. lru' = [k \in Line |-> IF k < place THEN lru[k]
                             ELSE IF k < CacheLines THEN lru[k + 1] ELSE i]
  BY DEF Touch
<1>3. lru \in [Line -> Line] /\ \A x \in Line : \E k \in Line : lru[k] = x
  BY DEF CacheTypeOK
<1> HIDE DEF place
<1>4. lru' \in [Line -> Line]
  <2>1. \A k \in Line : k < CacheLines => k + 1 \in Line
    BY CacheAssumption DEF Line
  <2>2. \A k \in Line : lru[k] \in Line /\ (k < CacheLines => lru[k + 1] \in Line)
    BY <1>3, <2>1
  <2> QED
    BY <1>2, <2>2
<1>5. ASSUME NEW x \in Line PROVE \E k \in Line : lru'[k] = x
  <2>1. PICK k \in Line : lru[k] = x
    BY <1>3
  <2>2. CASE x = i
    <3>1. CacheLines \in Line
      BY CacheAssumption DEF Line
    <3>2. lru'[CacheLines] = i
      BY <1>1, <1>2, <3>1, CacheAssumption DEF Line
    <3> QED
      BY <2>2, <3>1, <3>2
  <2>3. CASE x # i /\ k < place
    <3>1. lru'[k] = x
      BY <1>2, <2>1, <2>3
    <3> QED
      BY <3>1
  <2>4. CASE x # i /\ ~(k < place)
    <3>1. k - 1 \in Line /\ ~(k - 1 < place) /\ k - 1 < CacheLines /\ k - 1 + 1 = k
      BY <1>1, <2>1, <2>4, CacheAssumption DEF Line
    <3>2. lru'[k - 1] = lru[k - 1 + 1]
      BY <1>2, <3>1
    <3>3. lru'[k - 1] = x
      BY <2>1, <3>1, <3>2
    <3> QED
      BY <3>1, <3>3
  <2> QED
    BY <2>2, <2>3, <2>4
<1> QED
  BY <1>4, <1>5

\* A line that is filled keeps the lines typed, and leaves one line for its
\* sector if the sector had none or this one.
LEMMA StoredLines ==
    ASSUME CacheTypeOK, OneLinePerSector, NEW i \in Line, NEW s \in Sectors,
           NEW d \in 0 .. MaxWrites, find_entry(s) \subseteq {i},
           lines' = Store(i, s, d)
    PROVE  /\ lines' \in [Line -> [valid : BOOLEAN, sector : Sectors \cup {0}, data : 0 .. MaxWrites]]
           /\ lines'[i] = [valid |-> TRUE, sector |-> s, data |-> d]
           /\ \A j \in Line \ {i} : lines'[j] = lines[j]
           /\ OneLinePerSector'
<1>1. /\ lines' \in [Line -> [valid : BOOLEAN, sector : Sectors \cup {0}, data : 0 .. MaxWrites]]
      /\ lines'[i] = [valid |-> TRUE, sector |-> s, data |-> d]
      /\ \A j \in Line \ {i} : lines'[j] = lines[j]
  BY DEF CacheTypeOK, Store
<1>2. OneLinePerSector'
  BY <1>1 DEF OneLinePerSector, find_entry
<1> QED
  BY <1>1, <1>2

-----------------------------------------------------------------------------
LEMMA CacheInit ==
    block_cache_initialize => CacheInv
<1> SUFFICES ASSUME block_cache_initialize PROVE CacheInv
  OBVIOUS
<1>1. 0 \in 0 .. MaxWrites
  BY CacheAssumption
<1>2. CacheTypeOK
  BY <1>1 DEF block_cache_initialize, CacheTypeOK, Empty, Idle, Job
<1>3. OneLinePerSector /\ WriteThrough
  BY DEF block_cache_initialize, OneLinePerSector, WriteThrough, Empty
<1>4. SectorsKnown /\ StoreCurrent /\ MergeCurrent
  BY DEF block_cache_initialize, SectorsKnown, StoreCurrent, MergeCurrent, Empty, Idle, Job
<1> QED
  BY <1>2, <1>3, <1>4 DEF CacheInv, CacheCoherent

\* Steps that leave the lines alone and write nothing: a hit, a miss, a fetch.
LEMMA ReadHitStep ==
    ASSUME CacheInv, NEW t \in CacheTasks, NEW s \in Sectors, ReadHit(t, s)
    PROVE  CacheInv'
<1>1. PICK i \in find_entry(s) : Touch(i)
  BY DEF ReadHit
<1>2. i \in Line
  BY DEF find_entry
<1>3. lru' \in [Line -> Line] /\ \A x \in Line : \E k \in Line : lru'[k] = x
  BY <1>1, <1>2, TouchedOrder DEF CacheInv, CacheCoherent
<1>4. CacheTypeOK'
  BY <1>3 DEF CacheInv, CacheCoherent, CacheTypeOK, ReadHit
<1>5. OneLinePerSector' /\ WriteThrough' /\ SectorsKnown' /\ StoreCurrent' /\ MergeCurrent'
  BY DEF CacheInv, CacheCoherent, ReadHit, OneLinePerSector, WriteThrough, SectorsKnown,
         StoreCurrent, MergeCurrent, Writing, find_entry
<1> QED
  BY <1>4, <1>5 DEF CacheInv, CacheCoherent

\* One task's job changes, the cache and the device do not.
LEMMA JobStep ==
    ASSUME CacheInv, NEW t \in CacheTasks, NEW j,
           j \in [pc : {"idle", "fetch", "merge"}, sector : Sectors \cup {0},
                  data : 0 .. MaxWrites, dropped : BOOLEAN],
           j.pc # "idle" => j.sector \in Sectors,
           j.pc = "merge" => j.data = disk[j.sector],
           job[t].pc # "store",
           job' = [job EXCEPT ![t] = j],
           UNCHANGED <<lines, lru, disk, writes, raced>>
    PROVE  CacheInv'
<1>1. job \in [CacheTasks -> [pc : {"idle", "fetch", "merge", "store"}, sector : Sectors \cup {0},
                              data : 0 .. MaxWrites, dropped : BOOLEAN]]
  BY DEF CacheInv, CacheCoherent, CacheTypeOK
<1>2. job' \in [CacheTasks -> [pc : {"idle", "fetch", "merge", "store"}, sector : Sectors \cup {0},
                               data : 0 .. MaxWrites, dropped : BOOLEAN]]
  BY <1>1
<1>3. job'[t] = j /\ \A u \in CacheTasks \ {t} : job'[u] = job[u]
  BY <1>1
<1>4. CacheTypeOK' /\ OneLinePerSector'
  BY <1>2 DEF CacheInv, CacheCoherent, CacheTypeOK, OneLinePerSector
<1>5. \A x : Writing(x)' <=> Writing(x)
  BY <1>3 DEF Writing
<1>6. \A x : find_entry(x)' = find_entry(x)
  BY DEF find_entry
<1>7. WriteThrough'
  BY <1>5 DEF CacheInv, CacheCoherent, WriteThrough
<1>8. SectorsKnown' /\ StoreCurrent'
  BY <1>3 DEF CacheInv, SectorsKnown, StoreCurrent
<1>9. MergeCurrent'
  BY <1>3, <1>5, <1>6 DEF CacheInv, MergeCurrent
<1> QED
  BY <1>4, <1>7, <1>8, <1>9 DEF CacheInv, CacheCoherent

LEMMA ReadMissStep ==
    ASSUME CacheInv, NEW t \in CacheTasks, NEW s \in Sectors, ReadMiss(t, s)
    PROVE  CacheInv'
<1> DEFINE j == Job("fetch", s, 0)
<1>1. job[t] = Idle /\ UNCHANGED <<lines, lru, disk, writes, raced>>
  BY DEF ReadMiss
<1>2. job' = [job EXCEPT ![t] = j]
  BY DEF ReadMiss
<1>3. j \in [pc : {"idle", "fetch", "merge"}, sector : Sectors \cup {0},
            data : 0 .. MaxWrites, dropped : BOOLEAN] /\ j.pc = "fetch" /\ j.sector = s
  BY CacheAssumption DEF Job
<1>4. job[t].pc # "store"
  BY <1>1 DEF Idle, Job
<1> HIDE DEF j
<1> QED
  BY <1>1, <1>2, <1>3, <1>4, JobStep

LEMMA FetchStep ==
    ASSUME CacheInv, NEW t \in CacheTasks, Fetch(t)
    PROVE  CacheInv'
<1> DEFINE s == job[t].sector
<1>1. /\ s \in Sectors /\ disk[s] \in 0 .. MaxWrites
      /\ job[t] \in [pc : {"idle", "fetch", "merge", "store"}, sector : Sectors \cup {0},
                     data : 0 .. MaxWrites, dropped : BOOLEAN]
      /\ job[t].pc = "fetch" /\ UNCHANGED <<lines, lru, disk, writes, raced>>
  BY DEF CacheInv, CacheCoherent, CacheTypeOK, SectorsKnown, Fetch
<1>2. CASE job' = [job EXCEPT ![t] = Job("merge", s, disk[s])]
  <2> DEFINE j == Job("merge", s, disk[s])
  <2>1. job' = [job EXCEPT ![t] = j]
    BY <1>2
  <2>2. /\ j \in [pc : {"idle", "fetch", "merge"}, sector : Sectors \cup {0},
                  data : 0 .. MaxWrites, dropped : BOOLEAN]
        /\ j.pc = "merge" /\ j.sector = s /\ j.data = disk[s]
    BY <1>1 DEF Job
  <2> HIDE DEF j
  <2> QED
    BY <1>1, <2>1, <2>2, JobStep
<1>3. CASE job' = [job EXCEPT ![t] = Idle]
  <2>1. Idle \in [pc : {"idle", "fetch", "merge"}, sector : Sectors \cup {0},
                  data : 0 .. MaxWrites, dropped : BOOLEAN] /\ Idle.pc = "idle"
    BY CacheAssumption DEF Idle, Job
  <2> QED
    BY <1>1, <1>3, <2>1, JobStep
<1> QED
  BY <1>2, <1>3 DEF Fetch

\* A write reaches the device: its sector is being written until it is stored.
LEMMA WriteDeviceStep ==
    ASSUME CacheInv, NEW t \in CacheTasks, NEW s \in Sectors, WriteDevice(t, s)
    PROVE  CacheInv'
<1> DEFINE j == Job("store", s, writes + 1)
<1> DEFINE Jobs == [CacheTasks -> [pc : {"idle", "fetch", "merge", "store"}, sector : Sectors \cup {0},
                                   data : 0 .. MaxWrites, dropped : BOOLEAN]]
<1>1. /\ job[t] = Idle /\ UNCHANGED <<lines, lru>>
      /\ writes' = writes + 1 /\ writes' \in 0 .. MaxWrites
      /\ disk' = [disk EXCEPT ![s] = writes + 1]
      /\ raced' = IF Writing(s) THEN raced \cup {s} ELSE raced
      /\ job \in Jobs /\ disk \in [Sectors -> 0 .. MaxWrites] /\ raced \subseteq Sectors
  BY CacheAssumption DEF WriteDevice, CacheInv, CacheCoherent, CacheTypeOK
<1>2. job' = [job EXCEPT ![t] = j]
  BY DEF WriteDevice
<1>3. j.pc = "store" /\ j.sector = s /\ j.data = writes + 1
  BY DEF Job
<1>4. job' \in Jobs
  BY <1>1, <1>2 DEF Job
<1> HIDE DEF j
<1>5. job'[t] = j /\ \A u \in CacheTasks \ {t} : job'[u] = job[u]
  BY <1>1, <1>2
<1>6. disk'[s] = writes + 1 /\ \A x \in Sectors \ {s} : disk'[x] = disk[x]
  BY <1>1
<1>7. raced \subseteq raced' /\ (Writing(s) => s \in raced')
  BY <1>1
<1>8. CacheTypeOK' /\ OneLinePerSector'
  BY <1>1, <1>4 DEF CacheInv, CacheCoherent, CacheTypeOK, OneLinePerSector
<1>9. Writing(s)' /\ \A x : Writing(x) => Writing(x)'
  BY <1>1, <1>3, <1>5 DEF Writing, Idle, Job
<1>10. SectorsKnown'
  BY <1>1, <1>3, <1>5 DEF CacheInv, SectorsKnown
<1>11. WriteThrough'
  BY <1>1, <1>6, <1>7, <1>9 DEF CacheInv, CacheCoherent, WriteThrough, SectorsKnown
<1>12. StoreCurrent'
  <2> SUFFICES ASSUME NEW u \in CacheTasks, job'[u].pc = "store"
               PROVE  job'[u].data = disk'[job'[u].sector] \/ job'[u].sector \in raced'
    BY DEF StoreCurrent
  <2>1. CASE u = t
    BY <1>3, <1>5, <1>6, <2>1
  <2>2. CASE u # t /\ job[u].sector = s
    BY <1>5, <1>7, <2>2 DEF Writing
  <2>3. CASE u # t /\ job[u].sector # s
    BY <1>5, <1>6, <1>7, <2>3 DEF CacheInv, StoreCurrent, SectorsKnown
  <2> QED
    BY <2>1, <2>2, <2>3
<1>13. MergeCurrent'
  BY <1>1, <1>3, <1>5, <1>6, <1>7, <1>9 DEF CacheInv, MergeCurrent, SectorsKnown, find_entry
<1> QED
  BY <1>8, <1>10, <1>11, <1>12, <1>13 DEF CacheInv, CacheCoherent

\* A write that fails may have reached the device: its sector is given up.
LEMMA WriteFailsStep ==
    ASSUME CacheInv, NEW t \in CacheTasks, NEW s \in Sectors, WriteFails(t, s)
    PROVE  CacheInv'
<1>1. /\ UNCHANGED <<lines, lru, job>>
      /\ writes' = writes + 1 /\ writes' \in 0 .. MaxWrites
      /\ disk \in [Sectors -> 0 .. MaxWrites] /\ raced \subseteq Sectors
  BY CacheAssumption DEF WriteFails, CacheInv, CacheCoherent, CacheTypeOK
<1>2. /\ disk' \in [Sectors -> 0 .. MaxWrites] /\ raced' \subseteq Sectors
      /\ raced \subseteq raced'
      /\ \A x \in Sectors : disk'[x] = disk[x] \/ x \in raced'
  BY <1>1 DEF WriteFails
<1>3. CacheTypeOK' /\ OneLinePerSector' /\ SectorsKnown'
  BY <1>1, <1>2 DEF CacheInv, CacheCoherent, CacheTypeOK, OneLinePerSector, SectorsKnown
<1>4. WriteThrough' /\ StoreCurrent'
  BY <1>1, <1>2 DEF CacheInv, CacheCoherent, WriteThrough, StoreCurrent, SectorsKnown, Writing
<1>5. MergeCurrent'
  BY <1>1, <1>2 DEF CacheInv, MergeCurrent, SectorsKnown, Writing, find_entry
<1> QED
  BY <1>3, <1>4, <1>5 DEF CacheInv, CacheCoherent

\* What the tasks may be doing.
Jobs == [CacheTasks -> [pc : {"idle", "fetch", "merge", "store"}, sector : Sectors \cup {0},
                        data : 0 .. MaxWrites, dropped : BOOLEAN]]

\* The jobs after lines were dropped: readers may be marked, nothing else.
LEMMA DroppedJobs ==
    ASSUME NEW jobs, NEW S,
           jobs \in Jobs
    PROVE  /\ Dropping(jobs, S) \in Jobs
           /\ \A u \in CacheTasks :
                /\ Dropping(jobs, S)[u].pc = jobs[u].pc
                /\ Dropping(jobs, S)[u].sector = jobs[u].sector
                /\ Dropping(jobs, S)[u].data = jobs[u].data
                /\ jobs[u].dropped => Dropping(jobs, S)[u].dropped
                /\ jobs[u].pc = "merge" /\ jobs[u].sector \in S => Dropping(jobs, S)[u].dropped
BY DEF Dropping, Jobs

\* ... and t has finished.
LEMMA FinishedJobs ==
    ASSUME job \in Jobs, NEW t \in CacheTasks, NEW S
    PROVE  LET next == Dropping([job EXCEPT ![t] = Idle], S)
           IN /\ next \in Jobs /\ next[t].pc = "idle"
              /\ \A u \in CacheTasks : next[u].pc # "idle" => u # t
              /\ \A u \in CacheTasks \ {t} :
                    /\ next[u].pc = job[u].pc /\ next[u].sector = job[u].sector
                    /\ next[u].data = job[u].data
                    /\ job[u].dropped => next[u].dropped
                    /\ job[u].pc = "merge" /\ job[u].sector \in S => next[u].dropped
<1> DEFINE jobs == [job EXCEPT ![t] = Idle]
<1>1. jobs \in Jobs
  BY CacheAssumption DEF Idle, Job, Jobs
<1>2. jobs[t].pc = "idle" /\ \A u \in CacheTasks \ {t} : jobs[u] = job[u]
  BY DEF Idle, Job, Jobs
<1> HIDE DEF jobs
<1>3. /\ Dropping(jobs, S) \in Jobs
      /\ \A u \in CacheTasks :
            /\ Dropping(jobs, S)[u].pc = jobs[u].pc
            /\ Dropping(jobs, S)[u].sector = jobs[u].sector
            /\ Dropping(jobs, S)[u].data = jobs[u].data
            /\ jobs[u].dropped => Dropping(jobs, S)[u].dropped
            /\ jobs[u].pc = "merge" /\ jobs[u].sector \in S => Dropping(jobs, S)[u].dropped
  BY <1>1, DroppedJobs
<1>4. Dropping(jobs, S)[t].pc = "idle"
  BY <1>2, <1>3
<1>5. \A u \in CacheTasks : Dropping(jobs, S)[u].pc # "idle" => u # t
  BY <1>4
<1>6. \A u \in CacheTasks \ {t} :
        /\ Dropping(jobs, S)[u].pc = job[u].pc /\ Dropping(jobs, S)[u].sector = job[u].sector
        /\ Dropping(jobs, S)[u].data = job[u].data
        /\ job[u].dropped => Dropping(jobs, S)[u].dropped
        /\ job[u].pc = "merge" /\ job[u].sector \in S => Dropping(jobs, S)[u].dropped
  BY <1>2, <1>3
<1> QED
  BY <1>3, <1>4, <1>5, <1>6 DEF jobs

\* Task t finishes by storing d as sector s in line i.
Filling(t, s, d, i) ==
    /\ find_entry(s) \subseteq {i}
    /\ lines' = Store(i, s, d)
    /\ Touch(i)
    /\ job' = Dropping([job EXCEPT ![t] = Idle], Evicted(i, s))
    /\ UNCHANGED <<disk, writes>>
    /\ raced \subseteq raced' /\ raced' \subseteq Sectors
    /\ \/ d = disk[s]
       \/ s \in raced'
       \/ \E u \in CacheTasks \ {t} : job[u].pc = "store" /\ job[u].sector = s
    /\ job[t].pc = "store" => job[t].sector = s

\* A line is filled: by a reader that found no line, or by a writer.
LEMMA FillStep ==
    ASSUME CacheInv, NEW t \in CacheTasks, NEW s \in Sectors, NEW d \in 0 .. MaxWrites,
           NEW i \in Line, Filling(t, s, d, i)
    PROVE  CacheInv'
<1>1. job \in Jobs /\ lines \in [Line -> [valid : BOOLEAN, sector : Sectors \cup {0}, data : 0 .. MaxWrites]]
  BY DEF CacheInv, CacheCoherent, CacheTypeOK, Jobs
<1>2. disk' = disk /\ writes' = writes /\ raced \subseteq raced' /\ raced' \subseteq Sectors
  BY DEF Filling
<1>3. /\ job' \in Jobs /\ job'[t].pc = "idle"
      /\ \A u \in CacheTasks : job'[u].pc # "idle" => u # t
      /\ \A u \in CacheTasks \ {t} :
            /\ job'[u].pc = job[u].pc /\ job'[u].sector = job[u].sector
            /\ job'[u].data = job[u].data
            /\ job[u].dropped => job'[u].dropped
            /\ job[u].pc = "merge" /\ job[u].sector \in Evicted(i, s) => job'[u].dropped
  <2>1. job' = Dropping([job EXCEPT ![t] = Idle], Evicted(i, s))
    BY DEF Filling
  <2> DEFINE next == Dropping([job EXCEPT ![t] = Idle], Evicted(i, s))
  <2>2. /\ next \in Jobs /\ next[t].pc = "idle"
        /\ \A u \in CacheTasks : next[u].pc # "idle" => u # t
        /\ \A u \in CacheTasks \ {t} :
              /\ next[u].pc = job[u].pc /\ next[u].sector = job[u].sector
              /\ next[u].data = job[u].data
              /\ job[u].dropped => next[u].dropped
              /\ job[u].pc = "merge" /\ job[u].sector \in Evicted(i, s) => next[u].dropped
    BY <1>1, FinishedJobs, Zenon
  <2> HIDE DEF next
  <2> QED
    BY <2>1, <2>2 DEF next
<1>4. /\ lines' \in [Line -> [valid : BOOLEAN, sector : Sectors \cup {0}, data : 0 .. MaxWrites]]
      /\ lines'[i] = [valid |-> TRUE, sector |-> s, data |-> d]
      /\ \A j \in Line \ {i} : lines'[j] = lines[j]
      /\ OneLinePerSector'
  BY StoredLines DEF CacheInv, CacheCoherent, Filling
<1>5. lru' \in [Line -> Line] /\ \A x \in Line : \E k \in Line : lru'[k] = x
  BY TouchedOrder DEF CacheInv, CacheCoherent, Filling
<1>6. CacheTypeOK'
  BY <1>2, <1>3, <1>4, <1>5 DEF CacheInv, CacheCoherent, CacheTypeOK, Jobs
<1>7. \A x : Writing(x)' <=> \E u \in CacheTasks \ {t} : job[u].pc = "store" /\ job[u].sector = x
  BY <1>3 DEF Writing
<1>8. \A x : x # s /\ Writing(x) => Writing(x)'
  BY <1>7 DEF Writing, Filling
<1>9. SectorsKnown'
  BY <1>3, <1>4 DEF CacheInv, SectorsKnown
<1>10. i \in find_entry(s)' /\ \A x : x # s /\ x \notin Evicted(i, s) => find_entry(x) \subseteq find_entry(x)'
  BY <1>4 DEF find_entry, Evicted
<1>11. WriteThrough'
  <2> SUFFICES ASSUME NEW j \in Line, lines'[j].valid
               PROVE  (\/ lines[j].data = disk[lines[j].sector]
                       \/ Writing(lines[j].sector)
                       \/ lines[j].sector \in raced)'
    BY DEF WriteThrough
  <2>1. CASE j = i
    BY <1>2, <1>4, <1>7, <2>1 DEF Filling
  <2>2. CASE j # i
    <3>1. lines'[j] = lines[j] /\ lines[j].sector # s
      BY <1>4, <2>2 DEF find_entry, Filling
    <3> QED
      BY <1>2, <1>8, <3>1 DEF CacheInv, CacheCoherent, WriteThrough
  <2> QED
    BY <2>1, <2>2
<1>12. StoreCurrent'
  BY <1>2, <1>3 DEF CacheInv, StoreCurrent
<1>13. MergeCurrent'
  <2> SUFFICES ASSUME NEW u \in CacheTasks, job'[u].pc = "merge"
               PROVE  (\/ job[u].data = disk[job[u].sector]
                       \/ job[u].dropped
                       \/ find_entry(job[u].sector) # {}
                       \/ Writing(job[u].sector)
                       \/ job[u].sector \in raced)'
    BY DEF MergeCurrent
  <2>1. /\ job[u].pc = "merge" /\ job'[u].sector = job[u].sector /\ job'[u].data = job[u].data
        /\ job[u].dropped => job'[u].dropped
        /\ job[u].sector \in Evicted(i, s) => job'[u].dropped
    BY <1>3
  <2>2. CASE job[u].sector = s
    BY <1>10, <2>1, <2>2
  <2>3. CASE job[u].sector \in Evicted(i, s)
    BY <2>1, <2>3
  <2>4. CASE job[u].sector # s /\ job[u].sector \notin Evicted(i, s)
    BY <1>2, <1>8, <1>10, <2>1, <2>4 DEF CacheInv, MergeCurrent
  <2> QED
    BY <2>2, <2>3, <2>4
<1> QED
  BY <1>4, <1>6, <1>9, <1>11, <1>12, <1>13 DEF CacheInv, CacheCoherent

LEMMA ReadMergeStep ==
    ASSUME CacheInv, NEW t \in CacheTasks, ReadMerge(t)
    PROVE  CacheInv'
<1> DEFINE s == job[t].sector
<1>1. /\ job[t].pc = "merge" /\ s \in Sectors /\ job[t].data \in 0 .. MaxWrites
      /\ raced \subseteq Sectors /\ UNCHANGED <<disk, writes>>
  BY DEF ReadMerge, CacheInv, CacheCoherent, CacheTypeOK, SectorsKnown
<1>2. CASE find_entry(s) # {}
  <2>1. PICK i \in find_entry(s) : Touch(i)
    BY <1>2 DEF ReadMerge
  <2>2. i \in Line /\ job' = [job EXCEPT ![t] = Idle] /\ UNCHANGED <<lines, raced>>
    BY <1>2 DEF ReadMerge, find_entry
  <2>3. lru' \in [Line -> Line] /\ \A x \in Line : \E k \in Line : lru'[k] = x
    BY <2>1, <2>2, TouchedOrder DEF CacheInv, CacheCoherent
  <2>4. /\ job'[t].pc = "idle" /\ \A u \in CacheTasks \ {t} : job'[u] = job[u]
        /\ job' \in Jobs
    BY <2>2, CacheAssumption DEF CacheInv, CacheCoherent, CacheTypeOK, Idle, Job, Jobs
  <2>5. CacheTypeOK'
    BY <1>1, <2>2, <2>3, <2>4 DEF CacheInv, CacheCoherent, CacheTypeOK, Jobs
  <2>6. \A x : Writing(x)' <=> Writing(x)
    BY <1>1, <2>4 DEF Writing
  <2>7. OneLinePerSector' /\ WriteThrough' /\ SectorsKnown' /\ StoreCurrent'
    BY <1>1, <2>2, <2>4, <2>6
       DEF CacheInv, CacheCoherent, OneLinePerSector, WriteThrough, SectorsKnown, StoreCurrent
  <2>8. MergeCurrent'
    BY <1>1, <2>2, <2>4, <2>6 DEF CacheInv, MergeCurrent, find_entry
  <2> QED
    BY <2>5, <2>7, <2>8 DEF CacheInv, CacheCoherent
<1>3. CASE find_entry(s) = {}
  <2>1. /\ lines' = Store(choose_entry, s, job[t].data) /\ Touch(choose_entry)
        /\ job' = Dropping([job EXCEPT ![t] = Idle], Evicted(choose_entry, s))
        /\ raced' = IF job[t].dropped THEN raced \cup {s} ELSE raced
    BY <1>3 DEF ReadMerge
  <2>2. choose_entry \in Line
    BY ChosenLine DEF CacheInv, CacheCoherent
  <2>3. \/ job[t].data = disk[s]
        \/ s \in raced'
        \/ \E u \in CacheTasks \ {t} : job[u].pc = "store" /\ job[u].sector = s
    BY <1>1, <1>3, <2>1 DEF CacheInv, MergeCurrent, Writing
  <2>5. raced \subseteq raced' /\ raced' \subseteq Sectors
    BY <1>1, <2>1
  <2> QED
    <3>1. Filling(t, s, job[t].data, choose_entry)
      BY <1>1, <1>3, <2>1, <2>2, <2>3, <2>5 DEF Filling
    <3> QED
      BY <1>1, <2>2, <3>1, FillStep
<1> QED
  BY <1>2, <1>3

LEMMA WriteMergeStep ==
    ASSUME CacheInv, NEW t \in CacheTasks, WriteMerge(t)
    PROVE  CacheInv'
<1> DEFINE s == job[t].sector
<1>1. /\ job[t].pc = "store" /\ s \in Sectors /\ job[t].data \in 0 .. MaxWrites
      /\ raced \subseteq Sectors /\ UNCHANGED <<disk, writes, raced>>
  BY DEF WriteMerge, CacheInv, CacheCoherent, CacheTypeOK, SectorsKnown
<1>2. PICK i \in (IF find_entry(s) # {} THEN find_entry(s) ELSE {choose_entry}) :
        /\ lines' = Store(i, s, job[t].data)
        /\ Touch(i)
        /\ job' = Dropping([job EXCEPT ![t] = Idle], Evicted(i, s))
  BY DEF WriteMerge
<1>3. choose_entry \in Line
  BY ChosenLine DEF CacheInv, CacheCoherent
<1>4. i \in Line /\ find_entry(s) \subseteq {i}
  BY <1>2, <1>3 DEF CacheInv, CacheCoherent, OneLinePerSector, find_entry
<1>5. job[t].data = disk[s] \/ s \in raced'
  BY <1>1 DEF CacheInv, StoreCurrent
<1>6. Filling(t, s, job[t].data, i)
  BY <1>1, <1>2, <1>4, <1>5 DEF Filling
<1> QED
  BY <1>1, <1>4, <1>6, FillStep

\* Lines are dropped: those of the sectors in S.
LEMMA DropStep ==
    ASSUME CacheInv, NEW S,
           lines' \in [Line -> [valid : BOOLEAN, sector : Sectors \cup {0}, data : 0 .. MaxWrites]],
           \A i \in Line : lines'[i] = lines[i] \/ (~lines'[i].valid /\ (lines[i].valid => lines[i].sector \in S)),
           job' = Dropping(job, S), UNCHANGED <<lru, disk, writes, raced>>
    PROVE  CacheInv'
<1>1. /\ job' \in Jobs
      /\ \A u \in CacheTasks :
            /\ job'[u].pc = job[u].pc /\ job'[u].sector = job[u].sector
            /\ job'[u].data = job[u].data
            /\ job[u].dropped => job'[u].dropped
            /\ job[u].pc = "merge" /\ job[u].sector \in S => job'[u].dropped
  BY DroppedJobs DEF CacheInv, CacheCoherent, CacheTypeOK, Jobs
<1>2. CacheTypeOK' /\ OneLinePerSector' /\ SectorsKnown'
  BY <1>1 DEF CacheInv, CacheCoherent, CacheTypeOK, OneLinePerSector, SectorsKnown, Jobs
<1>3. \A x : Writing(x)' <=> Writing(x)
  BY <1>1 DEF Writing
<1>4. WriteThrough' /\ StoreCurrent'
  BY <1>1, <1>3 DEF CacheInv, CacheCoherent, WriteThrough, StoreCurrent
<1>5. \A x : x \notin S => find_entry(x) \subseteq find_entry(x)'
  BY DEF find_entry
<1>6. MergeCurrent'
  BY <1>1, <1>3, <1>5 DEF CacheInv, MergeCurrent
<1> QED
  BY <1>2, <1>4, <1>6 DEF CacheInv, CacheCoherent

\* Every operation, and everything that may come between its steps, preserves
\* the invariant.
LEMMA CacheStep ==
    CacheInv /\ [CacheNext]_cacheVars => CacheInv'
<1> SUFFICES ASSUME CacheInv, [CacheNext]_cacheVars PROVE CacheInv'
  OBVIOUS
<1>1. ASSUME NEW t \in CacheTasks, NEW s \in Sectors, ReadHit(t, s) PROVE CacheInv'
  BY <1>1, ReadHitStep
<1>2. ASSUME NEW t \in CacheTasks, NEW s \in Sectors, ReadMiss(t, s) PROVE CacheInv'
  BY <1>2, ReadMissStep
<1>3. ASSUME NEW t \in CacheTasks, NEW s \in Sectors, WriteDevice(t, s) PROVE CacheInv'
  BY <1>3, WriteDeviceStep
<1>4. ASSUME NEW t \in CacheTasks, NEW s \in Sectors, WriteFails(t, s) PROVE CacheInv'
  BY <1>4, WriteFailsStep
<1>5. ASSUME NEW t \in CacheTasks, Fetch(t) PROVE CacheInv'
  BY <1>5, FetchStep
<1>6. ASSUME NEW t \in CacheTasks, ReadMerge(t) PROVE CacheInv'
  BY <1>6, ReadMergeStep
<1>7. ASSUME NEW t \in CacheTasks, WriteMerge(t) PROVE CacheInv'
  BY <1>7, WriteMergeStep
<1>8. ASSUME NEW s \in Sectors, block_cache_invalidate(s) PROVE CacheInv'
  <2>1. /\ lines' \in [Line -> [valid : BOOLEAN, sector : Sectors \cup {0}, data : 0 .. MaxWrites]]
        /\ \A i \in Line : lines'[i] = lines[i] \/ (~lines'[i].valid /\ (lines[i].valid => lines[i].sector \in {s}))
    <3>1. lines' = [i \in Line |-> IF i \in find_entry(s) THEN Empty ELSE lines[i]]
      BY <1>8 DEF block_cache_invalidate
    <3>2. lines \in [Line -> [valid : BOOLEAN, sector : Sectors \cup {0}, data : 0 .. MaxWrites]]
      BY DEF CacheInv, CacheCoherent, CacheTypeOK
    <3> QED
      <4>1. Empty \in [valid : BOOLEAN, sector : Sectors \cup {0}, data : 0 .. MaxWrites] /\ ~Empty.valid
        BY CacheAssumption DEF Empty
      <4>2. \A i \in find_entry(s) : lines[i].sector = s
        BY DEF find_entry
      <4>3. \A i \in Line : lines'[i] = IF i \in find_entry(s) THEN Empty ELSE lines[i]
        BY <3>1
      <4> QED
        BY <3>1, <3>2, <4>1, <4>2, <4>3
  <2>2. job' = Dropping(job, {s}) /\ UNCHANGED <<lru, disk, writes, raced>>
    BY <1>8 DEF block_cache_invalidate
  <2> QED
    BY <2>1, <2>2, DropStep
<1>9. CASE block_cache_invalidate_device
  <2>1. /\ lines' \in [Line -> [valid : BOOLEAN, sector : Sectors \cup {0}, data : 0 .. MaxWrites]]
        /\ \A i \in Line : ~lines'[i].valid /\ (lines[i].valid => lines[i].sector \in Sectors)
    BY <1>9, CacheAssumption DEF block_cache_invalidate_device, Empty, CacheInv, SectorsKnown
  <2>2. job' = Dropping(job, Sectors) /\ UNCHANGED <<lru, disk, writes, raced>>
    BY <1>9 DEF block_cache_invalidate_device
  <2> QED
    BY <2>1, <2>2, DropStep
<1>10. CASE UNCHANGED cacheVars
  BY <1>10 DEF cacheVars, CacheInv, CacheCoherent, CacheTypeOK, OneLinePerSector, WriteThrough,
               SectorsKnown, StoreCurrent, MergeCurrent, Writing, find_entry
<1> QED
  BY <1>1, <1>2, <1>3, <1>4, <1>5, <1>6, <1>7, <1>8, <1>9, <1>10 DEF CacheNext

\* For any number of tasks, sectors, lines and writes: although the lock is
\* dropped around every transfer, no sector is cached twice, and a cached
\* sector that no write is storing holds what the device holds, unless two
\* operations collided on it.
THEOREM CacheCoherence == CacheSpec => []CacheCoherent
<1>1. CacheInv => CacheCoherent
  BY DEF CacheInv
<1> QED
  BY CacheInit, CacheStep, <1>1, PTL DEF CacheSpec
=============================================================================
