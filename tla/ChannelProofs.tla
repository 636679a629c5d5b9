---------------------------- MODULE ChannelProofs ----------------------------
(***************************************************************************)
(* For every number of tasks and every capacity: no sleeping task is left   *)
(* without the wakeup it is owed, and the channel implements a bounded      *)
(* FIFO.                                                                    *)
(***************************************************************************)
EXTENDS Channel, DataLemmas

\* The two halves of TypeOK: the ring, and the tasks with their queues.
RingOK ==
    /\ head \in 0 .. Capacity - 1 /\ tail \in 0 .. Capacity - 1
    /\ count \in 0 .. Capacity
    /\ tail = (head + count) % Capacity
    /\ messages \in [0 .. Capacity - 1 -> Messages \cup {None}]
    /\ got \in Messages \cup {None}

Arguments == [sender : Tasks, size : Sizes \cup Buffers \cup {0}]

QueuesOK ==
    /\ readers \in Seq(Tasks) /\ IsInjective(readers)
    /\ writers \in Seq(Tasks) /\ IsInjective(writers)
    /\ \A t \in Range(readers) : pc[t] = "receive_wait"
    /\ \A t \in Range(writers) : pc[t] = "send_wait"

TasksOK ==
    /\ pc \in [Tasks -> Labels]
    /\ arg \in [Tasks -> Arguments]
    /\ \A t \in Tasks : pc[t] = "send_wait" => arg[t] \in Messages
    /\ open \in BOOLEAN /\ declined \in BOOLEAN

LEMMA TypeParts ==
    /\ TypeOK <=> RingOK /\ QueuesOK /\ TasksOK
    /\ TypeOK' <=> RingOK' /\ QueuesOK' /\ TasksOK'
BY DEF TypeOK, RingOK, QueuesOK, TasksOK, Arguments

-----------------------------------------------------------------------------
(* The ring.                                                               *)

LEMMA PutRing ==
    ASSUME RingOK, ~Full, NEW m \in Messages, Put(m), got' = got
    PROVE  RingOK' /\ count' = count + 1
<1>1. /\ Capacity \in Nat \ {0} /\ count \in 0 .. Capacity - 1 /\ count \in 0 .. Capacity /\ 1 \in 0 .. Capacity
      /\ head \in 0 .. Capacity - 1 /\ tail \in 0 .. Capacity - 1
  BY ChannelAssumption DEF RingOK, Full
<1>2. count' = count + 1 /\ head' = head /\ tail' = (tail + 1) % Capacity
  BY DEF Put, Advance
<1>3. (head + count) % Capacity = IF head + count < Capacity THEN head + count ELSE head + count - Capacity
  BY <1>1, RingIndex
<1>4. (tail + 1) % Capacity = IF tail + 1 < Capacity THEN tail + 1 ELSE tail + 1 - Capacity
  BY <1>1, RingIndex
<1>5. (head + (count + 1)) % Capacity
        = IF head + (count + 1) < Capacity THEN head + (count + 1) ELSE head + (count + 1) - Capacity
  <2>1. count + 1 \in 0 .. Capacity
    BY <1>1
  <2> QED
    BY <1>1, <2>1, RingIndex
<1>6. tail' = (head' + count') % Capacity /\ tail' \in 0 .. Capacity - 1
  BY <1>1, <1>2, <1>3, <1>4, <1>5 DEF RingOK
<1>7. messages' \in [0 .. Capacity - 1 -> Messages \cup {None}]
  BY DEF RingOK, Put
<1> QED
  BY <1>1, <1>2, <1>6, <1>7 DEF RingOK

LEMMA TakeRing ==
    ASSUME RingOK, count # 0, Take
    PROVE  RingOK' /\ count' = count - 1
<1>1. /\ Capacity \in Nat \ {0} /\ count \in 1 .. Capacity /\ count \in 0 .. Capacity /\ 1 \in 0 .. Capacity
      /\ head \in 0 .. Capacity - 1 /\ tail \in 0 .. Capacity - 1
  BY ChannelAssumption DEF RingOK
<1>2. count' = count - 1 /\ tail' = tail /\ head' = (head + 1) % Capacity
  BY DEF Take, Advance
<1>3. (head + count) % Capacity = IF head + count < Capacity THEN head + count ELSE head + count - Capacity
  BY <1>1, RingIndex
<1>4. (head + 1) % Capacity = IF head + 1 < Capacity THEN head + 1 ELSE head + 1 - Capacity
  BY <1>1, RingIndex
<1>5. head' \in 0 .. Capacity - 1
  BY <1>1, <1>2, <1>4
<1>6. (head' + (count - 1)) % Capacity
        = IF head' + (count - 1) < Capacity THEN head' + (count - 1) ELSE head' + (count - 1) - Capacity
  <2>1. count - 1 \in 0 .. Capacity
    BY <1>1
  <2> QED
    BY <1>1, <1>5, <2>1, RingIndex
<1>7. tail' = (head' + count') % Capacity
  <2>1. tail' = IF head + count < Capacity THEN head + count ELSE head + count - Capacity
    BY <1>2, <1>3 DEF RingOK
  <2>2. head' = IF head + 1 < Capacity THEN head + 1 ELSE head + 1 - Capacity
    BY <1>2, <1>4
  <2>3. tail' = IF head' + (count - 1) < Capacity THEN head' + (count - 1) ELSE head' + (count - 1) - Capacity
    BY <1>1, <2>1, <2>2
  <2> QED
    BY <1>2, <1>6, <2>3
<1>8. messages' = messages /\ got' \in Messages \cup {None}
  BY <1>1 DEF RingOK, Take
<1> QED
  BY <1>1, <1>2, <1>5, <1>7, <1>8 DEF RingOK

LEMMA RingKept ==
    ASSUME RingOK, UNCHANGED <<ringVars, got>>
    PROVE  RingOK' /\ count' = count
BY DEF RingOK, ringVars

-----------------------------------------------------------------------------
(* Tasks and queues.                                                       *)

\* A running task t goes on to label.
LEMMA MoveTask ==
    ASSUME QueuesOK, TasksOK, NEW t \in Tasks, ~Asleep(t),
           NEW label \in Labels \ {"send_wait", "receive_wait"}, Goto(t, label),
           \/ arg' = arg
           \/ arg' = [arg EXCEPT ![t] = NoArg(t)],
           UNCHANGED waitVars, open' \in BOOLEAN, declined' \in BOOLEAN
    PROVE  /\ QueuesOK' /\ TasksOK'
           /\ ReaderWakers' = (ReaderWakers \ {t}) \cup (IF label = "wake_reader" THEN {t} ELSE {})
           /\ WriterWakers' = (WriterWakers \ {t}) \cup (IF label = "wake_writer" THEN {t} ELSE {})
<1>1. /\ readers' = readers /\ writers' = writers
      /\ t \notin Range(readers) /\ t \notin Range(writers)
  BY DEF waitVars, Asleep
<1>2. /\ pc' \in [Tasks -> Labels] /\ pc'[t] = label
      /\ \A u \in Tasks \ {t} : pc'[u] = pc[u]
  BY DEF TasksOK, Goto
<1>3. QueuesOK'
  <2>1. \A u \in Range(readers) \cup Range(writers) : u \in Tasks /\ u # t
    BY <1>1 DEF QueuesOK, Range
  <2> QED
    BY <1>1, <1>2, <2>1 DEF QueuesOK
<1>4. NoArg(t) \in Arguments
  BY DEF NoArg, Arguments
<1>5. arg' \in [Tasks -> Arguments] /\ \A u \in Tasks \ {t} : arg'[u] = arg[u]
  BY <1>4 DEF TasksOK
<1>6. TasksOK'
  BY <1>2, <1>5 DEF TasksOK
<1>7. \A u : Asleep(u)' <=> Asleep(u)
  BY <1>1 DEF Asleep
<1> QED
  BY <1>2, <1>3, <1>6, <1>7 DEF ReaderWakers, WriterWakers, At

\* A running task t falls asleep.
LEMMA SleepReaders ==
    ASSUME QueuesOK, TasksOK, NEW t \in Tasks, ~Asleep(t), NEW a \in Arguments,
           readers' = Append(readers, t), writers' = writers, Sleep(t, "receive_wait", a),
           open' = open, declined' \in BOOLEAN
    PROVE  /\ QueuesOK' /\ TasksOK'
           /\ ReaderWakers' = ReaderWakers \ {t}
           /\ WriterWakers' = WriterWakers \ {t}
<1>1. /\ pc' \in [Tasks -> Labels] /\ pc'[t] = "receive_wait"
      /\ \A u \in Tasks \ {t} : pc'[u] = pc[u]
      /\ arg' \in [Tasks -> Arguments] /\ \A u \in Tasks \ {t} : arg'[u] = arg[u]
  BY DEF TasksOK, Goto, Sleep, Labels
<1>2. /\ readers' \in Seq(Tasks) /\ IsInjective(readers')
      /\ Range(readers') = Range(readers) \cup {t} /\ t \notin Range(writers)
  BY AppendOnce DEF QueuesOK, Asleep
<1>3. QueuesOK'
  <2>1. Range(readers) \subseteq Tasks /\ Range(writers) \subseteq Tasks
    BY DEF QueuesOK, Range
  <2> QED
    BY <1>1, <1>2, <2>1 DEF QueuesOK
<1>4. TasksOK'
  BY <1>1 DEF TasksOK
<1>5. \A u : Asleep(u)' <=> Asleep(u) \/ u = t
  BY <1>2 DEF Asleep
<1> QED
  BY <1>1, <1>3, <1>4, <1>5 DEF ReaderWakers, WriterWakers, At

LEMMA SleepWriters ==
    ASSUME QueuesOK, TasksOK, NEW t \in Tasks, ~Asleep(t), NEW a \in Arguments \cap Messages,
           writers' = Append(writers, t), readers' = readers, Sleep(t, "send_wait", a),
           open' = open, declined' \in BOOLEAN
    PROVE  /\ QueuesOK' /\ TasksOK'
           /\ ReaderWakers' = ReaderWakers \ {t}
           /\ WriterWakers' = WriterWakers \ {t}
<1>1. /\ pc' \in [Tasks -> Labels] /\ pc'[t] = "send_wait"
      /\ \A u \in Tasks \ {t} : pc'[u] = pc[u]
      /\ arg' \in [Tasks -> Arguments] /\ arg'[t] = a /\ \A u \in Tasks \ {t} : arg'[u] = arg[u]
  BY DEF TasksOK, Goto, Sleep, Labels
<1>2. /\ writers' \in Seq(Tasks) /\ IsInjective(writers')
      /\ Range(writers') = Range(writers) \cup {t} /\ t \notin Range(readers)
  BY AppendOnce DEF QueuesOK, Asleep
<1>3. QueuesOK'
  <2>1. Range(readers) \subseteq Tasks /\ Range(writers) \subseteq Tasks
    BY DEF QueuesOK, Range
  <2> QED
    BY <1>1, <1>2, <2>1 DEF QueuesOK
<1>4. TasksOK'
  BY <1>1 DEF TasksOK
<1>5. \A u : Asleep(u)' <=> Asleep(u) \/ u = t
  BY <1>2 DEF Asleep
<1> QED
  BY <1>1, <1>3, <1>4, <1>5 DEF ReaderWakers, WriterWakers, At

\* scheduler_wake_one, called by t.
LEMMA WakeReaders ==
    ASSUME QueuesOK, TasksOK, NEW t \in Tasks, ~Asleep(t),
           readers' = scheduler_wake_one(readers), writers' = writers,
           pc' \in [Tasks -> Labels], \A u \in Tasks \ {t} : pc'[u] = pc[u],
           pc'[t] \in {"idle", "close_readers", "close_writers"},
           UNCHANGED <<arg, open, declined>>
    PROVE  /\ QueuesOK' /\ TasksOK'
           /\ WriterWakers' = WriterWakers \ {t}
           /\ readers = <<>> => readers' = <<>>
           /\ readers # <<>> => /\ Head(readers) \in Tasks \ ReaderWakers
                                /\ ReaderWakers' = (ReaderWakers \ {t}) \cup {Head(readers)}
<1>1. TasksOK'
  BY DEF TasksOK
<1>2. /\ t \notin Range(readers) /\ t \notin Range(writers)
      /\ Range(readers) \subseteq Tasks /\ Range(writers) \subseteq Tasks
  BY DEF Asleep, QueuesOK, Range
<1>3. CASE readers = <<>>
  <2>1. readers' = readers
    BY <1>3 DEF scheduler_wake_one
  <2>2. QueuesOK'
    BY <1>2, <2>1 DEF QueuesOK
  <2>3. \A u : Asleep(u)' <=> Asleep(u)
    BY <2>1 DEF Asleep
  <2>4. WriterWakers' = WriterWakers \ {t}
    BY <2>3 DEF WriterWakers, At
  <2> QED
    BY <1>1, <1>3, <2>1, <2>2, <2>4
<1>4. CASE readers # <<>>
  <2> DEFINE h == Head(readers)
  <2>1. /\ readers' \in Seq(Tasks) /\ IsInjective(readers') /\ h \in Tasks /\ h \in Range(readers)
        /\ Range(readers') = Range(readers) \ {h}
    BY <1>4, TailOnce DEF scheduler_wake_one, QueuesOK
  <2> HIDE DEF h
  <2>2. h # t /\ pc[h] = "receive_wait" /\ pc'[h] = "receive_wait" /\ h \notin Range(writers)
    BY <1>2, <2>1 DEF QueuesOK
  <2>3. QueuesOK'
    BY <1>2, <2>1 DEF QueuesOK
  <2>4. \A u : Asleep(u)' <=> Asleep(u) /\ u # h
    BY <2>1, <2>2 DEF Asleep
  <2>5. WriterWakers' = WriterWakers \ {t}
    BY <2>2, <2>4 DEF WriterWakers, At
  <2>6. h \notin ReaderWakers /\ ReaderWakers' = (ReaderWakers \ {t}) \cup {h}
    <3>1. Asleep(h)
      BY <2>1 DEF Asleep
    <3> QED
      BY <2>1, <2>2, <2>4, <3>1 DEF ReaderWakers, At
  <2> QED
    BY <1>1, <1>4, <2>1, <2>3, <2>5, <2>6 DEF h
<1> QED
  BY <1>3, <1>4

LEMMA WakeWriters ==
    ASSUME QueuesOK, TasksOK, NEW t \in Tasks, ~Asleep(t),
           writers' = scheduler_wake_one(writers), readers' = readers,
           pc' \in [Tasks -> Labels], \A u \in Tasks \ {t} : pc'[u] = pc[u],
           pc'[t] \in {"idle", "close_readers", "close_writers"},
           UNCHANGED <<arg, open, declined>>
    PROVE  /\ QueuesOK' /\ TasksOK'
           /\ ReaderWakers' = ReaderWakers \ {t}
           /\ writers = <<>> => writers' = <<>>
           /\ writers # <<>> => /\ Head(writers) \in Tasks \ WriterWakers
                                /\ WriterWakers' = (WriterWakers \ {t}) \cup {Head(writers)}
<1>1. TasksOK'
  BY DEF TasksOK
<1>2. /\ t \notin Range(readers) /\ t \notin Range(writers)
      /\ Range(readers) \subseteq Tasks /\ Range(writers) \subseteq Tasks
  BY DEF Asleep, QueuesOK, Range
<1>3. CASE writers = <<>>
  <2>1. writers' = writers
    BY <1>3 DEF scheduler_wake_one
  <2>2. QueuesOK'
    BY <1>2, <2>1 DEF QueuesOK
  <2>3. \A u : Asleep(u)' <=> Asleep(u)
    BY <2>1 DEF Asleep
  <2>4. ReaderWakers' = ReaderWakers \ {t}
    BY <2>3 DEF ReaderWakers, At
  <2> QED
    BY <1>1, <1>3, <2>1, <2>2, <2>4
<1>4. CASE writers # <<>>
  <2> DEFINE h == Head(writers)
  <2>1. /\ writers' \in Seq(Tasks) /\ IsInjective(writers') /\ h \in Tasks /\ h \in Range(writers)
        /\ Range(writers') = Range(writers) \ {h}
    BY <1>4, TailOnce DEF scheduler_wake_one, QueuesOK
  <2> HIDE DEF h
  <2>2. h # t /\ pc[h] = "send_wait" /\ pc'[h] = "send_wait" /\ h \notin Range(readers)
    BY <1>2, <2>1 DEF QueuesOK
  <2>3. QueuesOK'
    BY <1>2, <2>1 DEF QueuesOK
  <2>4. \A u : Asleep(u)' <=> Asleep(u) /\ u # h
    BY <2>1, <2>2 DEF Asleep
  <2>5. ReaderWakers' = ReaderWakers \ {t}
    BY <2>2, <2>4 DEF ReaderWakers, At
  <2>6. h \notin WriterWakers /\ WriterWakers' = (WriterWakers \ {t}) \cup {h}
    <3>1. Asleep(h)
      BY <2>1 DEF Asleep
    <3> QED
      BY <2>1, <2>2, <2>4, <3>1 DEF WriterWakers, At
  <2> QED
    BY <1>1, <1>4, <2>1, <2>3, <2>5, <2>6 DEF h
<1> QED
  BY <1>3, <1>4

-----------------------------------------------------------------------------
(* The steps.                                                              *)

\* Wakers are tasks, and there are finitely many.
LEMMA WakersCount ==
    /\ IsFiniteSet(Tasks)
    /\ ReaderWakers \in SUBSET Tasks /\ WriterWakers \in SUBSET Tasks
    /\ ReaderWakers' \in SUBSET Tasks /\ WriterWakers' \in SUBSET Tasks
    /\ Cardinality(ReaderWakers) \in Nat /\ Cardinality(WriterWakers) \in Nat
    /\ Cardinality(ReaderWakers') \in Nat /\ Cardinality(WriterWakers') \in Nat
<1>1. /\ IsFiniteSet(Tasks)
      /\ ReaderWakers \in SUBSET Tasks /\ WriterWakers \in SUBSET Tasks
      /\ ReaderWakers' \in SUBSET Tasks /\ WriterWakers' \in SUBSET Tasks
  BY ChannelAssumption DEF ReaderWakers, WriterWakers
<1> QED
  BY <1>1, Counting

\* The wakers that are owed, when the message count and the wakers change.
LEMMA DuesKept ==
    ASSUME ReaderWakeDue, WriterWakeDue, count \in 0 .. Capacity, count' \in 0 .. Capacity,
           open' => open, declined => declined',
           readers' # <<>> => \/ readers # <<>> /\ (declined' \/
                                   Cardinality(ReaderWakers') - count' >= Cardinality(ReaderWakers) - count)
                              \/ count' = 0
                              \/ ~open',
           writers' # <<>> => \/ writers # <<>> /\
                                   Cardinality(WriterWakers') + count' >= Cardinality(WriterWakers) + count
                              \/ count' = Capacity
                              \/ ~open'
    PROVE  ReaderWakeDue' /\ WriterWakeDue'
<1>1. ReaderWakeDue'
  BY WakersCount DEF ReaderWakeDue
<1>2. WriterWakeDue'
  BY WakersCount, ChannelAssumption DEF WriterWakeDue
<1> QED
  BY <1>1, <1>2

\* A message goes into the ring: the sender becomes a waker of readers.
LEMMA PutStep ==
    ASSUME WakeupsDue, NEW t \in Tasks, At(t, "idle") \/ At(t, "send_wait"),
           NEW m \in Messages, ~Full, Put(m), Goto(t, "wake_reader"),
           \/ arg' = arg
           \/ arg' = [arg EXCEPT ![t] = NoArg(t)],
           UNCHANGED waitVars, UNCHANGED <<open, got, declined>>
    PROVE  WakeupsDue'
<1>1. RingOK /\ QueuesOK /\ TasksOK /\ ReaderWakeDue /\ WriterWakeDue
  BY TypeParts DEF WakeupsDue
<1>2. RingOK' /\ count' = count + 1
  BY <1>1, PutRing
<1>3. ~Asleep(t) /\ t \notin ReaderWakers /\ "wake_reader" \in Labels \ {"send_wait", "receive_wait"}
  BY DEF At, ReaderWakers, Labels
<1>4. /\ QueuesOK' /\ TasksOK'
      /\ ReaderWakers' = (ReaderWakers \ {t}) \cup {t}
      /\ WriterWakers' = WriterWakers \ {t}
  BY <1>1, <1>3, MoveTask DEF TasksOK
<1>5. /\ Cardinality(ReaderWakers') >= Cardinality(ReaderWakers) + 1
      /\ Cardinality(WriterWakers') >= Cardinality(WriterWakers) - 1
  BY <1>3, <1>4, WakersCount, Counting
<1>6. count \in 0 .. Capacity /\ count' \in 0 .. Capacity /\ readers' = readers /\ writers' = writers
  BY <1>1, <1>2 DEF RingOK, waitVars
<1>7. ReaderWakeDue' /\ WriterWakeDue'
  BY <1>1, <1>2, <1>5, <1>6, WakersCount, DuesKept
<1> QED
  BY <1>2, <1>4, <1>7, TypeParts DEF WakeupsDue

\* A message is taken: the receiver becomes a waker of writers.
LEMMA TakeStep ==
    ASSUME WakeupsDue, NEW t \in Tasks, At(t, "idle") \/ At(t, "receive_wait"),
           count # 0, Take, Goto(t, "wake_writer"),
           \/ arg' = arg
           \/ arg' = [arg EXCEPT ![t] = NoArg(t)],
           UNCHANGED waitVars, open' = open, declined' = declined
    PROVE  WakeupsDue'
<1>1. RingOK /\ QueuesOK /\ TasksOK /\ ReaderWakeDue /\ WriterWakeDue
  BY TypeParts DEF WakeupsDue
<1>2. RingOK' /\ count' = count - 1
  BY <1>1, TakeRing
<1>3. ~Asleep(t) /\ t \notin WriterWakers /\ "wake_writer" \in Labels \ {"send_wait", "receive_wait"}
  BY DEF At, WriterWakers, Labels
<1>4. /\ QueuesOK' /\ TasksOK'
      /\ ReaderWakers' = ReaderWakers \ {t}
      /\ WriterWakers' = (WriterWakers \ {t}) \cup {t}
  BY <1>1, <1>3, MoveTask DEF TasksOK
<1>5. /\ Cardinality(ReaderWakers') >= Cardinality(ReaderWakers) - 1
      /\ Cardinality(WriterWakers') >= Cardinality(WriterWakers) + 1
  BY <1>3, <1>4, WakersCount, Counting
<1>6. count \in 0 .. Capacity /\ count' \in 0 .. Capacity /\ readers' = readers /\ writers' = writers
  BY <1>1, <1>2 DEF RingOK, waitVars
<1>7. ReaderWakeDue' /\ WriterWakeDue'
  BY <1>1, <1>2, <1>5, <1>6, WakersCount, DuesKept
<1> QED
  BY <1>2, <1>4, <1>7, TypeParts DEF WakeupsDue

\* A blocking call, or close, goes on without a transfer and without sleeping.
\* A woken reader that leaves a message it has no room for is remembered.
LEMMA LeaveStep ==
    ASSUME WakeupsDue, NEW t \in Tasks, NEW label \in {"idle", "close_readers"},
           \/ At(t, "idle")
           \/ At(t, "send_wait") /\ (~open \/ Full)
           \/ At(t, "receive_wait") /\ (~open \/ count = 0 \/ declined'),
           Goto(t, label),
           \/ arg' = arg
           \/ arg' = [arg EXCEPT ![t] = NoArg(t)],
           UNCHANGED <<ringVars, got>>, UNCHANGED waitVars,
           open' \in BOOLEAN, open' => open, declined' \in BOOLEAN, declined => declined'
    PROVE  WakeupsDue'
<1>1. RingOK /\ QueuesOK /\ TasksOK /\ ReaderWakeDue /\ WriterWakeDue
  BY TypeParts DEF WakeupsDue
<1>2. RingOK' /\ count' = count
  BY <1>1, RingKept
<1>3. ~Asleep(t) /\ label \in Labels \ {"send_wait", "receive_wait"}
      /\ label # "wake_reader" /\ label # "wake_writer"
  BY DEF At, Labels
<1>4. /\ QueuesOK' /\ TasksOK'
      /\ ReaderWakers' = ReaderWakers \ {t}
      /\ WriterWakers' = WriterWakers \ {t}
  BY <1>1, <1>3, MoveTask
<1>5. /\ t \notin ReaderWakers \/ At(t, "receive_wait")
      /\ t \notin WriterWakers \/ At(t, "send_wait")
  BY DEF At, ReaderWakers, WriterWakers
<1>6. count \in 0 .. Capacity /\ count' \in 0 .. Capacity /\ readers' = readers /\ writers' = writers
  BY <1>1, <1>2 DEF RingOK, waitVars
<1>7. \/ Cardinality(ReaderWakers') >= Cardinality(ReaderWakers)
      \/ ~open' \/ count' = 0 \/ declined'
  BY <1>2, <1>4, <1>5, WakersCount, Counting DEF At
<1>8. \/ Cardinality(WriterWakers') >= Cardinality(WriterWakers)
      \/ ~open' \/ count' = Capacity
  BY <1>2, <1>4, <1>5, WakersCount, Counting DEF At, Full
<1>9. ReaderWakeDue' /\ WriterWakeDue'
  BY <1>1, <1>2, <1>6, <1>7, <1>8, WakersCount, DuesKept
<1> QED
  BY <1>2, <1>4, <1>9, TypeParts DEF WakeupsDue

\* A reader sleeps on an empty ring, a writer on a full one.
LEMMA SleepStep ==
    ASSUME WakeupsDue, NEW t \in Tasks, NEW a \in Arguments,
           \/ /\ At(t, "idle") \/ At(t, "receive_wait")
              /\ count = 0 /\ readers' = Append(readers, t) /\ writers' = writers
              /\ Sleep(t, "receive_wait", a)
           \/ /\ At(t, "idle") \/ At(t, "send_wait")
              /\ Full /\ writers' = Append(writers, t) /\ readers' = readers
              /\ Sleep(t, "send_wait", a) /\ a \in Messages,
           UNCHANGED <<ringVars, got>>, open' = open, declined' = declined
    PROVE  WakeupsDue'
<1>1. RingOK /\ QueuesOK /\ TasksOK /\ ReaderWakeDue /\ WriterWakeDue
  BY TypeParts DEF WakeupsDue
<1>2. RingOK' /\ count' = count
  BY <1>1, RingKept
<1>3. ~Asleep(t) /\ declined' \in BOOLEAN
  BY <1>1 DEF At, TasksOK
<1>4. /\ QueuesOK' /\ TasksOK'
      /\ ReaderWakers' = ReaderWakers \ {t}
      /\ WriterWakers' = WriterWakers \ {t}
  BY <1>1, <1>3, SleepReaders, SleepWriters
<1>5. count \in 0 .. Capacity /\ count' \in 0 .. Capacity
  BY <1>1, <1>2 DEF RingOK
<1>6. \/ count' = 0
      \/ Cardinality(ReaderWakers') >= Cardinality(ReaderWakers) /\ readers' = readers
  <2>1. t \notin ReaderWakers \/ At(t, "receive_wait")
    BY DEF At, ReaderWakers
  <2> QED
    BY <1>2, <1>4, <2>1, WakersCount, Counting DEF At
<1>7. \/ count' = Capacity
      \/ Cardinality(WriterWakers') >= Cardinality(WriterWakers) /\ writers' = writers
  <2>1. t \notin WriterWakers \/ At(t, "send_wait")
    BY DEF At, WriterWakers
  <2> QED
    BY <1>2, <1>4, <2>1, WakersCount, Counting DEF At, Full
<1>8. ReaderWakeDue' /\ WriterWakeDue'
  BY <1>1, <1>2, <1>5, <1>6, <1>7, WakersCount, DuesKept
<1> QED
  BY <1>2, <1>4, <1>8, TypeParts DEF WakeupsDue

\* A task between its unlock and its wakeup, and close, wake a reader: the
\* reader takes the waker's place.
LEMMA WakeReaderStep ==
    ASSUME WakeupsDue, NEW t \in Tasks, At(t, "wake_reader") \/ At(t, "close_readers"),
           readers' = scheduler_wake_one(readers), writers' = writers,
           \/ Goto(t, "idle")
           \/ At(t, "close_readers") /\ (Goto(t, "close_writers") \/ UNCHANGED pc),
           UNCHANGED <<ringVars, got>>, UNCHANGED <<arg, open, declined>>
    PROVE  WakeupsDue'
<1>1. RingOK /\ QueuesOK /\ TasksOK /\ ReaderWakeDue /\ WriterWakeDue
  BY TypeParts DEF WakeupsDue
<1>2. RingOK' /\ count' = count
  BY <1>1, RingKept
<1>3. /\ pc' \in [Tasks -> Labels] /\ \A u \in Tasks \ {t} : pc'[u] = pc[u]
      /\ pc'[t] \in {"idle", "close_readers", "close_writers"}
  BY <1>1 DEF TasksOK, Goto, At, Labels
<1>4. ~Asleep(t) /\ t \notin WriterWakers
  BY DEF At, WriterWakers
<1>5. /\ QueuesOK' /\ TasksOK'
      /\ WriterWakers' = WriterWakers \ {t}
      /\ readers = <<>> => readers' = <<>>
      /\ readers # <<>> => /\ Head(readers) \in Tasks \ ReaderWakers
                           /\ ReaderWakers' = (ReaderWakers \ {t}) \cup {Head(readers)}
  BY <1>1, <1>3, <1>4, WakeReaders
<1>6. count \in 0 .. Capacity /\ count' \in 0 .. Capacity
  BY <1>1, <1>2 DEF RingOK
<1>7. readers # <<>> => Cardinality(ReaderWakers') >= Cardinality(ReaderWakers)
  <2> SUFFICES ASSUME readers # <<>>
               PROVE  Cardinality(ReaderWakers') >= Cardinality(ReaderWakers)
    OBVIOUS
  <2>1. /\ Head(readers) \in ReaderWakers' /\ Head(readers) \notin ReaderWakers
        /\ ReaderWakers \ {t} \subseteq ReaderWakers'
    BY <1>5
  <2> QED
    BY <2>1, WakersCount, Counting
<1>8. Cardinality(WriterWakers') >= Cardinality(WriterWakers)
  BY <1>4, <1>5, WakersCount, Counting
<1>9. ReaderWakeDue' /\ WriterWakeDue'
  BY <1>1, <1>2, <1>5, <1>6, <1>7, <1>8, WakersCount, DuesKept
<1> QED
  BY <1>2, <1>5, <1>9, TypeParts DEF WakeupsDue

LEMMA WakeWriterStep ==
    ASSUME WakeupsDue, NEW t \in Tasks, At(t, "wake_writer") \/ At(t, "close_writers"),
           writers' = scheduler_wake_one(writers), readers' = readers,
           \/ Goto(t, "idle")
           \/ At(t, "close_writers") /\ UNCHANGED pc,
           UNCHANGED <<ringVars, got>>, UNCHANGED <<arg, open, declined>>
    PROVE  WakeupsDue'
<1>1. RingOK /\ QueuesOK /\ TasksOK /\ ReaderWakeDue /\ WriterWakeDue
  BY TypeParts DEF WakeupsDue
<1>2. RingOK' /\ count' = count
  BY <1>1, RingKept
<1>3. /\ pc' \in [Tasks -> Labels] /\ \A u \in Tasks \ {t} : pc'[u] = pc[u]
      /\ pc'[t] \in {"idle", "close_readers", "close_writers"}
  BY <1>1 DEF TasksOK, Goto, At, Labels
<1>4. ~Asleep(t) /\ t \notin ReaderWakers
  BY DEF At, ReaderWakers
<1>5. /\ QueuesOK' /\ TasksOK'
      /\ ReaderWakers' = ReaderWakers \ {t}
      /\ writers = <<>> => writers' = <<>>
      /\ writers # <<>> => /\ Head(writers) \in Tasks \ WriterWakers
                           /\ WriterWakers' = (WriterWakers \ {t}) \cup {Head(writers)}
  BY <1>1, <1>3, <1>4, WakeWriters
<1>6. count \in 0 .. Capacity /\ count' \in 0 .. Capacity
  BY <1>1, <1>2 DEF RingOK
<1>7. writers # <<>> => Cardinality(WriterWakers') >= Cardinality(WriterWakers)
  <2> SUFFICES ASSUME writers # <<>>
               PROVE  Cardinality(WriterWakers') >= Cardinality(WriterWakers)
    OBVIOUS
  <2>1. /\ Head(writers) \in WriterWakers' /\ Head(writers) \notin WriterWakers
        /\ WriterWakers \ {t} \subseteq WriterWakers'
    BY <1>5
  <2> QED
    BY <2>1, WakersCount, Counting
<1>8. Cardinality(ReaderWakers') >= Cardinality(ReaderWakers)
  BY <1>4, <1>5, WakersCount, Counting
<1>9. ReaderWakeDue' /\ WriterWakeDue'
  BY <1>1, <1>2, <1>5, <1>6, <1>7, <1>8, WakersCount, DuesKept
<1> QED
  BY <1>2, <1>5, <1>9, TypeParts DEF WakeupsDue

LEMMA SendTurnStep ==
    ASSUME WakeupsDue, NEW t \in Tasks, At(t, "idle") \/ At(t, "send_wait"),
           NEW m \in Messages, SendWaitTurn(t, m), UNCHANGED <<open, got, declined>>
    PROVE  WakeupsDue'
<1>1. open \in BOOLEAN /\ declined \in BOOLEAN /\ m \in Arguments
  BY DEF WakeupsDue, TypeOK, Messages, Arguments
<1>2. CASE ~open /\ Leave(t, "idle") /\ UNCHANGED <<ringVars, waitVars>>
  BY <1>1, <1>2, LeaveStep DEF Leave
<1>3. CASE open /\ ~Full /\ Put(m) /\ Leave(t, "wake_reader") /\ UNCHANGED waitVars
  BY <1>3, PutStep DEF Leave
<1>4. CASE /\ open /\ Full /\ writers' = Append(writers, t)
           /\ Sleep(t, "send_wait", m) /\ UNCHANGED <<ringVars, readers>>
  BY <1>1, <1>4, SleepStep
<1>5. CASE open /\ Full /\ NobodyReady(t) /\ Leave(t, "idle") /\ UNCHANGED <<ringVars, waitVars>>
  BY <1>1, <1>5, LeaveStep DEF Leave
<1> QED
  BY <1>2, <1>3, <1>4, <1>5 DEF SendWaitTurn

LEMMA ReceiveTurnStep ==
    ASSUME WakeupsDue, NEW t \in Tasks, NEW capacity \in Sizes \cup Buffers \cup {0},
           ReceiveWaitTurn(t, capacity), open' = open,
           \/ At(t, "idle") /\ declined' = declined
           \/ At(t, "receive_wait") /\ declined' = (declined \/ (count # 0 /\ ~Fits(capacity)))
    PROVE  WakeupsDue'
<1>1. /\ open \in BOOLEAN /\ declined \in BOOLEAN /\ declined' \in BOOLEAN
      /\ declined => declined'
      /\ [sender |-> t, size |-> capacity] \in Arguments
  BY DEF WakeupsDue, TypeOK, Arguments
<1>2. Fits(capacity) \/ count = 0 => declined' = declined
  BY <1>1 DEF Fits
<1>3. CASE Fits(capacity) /\ Take /\ Leave(t, "wake_writer") /\ UNCHANGED waitVars
  <2>1. count # 0
    BY <1>3 DEF Fits
  <2> QED
    BY <1>2, <1>3, <2>1, TakeStep DEF Leave
<1>4. CASE /\ ~Fits(capacity) /\ (~open \/ count # 0) /\ Leave(t, "idle")
           /\ UNCHANGED <<ringVars, waitVars, got>>
  BY <1>1, <1>4, LeaveStep DEF Leave
<1>5. CASE /\ count = 0 /\ open /\ readers' = Append(readers, t)
           /\ Sleep(t, "receive_wait", [sender |-> t, size |-> capacity])
           /\ UNCHANGED <<ringVars, writers, got>>
  BY <1>1, <1>2, <1>5, SleepStep
<1>6. CASE /\ count = 0 /\ open /\ NobodyReady(t) /\ Leave(t, "idle")
           /\ UNCHANGED <<ringVars, waitVars, got>>
  BY <1>1, <1>6, LeaveStep DEF Leave
<1> QED
  BY <1>3, <1>4, <1>5, <1>6 DEF ReceiveWaitTurn

LEMMA WakeupsInit == Init => WakeupsDue
<1> SUFFICES ASSUME Init PROVE WakeupsDue
  OBVIOUS
<1>1. RingOK
  <2>1. (0 + 0) % Capacity = IF 0 + 0 < Capacity THEN 0 + 0 ELSE 0 + 0 - Capacity
    BY ChannelAssumption, RingIndex
  <2> QED
    BY <2>1, ChannelAssumption DEF Init, RingOK
<1>2. Range(<<>>) = {} /\ IsInjective(<<>>)
  BY DEF Range, IsInjective
<1>3. QueuesOK
  BY <1>2 DEF Init, QueuesOK
<1>4. TasksOK
  BY DEF Init, TasksOK, Labels, Arguments, NoArg
<1> QED
  BY <1>1, <1>3, <1>4, TypeParts DEF Init, WakeupsDue, ReaderWakeDue, WriterWakeDue

LEMMA WakeupsStep == WakeupsDue /\ [Next]_vars => WakeupsDue'
<1> SUFFICES ASSUME WakeupsDue, [Next]_vars PROVE WakeupsDue'
  OBVIOUS
<1>1. /\ open \in BOOLEAN /\ declined \in BOOLEAN
      /\ arg \in [Tasks -> Arguments] /\ \A t \in Tasks : pc[t] = "send_wait" => arg[t] \in Messages
  BY DEF WakeupsDue, TypeOK, Arguments
<1>2. ASSUME NEW t \in Tasks, SendAgain(t) PROVE WakeupsDue'
  BY <1>1, <1>2, SendTurnStep DEF SendAgain, At
<1>3. ASSUME NEW t \in Tasks, ReceiveAgain(t) PROVE WakeupsDue'
  <2>1. arg[t].size \in Sizes \cup Buffers \cup {0}
    BY <1>1 DEF Arguments
  <2> QED
    BY <1>3, <2>1, ReceiveTurnStep DEF ReceiveAgain
<1>4. ASSUME NEW t \in Tasks, WakeReader(t) PROVE WakeupsDue'
  BY <1>4, WakeReaderStep DEF WakeReader
<1>5. ASSUME NEW t \in Tasks, WakeWriter(t) PROVE WakeupsDue'
  BY <1>5, WakeWriterStep DEF WakeWriter
<1>6. ASSUME NEW t \in Tasks, CloseReaders(t) PROVE WakeupsDue'
  BY <1>6, WakeReaderStep DEF CloseReaders
<1>7. ASSUME NEW t \in Tasks, CloseWriters(t) PROVE WakeupsDue'
  BY <1>7, WakeWriterStep DEF CloseWriters
<1>8. ASSUME NEW t \in Tasks, ipc_channel_close(t) PROVE WakeupsDue'
  BY <1>1, <1>8, LeaveStep DEF ipc_channel_close
<1>9. ASSUME NEW t \in Tasks, NEW m \in Messages, ipc_channel_send(t, m) PROVE WakeupsDue'
  BY <1>9, PutStep DEF ipc_channel_send
<1>10. ASSUME NEW t \in Tasks, NEW m \in Messages, ipc_channel_send_wait(t, m) PROVE WakeupsDue'
  BY <1>10, SendTurnStep DEF ipc_channel_send_wait
<1>11. ASSUME NEW t \in Tasks, NEW capacity \in Buffers, ipc_channel_receive(t, capacity)
       PROVE  WakeupsDue'
  BY <1>11, TakeStep DEF ipc_channel_receive, Fits
<1>12. ASSUME NEW t \in Tasks, NEW capacity \in Buffers, ipc_channel_receive_wait(t, capacity)
       PROVE  WakeupsDue'
  BY <1>12, ReceiveTurnStep DEF ipc_channel_receive_wait
<1>13. CASE UNCHANGED vars
  <2>1. UNCHANGED <<messages, head, tail, count, readers, writers, open, pc, arg, got, declined>>
    BY <1>13 DEF vars, ringVars, waitVars
  <2>2. TypeOK'
    BY <2>1 DEF WakeupsDue, TypeOK
  <2>3. ReaderWakers' = ReaderWakers /\ WriterWakers' = WriterWakers
    BY <2>1 DEF ReaderWakers, WriterWakers, At, Asleep
  <2> QED
    BY <2>1, <2>2, <2>3 DEF WakeupsDue, ReaderWakeDue, WriterWakeDue
<1>14. \A t \in Tasks, size \in Sizes : [sender |-> t, size |-> size] \in Messages
  BY DEF Messages
<1> QED
  BY <1>2, <1>3, <1>4, <1>5, <1>6, <1>7, <1>8, <1>9, <1>10, <1>11, <1>12, <1>13, <1>14
     DEF Next, Progress

\* Whatever the interleaving of critical sections and wakeups: while a reader
\* sleeps, every message in the ring has a wakeup of its own on the way, and
\* while a writer sleeps, every free slot has.
THEOREM WakeupsSafe == Spec => []WakeupsDue
BY WakeupsInit, WakeupsStep, PTL DEF Spec

-----------------------------------------------------------------------------
(* The channel as a queue.                                                 *)

\* The window of the ring is a sequence of its messages.
WindowOK ==
    /\ Contents \in Seq(Messages \cup {None}) /\ Len(Contents) = count
    /\ \A i \in 1 .. count : Contents[i] = messages[(head + (i - 1)) % Capacity]

LEMMA Window == RingOK => WindowOK
<1> SUFFICES ASSUME RingOK PROVE WindowOK
  OBVIOUS
<1>1. /\ Capacity \in Nat \ {0} /\ count \in 0 .. Capacity /\ head \in 0 .. Capacity - 1
      /\ messages \in [0 .. Capacity - 1 -> Messages \cup {None}]
  BY ChannelAssumption DEF RingOK
<1>2. ASSUME NEW i \in 1 .. count
      PROVE  /\ (head + (i - 1)) % Capacity \in 0 .. Capacity - 1
             /\ (head + i - 1) % Capacity = (head + (i - 1)) % Capacity
  <2>1. i - 1 \in 0 .. Capacity /\ head + i - 1 = head + (i - 1)
    BY <1>1
  <2>2. (head + (i - 1)) % Capacity
          = IF head + (i - 1) < Capacity THEN head + (i - 1) ELSE head + (i - 1) - Capacity
    BY <1>1, <2>1, RingIndex
  <2> QED
    BY <1>1, <2>1, <2>2
<1>3. \A i \in 1 .. count : Contents[i] = messages[(head + (i - 1)) % Capacity]
  BY <1>2 DEF Contents
<1>4. Contents \in [1 .. count -> Messages \cup {None}]
  BY <1>1, <1>2 DEF Contents
<1>5. Contents \in Seq(Messages \cup {None}) /\ Len(Contents) = count
  BY <1>1, <1>4
<1> QED
  BY <1>3, <1>5 DEF WindowOK

LEMMA WindowNext == RingOK' => WindowOK'
BY Window, PTL

\* A put appends to the window.
LEMMA PutContents ==
    ASSUME RingOK, ~Full, NEW m \in Messages, Put(m), got' = got
    PROVE  Contents' = Append(Contents, m)
<1>1. /\ Capacity \in Nat \ {0} /\ count \in 0 .. Capacity - 1 /\ head \in 0 .. Capacity - 1
      /\ count' = count + 1 /\ head' = head /\ messages' = [messages EXCEPT ![tail] = m]
      /\ messages \in [0 .. Capacity - 1 -> Messages \cup {None}]
      /\ tail = (head + count) % Capacity /\ tail \in 0 .. Capacity - 1
  BY ChannelAssumption DEF RingOK, Full, Put
<1>2. RingOK'
  BY PutRing
<1>3. /\ Contents \in Seq(Messages \cup {None}) /\ Len(Contents) = count
      /\ \A i \in 1 .. count : Contents[i] = messages[(head + (i - 1)) % Capacity]
  BY Window DEF WindowOK
<1>4. /\ Contents' \in Seq(Messages \cup {None}) /\ Len(Contents') = count'
      /\ \A i \in 1 .. count' : Contents'[i] = messages'[(head' + (i - 1)) % Capacity]
  BY <1>2, WindowNext DEF WindowOK
<1>5. ASSUME NEW i \in 1 .. count
      PROVE  Contents'[i] = Contents[i]
  <2>1. i - 1 \in 0 .. Capacity /\ i \in 1 .. count' /\ count \in 0 .. Capacity
    BY <1>1
  <2>2. (head + (i - 1)) % Capacity
          = IF head + (i - 1) < Capacity THEN head + (i - 1) ELSE head + (i - 1) - Capacity
    BY <1>1, <2>1, RingIndex
  <2>3. tail = IF head + count < Capacity THEN head + count ELSE head + count - Capacity
    BY <1>1, <2>1, RingIndex
  <2>4. (head + (i - 1)) % Capacity # tail /\ (head + (i - 1)) % Capacity \in 0 .. Capacity - 1
    BY <1>1, <2>1, <2>2, <2>3
  <2> QED
    BY <1>1, <1>3, <1>4, <2>1, <2>4
<1>6. Contents'[count + 1] = m
  <2>1. count + 1 \in 1 .. count' /\ (count + 1) - 1 = count
    BY <1>1
  <2>2. messages'[tail] = m
    BY <1>1
  <2> QED
    BY <1>1, <1>4, <2>1, <2>2
<1> HIDE DEF Contents
<1> QED
  BY <1>1, <1>3, <1>4, <1>5, <1>6

\* A take returns the first of the window and removes it.
LEMMA TakeContents ==
    ASSUME RingOK, count # 0, Take
    PROVE  Contents # <<>> /\ got' = Head(Contents) /\ Contents' = Tail(Contents)
<1>1. /\ Capacity \in Nat \ {0} /\ count \in 1 .. Capacity /\ head \in 0 .. Capacity - 1
      /\ count' = count - 1 /\ messages' = messages /\ head' = (head + 1) % Capacity
      /\ got' = messages[head]
  BY ChannelAssumption DEF RingOK, Take, Advance
<1>2. RingOK'
  BY TakeRing
<1>3. /\ Contents \in Seq(Messages \cup {None}) /\ Len(Contents) = count
      /\ \A i \in 1 .. count : Contents[i] = messages[(head + (i - 1)) % Capacity]
  BY Window DEF WindowOK
<1>4. /\ Contents' \in Seq(Messages \cup {None}) /\ Len(Contents') = count'
      /\ \A i \in 1 .. count' : Contents'[i] = messages'[(head' + (i - 1)) % Capacity]
  BY <1>2, WindowNext DEF WindowOK
<1>5. ASSUME NEW i \in 1 .. count'
      PROVE  Contents'[i] = Contents[i + 1]
  <2>1. i - 1 \in 0 .. Capacity /\ i \in 0 .. Capacity /\ i + 1 \in 1 .. count /\ (i + 1) - 1 = i
        /\ 1 \in 0 .. Capacity
    BY <1>1
  <2>2. (head + i) % Capacity = IF head + i < Capacity THEN head + i ELSE head + i - Capacity
    BY <1>1, <2>1, RingIndex
  <2>3. head' = IF head + 1 < Capacity THEN head + 1 ELSE head + 1 - Capacity
    BY <1>1, <2>1, RingIndex
  <2>4. head' \in 0 .. Capacity - 1
    BY <1>1, <2>3
  <2>5. (head' + (i - 1)) % Capacity
          = IF head' + (i - 1) < Capacity THEN head' + (i - 1) ELSE head' + (i - 1) - Capacity
    BY <1>1, <2>1, <2>4, RingIndex
  <2>6. (head' + (i - 1)) % Capacity = (head + i) % Capacity
    BY <1>1, <2>1, <2>2, <2>3, <2>5
  <2>7. Contents'[i] = messages[(head' + (i - 1)) % Capacity]
    BY <1>1, <1>4
  <2>8. Contents[i + 1] = messages[(head + ((i + 1) - 1)) % Capacity]
    BY <1>3, <2>1
  <2> QED
    BY <2>1, <2>6, <2>7, <2>8
<1>6. got' = Contents[1]
  <2>1. 1 \in 1 .. count /\ 0 \in 0 .. Capacity /\ 1 - 1 = 0 /\ head + 0 = head
    BY <1>1
  <2>2. (head + 0) % Capacity = IF head + 0 < Capacity THEN head + 0 ELSE head + 0 - Capacity
    BY <1>1, <2>1, RingIndex
  <2>3. (head + (1 - 1)) % Capacity = head
    BY <1>1, <2>1, <2>2
  <2> QED
    BY <1>1, <1>3, <2>1, <2>3
<1> HIDE DEF Contents
<1> QED
  BY <1>1, <1>3, <1>4, <1>5, <1>6

\* A put is a Send of the queue, a take a Receive, anything else leaves the
\* queue alone.
LEMMA PutRefines ==
    ASSUME TypeOK, NEW m \in Messages, open, ~Full, Put(m), UNCHANGED <<open, got>>
    PROVE  Fifo!FifoNext
<1>1. RingOK
  BY TypeParts
<1>2. Contents' = Append(Contents, m)
  BY <1>1, PutContents
<1>3. Len(Contents) < Capacity
  BY <1>1, Window, ChannelAssumption DEF WindowOK, RingOK, Full
<1>4. Fifo!Send(m)
  BY <1>2, <1>3 DEF Fifo!Send
<1> QED
  BY <1>4 DEF Fifo!FifoNext, Fifo!Messages, Messages

LEMMA TakeRefines ==
    ASSUME TypeOK, count # 0, Take, open' = open
    PROVE  Fifo!FifoNext
<1>1. Contents # <<>> /\ got' = Head(Contents) /\ Contents' = Tail(Contents)
  BY TypeParts, TakeContents
<1> QED
  BY <1>1 DEF Fifo!FifoNext, Fifo!Receive

LEMMA RingUnchangedRefines ==
    ASSUME UNCHANGED <<ringVars, open, got>>
    PROVE  UNCHANGED Fifo!fifoVars
BY DEF ringVars, Fifo!fifoVars, Contents

LEMMA SendTurnRefines ==
    ASSUME TypeOK, NEW t \in Tasks, NEW m \in Messages, SendWaitTurn(t, m), UNCHANGED <<open, got>>
    PROVE  [Fifo!FifoNext]_Fifo!fifoVars
<1>1. CASE open /\ ~Full /\ Put(m)
  BY <1>1, PutRefines
<1>2. CASE UNCHANGED ringVars
  BY <1>2, RingUnchangedRefines
<1> QED
  BY <1>1, <1>2 DEF SendWaitTurn

LEMMA ReceiveTurnRefines ==
    ASSUME TypeOK, NEW t \in Tasks, NEW capacity, ReceiveWaitTurn(t, capacity), open' = open
    PROVE  [Fifo!FifoNext]_Fifo!fifoVars
<1>1. CASE Fits(capacity) /\ Take
  BY <1>1, TakeRefines DEF Fits
<1>2. CASE UNCHANGED <<ringVars, got>>
  BY <1>2, RingUnchangedRefines
<1> QED
  BY <1>1, <1>2 DEF ReceiveWaitTurn

LEMMA StepRefines == TypeOK /\ [Next]_vars => [Fifo!FifoNext]_Fifo!fifoVars
<1> SUFFICES ASSUME TypeOK, [Next]_vars PROVE [Fifo!FifoNext]_Fifo!fifoVars
  OBVIOUS
<1> DEFINE Goal == [Fifo!FifoNext]_Fifo!fifoVars
<1>1. \A t \in Tasks : pc[t] = "send_wait" => arg[t] \in Messages
  BY DEF TypeOK
<1>2. ASSUME NEW t \in Tasks, SendAgain(t) PROVE Goal
  BY <1>1, <1>2, SendTurnRefines DEF SendAgain, At
<1>3. ASSUME NEW t \in Tasks, ReceiveAgain(t) PROVE Goal
  BY <1>3, ReceiveTurnRefines DEF ReceiveAgain
<1>4. ASSUME NEW t \in Tasks, WakeReader(t) \/ WakeWriter(t) \/ CloseReaders(t) \/ CloseWriters(t)
      PROVE  Goal
  <2>1. UNCHANGED <<ringVars, open, got>>
    BY <1>4 DEF WakeReader, WakeWriter, CloseReaders, CloseWriters
  <2> QED
    BY <2>1, RingUnchangedRefines
<1>5. ASSUME NEW t \in Tasks, ipc_channel_close(t) PROVE Goal
  <2>1. Contents' = Contents
    BY <1>5 DEF ipc_channel_close, Contents, ringVars
  <2>2. Fifo!Close
    BY <1>5, <2>1 DEF ipc_channel_close, Fifo!Close
  <2> QED
    BY <2>2 DEF Fifo!FifoNext
<1>6. ASSUME NEW t \in Tasks, NEW m \in Messages, ipc_channel_send(t, m) PROVE Goal
  BY <1>6, PutRefines DEF ipc_channel_send
<1>7. ASSUME NEW t \in Tasks, NEW m \in Messages, ipc_channel_send_wait(t, m) PROVE Goal
  BY <1>7, SendTurnRefines DEF ipc_channel_send_wait
<1>8. ASSUME NEW t \in Tasks, NEW capacity \in Buffers, ipc_channel_receive(t, capacity) PROVE Goal
  BY <1>8, TakeRefines DEF ipc_channel_receive, Fits
<1>9. ASSUME NEW t \in Tasks, NEW capacity \in Buffers, ipc_channel_receive_wait(t, capacity) PROVE Goal
  BY <1>9, ReceiveTurnRefines DEF ipc_channel_receive_wait
<1>10. CASE UNCHANGED vars
  BY <1>10, RingUnchangedRefines DEF vars
<1>11. \A t \in Tasks, size \in Sizes : [sender |-> t, size |-> size] \in Messages
  BY DEF Messages
<1>12. CASE Next
  <2>1. PICK t \in Tasks :
            \/ Progress(t) \/ ipc_channel_close(t)
            \/ \E m \in Messages : ipc_channel_send(t, m) \/ ipc_channel_send_wait(t, m)
            \/ \E capacity \in Buffers :
                  ipc_channel_receive(t, capacity) \/ ipc_channel_receive_wait(t, capacity)
    BY <1>11, <1>12 DEF Next
  <2> HIDE DEF Goal
  <2>2. Goal
    BY <1>2, <1>3, <1>4, <1>5, <1>6, <1>7, <1>8, <1>9, <2>1 DEF Progress
  <2> QED
    BY <2>2 DEF Goal
<1> QED
  BY <1>10, <1>12

LEMMA InitRefines == Init => Fifo!FifoInit
BY DEF Init, Fifo!FifoInit, Contents

\* The channel implements the bounded FIFO of ChannelFifo, for every capacity
\* and every number of tasks: what ipc_channel_receive returns is the oldest
\* message, and nothing is lost, doubled, reordered or accepted after close.
THEOREM ChannelRefinesFifo == Spec => ImplementsFifo
<1>1. WakeupsDue => TypeOK
  BY DEF WakeupsDue
<1> QED
  BY InitRefines, StepRefines, WakeupsSafe, <1>1, PTL DEF Spec, ImplementsFifo, Fifo!FifoSpec
=============================================================================
