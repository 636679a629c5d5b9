------------------------------ MODULE Channel ------------------------------
(***************************************************************************)
(* The blocking message channel of kernel/ipc/channel.c: a ring of          *)
(* IPC_QUEUE_CAPACITY messages, a queue of waiting readers and one of       *)
(* waiting writers.                                                         *)
(*                                                                          *)
(* Each critical section under channel->lock is one action, and so is each  *)
(* scheduler_wake_one, which runs after the unlock: between the two another *)
(* task may run.  Blocking is atomic with the test that led to it, because  *)
(* scheduler_block_current_with_lock queues the task before it drops        *)
(* channel->lock.                                                           *)
(***************************************************************************)
EXTENDS Integers, Sequences, FiniteSets, Functions

CONSTANTS
    Tasks,      \* tasks that use the channel
    Sizes,      \* message sizes
    Buffers,    \* buffer capacities of receivers
    Capacity,   \* IPC_QUEUE_CAPACITY (16)
    None        \* the null pointer

ASSUME ChannelAssumption ==
    /\ Capacity \in Nat \ {0}
    /\ Sizes \subseteq Nat \ {0} /\ Buffers \subseteq Nat
    /\ IsFiniteSet(Tasks)

Messages == [sender : Tasks, size : Sizes]

VARIABLES
    messages,   \* the ring
    head, tail, count,
    open,
    readers,    \* tasks asleep in receive_wait, oldest first
    writers,    \* tasks asleep in send_wait
    pc,         \* pc[t]: where t is in a channel operation
    arg,        \* arg[t]: the message of the blocking send t sleeps in, or the
                \* size of the buffer of its blocking receive
    got,        \* the message the last successful receive returned
    declined    \* history: a woken receiver left a message too large for its
                \* buffer in the ring

ringVars == <<messages, head, tail, count>>
waitVars == <<readers, writers>>
vars == <<ringVars, waitVars, open, pc, arg, got, declined>>

Asleep(t) == t \in Range(readers) \cup Range(writers)

\* t executes code at a label, and is on no wait queue.
At(t, label) == pc[t] = label /\ ~Asleep(t)

NoArg(t) == [sender |-> t, size |-> 0]

-----------------------------------------------------------------------------
Init ==
    /\ messages = [i \in 0 .. Capacity - 1 |-> None]
    /\ head = 0
    /\ tail = 0
    /\ count = 0
    /\ open = TRUE
    /\ readers = <<>>
    /\ writers = <<>>
    /\ pc = [t \in Tasks |-> "idle"]
    /\ arg = [t \in Tasks |-> NoArg(t)]
    /\ got = None
    /\ declined = FALSE

Advance(i) == (i + 1) % Capacity

Full == count = Capacity

Put(m) ==
    /\ messages' = [messages EXCEPT ![tail] = m]
    /\ tail' = Advance(tail)
    /\ count' = count + 1
    /\ UNCHANGED head

\* Mutant: a receive that returns the newest message.
NewestFirst ==
    /\ got' = messages[(head + count - 1) % Capacity]
    /\ head' = Advance(head)
    /\ count' = count - 1
    /\ UNCHANGED <<messages, tail>>

Take ==
    /\ got' = messages[head]
    /\ head' = Advance(head)
    /\ count' = count - 1
    /\ UNCHANGED <<messages, tail>>

\* The first message fits the receiver's buffer.
Fits(capacity) == count # 0 /\ capacity >= messages[head].size

Goto(t, label) == pc' = [pc EXCEPT ![t] = label]

\* t leaves its blocking call, or sleeps in it with its argument.
Leave(t, label) == Goto(t, label) /\ arg' = [arg EXCEPT ![t] = NoArg(t)]
Sleep(t, label, a) == Goto(t, label) /\ arg' = [arg EXCEPT ![t] = a]

\* Nobody else could be dispatched: scheduler_block_current_with_lock rolls
\* the block back and fails.  Tasks outside this channel may be ready, so a
\* block may succeed in any case.
NobodyReady(t) == \A u \in Tasks \ {t} : Asleep(u)

(***************************************************************************)
(* ipc_channel_send, ipc_channel_send_wait                                 *)
(***************************************************************************)

ipc_channel_send(t, m) ==
    /\ At(t, "idle")
    /\ open /\ ~Full
    /\ Put(m)
    /\ Goto(t, "wake_reader")
    /\ UNCHANGED <<waitVars, open, arg, got, declined>>

\* One turn of the loop of ipc_channel_send_wait.
SendWaitTurn(t, m) ==
    \/ /\ ~open
       /\ Leave(t, "idle")
       /\ UNCHANGED <<ringVars, waitVars>>
    \/ /\ open /\ ~Full
       /\ Put(m)
       /\ Leave(t, "wake_reader")
       /\ UNCHANGED waitVars
    \/ /\ open /\ Full
       /\ writers' = Append(writers, t)
       /\ Sleep(t, "send_wait", m)
       /\ UNCHANGED <<ringVars, readers>>
    \/ /\ open /\ Full /\ NobodyReady(t)
       /\ Leave(t, "idle")
       /\ UNCHANGED <<ringVars, waitVars>>

ipc_channel_send_wait(t, m) ==
    /\ At(t, "idle")
    /\ SendWaitTurn(t, m)
    /\ UNCHANGED <<open, got, declined>>

\* A writer that was woken takes the lock and tests again.
SendAgain(t) ==
    /\ At(t, "send_wait")
    /\ SendWaitTurn(t, arg[t])
    /\ UNCHANGED <<open, got, declined>>

(***************************************************************************)
(* ipc_channel_receive, ipc_channel_receive_wait                           *)
(***************************************************************************)

ipc_channel_receive(t, capacity) ==
    /\ At(t, "idle")
    /\ Fits(capacity)
    /\ Take
    /\ Goto(t, "wake_writer")
    /\ UNCHANGED <<waitVars, open, arg, declined>>

ReceiveWaitTurn(t, capacity) ==
    \/ /\ Fits(capacity)
       /\ Take
       /\ Leave(t, "wake_writer")
       /\ UNCHANGED waitVars
    \/ /\ ~Fits(capacity)
       /\ ~open \/ count # 0
       /\ Leave(t, "idle")
       /\ UNCHANGED <<ringVars, waitVars, got>>
    \/ /\ count = 0 /\ open
       /\ readers' = Append(readers, t)
       /\ Sleep(t, "receive_wait", [sender |-> t, size |-> capacity])
       /\ UNCHANGED <<ringVars, writers, got>>
    \/ /\ count = 0 /\ open /\ NobodyReady(t)
       /\ Leave(t, "idle")
       /\ UNCHANGED <<ringVars, waitVars, got>>

ipc_channel_receive_wait(t, capacity) ==
    /\ At(t, "idle")
    /\ ReceiveWaitTurn(t, capacity)
    /\ UNCHANGED <<open, declined>>

ReceiveAgain(t) ==
    /\ At(t, "receive_wait")
    /\ ReceiveWaitTurn(t, arg[t].size)
    /\ declined' = (declined \/ (count # 0 /\ ~Fits(arg[t].size)))
    /\ UNCHANGED open

(***************************************************************************)
(* Wakeups, after the unlock                                               *)
(***************************************************************************)

\* scheduler_wake_one: the task at the head of the queue becomes ready.
scheduler_wake_one(q) == IF q = <<>> THEN q ELSE Tail(q)

WakeReader(t) ==
    /\ At(t, "wake_reader")
    /\ readers' = scheduler_wake_one(readers)
    /\ Goto(t, "idle")
    /\ UNCHANGED <<ringVars, writers, open, arg, got, declined>>

\* Mutant: a receive that returns without waking a writer.
ForgetsWriter(t) ==
    /\ At(t, "wake_writer")
    /\ Goto(t, "idle")
    /\ UNCHANGED <<ringVars, waitVars, open, arg, got, declined>>

WakeWriter(t) ==
    /\ At(t, "wake_writer")
    /\ writers' = scheduler_wake_one(writers)
    /\ Goto(t, "idle")
    /\ UNCHANGED <<ringVars, readers, open, arg, got, declined>>

(***************************************************************************)
(* ipc_channel_close: wake_all is a loop of scheduler_wake_one.            *)
(***************************************************************************)

ipc_channel_close(t) ==
    /\ At(t, "idle")
    /\ open
    /\ open' = FALSE
    /\ Goto(t, "close_readers")
    /\ UNCHANGED <<ringVars, waitVars, arg, got, declined>>

\* Mutant: close wakes one waiter of each kind, as a transfer does.
OneIsEnough(q) == TRUE

\* wake_all stops when a wakeup finds nobody.
AllAwake(q) == q = <<>>

CloseReaders(t) ==
    /\ At(t, "close_readers")
    /\ readers' = scheduler_wake_one(readers)
    /\ IF AllAwake(readers) THEN Goto(t, "close_writers") ELSE UNCHANGED pc
    /\ UNCHANGED <<ringVars, writers, open, arg, got, declined>>

CloseWriters(t) ==
    /\ At(t, "close_writers")
    /\ writers' = scheduler_wake_one(writers)
    /\ IF AllAwake(writers) THEN Goto(t, "idle") ELSE UNCHANGED pc
    /\ UNCHANGED <<ringVars, readers, open, arg, got, declined>>

-----------------------------------------------------------------------------
Progress(t) ==
    \/ SendAgain(t) \/ ReceiveAgain(t)
    \/ WakeReader(t) \/ WakeWriter(t)
    \/ CloseReaders(t) \/ CloseWriters(t)

Next ==
    \E t \in Tasks :
        \/ Progress(t)
        \/ ipc_channel_close(t)
        \/ \E size \in Sizes :
             LET m == [sender |-> t, size |-> size] IN
             ipc_channel_send(t, m) \/ ipc_channel_send_wait(t, m)
        \/ \E capacity \in Buffers :
             ipc_channel_receive(t, capacity) \/ ipc_channel_receive_wait(t, capacity)

Spec == Init /\ [][Next]_vars

\* Ready tasks are dispatched (the scheduler is round robin), so an operation
\* that is under way and not asleep goes on.
FairSpec == Spec /\ \A t \in Tasks : WF_vars(Progress(t))

-----------------------------------------------------------------------------
(* Properties                                                              *)

Labels == {"idle", "send_wait", "receive_wait", "wake_reader", "wake_writer",
           "close_readers", "close_writers"}

\* The indices stay in the ring and count agrees with them; a task sleeps only
\* inside the blocking call that queued it, and once.
TypeOK ==
    /\ head \in 0 .. Capacity - 1 /\ tail \in 0 .. Capacity - 1
    /\ count \in 0 .. Capacity
    /\ tail = (head + count) % Capacity
    /\ messages \in [0 .. Capacity - 1 -> Messages \cup {None}]
    /\ open \in BOOLEAN /\ declined \in BOOLEAN
    /\ pc \in [Tasks -> Labels]
    /\ readers \in Seq(Tasks) /\ IsInjective(readers)
    /\ writers \in Seq(Tasks) /\ IsInjective(writers)
    /\ \A t \in Range(readers) : pc[t] = "receive_wait"
    /\ \A t \in Range(writers) : pc[t] = "send_wait"
    /\ arg \in [Tasks -> [sender : Tasks, size : Sizes \cup Buffers \cup {0}]]
    /\ \A t \in Tasks : pc[t] = "send_wait" => arg[t] \in Messages
    /\ got \in Messages \cup {None}

\* The messages in the ring, oldest first.
Contents == [i \in 1 .. count |-> messages[(head + i - 1) % Capacity]]

Fifo == INSTANCE ChannelFifo WITH queue <- Contents

\* The ring, its blocking operations and its delayed wakeups implement a
\* bounded FIFO: each receive returns the oldest message, nothing is lost,
\* duplicated or accepted after close.
ImplementsFifo == Fifo!FifoSpec

\* Tasks that will look at the ring, or wake a task that will.
ReaderWakers == {t \in Tasks : At(t, "receive_wait") \/ At(t, "wake_reader")}
WriterWakers == {t \in Tasks : At(t, "send_wait") \/ At(t, "wake_writer")}

\* "blocking senders and receivers sleep on full/empty queues, successful
\* transfers wake the opposite side" (docs/ROADMAP.md): while a reader sleeps,
\* every message in the ring has a wakeup of its own on the way: a sender
\* between its unlock and its wakeup, or a woken reader about to look.  Only a
\* woken reader whose buffer is too small leaves a message to the next send:
\* ipc_channel_receive_wait returns without passing its wakeup on.
ReaderWakeDue == open /\ ~declined /\ readers # <<>> => Cardinality(ReaderWakers) >= count

\* The same for the free slots while a writer sleeps.
WriterWakeDue == open /\ writers # <<>> => Cardinality(WriterWakers) >= Capacity - count

\* "close wakes all waiters" (docs/ROADMAP.md): after a close everybody is
\* woken, and nobody goes to sleep again.
CloseWakesEverybody == ~open ~> [](readers = <<>> /\ writers = <<>>)

\* Indices, queues and wakeups of the channel at every point between two
\* critical sections.
WakeupsDue == TypeOK /\ ReaderWakeDue /\ WriterWakeDue
=============================================================================
