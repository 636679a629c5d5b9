---------------------------- MODULE ChannelFifo ----------------------------
(***************************************************************************)
(* What an IPC channel promises its users: a bounded first-in first-out     *)
(* queue that can be closed once and drained after that.                    *)
(***************************************************************************)
EXTENDS Integers, Sequences

CONSTANTS
    Tasks,      \* who sends and receives
    Sizes,      \* message sizes
    Capacity,   \* how many messages the queue holds
    None        \* no message received yet

VARIABLES
    queue,      \* messages sent and not yet received
    open,       \* new messages are accepted
    got         \* the message received last

fifoVars == <<queue, open, got>>

Messages == [sender : Tasks, size : Sizes]

FifoInit ==
    /\ queue = <<>>
    /\ open = TRUE
    /\ got = None

Send(m) ==
    /\ open
    /\ Len(queue) < Capacity
    /\ queue' = Append(queue, m)
    /\ UNCHANGED <<open, got>>

Receive ==
    /\ queue # <<>>
    /\ got' = Head(queue)
    /\ queue' = Tail(queue)
    /\ UNCHANGED open

Close ==
    /\ open
    /\ open' = FALSE
    /\ UNCHANGED <<queue, got>>

FifoNext ==
    \/ \E m \in Messages : Send(m)
    \/ Receive
    \/ Close

FifoSpec == FifoInit /\ [][FifoNext]_fifoVars
=============================================================================
