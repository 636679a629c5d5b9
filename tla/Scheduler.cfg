SPECIFICATION FairSpec
CONSTANTS
    Kernel = {a}
    User = {u}
    Idle = {i}
    Queues = {q, r}
    Preempts = {TRUE}
    Host = Host
    None = None
    Stale = Stale
INVARIANT TypeOK
INVARIANT DestroyedUnreachable
INVARIANT TasksQueuedOnce
INVARIANT ContextsSound
PROPERTY QueuedIsDispatched
CHECK_DEADLOCK FALSE
