SPECIFICATION Spec
CONSTANTS
    Kernel = {a, b}
    User = {u}
    Idle = {i}
    Queues = {q}
    Preempts = {TRUE}
    Host = Host
    None = None
    Stale = Stale
SYMMETRY Symmetry
INVARIANT ContextsIntact
CHECK_DEADLOCK FALSE
