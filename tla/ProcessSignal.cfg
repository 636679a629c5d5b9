SPECIFICATION Spec
CONSTANTS
    Procs = {init, a}
    Kernel = {k}
    Targets = {init, a}
    InitProc = init
    None = None
    Signals = {1}
    Crews = {{k}}
    MaxTasks = 2
INVARIANT LocksReleased
CHECK_DEADLOCK FALSE
