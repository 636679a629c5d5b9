SPECIFICATION Spec
CONSTANTS
    Procs = {init, a, b}
    Kernel = {k, l}
    Targets = {init}
    InitProc = init
    None = None
    Signals = {1}
    Crews = {{k}, {l}, {k, l}}
    MaxTasks = 3
SYMMETRY Symmetry
INVARIANT TypeOK
INVARIANT ReferencesAccounted
INVARIANT OwnSpace
INVARIANT NobodyStranded
CHECK_DEADLOCK FALSE
