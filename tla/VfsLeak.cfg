SPECIFICATION Spec
CONSTANTS
    Nodes = {root, v, x, y}
    Root = root
    Volumes = {v}
    Names = {m, n}
    Procs = {a, b}
    Slots = 2
    MaxHandles = 2
    None = None
SYMMETRY Symmetry
INVARIANT NoPermanentLeak
