SPECIFICATION Spec
CONSTANTS
    Tables = {p}
    Capacity = 4
    GenMax = 2
    Objects = {file}
    Retainable = {file}
    Rights = {rd}
    Watched = {}
    MaxPending = 1
    Refs = {r1}
    None = None
INVARIANT OpenHandleResolves
