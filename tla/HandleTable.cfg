SPECIFICATION Spec
CONSTANTS
    Tables = {p, c}
    Capacity = 2
    GenMax = 2
    Objects = {file}
    Retainable = {file}
    Rights = {rd, wr}
    Watched = {3, 5}
    MaxPending = 1
    Refs = {r1, r2}
    None = None
SYMMETRY Symmetry
VIEW View
INVARIANT TypeOK
INVARIANT RetainedKeepsObject
INVARIANT TeardownSeesReferences
INVARIANT ReferencesAccounted
INVARIANT RightsNeverGrow
INVARIANT StaleHandleRejected
