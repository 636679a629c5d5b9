SPECIFICATION Spec
CONSTANTS
    Frames <- MCFrames
    Entries = 2
    UserPages <- MCUserPages
    Flags <- MCFlags
    Images <- MCImages
    StackPages <- MCStackPages
    Procs = {a, b}
    MaxTables = 8
    MaxAnon = 2
    MaxImage = 2
    MaxHeap = 3
    None = None
VIEW View
INVARIANT UserCopyReaches
