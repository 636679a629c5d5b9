SPECIFICATION Spec
CONSTANTS
    Units = {"cache", "nvme", "ahci", "ata", "fat32", "exfat", "ext4", "btrfs", "xfsjournal", "xfsspace", "xfsfiles", "xfsdirs"}
    CacheTasks = {a, b}
    Sectors = {1, 2, 3}
    CacheLines = 2
    MaxWrites = 1
    NvmeFrames = {1, 2, 3, 4, 5, 6}
    MaxCommands = 2
    Ports = {0, 1}
    AhciFrames = {1, 2, 3, 4, 5, 6}
    MaxDiskWrites = 2
    StorageSlots = 1
    AtaWidth = 2
    AtaSectors = 2
    MaxAtaWrites = 2
    FatClusters = 3
    FatCopies = 2
    FatClusterSize = 2
    FatNames = {"a", "b"}
    FatSlots = 2
    FatMaxSize = 3
    FatFaults = 1
    FatCrashes = 1
    ExClusters = 4
    ExClusterSize = 1
    ExNames = {"a", "b"}
    ExSets = 2
    ExContiguous = 0
    ExMaxSize = 3
    ExFaults = 1
    Ext4Kinds = {"mapped", "tables", "extent", "unwritten", "depth1", "depth2", "depth3"}
    Ext4Blocks = 16
    Ext4Span = 9
    Ext4BlockSize = 2
    Ext4Direct = 1
    Ext4Pointers = 2
    Ext4RootMax = 2
    Ext4LeafMax = 2
    Ext4IndexMax = 2
    Ext4MaxDelta = 3
    Ext4MaxMapped = 15
    Ext4MaxTree = 6
    Ext4MaxOther = 2
    Ext4WriteMax = 2
    Ext4Faults = 1
    BtrfsLayouts = {"single", "apart", "same"}
    BtrfsSectors = 2
    BtrfsInline = 2
    BtrfsHandles = {"h", "k"}
    BtrfsRot = {"none", "data", "csum", "fs"}
    BtrfsFaults = 1
    BtrfsPower = 1
    BtrfsWrites = 2
    XfsJournalBlocks = 4
    XfsHomeBlocks = 3
    XfsCalls = 3
    XfsTroubles = 1
    XfsLayouts = {"legacy", "leaf", "child", "multi", "two", "deep"}
    XfsAgBlocks = 7
    XfsLeaves <- TwoLeaves
    XfsLeafCapacity = 5
    XfsRecordLimit = 8
    XfsChildren = 2
    XfsRequest = 3
    XfsSpaceFaults = 1
    XfsExtentFiles = {"a", "b"}
    XfsLocalFiles = {"l"}
    XfsFileBlocks = 3
    XfsBlockSize = 2
    XfsExtentMax = 3
    XfsInline = 1
    XfsMaxSize = 5
    XfsWriteMax = 3
    XfsDirs = {"d", "e"}
    XfsNames = {"m", "n", "o"}
    XfsChildInos = {"x", "y"}
    XfsDirMax = 2
    XfsDirFaults = 1
INVARIANTS
    CacheCoherent
    
    
    
    
    
    
PROPERTY DirectoryUpdates
CHECK_DEADLOCK FALSE
