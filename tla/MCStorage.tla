----------------------------- MODULE MCStorage ------------------------------
(***************************************************************************)
(* Small instances of the storage modules for TLC: the sector cache, the    *)
(* three disk drivers and the filesystems share no state here, so unit,     *)
(* chosen in the initial state, says which one a behaviour is about; the    *)
(* others keep their initial state or have no volume.                       *)
(***************************************************************************)
EXTENDS BlockCache, Nvme, Ahci, Ata, Fat32, ExFat, Ext4, Btrfs, XfsJournal, XfsFiles, XfsDirs

CONSTANT Units      \* the units this instance checks

VARIABLE unit

driverVars == <<cacheVars, nvmeVars, ahciVars, ataVars>>
fatVars == <<fat32Vars, exfatVars>>
xfsVars == <<xfsjVars, xfsSpaceVars, xfsFilesVars, xfsDirsVars>>
storageVars == <<driverVars, fatVars, ext4Vars, btrfsVars, xfsVars, unit>>

Init ==
    /\ unit \in Units
    /\ block_cache_initialize
    /\ NvmeInit
    /\ AhciInit
    /\ AtaInit
    /\ IF unit = "fat32" THEN Fat32Init ELSE fat32 = NoVolume /\ fatSize = <<>>
    /\ IF unit = "exfat" THEN ExFatInit ELSE exfat = NoVolume /\ exfatSize = <<>>
    /\ IF unit = "ext4" THEN Ext4Init
       ELSE ext4 = NoVolume /\ ext4Size = <<>> /\ ext4Last = "none"
    /\ IF unit = "btrfs" THEN BtrfsInit
       ELSE btrfs = NoVolume /\ btrfsMay = <<>> /\ btrfsSize = <<>> /\ btrfsWritten = 0
    /\ IF unit = "xfsjournal" THEN XfsJournalInit ELSE xfsj = NoVolume
    /\ IF unit = "xfsspace" THEN XfsSpaceInit ELSE xfsag = NoVolume /\ xfsOwned = {}
    /\ IF unit = "xfsfiles" THEN XfsFilesInit
       ELSE xfsf = NoVolume /\ xfsContent = <<>> /\ xfsSize = <<>>
    /\ IF unit = "xfsdirs" THEN XfsDirsInit ELSE xfsd = NoVolume /\ xfsLinks = <<>>

DriverNext ==
    \/ unit = "cache" /\ CacheNext /\ UNCHANGED <<nvmeVars, ahciVars, ataVars>>
    \/ unit = "nvme" /\ NvmeNext /\ UNCHANGED <<cacheVars, ahciVars, ataVars>>
    \/ unit = "ahci" /\ AhciNext /\ UNCHANGED <<cacheVars, nvmeVars, ataVars>>
    \/ unit = "ata" /\ AtaNext /\ UNCHANGED <<cacheVars, nvmeVars, ahciVars>>

FatNext ==
    \/ unit = "fat32" /\ Fat32Next /\ UNCHANGED exfatVars
    \/ unit = "exfat" /\ ExFatNext /\ UNCHANGED fat32Vars

XfsNext ==
    \/ unit = "xfsjournal" /\ XfsJournalNext /\ UNCHANGED <<xfsSpaceVars, xfsFilesVars, xfsDirsVars>>
    \/ unit = "xfsspace" /\ XfsSpaceNext /\ UNCHANGED <<xfsjVars, xfsFilesVars, xfsDirsVars>>
    \/ unit = "xfsfiles" /\ XfsFilesNext /\ UNCHANGED <<xfsjVars, xfsSpaceVars, xfsDirsVars>>
    \/ unit = "xfsdirs" /\ XfsDirsNext /\ UNCHANGED <<xfsjVars, xfsSpaceVars, xfsFilesVars>>

Next ==
    /\ UNCHANGED unit
    /\ \/ DriverNext /\ UNCHANGED <<fatVars, ext4Vars, btrfsVars, xfsVars>>
       \/ FatNext /\ UNCHANGED <<driverVars, ext4Vars, btrfsVars, xfsVars>>
       \/ unit = "ext4" /\ Ext4Next /\ UNCHANGED <<driverVars, fatVars, btrfsVars, xfsVars>>
       \/ unit = "btrfs" /\ BtrfsNext /\ UNCHANGED <<driverVars, fatVars, ext4Vars, xfsVars>>
       \/ XfsNext /\ UNCHANGED <<driverVars, fatVars, ext4Vars, btrfsVars>>

Spec == Init /\ [][Next]_storageVars

\* Free extents of an XFS allocation group whose free-space tree has two leaves.
TwoLeaves == << << <<0, 2>> >>, << <<3, 1>>, <<5, 2>> >> >>

-----------------------------------------------------------------------------
(* What is asked of all the drivers, and of all the filesystems.           *)

\* Memory the hardware may still touch is never free, and no error path of
\* probe, recovery or a transfer frees a frame twice: NVMe and AHCI controllers
\* that time out, stop late or complete after the driver has given up.
DriverMemoryHeld ==
    /\ NvmeTypeOK /\ AhciTypeOK
    /\ DmaBuffersHeld /\ NoStrayFree
    /\ HbaMemoryHeld /\ NoDoubleFree

\* A write that NVMe, AHCI or ATA reports as done has left the volatile cache
\* of the device; ATA transfers stay inside the device, and two of them overlap
\* only after a timeout.
DriverWritesDurable ==
    /\ AtaTypeOK
    /\ WritesDurable /\ DiskWritesDurable /\ DurableUnlessFlushError
    /\ TransfersInRange /\ OverlapNeedsTimeout

\* Type correctness of the volume that is mounted.
VolumeTypeOK ==
    /\ unit = "fat32" => Fat32TypeOK
    /\ unit = "exfat" => ExFatTypeOK
    /\ unit = "ext4" => Ext4TypeOK
    /\ unit = "btrfs" => BtrfsTypeOK
    /\ unit = "xfsjournal" => XfsJournalTypeOK
    /\ unit = "xfsspace" => XfsSpaceTypeOK
    /\ unit = "xfsfiles" => XfsFilesTypeOK
    /\ unit = "xfsdirs" => XfsDirsTypeOK

\* Every block of a volume has at most one owner, what is neither used nor free
\* is explained by a failure, and the counts and trees of free space agree with
\* the files (cluster chains, bitmaps, mapped trees, free-space B-trees).
SpaceOwnedOnce ==
    /\ VolumeTypeOK
    /\ Fat32NothingLost /\ FsInfoExact /\ ExFatSound
    /\ Ext4Exclusive /\ Ext4NothingLeaked
    /\ FreeSpaceExact /\ AuthVolumeValid /\ ReleaseAccepted
    /\ XfsExtentsSound /\ XfsNothingLeaked

\* A file reads back what was written to it, within the size its adapter
\* reports: sizes agree with the tables, no block inside the size is unmapped,
\* cached table sectors are current and a checksum never accepts rotten data.
FilesReadBack ==
    /\ Fat32SizeAgrees /\ FatCacheCurrent /\ ExFatSizeAgrees
    /\ Ext4Mapped /\ Ext4SizeBounded
    /\ BtrfsReadsWritten
    /\ XfsReadsBack /\ XfsSizeBounded

\* A call that fails half way undoes what it promises to undo: growth and
\* truncation, a Btrfs sector and its checksum node, an XFS rename or link.
FailuresContained ==
    /\ Fat32FailureContained /\ Ext4GrowthContained
    /\ BtrfsFailedWriteUndone /\ BtrfsNodesMirrored
    /\ XfsNamesUnique /\ XfsLinksKept

\* Power may go between any two transfers: FAT32 growth never publishes an
\* unfinished chain, and the XFS journal makes an update happen whole or not at
\* all, whatever mount finds in it.
UpdatesAtomic ==
    /\ Fat32CrashSafe
    /\ XfsAtomic /\ PublishedIsDurable /\ RefusedMountIsWhole

\* exFAT directories: one that is not empty is never removed, and a creation
\* that fails leaves no entry behind.
DirectoryUpdates == [][NonEmptyDirectoryKept /\ DirectoryCreationUndone]_exfatVars
=============================================================================
