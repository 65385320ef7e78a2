-------------------------------- MODULE Scan --------------------------------
(***************************************************************************)
(* IsoScanner::scan: the images of a machine are listed from every volume   *)
(* the firmware mounted (SimpleFileSystem handles) and then, through the    *)
(* loader's own file-system readers, from the raw block devices of the boot *)
(* medium; .vlnk pointer files are followed to images on other partitions.  *)
(*                                                                          *)
(* The machine is what the scanner can see and does not change: disks,      *)
(* volumes on them, firmware handles.  A handle stands for a whole disk or  *)
(* for one partition; path says whether its device path can be read, simple *)
(* whether firmware mounted it.  Opening a protocol exclusively a second    *)
(* time is refused by firmware, so operators take the handles held open.    *)
(***************************************************************************)
EXTENDS Partitions, FiniteSets

CONSTANTS None,           \* no reader, place, content or link target
          Machines,       \* the machines to scan
          DefaultRoots,   \* the search paths tried without a configured root
          Fold(_),        \* a name with its ASCII letters in lower case
          NameOrder       \* the names in byte order

VARIABLES machine,        \* the machine being scanned
          stage,          \* "mounted", "blocks", "partitions" or "done"
          at,             \* position in the handle list of the stage
          parts,          \* partition candidates of the current disk not tried yet
          scanned,        \* partitions of the current disk that were scanned
          blockIndex,     \* block_volume_index
          files,          \* image list in the order the entries were found
          listing         \* the list handed to the menu

vars == <<machine, stage, at, parts, scanned, blockIndex, files, listing>>

(***************************************************************************)
(* The machine.                                                             *)
(***************************************************************************)
(* The elements of s at the positions in keep.                              *)
Only(s, keep) == FlattenSeq([i \in DOMAIN s |-> IF i \in keep THEN <<s[i]>> ELSE <<>>])

Handles == machine.handles
Indices == [h \in 1..Len(Handles) |-> h]
Mounted == Only(Indices, {h \in DOMAIN Handles : Handles[h].simple})
Disk(h) == machine.disks[Handles[h].disk]
Total(h) == IF Handles[h].whole THEN Disk(h).blocks ELSE Handles[h].count

VolumesAt(disk, start) == {v \in machine.volumes : v.disk = disk /\ v.start = start}
HandleVolume(h) == VolumesAt(Handles[h].disk, Handles[h].start)

(***************************************************************************)
(* Identity of the disk behind a handle.                                    *)
(***************************************************************************)
(* The parent path is the device path up to its last hard-drive node; a     *)
(* whole disk is its own parent.                                            *)
ParentPath(h) == Handles[h].disk

(* The block handle of the disk a handle belongs to: looked up by parent    *)
(* path for a partition, the handle itself when it has no hard-drive node.  *)
ResolveSourceBlockHandle(h) ==
  IF Handles[h].path /\ ~Handles[h].whole
    THEN {p \in DOMAIN Handles : /\ Handles[p].whole
                                 /\ Handles[p].path
                                 /\ ParentPath(p) = ParentPath(h)}
    ELSE {h}

(* A disk that was not identified.                                          *)
NoDisk == [ident |-> None, size |-> 0, bs |-> 0, start |-> 0, count |-> 0]

Identity(disk, start, count) ==
  [ident |-> disk.ident, size |-> disk.blocks, bs |-> disk.bs,
   start |-> start, count |-> count]

ResolveSourceDisk(h, held) ==
  LET parent == ResolveSourceBlockHandle(h)
      node == Handles[h].path /\ ~Handles[h].whole
  IN IF \/ parent = {}
        \/ parent \cap held # {}
        \/ ~node /\ ~Handles[h].whole
       THEN NoDisk
       ELSE IF node THEN Identity(Disk(h), Handles[h].start, Handles[h].count)
                    ELSE Identity(Disk(h), 0, 0)

PartitionSourceDisk(disk, part) == Identity(disk, part.start, part.count)

SamePhysicalDisk(a, b) == a.ident = b.ident /\ a.size = b.size /\ a.bs = b.bs

(* The part of a device a volume's extents are counted from, when an image  *)
(* is read at boot: the partition on its disk, or a partition handle as it  *)
(* stands.                                                                  *)
SourceVolumeRange(total, source) ==
  IF source.count = 0 THEN <<0, total>>
  ELSE IF source.start + source.count <= total THEN <<source.start, source.count>>
  ELSE IF source.count = total THEN <<0, total>> ELSE <<>>

(* from_boot_device: the boot disk's handle and identity, resolved before   *)
(* anything is held open.                                                   *)
BootSourceHandle == IF machine.boot = 0 THEN {} ELSE ResolveSourceBlockHandle(machine.boot)
PreferredSourceDisk == IF machine.boot = 0 THEN NoDisk ELSE ResolveSourceDisk(machine.boot, {})

RawScanCandidateIsBootMedia(h, held) ==
  \/ h \in BootSourceHandle
  \/ LET own == ResolveSourceDisk(h, held)
     IN PreferredSourceDisk # NoDisk /\ own # NoDisk /\ SamePhysicalDisk(PreferredSourceDisk, own)
  \/ machine.boot = 0
  \/ machine.boot = h
  \/ /\ machine.boot # 0
     /\ Handles[machine.boot].path
     /\ Handles[h].path
     /\ ParentPath(machine.boot) = ParentPath(h)

\* Mutant: only partitions that firmware mounted count as exposed.
ExposedMountedPartitions(h) ==
  {<<Handles[c].start, Handles[c].count>> :
     c \in {c \in DOMAIN Handles \ {h} : Handles[c].simple /\ ParentPath(c) = ParentPath(h)}}

(* The partitions of a disk that firmware already exposes as handles.       *)
ExposedChildPartitions(h) ==
  {<<Handles[c].start, Handles[c].count>> :
     c \in {c \in DOMAIN Handles \ {h} : /\ Handles[h].path
                                         /\ Handles[c].path
                                         /\ ~Handles[c].whole
                                         /\ ParentPath(c) = ParentPath(h)}}

(***************************************************************************)
(* Directory walks.  A path is a sequence of names; a file has a directory, *)
(* a name, a type (its extension) and the block it starts at.               *)
(***************************************************************************)
FoldPath(p) == [i \in DOMAIN p |-> Fold(p[i])]

HiddenTrees == {"$RECYCLE.BIN", "System Volume Information"}

(* ventoy.json of a volume, read through firmware or a reader of the loader. *)
(* A file that is missing, too large or no JSON leaves every setting at its *)
(* default: no depth limit, no filter, no list.                             *)
DefaultConfig ==
  [roots |-> <<>>, level |-> None, filters |-> {}, mode |-> "none", list |-> {}, dot |-> FALSE]

LoadVentoyConfig(v) == IF v.json = "ok" THEN v.config ELSE DefaultConfig

IsVentoyPluginTree(p) == p # <<>> /\ Fold(p[1]) = "ventoy"

SearchRoots(config) == IF config.roots = <<>> THEN DefaultRoots ELSE config.roots

(* supports_image_name: no other extension is one of an image.  ".vlnk.dat" *)
(* is an extension of the scanner and not one of the configuration's.       *)
SupportsImageName(config, f) == f.type \notin (config.filters \cup {"dat", "unknown"})

AllowsImagePath(config, p) ==
  CASE config.mode = "none" -> TRUE
    [] config.mode = "allow" -> FoldPath(p) \in config.list
    [] config.mode = "deny" -> FoldPath(p) \notin config.list

(* The directories that are read between a search root and a file.          *)
DirsBetween(root, f) ==
  {SubSeq(FoldPath(f.dir), 1, n) : n \in Len(root)..Len(f.dir)}

(* The path an entry is listed under: the root as it was asked for, then    *)
(* the names on the volume.                                                 *)
Shown(root, f) == root \o SubSeq(f.dir, Len(root) + 1, Len(f.dir)) \o <<f.name>>

(* What both walks skip: a root that is not there, an unreadable directory  *)
(* and all below it, a depth past max_search_level, hidden trees, Ventoy's  *)
(* own tree, AppleDouble files on request, and the default boot loader.     *)
Walked(v, config, root, f) ==
  /\ IsPrefix(FoldPath(root), FoldPath(f.dir))
  /\ ~IsVentoyPluginTree(Shown(root, f))
  /\ config.level = None \/ Len(f.dir) - Len(root) <= config.level
  /\ \A i \in (Len(root) + 1)..Len(f.dir) : f.dir[i] \notin HiddenTrees
  /\ DirsBetween(root, f) \cap v.bad = {}
  /\ ~(config.dot /\ f.kind = "dot")
  /\ f.kind # "loader"
  /\ SupportsImageName(config, f)
  /\ AllowsImagePath(config, Shown(root, f))

(* The firmware's directory listing knows no hidden or system attribute.    *)
ScanDirectoryEntries(v, root) ==
  Only(v.files, {i \in DOMAIN v.files : Walked(v, LoadVentoyConfig(v), root, v.files[i])})

ScanBlockFilesystemPath(v, root) ==
  Only(v.files, {i \in DOMAIN v.files : /\ Walked(v, LoadVentoyConfig(v), root, v.files[i])
                                         /\ ~v.files[i].hidden})

(***************************************************************************)
(* Readers of a volume: what its first block says, and which readers open   *)
(* it.                                                                      *)
(***************************************************************************)
SectorFormats == {"fat32", "exfat", "ntfs"}

ScanUnknownOrder == <<"udf", "ext4", "xfs", "btrfs", "iso9660">>

FirstReader(v, order) ==
  LET open == SelectSeq(order, LAMBDA r : r \in v.opens)
  IN IF open = <<>> THEN None ELSE Head(open)

RawReader(v) ==
  IF v.sector \in SectorFormats THEN FirstReader(v, <<v.sector>>)
                                ELSE FirstReader(v, ScanUnknownOrder)

(* A mounted volume's extents come from fewer readers: Btrfs is missing.    *)
SourceFileReader(v) ==
  IF v.sector \in SectorFormats \cup {"xfs"} THEN FirstReader(v, <<v.sector>>)
  ELSE FirstReader(v, <<"udf", "ext4", "iso9660">>)

VlnkReader(v) ==
  IF v.sector \in SectorFormats THEN FirstReader(v, <<v.sector>>)
  ELSE FirstReader(v, <<v.sector>> \o ScanUnknownOrder)

(* Extents of a file, counted from the start of its volume; none when the   *)
(* reader cannot produce them.                                              *)
Extents(reader, f) == IF reader = None \/ ~f.mapped THEN <<>> ELSE <<f.lba>>

(***************************************************************************)
(* What the scan reads of an image: a VHD footer names the real format, the *)
(* files of an ISO and the header of a WIM name the system.  The blocks are *)
(* read on the handle that is open, so extents of a partition are shifted   *)
(* by its start.                                                            *)
(***************************************************************************)
DetectVirtualMetadata(format, content) ==
  IF format = "vhd" /\ content \in {"fixed", "dynamic"} THEN content ELSE format

DetectImageOsType(format, content) ==
  CASE format = "wim" /\ content = "bootable" -> "WinPE"
    [] format = "iso" /\ content \in {"windows", "linux"} -> content
    [] OTHER -> "by name"

ContentAt(place) ==
  LET held == {f \in UNION {ToSet(v.files) : v \in {w \in machine.volumes : w.disk = place[1]}} :
                 \E v \in machine.volumes : /\ v.disk = place[1]
                                            /\ f \in ToSet(v.files)
                                            /\ f.mapped
                                            /\ v.start + f.lba = place[2]}
  IN IF held = {} THEN None ELSE (CHOOSE f \in held : TRUE).content

Metadata(format, content) ==
  [format |-> DetectVirtualMetadata(format, content), os |-> DetectImageOsType(format, content)]

\* Mutant: extents of a partition are read from the start of the disk.
ResolveMetadataUnshifted(h, offset, extents, format) ==
  Metadata(format, IF extents = <<>> THEN None
                   ELSE ContentAt(<<Handles[h].disk, Handles[h].start + Head(extents)>>))

ResolveImageMetadata(h, offset, extents, format) ==
  Metadata(format, IF extents = <<>> THEN None
                   ELSE ContentAt(<<Handles[h].disk, Handles[h].start + offset + Head(extents)>>))

(***************************************************************************)
(* Entries of the list, and links.                                          *)
(***************************************************************************)
Entry(index, path, h, source, extents, meta, target) ==
  [index |-> index, path |-> path, handle |-> h, source |-> source,
   extents |-> extents, meta |-> meta, target |-> target]

PartitionOffsetMatches(start, bs, offset) == start * bs = offset \/ start = offset

\* Mutant: the disk signature of a link is not compared.
VlnkMatchesAnyDisk(source, link) ==
  source # NoDisk /\ PartitionOffsetMatches(source.start, source.bs, link.offset)

VlnkMatchesSourceDisk(source, link) ==
  /\ source # NoDisk
  /\ source.ident.sig = link.sig
  /\ PartitionOffsetMatches(source.start, source.bs, link.offset)

(* A pointer file has a fixed size, a GUID and a checksum over its contents; *)
(* one that fails them leads nowhere.                                       *)
ParseVlnk(f) == IF f.link.intact THEN <<f.link>> ELSE <<>>

(* build_vlnk_iso_file_from_fs: the entry keeps the link's path and volume  *)
(* index and takes handle, identity and extents of the target.              *)
BuildVlnkIsoFile(index, path, h, source, offset, v, link) ==
  LET hits == Only(v.files, {i \in DOMAIN v.files :
                FoldPath(Append(v.files[i].dir, v.files[i].name)) = FoldPath(link.target)})
  IN IF VlnkReader(v) = None \/ hits = <<>> \/ ~Head(hits).mapped THEN <<>>
     ELSE LET extents == Extents(VlnkReader(v), Head(hits))
              type == IF Head(hits).type = "unknown" THEN link.type ELSE Head(hits).type
          IN <<Entry(index, path, h, source, extents,
                     ResolveImageMetadata(h, offset, extents, type), link.target)>>

FromVolumes(vols, index, path, h, source, offset, link) ==
  IF vols = {} THEN <<>>
  ELSE BuildVlnkIsoFile(index, path, h, source, offset, CHOOSE v \in vols : TRUE, link)

(* The volume the handle itself is.                                         *)
ResolveDirect(index, path, link, h, own) ==
  IF VlnkMatchesSourceDisk(own, link)
  THEN FromVolumes(HandleVolume(h), index, path, h, own, 0, link) ELSE <<>>

(* The partitions of the handle's table that begin where the link says.     *)
ResolveOnPartitions(index, path, link, h, candidates) ==
  LET Try(p) ==
        IF /\ PartitionOffsetMatches(p.start, Disk(h).bs, link.offset)
           /\ FitsDisk(p.start, p.count, Disk(h))
        THEN FromVolumes(VolumesAt(Handles[h].disk, p.start), index, path, h,
                         PartitionSourceDisk(Disk(h), p), p.start, link)
        ELSE <<>>
  IN FlattenSeq([k \in DOMAIN candidates |-> Try(candidates[k])])

ResolveVlnkOnHandle(index, path, link, h, held) ==
  IF h \in held THEN <<>>
  ELSE ResolveDirect(index, path, link, h, ResolveSourceDisk(h, held \cup {h}))
         \o IF Handles[h].whole /\ Disk(h).ident.sig = link.sig
            THEN ResolveOnPartitions(index, path, link, h, DiscoverPartitionCandidates(Disk(h)))
            ELSE <<>>

FirstOnly(found) == IF found = <<>> THEN <<>> ELSE <<Head(found)>>

ResolveVlnkTarget(index, path, link, held) ==
  FirstOnly(FlattenSeq([h \in DOMAIN Handles |->
                          ResolveVlnkOnHandle(index, path, link, h, held)]))

(* A link on a raw volume is first looked up on that very volume, whose     *)
(* block device is held open and cannot be opened again.                    *)
ResolveBlockVlnkFile(index, path, link, h, source, offset, v) ==
  LET here == IF VlnkMatchesSourceDisk(source, link)
              THEN BuildVlnkIsoFile(index, path, h, source, offset, v, link) ELSE <<>>
  IN IF here # <<>> THEN here ELSE ResolveVlnkTarget(index, path, link, {h})

(* The entries of a mounted volume, root by root.                           *)
ScanVolumePaths(v, h, index) ==
  LET One(root, f) ==
        IF f.kind = "link"
        THEN FlattenSeq([l \in DOMAIN ParseVlnk(f) |->
               ResolveVlnkTarget(index, Shown(root, f), ParseVlnk(f)[l], {})])
        ELSE LET extents == Extents(SourceFileReader(v), f)
             IN <<Entry(index, Shown(root, f), h, ResolveSourceDisk(h, {}), extents,
                        ResolveImageMetadata(h, 0, extents, f.type), None)>>
      OfRoot(root) ==
        LET hits == ScanDirectoryEntries(v, root)
        IN IF IsVentoyPluginTree(root) THEN <<>>
           ELSE FlattenSeq([i \in DOMAIN hits |-> One(root, hits[i])])
      roots == SearchRoots(LoadVentoyConfig(v))
  IN FlattenSeq([r \in DOMAIN roots |-> OfRoot(roots[r])])

(* The entries of a raw volume; h is held open meanwhile.                   *)
ScanBlockFilesystemPaths(v, h, index, source, offset) ==
  LET One(root, f) ==
        IF f.kind = "link"
        THEN FlattenSeq([l \in DOMAIN ParseVlnk(f) |->
               ResolveBlockVlnkFile(index, Shown(root, f), ParseVlnk(f)[l], h, source,
                                    offset, v)])
        ELSE LET extents == Extents(RawReader(v), f)
             IN <<Entry(index, Shown(root, f), h, source, extents,
                        ResolveImageMetadata(h, offset, extents, f.type), None)>>
      OfRoot(root) ==
        LET hits == ScanBlockFilesystemPath(v, root)
        IN IF IsVentoyPluginTree(root) THEN <<>>
           ELSE FlattenSeq([i \in DOMAIN hits |-> One(root, hits[i])])
      roots == SearchRoots(LoadVentoyConfig(v))
  IN FlattenSeq([r \in DOMAIN roots |-> OfRoot(roots[r])])

(***************************************************************************)
(* What is taken for granted of a machine: firmware shows a disk from its   *)
(* first block on; the boot device, if it is known, is a handle; block      *)
(* numbers are unsigned; a block that begins files holds one content; a     *)
(* link names a path.                                                       *)
(***************************************************************************)
Names == ToSet(NameOrder)

SoundVolume(m, v) ==
  /\ v.disk \in DOMAIN m.disks /\ v.start \in Nat
  /\ v.config.roots \in Seq(Seq(Names))
  /\ v.files \in Seq(ToSet(v.files))
  /\ \A f \in ToSet(v.files) :
       /\ f.dir \in Seq(Names) /\ f.name \in Names /\ f.lba \in Nat
       /\ f.kind = "link" => f.link.target # None

SoundMachine(m) ==
  /\ m.handles \in Seq([disk : DOMAIN m.disks, start : Nat, count : Nat,
                        whole : BOOLEAN, simple : BOOLEAN, path : BOOLEAN])
  /\ \A h \in DOMAIN m.handles : m.handles[h].whole => m.handles[h].start = 0
  /\ m.boot \in {0} \cup DOMAIN m.handles
  /\ \A d \in DOMAIN m.disks :
       /\ m.disks[d].blocks \in Nat
       /\ DiscoverPartitionCandidates(m.disks[d])
            \in Seq([number : Nat, start : Nat, count : Nat, format : {"gpt", "mbr"}])
  /\ \A v \in m.volumes : SoundVolume(m, v)
  /\ \A v, w \in m.volumes : \A f \in ToSet(v.files), g \in ToSet(w.files) :
       v.disk = w.disk /\ v.start + f.lba = w.start + g.lba /\ f.mapped /\ g.mapped
         => f.content = g.content

ASSUME MachinesAssumption ==
  /\ NameOrder \in Seq(Names) /\ DefaultRoots \in Seq(Seq(Names))
  /\ \A m \in Machines : SoundMachine(m)

(***************************************************************************)
(* The scan, one volume at a time.                                          *)
(***************************************************************************)
Init ==
  /\ machine \in Machines
  /\ stage = "mounted"
  /\ at = 1
  /\ parts = <<>>
  /\ scanned = 0
  /\ blockIndex = 0
  /\ files = <<>>
  /\ listing = {}

(* A mounted volume, skipped when it cannot be opened; its index is its     *)
(* position in the handle list.                                             *)
ScanMountedVolume ==
  /\ stage = "mounted"
  /\ at <= Len(Mounted)
  /\ IF HandleVolume(Mounted[at]) = {} THEN UNCHANGED files
     ELSE \E v \in HandleVolume(Mounted[at]) :
            files' = files \o ScanVolumePaths(v, Mounted[at], at - 1)
  /\ at' = at + 1
  /\ UNCHANGED <<machine, stage, parts, scanned, blockIndex, listing>>

MountedDone ==
  /\ stage = "mounted"
  /\ at > Len(Mounted)
  /\ stage' = "blocks"
  /\ at' = 1
  /\ UNCHANGED <<machine, parts, scanned, blockIndex, files, listing>>

BlockVolumeIndex == Len(Mounted) + blockIndex

ScannedRaw(h) ==
  /\ ~Handles[h].simple
  /\ \/ RawScanCandidateIsBootMedia(h, {h})
     \/ Handles[h].whole /\ HasNextbootReleaseLayout(Disk(h))

SkipBlockHandle ==
  /\ stage = "blocks"
  /\ at <= Len(Handles)
  /\ ~ScannedRaw(at)
  /\ at' = at + 1
  /\ UNCHANGED <<machine, stage, parts, scanned, blockIndex, files, listing>>

KnownSector(h) == \E v \in HandleVolume(h) : v.sector \in SectorFormats

(* A handle whose first block is a FAT32, exFAT or NTFS boot sector.  When  *)
(* the reader refuses the volume no index is used up.                       *)
ScanBlockVolume ==
  /\ stage = "blocks"
  /\ at <= Len(Handles)
  /\ ScannedRaw(at)
  /\ KnownSector(at)
  /\ \E v \in HandleVolume(at) :
       IF RawReader(v) = None THEN UNCHANGED <<files, blockIndex>>
       ELSE /\ files' = files \o ScanBlockFilesystemPaths(v, at, BlockVolumeIndex,
                                                          ResolveSourceDisk(at, {at}), 0)
            /\ blockIndex' = blockIndex + 1
  /\ at' = at + 1
  /\ UNCHANGED <<machine, stage, parts, scanned, listing>>

(* Any other handle is tried as a partitioned disk first.                   *)
DiscoverPartitions ==
  /\ stage = "blocks"
  /\ at <= Len(Handles)
  /\ ScannedRaw(at)
  /\ ~KnownSector(at)
  /\ stage' = "partitions"
  /\ parts' = IF Handles[at].whole THEN DiscoverPartitionCandidates(Disk(at)) ELSE <<>>
  /\ scanned' = 0
  /\ UNCHANGED <<machine, at, blockIndex, files, listing>>

(* One candidate: skipped when firmware exposes it, when it leaves the disk *)
(* or when no reader opens it.                                              *)
ScanPartition ==
  /\ stage = "partitions"
  /\ parts # <<>>
  /\ LET part == Head(parts)
         vols == VolumesAt(Handles[at].disk, part.start)
     IN IF \/ <<part.start, part.count>> \in ExposedChildPartitions(at)
           \/ ~FitsDisk(part.start, part.count, Disk(at))
           \/ \A v \in vols : RawReader(v) = None
          THEN UNCHANGED <<files, blockIndex, scanned>>
          ELSE /\ \E v \in vols :
                    files' = files \o ScanBlockFilesystemPaths(v, at, BlockVolumeIndex,
                                        PartitionSourceDisk(Disk(at), part), part.start)
               /\ blockIndex' = blockIndex + 1
               /\ scanned' = scanned + 1
  /\ parts' = Tail(parts)
  /\ UNCHANGED <<machine, stage, at, listing>>

(* A disk none of whose partitions was scanned is tried as one volume       *)
(* (UDF, ext4, XFS, Btrfs, ISO9660).                                        *)
PartitionsDone ==
  /\ stage = "partitions"
  /\ parts = <<>>
  /\ LET vols == {v \in HandleVolume(at) : RawReader(v) # None}
     IN IF scanned > 0 \/ vols = {} THEN UNCHANGED <<files, blockIndex>>
        ELSE /\ \E v \in vols :
                  files' = files \o ScanBlockFilesystemPaths(v, at, BlockVolumeIndex,
                                                             ResolveSourceDisk(at, {at}), 0)
             /\ blockIndex' = blockIndex + 1
  /\ stage' = "blocks"
  /\ at' = at + 1
  /\ UNCHANGED <<machine, parts, scanned, listing>>

(* Sorting by volume and path brings the entries of one file together; the  *)
(* first of them stays.  The order by name that follows moves nothing out.  *)
Before(a, b) ==
  LET Pos(n) == CHOOSE i \in DOMAIN NameOrder : NameOrder[i] = n
      i == CHOOSE i \in DOMAIN a.path :
             a.path[i] # b.path[i] /\ \A j \in 1..(i - 1) : a.path[j] = b.path[j]
  IN a.path # b.path /\ Pos(a.path[i]) < Pos(b.path[i])

Finish ==
  /\ stage = "blocks"
  /\ at > Len(Handles)
  /\ stage' = "done"
  /\ LET Same(a, b) == a.index = b.index /\ FoldPath(a.path) = FoldPath(b.path)
         First(k) == \A j \in DOMAIN files \ {k} :
                       Same(files[j], files[k]) =>
                         \/ Before(files[k], files[j])
                         \/ files[j].path = files[k].path /\ k < j
     IN listing' = {files[k] : k \in {k \in DOMAIN files : First(k)}}
  /\ UNCHANGED <<machine, at, parts, scanned, blockIndex, files>>

Done == stage = "done" /\ UNCHANGED vars

Next ==
  \/ ScanMountedVolume \/ MountedDone
  \/ SkipBlockHandle \/ ScanBlockVolume
  \/ DiscoverPartitions \/ ScanPartition \/ PartitionsDone
  \/ Finish \/ Done

Spec == Init /\ [][Next]_vars

(***************************************************************************)
(* Properties.                                                              *)
(***************************************************************************)
(* Every disk can be told from its partitions: whole disks have a device    *)
(* path.                                                                    *)
PathsKnown == \A h \in DOMAIN Handles : Handles[h].path

(* The machine does not show anything twice itself: a handle for each       *)
(* place, no two partitions of a table at the same block, handles as long   *)
(* as the partition they stand for, and no block where two files begin.     *)
Separate ==
  /\ \A g, h \in DOMAIN Handles :
       Handles[g].disk = Handles[h].disk /\ Handles[g].start = Handles[h].start => g = h
  /\ \A h \in DOMAIN Handles :
       LET table == DiscoverPartitionCandidates(Disk(h))
       IN \A k \in DOMAIN table :
            /\ table[k].start > 0
            /\ \A j \in DOMAIN table : table[j].start = table[k].start => j = k
            /\ \A g \in DOMAIN Handles :
                 Handles[g].disk = Handles[h].disk /\ Handles[g].start = table[k].start
                   => Handles[g].count = table[k].count
  /\ \A v, w \in machine.volumes : \A f \in ToSet(v.files), g \in ToSet(w.files) :
       v.disk = w.disk /\ v.start + f.lba = w.start + g.lba /\ f.mapped /\ g.mapped
         => v = w /\ FoldPath(Append(f.dir, f.name)) = FoldPath(Append(g.dir, g.name))

(* The place on a disk an entry leads to at boot: the volume range of its   *)
(* handle, counted from the handle's own start.                             *)
BootPlace(e) ==
  LET range == SourceVolumeRange(Total(e.handle), e.source)
  IN IF e.extents = <<>> \/ range = <<>> THEN None
     ELSE <<Handles[e.handle].disk, Handles[e.handle].start + range[1] + Head(e.extents)>>

Wanted(e) == FoldPath(IF e.target = None THEN e.path ELSE e.target)

(* The names a link file's target may take its format from.                 *)
LinkTypes == {f.link.type : f \in UNION {{f \in ToSet(v.files) : f.kind = "link"} :
                                            v \in machine.volumes}}

ReachesTheImage(e) ==
  e.extents # <<>> =>
    \E v \in machine.volumes : \E i \in DOMAIN v.files :
      LET f == v.files[i]
      IN /\ FoldPath(Append(f.dir, f.name)) = Wanted(e)
         /\ BootPlace(e) = <<v.disk, v.start + f.lba>>
         /\ \E type \in {f.type} \cup (IF f.type = "unknown" THEN LinkTypes ELSE {}) :
              e.meta = Metadata(type, f.content)

(* Extents are recorded relative to a volume at scan time and read relative *)
(* to a device at boot (source_volume_range): whichever handle and identity *)
(* an entry was listed with, its extents lead to the image of that path on  *)
(* the right partition of the right disk, and the format and system listed  *)
(* for it were read from the same blocks.                                   *)
ExtentsReachTheImage == \A k \in DOMAIN files : ReachesTheImage(files[k])

(* A partition can be seen as a mounted volume, as a raw handle and in the  *)
(* table of its disk, and a directory through several search roots: each    *)
(* image is still listed once.                                              *)
ListedOnce ==
  stage = "done" /\ PathsKnown /\ Separate =>
    \A e, f \in listing : e.target = None /\ f.target = None /\ BootPlace(e) # None
                            /\ BootPlace(e) = BootPlace(f) => e = f

(* The boot disk is scanned completely whatever part of it firmware mounts, *)
(* exposes raw or hides: an image in a readable directory of a readable     *)
(* volume is listed, and damage elsewhere does not cost it its place.       *)
BootMediaComplete ==
  PathsKnown /\ stage = "done" /\ machine.boot # 0 =>
    \A v \in machine.volumes : \A i \in DOMAIN v.files : \A r \in DOMAIN SearchRoots(LoadVentoyConfig(v)) :
      LET f == v.files[i]
      IN /\ v.disk = Handles[machine.boot].disk
         /\ RawReader(v) # None
         /\ f.kind \in {"image", "dot"} /\ ~f.hidden /\ f.mapped
         /\ Walked(v, LoadVentoyConfig(v), SearchRoots(LoadVentoyConfig(v))[r], f)
         => \E e \in listing :
              /\ e.target = None
              /\ \/ BootPlace(e) = <<v.disk, v.start + f.lba>>
                 \/ /\ e.extents = <<>>
                    /\ v \in HandleVolume(e.handle)
                    /\ FoldPath(e.path) = FoldPath(Append(f.dir, f.name))

NamesPartition(link, t) ==
  /\ machine.disks[t.disk].ident.sig = link.sig
  /\ PartitionOffsetMatches(t.start, machine.disks[t.disk].bs, link.offset)

ReachesItsPartition(e) ==
  e.target # None =>
    \E v \in machine.volumes : \E i \in DOMAIN v.files :
      /\ v.files[i].kind = "link" /\ v.files[i].link.intact
      /\ v.files[i].link.target = e.target
      /\ \E t \in machine.volumes :
           /\ NamesPartition(v.files[i].link, t)
           /\ \E j \in DOMAIN t.files : BootPlace(e) = <<t.disk, t.start + t.files[j].lba>>

(* A link is resolved to the partition it names: same disk signature, same  *)
(* start.  Its checksum is right, and nothing else is listed for it.        *)
LinksReachTheirPartition == \A k \in DOMAIN files : ReachesItsPartition(files[k])

(* The raw scan "never broadens into arbitrary internal disks": an entry    *)
(* found through a raw handle lies on the boot disk, or on a disk with the  *)
(* names of a NextBoot release.                                             *)
RawScanStaysOnBootMedia ==
  \A k \in DOMAIN files :
    LET e == files[k]
    IN e.index >= Len(Mounted) /\ e.target = None /\ machine.boot # 0 =>
         \/ Handles[e.handle].disk = Handles[machine.boot].disk
         \/ HasNextbootReleaseLayout(Disk(e.handle))
=============================================================================
