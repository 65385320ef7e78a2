# NextBoot: a TLA+ verification project

NextBoot is a UEFI boot manager: it is flashed to a USB medium, enlarges its data
partition at the first boot, scans volumes for disk images, shows a menu, and boots the
selected image through virtual devices it registers with the firmware. A host-side
updater replaces its files on an existing medium.

This directory models the way from the medium to the started loader: what is on the disk and
how it changes, what is found there and by which blocks it is reached, who may start it, what
the firmware was told, what a transaction journal says. Each module is a
translation of the source named in `PROJECT.json` ("map"), with the data abstracted to
what the properties distinguish.

## Inventory

| Component | State | Operations | What is hard | What makes it correct |
|---|---|---|---|---|
| Boot-media growth (`media_grow.rs`, `media_grow/exfat.rs`) | GPT, exFAT boot regions and bitmap entry on the medium | probe, plan, eight writes, a flush | power loss between any two writes, a torn boot region, a write cache, copies of the medium | the volume stays inside its partition, the bitmap covers the clusters, nothing shrinks |
| Growth planner (`exfat/growth.rs`) | none | `plan_growth` | limits of the FAT and of 32 bits, a partial last cluster | a plan is a fixed point and never shrinks |
| Media updater (`media_update.py`, `media_update_io.py`) | owned files, `pending.json`, manifests and backups, the lock | apply, rollback, recovery | a process killed between two steps, two processes, users editing files | recovery is always possible, loaders follow their runtime, foreign content survives |
| Boot session (`main.rs`, `boot.rs`, `boot/*`) | the attempt, `cleanup_ok`, loaded images | select, prepare, route, chain-load, report | errors on every path, loaders that return | a clean menu or a restart |
| Firmware registrations (`protocol.rs`, `load_file.rs`, `virtual_fs.rs`, `registration.rs`, `os_param.rs`, `wimboot_callbacks.rs`) | installed interfaces, their memory, variables, runtime pools, a global pointer | install, roll back, uninstall, leak, publish, release | refusals in the middle of a group | no pointer to freed memory |
| Virtual block device (`nextboot-virtio`, `boot/virtual_device.rs`) | byte mapping, overlays, size | map, replace files, load into memory, read, write | partial blocks, overlapping overlays, a size that grows while the disk is built | reads equal the image's bytes |
| Virtual file system (`virtual_fs.rs`, `virtual_fs/*`) | file handles: position, directory listing | open, close, read, set position | reads in pieces, small buffers, replaced files | a handle delivers its file, once and in order |
| Scanner, VLNK (`scanner/*`, `vlnk.rs`, `source_disk.rs`) | found images | mounted volumes, raw block devices, links | one partition seen three ways, disks that look alike, handles that cannot be opened twice | every image of the boot disk once, with its own blocks |
| Partition tables (`scanner/partitions.rs`) | none | GPT, MBR, extended boot records | a chain that leads back to itself | bounded walk that finds what is before the loop |
| File-system readers (`nextboot-fs`) | what was read when mounting | lookup, list, read, extents | fragments, holes, damaged maps, offsets inside blocks | the right bytes and extents, or an error |
| Image formats (`nextboot-image`, `boot/*_backing.rs`, `boot/*_parent.rs`) | allocation table, bitmaps, opened parents | plan segments, open parent chains | missing and cyclic parents, block boundaries | every byte from the right layer |
| Decoders (WIM, LZX, XPRESS, XZ) | window | decode | malformed input | bounded output |
| Configuration (`nextboot-config`) | none | parse `ventoy.json`, look up the rules of an image | precedence of sections and rules, unusable values | the password asked for is the one configured |
| Linux and Windows helpers | none | parse, encode | - | - |
| Menu (`ui`, `nextboot-menu`) | bar, countdown, passwords, choices | keys, timers | timer against key press, refused timers, a second menu | no boot without the password, an unattended machine boots |
| Release and test scripts | files | build, flash, verify | - | - |

How they interact: `main_flow` calls the growth once per boot, before the scan; a failed
growth is logged and the boot goes on. The scanner mounts volumes with the file-system
readers, stores the extents they answer in the image list, and reads `ventoy.json`; the menu
loop picks an image and its plugin choices; `BootManager` builds the virtual disk from the
stored extents. A
`BootManager` calls the firmware, and the firmware and the started loader call back into
the registered interfaces until they are removed, or for ever if removal is refused. The
updater runs on a host and meets the boot manager only through the files on the medium.

Every component, with what is left out of it, is listed in `PROJECT.json` under
"components"; the places where the code is hard to test are under "hazards".

## Modules

`ExfatGrowth` holds the arithmetic of `plan_growth` and of the Allocation Bitmap as
operators.

`MediaGrow` is `try_grow_boot_media` and the life of the medium around it. `disk` is what
survives a loss of power, `view` what a read returns; they differ only on a device with
write caching, where `Destage` writes regions back in any order and `FlushBlocks` all of
them. Both are records with one field per region the code writes. A CRC is represented by
the value it was computed from. `pc` names the next write; `plan` holds the new entry array
and geometry. The `Probe*` actions are the four ways the function ends its decisions; the
`Write*` actions are the writes in the order of the code. `CallFails` makes any call
return an error (a boot region may then be written in part), `PowerCut` ends the boot,
`Clone` copies the image to another medium between boots. The bitmap step has checks of its
own (`BitmapGeometryOk`, `BitmapChainFits`), made when the GPT is already written.

`GrowableVolume` is the abstract specification: partition and volume grow, one at a time,
the volume inside the partition. `MediaGrow` implements it (`ImplementsGrowableVolume`)
with the entry array vouched for by the primary header as the partition and the main boot
sector as the volume.

`MediaUpdate` is `apply`, `rollback`, `restore` and `finish` for any number of processes.
`file` gives the content of each owned file, `tx` the transaction directories, `pending`
the pending record, `lock` the holder of the lock file. One durable write or rename is
one step. A step inside `apply`'s `try` may fail after taking effect and leads to the
automatic rollback; `Die` kills a process at any step and frees the lock, as the operating
system does. `Edit` and `Damage` are users and media. `raced` in a process marks that a
user wrote a file between its check and its use, which no updater can notice.

`BootSession` is `main_flow` from the scan on, with `BootManager::prepare_and_boot` in
detail. `iface` is what the firmware has installed, `live` the memory behind it, `owns` the
registrations the program holds; `variable`, `pools` and `recorded` are the OS
parameters; `context`, `previous` and `contexts` the WIMBOOT callback pointer; `route` the
loaders still to be tried. Every firmware call can fail, an install can fail with the
rollback refused (`Stuck`), an uninstall can be refused. `refused` is a history variable:
the firmware has kept something. `images` records loaded images.

`ByteMap` holds `ByteMappingTable` and the reads of `VirtualBlockIo` as operators. A byte is
represented by its address on the source volume, so that a read returns where its bytes came
from. Writes are refused, as in the code.

`VirtualDisk` is `create_virtual_block_io` up to the installed device, and the device in use.
`volume` holds the image files: extents, disk size, allocation table, bitmaps, parent names.
`ReplaceFile`, `SkipRule` and `RulesDone` are the loop over the replacement rules;
`MapPlain` and `OpenLayered` the choice by image format; `OpenParent` and `ParentsDone` the
search along the parents; `MapBlock` one turn of the loop over the allocation table, `MapDone`
the truncation and merging behind it; `LoadIntoMemory` the disk in memory; `AddOverlays` the
attachment of the replacements. `Request` then answers any read or write, `RequestFails` one
during which the source volume fails. `io` is the last answer. The reference for the answers,
`ExpectedByte`, goes from the offset to the layer that owns it and uses neither the byte map nor
the index arithmetic of the code. In `BootSession` this module is the step `CreateBlock`.

`Partitions` holds the partition tables as operators: GPT behind a protective MBR, the four
slots, the walk along extended boot records with its bound. `Scan` is `IsoScanner::scan` over
them. `machine` holds disks, volumes and firmware handles and does not change; `stage`, `at`,
`parts` and `scanned` are the positions of the loops, `files` the list being collected,
`listing` the one the menu gets. `ScanMountedVolume` is one volume the firmware mounted;
`SkipBlockHandle`, `ScanBlockVolume`, `DiscoverPartitions`, `ScanPartition` and
`PartitionsDone` the loop over raw devices; `Finish` the deduplication. Directory walks,
configured filters, links (to a mounted, exposed or raw partition) and the shift of extents
from a volume to the device they are read from are operators; that a protocol held open cannot
be opened again is a parameter of theirs. `ListedOnce` is stated for machines that do not show
anything twice themselves (`Separate`): one handle for each place, no two partitions of a table at
the same block, no two files that begin in one block. `MachinesAssumption` is weaker and holds for
all machines: types, a whole disk begins at its block 0, the boot device is a handle, and a block
that begins files holds one content.

`VentoyConfig` is the configuration: a document is a sequence of sections with values of
several kinds, the operators say what of it survives parsing and which rule an image gets.
`Menu` is the menu loop of the boot program: `Gate*` the boot password, `MenuKey` and
`MenuTimeout` the list, `Auth*` the password of an image, `Choice*` the plugin prompts,
`Attempt*` and `Return*` the way into an attempt and back. `opened`, `verified`, `touched`,
`by` and `timer` are history variables for the properties. `DemandedPassword`, the reference,
is read from the document and not from the parsed configuration. In `BootSession` this module
is the choice made by `Select`.

`FileReaders` is `read_dir`, `read_file` and `file_extents` of FAT32, exFAT, NTFS, ext2/3/4,
XFS, the synthetic Btrfs, ISO9660 and UDF as operators over a volume. A byte is named by its
device address, as in `ByteMap`; `dir` and `layout` of a volume say what it really holds and
are used by the properties and for the entries found in a block, `meta` and `next` are the
block maps the readers interpret. `VirtualFiles` has the callers as actions: `Call*` by the
loader, one at a time, `Return` when it has used the answer, and the handles of the Simple
File System that a started system opens on an ISO9660 or UDF image, `Open`, `Close`,
`ReadRegularFile`, `ReadDirectoryEntry`, `SetPosition`. `start` and `got` of a handle are
history. `MCVirtualFiles` writes a volume of each format from a layout. Where a reader is
known to differ from the layout, a named predicate in front of the properties says so
(`PassedOver`, `MidBlock`, `BehindTheChain`, `Refused` for data; `OtherGroup` for XFS block
numbers; `Overlooked`, `UnreadableDirectory`, `RefusedEntry`, `Shadowed` for entries); everything
else must agree. Each of them is needed: without it the run fails. The layouts count XFS blocks
from the start of the volume, the block maps hold them as group and block, and the reader takes
the one for the other. Four differences lie outside the volumes of the run: ISO9660 files of
several extents, index records that NTFS's own bitmap marks as free, chains that lead back to
themselves, and UDF and ISO9660 names that differ in case alone.

The `MC` modules give the constants values.
`MediaGrowProofs`, `MediaUpdateProofs`, `BootSessionProofs`, `MenuProofs`, `ByteMapProofs`,
`VirtualDiskMapProofs`, `VirtualDiskProofs` and `ScanProofs` hold the theorems. Definitions marked
"Mutant" are variants of the action or operator after them that a plausible mistake would
produce; they are used only to show that a property can fail.

## Runs

| Run | Shows | Bounds and why |
|---|---|---|
| `media_grow` | ten properties of the growth and the refinement of `GrowableVolume` | 300-block images; media too small for GPT, partition or heap, smaller than the image, equal, with a partial cluster, past the size a protective MBR can state, and past the bitmap's chain; both block sizes; six partition layouts; each kind of damage the code looks for, a FAT that overlaps its neighbours included; one fault and one copy per life. A FAT of 80 blocks describes 10238 clusters of 512-byte blocks and `U32Max` allows 16382: the first limit ends the growth on a medium of 24000 blocks, the second on one of 40000 blocks of 4096 bytes. One fault suffices for each interruption point; its consequences appear in the boots that follow. |
| `media_grow_verify` | a violation: backups stay stale | one sound medium, one fault |
| `media_update` | seven properties of the updater | two processes, two transactions, one loader and one runtime file, two volumes (one without the runtime file), a payload that lists the loader first and a loaders-only one, one fault, one edit |
| `media_update_interrupt` | a violation: an interrupted explicit rollback is not pending | one process, one transaction, one fault |
| `boot_session` | eight properties of the session | all seven kinds of image, two paths per candidate list, two attempts: an attempt can only meet what the one before it left |
| `virtual_disk` | three properties of the virtual disk: reads return the image, never fail for another reason than the source; replacements are complete | volume blocks of two bytes, so that segments start inside blocks; sectors of one and four bytes; disks of five to eight bytes with a short last block; tables of two to four entries, with two payload entries per bitmap so that the second chunk is reached; every kind of entry; parents of other block and disk sizes, missing, of another format, naming themselves and each other, with depth 3; two rules, also for the same file; reads of up to three bytes or blocks at every offset up to and past the end |
| `virtual_disk_layers` | a violation: own sectors of a middle layer are lost | a chain of three VHDX files |
| `scan` | four properties of the list: entries lead to their image's blocks, nothing twice, the boot disk complete, links reach their partition | a boot disk with GPT, with an MBR whose extended chain loops, or without a table, and an internal disk; every subset of ways firmware exposes and mounts the partitions; three configurations; five kinds of data volume; damaged directories; hidden files; links within and across disks, one of them damaged, one to a file without a known extension; five logical partitions, so that the loop is cut |
| `scan_same_size` | a violation: an internal disk is scanned as the boot disk | the same machines with disks that have no identity |
| `menu` | four properties of the menu: authorization, the countdown against the user, choices that exist, unattended start | up to two images and a document per volume: each shape of password section, rule and choice the parser distinguishes; every key; three tries at the gate; two attempts, since the second menu differs from the first |
| `readers` | four properties of readers and handles: reads, extents, listings, handle sequences | blocks of two bytes, units of one and two blocks, so that offsets fall inside blocks and units; directories of one and two units in both orders with live entries in each, entry sets that cross an exFAT cluster, XFS directories of every form and in one, two and four allocation groups, names that differ in case alone, split index attributes, cut directory chains; files of up to three units in every order, with holes where the format has them, complete and one byte into the last unit; every kind of block map, split and reordered attributes, cut chains; every offset with buffers of one, three and all bytes; two handles. ext4 extents are limited to three blocks for 32768, so that the limit is met |
| `readers_udf` | a violation: a read inside a later block of a UDF extent | UDF volumes only |

The properties are commented where they are defined. They are claimed on write-through
media unless they say otherwise: the code flushes once, at the end, so with a write cache
nothing orders the writes before it (`GrownIsDurable` is what remains).

### What the violations say

- A power loss after the primary GPT header or after the main boot region leaves stale
  backups. The next boot looks at the primary structures only, reports `AlreadyGrown`, and
  never repairs them; the repository's own verifier rejects such a medium.
- `--rollback TRANSACTION_ID` of a committed transaction writes no pending record. Killed
  midway, it leaves old and new files side by side with nothing to recover by
  `--rollback pending`.
- The spans of a VHDX parent are planned as if none of its partially present blocks held
  anything: where the parent is a differencing image itself, the sectors it stores in such a
  block are taken from the grandparent. `virtual_disk` therefore has chains of three files
  without partial blocks in the middle one; partial blocks of the image itself and of a parent
  without parents (refused) are in it.
- Disks are identified by two fields of block 0 (offsets 0x180 and 0x1b8), size and block size,
  and nothing makes the fields unique. `flash.sh` partitions with `parted` and writes neither:
  where both are zero, an internal disk of the same size, partitioned that way too, is taken for
  the boot disk and scanned raw. The release image has zero in the first and a signature in the
  second that every copy of that image shares. `scan` gives its disks identities.
- `read_node_data` of UDF forgets the offset inside a block unless it lies in the first block of
  an extent. `readers` exempts those reads by name (`MidBlock`).

### Observations without a run

Growth: an interruption between the primary entries and the primary header leaves a header
whose CRC does not match, and all later boots refuse to grow; the properties say only that such
a medium is not damaged further, and `Growable` leaves it out. A FAT that overlaps the boot regions
or the cluster heap is noticed only after the GPT was written, at every boot again.

Session and virtual disk: `prepare_and_boot` takes every `COMPROMISED_DATA` for a refused
cleanup, also one that a loader returned, and demands a restart. An image whose extents cannot
be resolved stays in the list with start LBA 0 (`scanner/block_paths.rs:166`) and would be served
from block 0 of the volume; every image of `virtual_disk` has its extents.

Scan: `.vlnk.dat` is recognised as a link name and never listed. A Btrfs volume the firmware
mounted is listed without extents. Hidden files are listed from a mounted volume and not from a
raw one. A link from a partition reached through its exclusively held disk handle to another
partition of that disk that has no handle is not resolved. A whole-disk handle without a
readable device path can lead to duplicates. `GptDisk` of `gpt.rs` is used by nothing on the boot
path.

Configuration and menu: one value of the wrong kind in an injection or replacement rule makes
the whole document unusable, and the defaults apply, without passwords. A password rule that
cannot be parsed is dropped. Both platform suffixes count on every platform. A plugin timeout of
0 waits for a key, a menu timeout of 0 starts at once.

Readers: directories of exFAT marked as contiguous are followed through the FAT and cannot be
read; an entry set that crosses the end of a cluster loses its name or is dropped. ext4 drops
extents of the full length 32768 and reads unwritten ones as data. Reads of ext4, XFS and UDF
close up over holes, while the extents keep them. Of XFS, one refused inode makes a directory
unreadable, block numbers are right in the first allocation group only (or where groups have 2^n
blocks), directory blocks in several extents lose what lies behind the first, and full block
directories of version 5 lose entries or are refused, as their table is taken for twice its
length. All lookups ignore case, so that of two names only the first can be reached, and NTFS
lists only one of them when they are neighbours. ISO9660 files of several extents are cut to the
first. NTFS takes the size of a file from the directory index. A FAT32 or exFAT directory whose
chain leads back to itself is read without end (`fat32/directory.rs:104`); such chains are not
among the inputs.

## Fairness

`MediaGrow` assumes weak fairness of the growth's own steps: it is a straight-line function
on the only processor, so it runs on unless the power goes. Powering on and copying are
not fair. `GrowableBootGrows` asks only about boots after the last fault.

`MediaUpdate` assumes weak fairness of each process' own steps: the operating system
schedules a running process. Starting one, editing a file, failing and dying are not fair.

`BootSession` assumes weak fairness of the program's steps between the user's choice and
the start of a loader, one synchronous call chain. Nothing makes a loader return or a
user press a key.

`Menu` assumes weak fairness of the gate that asks for nothing and of the two countdowns: a
firmware timer that was granted goes off. Keys are not fair, and `UnattendedBoots` is claimed only
while no key was pressed and every timer was granted. `Scan`, `VirtualDisk` and `VirtualFiles` state
no fairness.

## Proofs

`MediaGrowProofs` needs `ParameterAssumption` and `StartAssumption` of `MediaGrow`: positive
sizes, and images laid out as the builder does. For all such constants:

- `TypeCorrect`: the type invariant.
- `VolumeStaysInside`, `BitmapStaysLong`: both speak of the disk only, and are not inductive:
  that the volume written next fits depends on the entry arrays already written.
  `GrowthInv` records how far the plan has been carried out: the planned volume fits the
  planned entries (`GptSteps`), the arrays on disk are the planned ones from the write
  that puts them there, the arrays have room for the planned volume in all exFAT steps,
  and the bitmap is long enough when the boot sector is about to be written. The lemmas
  on `GrownVolume` show that the planner never exceeds the available blocks nor falls below
  the old ones.
- `NeverEverShrinks`: an action property, from a second invariant that holds with a write
  cache as well: each entry and each volume still waiting in the cache or in the plan is
  at least as large as the one on disk.

Its second half goes on from there, under the same assumptions:

- `GrownStaysDurable` is inductive by itself: only `FlushBlocks` reports `Grown`.
- `OneRegionStaysValid` needs `RegionsInv`: with no fault yet both regions are whole. Otherwise the
  step that tears a region could meet one torn before.
- `ReportsAreFinal` says that planning again after a report finds nothing to do. At the report the
  plan is forgotten, so `CapacityInv` says before that what the plan is (`PlanFills`: its entry and
  its volume are those the planner computes for this medium) and what each write has left in
  `view` (`Progress`). `PlannerFixpoint` is the arithmetic behind it: `plan_growth` accepts the
  volume it computed and computes it again, also where the FAT or the 32-bit limit binds.
- `LayoutKept`: entries differ from the planned ones in their ends only. With it and `PlanCarriedOut`,
  `BackupNeverOnData`: the planned partition ends before the backup, and the live one is the planned
  or the shorter old one.
- `GrowthRefinesVolume`: `RefinesInit` and `RefinesNext` map each action. Only two writes change
  the abstract state, the primary header (`OneCommitAtATime`: partition or volume, never both in
  one step) and the main boot sector; `CommittedSizes` gives their bounds.

`MediaUpdateProofs` holds for any processes, identifiers, volumes, owned paths, payloads, and any
number of failures, edits and damaged backups. It assumes what the module names: the two areas are
disjoint, the special values differ, payloads are sequences of owned paths with contents, and the
medium starts with some content or none at every place. That a payload names no path twice is not
assumed: `plan` checks it, and the proof uses the check.

- `ChangesSound`: the journal the sort yields names each file once, all runtime files before all
  loaders, and each file's present content.
- `UpdateInv` is the strengthening all properties share. `Mutex` ties processes to the lock;
  `TransactionSound` says that a written manifest has an ordered journal and its backups;
  `PendingSound` that the pending record names a written manifest; `ProcessSound` what each step of
  `apply` and `restore` may rely on: before the first replacement no file has its new content,
  at entry `k` exactly those before it have, during a restore those before `k` are old again
  and the others hold contents the journal knows, the last two unless a user wrote a file since it
  was checked (`raced`). `file` and
  `tx` alone say nothing of the next write, so neither `PendingStaysRecoverable` nor
  `RuntimeComesFirst` is inductive without it.
- The action properties `NothingIsLost`, `OneAtATime` and `FinishedTellsTheTruth` follow from it
  step by step.

`MenuProofs` holds for all lists, documents, keys, passwords and any number of attempts. It assumes
`ListsAssumption`: the list is not empty (`main_flow` ends before the menu otherwise) and a rule
with a list to choose from has a list with something in it, as the parser ensures; the model
checker evaluates the assumption on the parsed documents of `MCMenu`.

- `MenuInv` says of every screen what is known of the image on its way: which entry it was copied
  from (`PickInv`), that a running countdown is on the untouched first display (`CountdownInv`),
  that a timer's image is the default (`TimerInv`), that its password was verified before the
  choices (`PasswordInv`), and which lists are settled (`ChoiceInv`). `UserKeepsControl` and
  `ChoicesExist` follow.
- `EntriesAuthorized` is about the password the entry carries. `DemandedIsEntered` states
  `AuthorizedBoot`, about the password the document demands, with the hypothesis
  `ParsedAsDemanded` that the parser found it: the parser folds over the sections of a
  document, which is induction over data. The run `menu` has no such hypothesis.

`BootSessionProofs` assumes of the constants only what the module states:

- `InterfacesStayBacked` is inductive by itself.
- `SessionInv` says for every place of the session what is owned; that the firmware and
  the memory are exactly what is owned unless a refusal is recorded or on its way as
  `COMPROMISED_DATA` (`FirmwareInv`, `RefusalInv`); that variables belong to the current
  attempt and their pools are recorded (`ParamsInv`); and that the callback context is set
  just while its loader is prepared or runs (`WimbootInv`). `PointersStayLive`, `MenuIsClean`,
  `ChildIsServed`, `ParametersAreOwn`, `RefusalIsRemembered` and `SessionTyped` follow.

`ByteMapProofs`, `VirtualDiskMapProofs` and `VirtualDiskProofs` are about the virtual disk, for all
volumes, files, tables, chains of parents, replacement rules and requests. They assume what
`VirtualDisk` names: `DiskAssumption` (positive sizes); `VolumesAssumption`, that the files are sound:
extents stay on the volume and lead to the file's bytes (what `readers` checks of the file systems),
those of an image without a table cover its disk, a table has an entry for each block, only VHDX
has partial blocks; and `PluginsAssumption`, that the records and descriptors to patch were found
inside the image. An image listed without extents is thereby excluded (see the observations above).

- The loops of the code are recursive functions here. Each lemma `...Exists` shows that such a loop
  defines a function, by an induction on a set of numbers (`DownInduction`, `SetInduction`), and the
  lemma behind it what the function returns.
- `ByteMapProofs` says which byte of the volume each byte of the disk is read from. `Maps` is the
  relation a table stands for: adding segments unites relations, truncation restricts, sorting and
  joining keep it (`OptimizeMaps`). `ReadShows`: a read that succeeds returns at each offset the byte
  of the latest overlay, or the one the relation gives, or zero in a hole and past the end.
  `ReadSucceeds`: it does succeed if the table stays on the volume.
- `VirtualDiskMapProofs`: `EntryIsPayload` and `BitIsSector` show that the index arithmetic of the
  table and of the sector bitmaps finds what counting finds; `SpanFits`, by induction down the chain,
  that the pieces of a parent range lie in it, on the volume, and at the bytes of the layer;
  `BlockFits` the same of one turn of the mapping loop.
- `VirtualDiskProofs` has the inductive invariant `Inv`. `Opened`: the chain consists of sound files
  of one size and format, each but the last differencing. `Prepared`: for each applied rule the
  patches hold a record that leads to its data, no other patch touches the data, and only a later
  rule patches the record again; the next file goes to a sector behind all of them. `Built`: in
  each phase what the table maps is right and on the volume, and complete up to the block that
  comes next, the whole disk after the last one; a copy in memory equals it; the size covers all
  overlays. `Answered`: the answer is that to the request. The properties speak of answers only and
  are not inductive: a wrong entry in the table shows many steps later.
- `DiskReadable` and `DiskReplacements` follow without further hypotheses. `DiskReturnsImage` has the
  hypothesis `PlainParents`, that no parent which has a parent itself has partial blocks: without it
  the property is false, as `virtual_disk_layers` shows.

`ScanProofs` is about the image list, for all machines that satisfy `MachinesAssumption`: any
disks, tables, handles, volumes, directories, configurations and links.

- Lists are concatenations of lists (per handle, root, file and link), so the lemmas are about the
  elements: `FlatList`, `ConcatLists` and `OnlyKeeps` rest on the induction in `ByteMapProofs`.
- `Reached` says of a volume, a handle and an identity that the identity, interpreted at boot by
  `SourceVolumeRange`, leads back to the volume. It holds for a handle's own volume with whatever
  handles are held open (`ReachedDirectly`) and for a partition of a table (`ReachedOnPartition`).
  `EntryLeads` then gives the block and the content of every entry, `ShownPath` its path, and the
  lemmas `...Good` carry this through both scans and the three ways a link is resolved.
- `ScanInv` is the inductive invariant: `Listed`, every entry collected so far is right and has a
  volume it was found on; `Past`, the scan is past that volume (in the list of mounted handles,
  of raw handles, or of the partitions of the disk at hand); `OneIndex`, entries for one block have
  one volume index. `OneHandle` is the argument behind it: on a machine that shows nothing twice,
  a partition that has a handle is skipped in the table of its disk, mounted or not, so that one
  way to a volume is left. `EntriesReachTheirImage` and `LinksReachWhatTheyName` follow at once.
- `ImagesListedOnce` adds the end of the scan. Entries for one block share volume, index and, up to
  case, path; `Before` compares them at their first difference and is asymmetric
  (`FirstDifference`, `BeforeOneWay`), so only one of them is kept.
- `BootDiskListed` is `BootMediaComplete` under the hypothesis `Accessible`, which says of each
  readable volume of the boot disk that it is alone in its place, that no two of its files have one
  path but for its case, and that the scan can come to it: through a handle at its place (mounted, a
  partition, with a FAT32, exFAT or NTFS boot sector, or a disk without partitions), or as a
  partition in the table of a raw disk without such a boot sector that fits the disk and has no
  handle. Every machine of `MCScan` is accessible. The scan does not come to a partition behind a
  disk with a boot sector of its own when firmware has no handle for it, and passes over a volume
  that is the whole of a disk once a partition of its table was scanned. The second inductive
  invariant, `CoverInv`, has three parts: `Progress`, the position in the lists of handles;
  `FreshIndex`, no volume index of the list is used again; and `SeenCovered`, each volume the scan
  is past has all its walked images listed under an index under which nothing else is listed. Of the
  entries with one index and path `Finish` keeps one: the order is total and transitive
  (`BeforeTotal`, `BeforeTransitive`), so a finite class has a first (`OneIsKept`), and that entry
  is one for the image.

Only model-checked, and why:

- liveness (`GrowableBootGrows`, `UpdaterFinishes`, `RecoveryClears`, `AttemptSettles`,
  `UnattendedBoots`, and the liveness half of `RefusalRestarts`): the prover has no support for
  fairness;
- that the parser of `VentoyConfig` finds the demanded password: a fold over a document;
- which partitions the walk along extended boot records finds: an induction over the chain. The
  theorems about `Scan` take the table of a disk as `DiscoverPartitionCandidates` gives it;
- `VirtualFiles`: `FileReaders` follows chains and run lists with recursive operators, which the
  prover does not accept.

## Not modelled

Encodings, CRC and hash computations (represented by what they cover); lexing of text; decoders
of compressed data (pure functions on streams, whose cases are in the bit patterns a model would
leave out); the parser of GRUB and syslinux files; BCD, ACPI and PE patching; drawing; host
scripts that build, flash and verify; Secure Boot policy; the vendored `uefi` crates. Of the
virtual disk: the tokens and events of the asynchronous protocols, whose handlers run the same
reads to the end before they return; the 64-bit limits of offsets, checked everywhere in the
code; and `manager.rs`, which nothing on the boot path uses. A parent is not versioned: that the
code does not compare the linkage identifier of a VHDX parent is recorded as a hazard only. Of
the readers: the decoding of names and fields, update sequences, the order in which formats are
tried beyond what `Scan` needs, and file replacement by patching UDF and ISO9660 records, whose
effect `VirtualDisk` models. Of the configuration: aliases, tips and classes, which only change what
is displayed. The menu loop and the filter of `nextboot-menu` are not called by the boot program.

## Plan

1. Done: `ExfatGrowth`, `MediaGrow`, `GrowableVolume`, `MediaUpdate`, `BootSession`, `Menu`, `ByteMap`
   and `VirtualDisk`, model-checked, with every safety property of their runs proved
   (`AuthorizedBoot` relative to the parser, `ReadsReturnTheImage` for plain parents), as are the
   four of `Partitions` and `Scan` (`BootMediaComplete` for accessible disks);
   `VentoyConfig`, `FileReaders` and `VirtualFiles`, model-checked.
2. `OfflineGrow`: the host's growth script, as a second implementation of `GrowableVolume`.
3. The Linux configuration parser, as far as it decides which kernel and initrd are started.
