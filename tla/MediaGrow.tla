----------------------------- MODULE MediaGrow -----------------------------
(***************************************************************************)
(* First-boot growth of the release medium: try_grow_boot_media extends    *)
(* the GPT and the exFAT volume NEXTDATA to the size of the disk it finds  *)
(* itself on.  One boot reads the disk, decides, and then issues up to     *)
(* eight writes and one flush; a write may fail, the power may go at any   *)
(* moment, the write cache may reorder what it holds, and the user may     *)
(* copy the image to another disk between two boots.                       *)
(*                                                                         *)
(* A CRC or a checksum is represented by the value it covers, so that it   *)
(* matches exactly when that value is still the one on disk.               *)
(***************************************************************************)
EXTENDS Integers, Sequences, ExfatGrowth

CONSTANTS
  Starts,             \* how the life of a medium may begin, see Start
  Sizes,              \* block counts of the media the user copies it to
  EntryBytes,         \* entry_count * entry_size of the GPT
  HeapOffset,         \* exFAT cluster_heap_offset, in blocks
  SectorsPerCluster,
  FatLength,          \* exFAT FAT length, in blocks
  U32Max,             \* u32::MAX, scaled down for model checking
  MaxFaults,          \* bound: failed calls and power cuts
  MaxClones           \* bound: copies of the image to another medium

Names == {"EFI", "DATA", "OTHER"}

\* A used GPT entry; unused (zero type GUID) entries are left out of the array.
Entry == [name : Names, start : Nat, end : Nat]

\* A flashed image: its length, its GPT entries and its exFAT VolumeLength.
Image == [blocks : Nat \ {0}, entries : Seq(Entry), volume : Nat]

\* BlockIO media flags and block size, whether LBA 0 is a protective MBR and
\* LBA 1 a well-formed GPT header, whether the DATA boot sector is exFAT with
\* the partition's offset and sector size, the block its FAT begins at, and how
\* many clusters long the Allocation Bitmap chain is (0: no entry, or an invalid
\* chain or root).  A device with write caching may hold writes back until a
\* flush.
Medium == [present : BOOLEAN, logicalPartition : BOOLEAN, readOnly : BOOLEAN,
           blockSize : Nat, protective : BOOLEAN, gpt : BOOLEAN,
           exfat : BOOLEAN, fatOffset : Nat, bitmapChain : Nat,
           writeCaching : BOOLEAN]

\* An image flashed to a medium of `total` blocks.
Start == [total : Nat \ {0}, image : Image, medium : Medium]

EntryBlocks(m) == DivRoundUp(EntryBytes, m.blockSize)

ASSUME ParameterAssumption ==
  /\ EntryBytes \in Nat \ {0}
  /\ HeapOffset \in Nat
  /\ SectorsPerCluster \in Nat \ {0}
  /\ FatLength \in Nat
  /\ U32Max \in Nat /\ U32Max > 2
  /\ MaxFaults \in Nat /\ MaxClones \in Nat

\* The DATA entry is the last one with that name.
IsData(entries, i) ==
  /\ entries[i].name = "DATA"
  /\ \A j \in DOMAIN entries : j > i => entries[j].name # "DATA"

Blocks(entry) == entry.end - entry.start + 1

\* A release image is well formed: its partitions end below the backup GPT,
\* its volume lies in the DATA partition and has a cluster heap.
WellFormed(im, m) ==
  /\ im.volume > HeapOffset
  /\ \A i \in DOMAIN im.entries :
       /\ im.entries[i].start <= im.entries[i].end
       /\ im.entries[i].end < im.blocks - 1 - EntryBlocks(m)
       /\ IsData(im.entries, i) => im.volume <= Blocks(im.entries[i])

ASSUME StartAssumption ==
  /\ Sizes \subseteq Nat \ {0}
  /\ Starts \subseteq Start
  /\ \A s \in Starts : s.medium.blockSize > 0 /\ WellFormed(s.image, s.medium)

VARIABLES
  total,    \* blocks of the medium
  medium,   \* its description, fixed by the start
  disk,     \* the regions as they survive a loss of power
  view,     \* the regions as BlockIO reads return them
  pc,       \* where try_grow_boot_media is
  plan,     \* what it decided to write
  outcome,  \* what this boot reported
  faults, clones

vars == <<total, medium, disk, view, pc, plan, outcome, faults, clones>>

Geometry(volume) ==
  [volume |-> volume, clusters |-> ClustersIn(volume, HeapOffset, SectorsPerCluster)]

GeometryType == [volume : Nat, clusters : Nat]

\* mbr: the protective partition's size; pent/bent: the primary and backup
\* entry arrays; phdr/bhdr: the headers with the entry array their CRC covers;
\* bitmap: DataLength of the Allocation Bitmap entry; main/bak: sector 0 of
\* the boot regions; mainSum/bakSum: what their checksum sectors cover.
Regions == {"mbr", "pent", "bent", "phdr", "bhdr", "bitmap",
            "main", "mainSum", "bak", "bakSum"}

Disk == [mbr : Nat, pent : Seq(Entry),
         bent : [at : Int, entries : Seq(Entry)],
         phdr : [backup : Nat, lastUsable : Int, entries : Seq(Entry)],
         bhdr : [at : Nat, entriesAt : Int, lastUsable : Int, entries : Seq(Entry)],
         bitmap : Nat, main : GeometryType, mainSum : GeometryType,
         bak : GeometryType, bakSum : GeometryType]

\* The image as the release builder lays it out.
Flashed(im, m) ==
  LET last == im.blocks - 1
      geometry == Geometry(im.volume)
  IN [mbr |-> last, pent |-> im.entries,
      bent |-> [at |-> last - EntryBlocks(m), entries |-> im.entries],
      phdr |-> [backup |-> last, lastUsable |-> last - EntryBlocks(m) - 1,
                entries |-> im.entries],
      bhdr |-> [at |-> last, entriesAt |-> last - EntryBlocks(m),
                lastUsable |-> last - EntryBlocks(m) - 1, entries |-> im.entries],
      bitmap |-> BitmapBytes(geometry.clusters),
      main |-> geometry, mainSum |-> geometry,
      bak |-> geometry, bakSum |-> geometry]

Plan == [entries : Seq(Entry), exfat : BOOLEAN, geometry : GeometryType]

Outcomes == {"None", "Grown", "AlreadyGrown", "NotReleaseMedia", "Error"}

GptSteps == {"mbr", "pentries", "bentries", "pheader", "bheader"}
ExfatSteps == {"bitmap", "mainboot", "backupboot"}
WriteSteps == GptSteps \cup ExfatSteps
Steps == {"off", "probe", "flush", "menu"} \cup WriteSteps

TypeOK ==
  /\ total \in Nat \ {0}
  /\ medium \in Medium /\ medium.blockSize > 0
  /\ disk \in Disk /\ view \in Disk
  /\ pc \in Steps
  /\ plan \in Plan
  /\ outcome \in Outcomes
  /\ faults \in 0 .. MaxFaults /\ clones \in 0 .. MaxClones

Init ==
  /\ \E s \in Starts :
       /\ total = s.total
       /\ medium = s.medium
       /\ disk = Flashed(s.image, s.medium)
       /\ plan = [entries |-> s.image.entries, exfat |-> FALSE,
                  geometry |-> Geometry(s.image.volume)]
  /\ view = disk
  /\ pc = "off"
  /\ outcome = "None"
  /\ faults = 0 /\ clones = 0

---------------------------------------------------------------------------
(***************************************************************************)
(* The decision.  Nothing is written before it is complete.                *)
(***************************************************************************)
LastLba == total - 1
BackupEntriesLba == LastLba - EntryBlocks(medium)

NewLastUsable == BackupEntriesLba - 1

\* The early Ok(NotReleaseMedia) returns.
IsReleaseMedium ==
  /\ medium.present /\ ~medium.logicalPartition /\ ~medium.readOnly
  /\ medium.blockSize \in {512, 4096}
  /\ medium.protective

\* parse_gpt_header and the entry CRC: the only GPT copy the code reads is
\* the primary one.
PrimaryValid(d) == medium.gpt /\ d.phdr.entries = d.pent

\* find_release_data_partition returns entry i.
IsReleaseData(entries, i) ==
  /\ \E j \in DOMAIN entries : entries[j].name = "EFI"
  /\ IsData(entries, i)
  /\ \A j \in DOMAIN entries : entries[j].start <= entries[i].start

\* Everything read and checked up to the call of plan_exfat_growth.
Candidate(i) ==
  /\ IsReleaseMedium
  /\ PrimaryValid(view)
  /\ IsReleaseData(view.pent, i)
  /\ BackupEntriesLba >= 1

FatClusters == FatCapacity(FatLength, medium.blockSize)

NewVolume(start) ==
  GrownVolume(view.main.volume, NewLastUsable - start + 1,
              HeapOffset, SectorsPerCluster, FatClusters, U32Max)

\* Mutant: neither plan_growth nor the partition check refuses anything.
GrowthAcceptedUnchecked(entry) == medium.exfat

\* plan_exfat_growth and the check that the partition does not shrink.
GrowthAccepted(entry) ==
  LET available == NewLastUsable - entry.start + 1
  IN /\ medium.exfat
     /\ FatLength > 0 /\ HeapOffset > 24 /\ HeapOffset < available
     /\ PlanAccepts(view.main.volume, available, HeapOffset,
                    SectorsPerCluster, FatClusters, U32Max)
     /\ entry.start + NewVolume(entry.start) - 1 >= entry.end

NeedsGpt(entry) ==
  \/ view.phdr.backup # LastLba
  \/ view.phdr.lastUsable # NewLastUsable
  \/ entry.end # entry.start + NewVolume(entry.start) - 1

NeedsExfat(entry) == view.main.volume # NewVolume(entry.start)

---------------------------------------------------------------------------
Return(result) ==
  /\ pc' = "menu"
  /\ outcome' = result
  /\ UNCHANGED <<total, medium, plan, clones>>

Untouched == UNCHANGED <<disk, view>>

\* The firmware starts NextBoot, whose main_flow first grows the boot medium.
PowerOn ==
  /\ pc = "off"
  /\ pc' = "probe"
  /\ outcome' = "None"
  /\ UNCHANGED <<total, medium, disk, view, plan, faults, clones>>

ProbeNotRelease ==
  /\ pc = "probe"
  /\ \/ ~IsReleaseMedium
     \/ \E i \in DOMAIN view.pent :
          Candidate(i) /\ NewLastUsable <= view.pent[i].start
  /\ Return("NotReleaseMedia")
  /\ Untouched /\ UNCHANGED faults

ProbeRefused ==
  /\ pc = "probe"
  /\ IsReleaseMedium
  /\ \A i \in DOMAIN view.pent :
       Candidate(i) => /\ NewLastUsable > view.pent[i].start
                       /\ ~GrowthAccepted(view.pent[i])
  /\ Return("Error")
  /\ Untouched /\ UNCHANGED faults

ProbeAlreadyGrown ==
  /\ pc = "probe"
  /\ \E i \in DOMAIN view.pent :
       /\ Candidate(i)
       /\ NewLastUsable > view.pent[i].start
       /\ GrowthAccepted(view.pent[i])
       /\ ~NeedsGpt(view.pent[i]) /\ ~NeedsExfat(view.pent[i])
  /\ Return("AlreadyGrown")
  /\ Untouched /\ UNCHANGED faults

ProbeGrow ==
  /\ pc = "probe"
  /\ \E i \in DOMAIN view.pent :
       LET entry == view.pent[i]
           volume == NewVolume(entry.start)
       IN /\ Candidate(i)
          /\ NewLastUsable > entry.start
          /\ GrowthAccepted(entry)
          /\ NeedsGpt(entry) \/ NeedsExfat(entry)
          /\ plan' = [entries |-> [view.pent EXCEPT ![i].end = entry.start + volume - 1],
                      exfat |-> NeedsExfat(entry),
                      geometry |-> Geometry(volume)]
          /\ pc' = IF NeedsGpt(entry) THEN "mbr" ELSE "bitmap"
  /\ UNCHANGED <<total, medium, disk, view, outcome, faults, clones>>

---------------------------------------------------------------------------
(***************************************************************************)
(* The writes, in the order of the code.                                   *)
(***************************************************************************)
\* A write_blocks that makes reads return `after`; without a write cache it
\* is on the disk when the call returns.
Write(after) ==
  /\ view' = after
  /\ disk' = IF medium.writeCaching THEN disk ELSE after

Proceed(next) ==
  /\ pc' = next
  /\ UNCHANGED <<total, medium, plan, outcome, faults, clones>>

AfterMbr == [view EXCEPT !.mbr = IF LastLba <= U32Max THEN LastLba ELSE U32Max]

\* Mutant: the entry array is written back without the new end.
AfterPrimaryEntriesStale == view

AfterPrimaryEntries == [view EXCEPT !.pent = plan.entries]

AfterBackupEntries ==
  [view EXCEPT !.bent = [at |-> BackupEntriesLba, entries |-> plan.entries]]

\* Mutant: last_usable_lba is left as it was.
AfterPrimaryHeaderOldUsable ==
  [view EXCEPT !.phdr.backup = LastLba, !.phdr.entries = plan.entries]

AfterPrimaryHeader ==
  [view EXCEPT !.phdr = [backup |-> LastLba, lastUsable |-> NewLastUsable,
                         entries |-> plan.entries]]

AfterBackupHeader ==
  [view EXCEPT !.bhdr = [at |-> LastLba, entriesAt |-> BackupEntriesLba,
                         lastUsable |-> NewLastUsable, entries |-> plan.entries]]

\* Mutant: the bitmap length is rounded down to whole bytes.
AfterBitmapRoundedDown == [view EXCEPT !.bitmap = plan.geometry.clusters \div 8]

AfterBitmap == [view EXCEPT !.bitmap = BitmapBytes(plan.geometry.clusters)]

\* Mutant: the checksum sector is not recomputed.
AfterMainBootNoChecksum == [view EXCEPT !.main = plan.geometry]

AfterMainBoot == [view EXCEPT !.main = plan.geometry, !.mainSum = plan.geometry]

AfterBackupBoot == [view EXCEPT !.bak = plan.geometry, !.bakSum = plan.geometry]

WriteMbr == pc = "mbr" /\ Write(AfterMbr) /\ Proceed("pentries")

WritePrimaryEntries ==
  pc = "pentries" /\ Write(AfterPrimaryEntries) /\ Proceed("bentries")

\* Mutant: the primary header is not written.
WriteBackupEntriesSkipsHeader ==
  pc = "bentries" /\ Write(AfterBackupEntries) /\ Proceed("bheader")

WriteBackupEntries ==
  pc = "bentries" /\ Write(AfterBackupEntries) /\ Proceed("pheader")

WritePrimaryHeader ==
  pc = "pheader" /\ Write(AfterPrimaryHeader) /\ Proceed("bheader")

\* Mutant: the growth ends with the GPT.
WriteBackupHeaderLast == pc = "bheader" /\ Write(AfterBackupHeader) /\ Proceed("flush")

WriteBackupHeader ==
  /\ pc = "bheader"
  /\ Write(AfterBackupHeader)
  /\ Proceed(IF plan.exfat THEN "bitmap" ELSE "flush")

\* The FAT lies between the two boot regions and the cluster heap.  Only the
\* bitmap step looks at this, when the GPT is already written.
BitmapGeometryOk ==
  /\ FatLength > 0
  /\ medium.fatOffset >= 24
  /\ medium.fatOffset + FatLength <= HeapOffset

\* The existing Allocation Bitmap chain must hold both the old and the new
\* bitmap, as it is neither extended nor shortened.
BitmapChainFits ==
  /\ medium.bitmapChain =
       BitmapClusters(view.bitmap, SectorsPerCluster, medium.blockSize)
  /\ medium.bitmapChain =
       BitmapClusters(BitmapBytes(plan.geometry.clusters),
                      SectorsPerCluster, medium.blockSize)

WriteBitmap ==
  /\ pc = "bitmap"
  /\ BitmapGeometryOk /\ BitmapChainFits
  /\ Write(AfterBitmap)
  /\ Proceed("mainboot")

\* "invalid exFAT bitmap growth geometry", or "exFAT allocation bitmap chain
\* cannot cover expanded volume".
BitmapRefused ==
  /\ pc = "bitmap" /\ ~(BitmapGeometryOk /\ BitmapChainFits)
  /\ Return("Error")
  /\ Untouched /\ UNCHANGED faults

WriteMainBoot ==
  pc = "mainboot" /\ Write(AfterMainBoot) /\ Proceed("backupboot")

WriteBackupBoot ==
  pc = "backupboot" /\ Write(AfterBackupBoot) /\ Proceed("flush")

\* Mutant: success is reported without a flush.
FlushBlocksSkipped ==
  /\ pc = "flush"
  /\ Return("Grown")
  /\ Untouched /\ UNCHANGED faults

FlushBlocks ==
  /\ pc = "flush"
  /\ disk' = view
  /\ Return("Grown")
  /\ UNCHANGED <<view, faults>>

---------------------------------------------------------------------------
(***************************************************************************)
(* Failures and the outside world.                                         *)
(***************************************************************************)
\* What an interrupted write leaves: the boot regions span twelve blocks, of
\* which sector 0 carries the geometry and sector 11 the checksum.
Partial ==
  {view}
    \cup (IF pc = "mainboot" THEN {[view EXCEPT !.main = plan.geometry]} ELSE {})
    \cup (IF pc = "backupboot" THEN {[view EXCEPT !.bak = plan.geometry]} ELSE {})

Fault == faults < MaxFaults /\ faults' = faults + 1

\* A read_blocks, write_blocks or flush_blocks returns an error: the rest of
\* the growth is skipped and the boot goes on.
CallFails ==
  /\ pc \in {"probe", "flush"} \cup WriteSteps
  /\ Fault
  /\ \E after \in Partial : Write(after)
  /\ Return("Error")

Lost ==
  /\ pc' = "off"
  /\ view' = disk'
  /\ UNCHANGED <<total, medium, plan, outcome, clones>>

PowerCut ==
  /\ pc \notin {"off", "menu"}
  /\ Fault
  /\ IF medium.writeCaching THEN disk' = disk ELSE disk' \in Partial
  /\ Lost

\* The machine is switched off or reset after the menu was reached.
PowerOff ==
  /\ pc = "menu"
  /\ disk' = disk
  /\ Lost
  /\ UNCHANGED faults

\* The device writes one cached region back, in any order.
Destage(r) ==
  /\ disk[r] # view[r]
  /\ disk' = [disk EXCEPT ![r] = view[r]]
  /\ UNCHANGED <<total, medium, view, pc, plan, outcome, faults, clones>>

\* The user copies the whole image to a medium of another size.
Clone ==
  /\ pc = "off"
  /\ clones < MaxClones /\ clones' = clones + 1
  /\ total' \in Sizes \ {total}
  /\ UNCHANGED <<medium, disk, view, pc, plan, outcome, faults>>

Grow ==
  \/ ProbeNotRelease \/ ProbeRefused \/ ProbeAlreadyGrown \/ ProbeGrow
  \/ WriteMbr \/ WritePrimaryEntries \/ WriteBackupEntries
  \/ WritePrimaryHeader \/ WriteBackupHeader
  \/ WriteBitmap \/ BitmapRefused \/ WriteMainBoot \/ WriteBackupBoot
  \/ FlushBlocks

Next ==
  \/ PowerOn \/ Grow
  \/ CallFails \/ PowerCut \/ PowerOff
  \/ \E r \in Regions : Destage(r)
  \/ Clone

\* The growth runs to its end: it is one synchronous call, and every BlockIO
\* call returns.  Nothing makes the user switch the machine on or off.
Spec == Init /\ [][Next]_vars /\ WF_vars(Grow)

---------------------------------------------------------------------------
(***************************************************************************)
(* Properties.                                                             *)
(***************************************************************************)
WriteThrough == ~medium.writeCaching

\* The exFAT volume never reaches past the DATA partition, in the entry array
\* on disk as well as in the one the primary header vouches for: the GPT is
\* written before the boot sector at every point where power can be lost.
VolumeInsidePartition ==
  WriteThrough =>
    \A entries \in {disk.pent, disk.phdr.entries} : \A i \in DOMAIN entries :
      IsData(entries, i) => disk.main.volume <= Blocks(entries[i])

\* The Allocation Bitmap on disk has a bit for every cluster the boot sector
\* declares: update_exfat_boot lengthens the bitmap before it publishes the
\* new geometry.
BitmapCoversClusters ==
  WriteThrough => disk.main.clusters <= 8 * disk.bitmap

\* The backup entry array and header are never written over the DATA
\* partition that is live at that moment, nor over the one being planned.
BackupGptMissesData ==
  [][\A entries \in {disk.phdr.entries, plan.entries} : \A i \in DOMAIN entries :
       IsData(entries, i) /\ pc' # "off" =>
         /\ view'.bent # view.bent => entries[i].end < view'.bent.at
         /\ view'.bhdr # view.bhdr => entries[i].end < view'.bhdr.at]_vars

\* No step of any boot, failure or loss of power makes the persisted volume or
\* the persisted partition smaller (plan_growth refuses to shrink).
NeverShrinks ==
  [][/\ disk.main.volume <= disk'.main.volume
     /\ \A i \in DOMAIN disk.phdr.entries :
          disk.phdr.entries[i].end <= disk'.phdr.entries[i].end]_vars

\* The primary GPT and the boot sector match the medium: one more boot would
\* find nothing to do.
AtCapacity ==
  \E i \in DOMAIN view.pent :
    /\ Candidate(i) /\ GrowthAccepted(view.pent[i])
    /\ ~NeedsGpt(view.pent[i]) /\ ~NeedsExfat(view.pent[i])

\* A boot that reports Grown or AlreadyGrown leaves a medium on which growth is
\* a no-op: what the planner computed is a fixed point of the planner.
ReportedAtCapacity ==
  pc = "menu" /\ outcome \in {"Grown", "AlreadyGrown"} => AtCapacity

\* Everything a boot reported as Grown is on the disk, with or without a write
\* cache, when the report is made.
GrownIsDurable == pc = "menu" /\ outcome = "Grown" => disk = view

\* What the post-growth verifier reads: the backup GPT sits at the last LBA and
\* equals the primary, both boot regions are equal and their checksum holds.
MirrorsAgree(d) ==
  /\ d.phdr.backup = LastLba
  /\ d.bhdr = [at |-> LastLba, entriesAt |-> BackupEntriesLba,
               lastUsable |-> d.phdr.lastUsable, entries |-> d.phdr.entries]
  /\ d.bent = [at |-> BackupEntriesLba, entries |-> d.pent]
  /\ d.bak = d.main /\ d.bakSum = d.mainSum /\ d.mainSum = d.main

\* One failure, torn write or loss of power leaves at least one exFAT boot
\* region whose checksum holds: the two regions are written one after the other.
OneBootRegionValid ==
  WriteThrough /\ faults <= 1 =>
    disk.main = disk.mainSum \/ disk.bak = disk.bakSum

\* A medium every step of the growth accepts: its primary header vouches for
\* its primary entries (after an interruption between those two writes it does
\* not, and every later boot refuses the medium), the planner accepts the size,
\* and the bitmap step will accept both the FAT's place and the chain.
Growable ==
  \E i \in DOMAIN view.pent :
    LET clusters == Geometry(NewVolume(view.pent[i].start)).clusters
    IN /\ Candidate(i) /\ NewLastUsable > view.pent[i].start
       /\ GrowthAccepted(view.pent[i])
       /\ BitmapGeometryOk
       /\ \A bytes \in {view.bitmap, BitmapBytes(clusters)} :
            medium.bitmapChain =
              BitmapClusters(bytes, SectorsPerCluster, medium.blockSize)

\* A boot of a growable medium during which nothing fails ends with the volume
\* at its full size, also when earlier boots were interrupted at any other
\* write.
GrowableBootGrows == (pc = "probe" /\ faults = MaxFaults /\ Growable) ~> AtCapacity

\* The repository's verifier (scripts/qemu_verify) accepts every medium that the
\* growth considers finished.
AlreadyGrownVerifies ==
  pc = "menu" /\ outcome = "AlreadyGrown" => MirrorsAgree(view)

---------------------------------------------------------------------------
\* The primary header is the commit point of the partition's size.
HasData(entries) == \E i \in DOMAIN entries : IsData(entries, i)

CommittedBlocks ==
  IF WriteThrough /\ HasData(disk.phdr.entries)
  THEN Blocks(disk.phdr.entries[CHOOSE i \in DOMAIN disk.phdr.entries :
                                  IsData(disk.phdr.entries, i)])
  ELSE 0

CommittedVolume ==
  IF WriteThrough /\ HasData(disk.phdr.entries) THEN disk.main.volume ELSE 0

Volume == INSTANCE GrowableVolume
            WITH partition <- CommittedBlocks, volume <- CommittedVolume

\* On a write-through medium the growth implements GrowableVolume: what a host
\* mounts after any interruption only ever grew, inside its partition.
ImplementsGrowableVolume == Volume!Spec
=============================================================================
