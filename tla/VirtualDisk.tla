---------------------------- MODULE VirtualDisk ----------------------------
(***************************************************************************)
(* The virtual disk of one boot attempt: create_virtual_block_io prepares  *)
(* the configuration replacements, builds a byte mapping for the selected  *)
(* image (plain extents, dynamic VHD, VHDX or VDI, the latter two with     *)
(* their chains of parents), may copy it into memory, and then answers the *)
(* firmware's reads.                                                       *)
(*                                                                         *)
(* volume holds the image files of the source volume.  A file is a record  *)
(* of what its headers and tables say: its extents on the volume, the size *)
(* of the disk it describes, its block allocation table and, for VHDX, its *)
(* sector bitmaps.  Parsing those headers is the record; that it may fail  *)
(* is BuildFails.                                                          *)
(***************************************************************************)
EXTENDS ByteMap

CONSTANTS
  Volumes,        \* the volumes the scan may find, from names to files
  Listing,        \* the names in the order of the directory
  Plugins,        \* the conf_replace and auto_memdisk settings of the image
  DeviceBlocks,   \* blocks of the source volume
  IsoSector,      \* ISO9660_SECTOR_SIZE
  VhdBitmap,      \* bytes of the bitmap in front of a dynamic VHD's block
  ChunkRatio,     \* VHDX payload blocks to one sector bitmap
  MaxParentDepth, \* MAX_VHDX_PARENT_DEPTH, MAX_VDI_PARENT_DEPTH
  MaxRead         \* bound: virtual blocks, or bytes, in a request

ASSUME DiskAssumption ==
  /\ {PhysicalBlock, DeviceBlocks, IsoSector, ChunkRatio} \subseteq Nat \ {0}
  /\ {VhdBitmap, MaxParentDepth, MaxRead} \subseteq Nat

VARIABLES
  pc,       \* where create_virtual_block_io is
  volume,   \* the image files of the source volume
  image,    \* the selected image
  plugin,   \* its plugin settings
  rule,     \* the conf_replace rule that comes next
  append,   \* next_append_offset
  patches,  \* the overlays prepared so far
  applied,  \* history: the rules with an overlay, and where their data went
  chain,    \* the image and the parents opened for it
  index,    \* the next block of the allocation table
  vbio,     \* the VirtualBlockIo under construction, then in use
  io        \* the last answered request

vars == <<pc, volume, image, plugin, rule, append, patches, applied, chain, index, vbio, io>>
fixed == <<volume, image, plugin>>
build == <<rule, append, patches, applied, chain, index>>

Top == volume[image]
Parent(i) == volume[chain[i]]
Idle == [op |-> "none", at |-> 0, count |-> 0, fault |-> FALSE, media |-> TRUE,
         answer |-> Refuse("Success")]

Layered == {"vhd", "vhdx", "vdi"}
IsIso(f) == f.format = "iso"

-----------------------------------------------------------------------------
\* What an image file says about a block of its disk.

\* Mutant: the bitmap entries are forgotten.
PayloadIndexPlain(f, block) == block

\* payload_bat_index: every ChunkRatio payload entries of a VHDX are followed
\* by the entry of their sector bitmap.
PayloadIndex(f, block) ==
  IF f.format = "vhdx" THEN block + block \div ChunkRatio ELSE block

\* sector_bitmap_bat_index
BitmapIndex(block) == (block \div ChunkRatio) * (ChunkRatio + 1) + ChunkRatio

PayloadEntry(f, block) == f.bat[PayloadIndex(f, block) + 1]
BitmapEntry(f, block) == f.bat[BitmapIndex(block) + 1]

Blocks(f) == DivUp(f.diskSize, f.block)
BlockStart(f, block) == block * f.block
BlockEnd(f, block) == Least(f.diskSize, (block + 1) * f.block)

\* The file offset of a block's first byte, from its table entry.
PayloadOffset(f, entry) ==
  CASE f.format = "vhd" -> entry.at * f.sector + VhdBitmap
    [] f.format = "vdi" -> f.data + entry.at * f.block
    [] f.format = "vhdx" -> entry.at

\* bitmap_bit_present: one bitmap serves the sectors of a whole chunk.
SectorPresent(f, block, sector) ==
  ((block % ChunkRatio) * (f.block \div f.sector) + sector)
    \in f.bitmaps[block \div ChunkRatio + 1]

-----------------------------------------------------------------------------
\* From ranges of a file to pieces of the volume.

Pieces(ok, pieces) == [ok |-> ok, pieces |-> pieces]
Nothing == Pieces(TRUE, <<>>)
Unmapped == Pieces(FALSE, <<>>)
Both(a, b) == Pieces(a.ok /\ b.ok, a.pieces \o b.pieces)
All(parts) == Pieces(\A i \in DOMAIN parts : parts[i].ok,
                     FlattenSeq([i \in DOMAIN parts |-> parts[i].pieces]))

\* map_image_file_range_to_physical, map_source_file_range_to_physical: bytes
\* of the virtual disk from start on are the file's bytes from offset on.
FilePieces(f, start, offset, count) ==
  LET end == offset + count
      Begin(e) == e.file * PhysicalBlock
      Stop(e) == (e.file + e.blocks) * PhysicalBlock
      From[cur \in Nat] ==
        LET e == SelectInSeq(f.extents, LAMBDA x : cur \in Begin(x) .. (Stop(x) - 1))
            hit == f.extents[e]
            stop == Least(end, Stop(hit))
        IN IF cur >= end THEN Nothing
           ELSE IF e = 0 THEN Unmapped
           ELSE Both(Pieces(TRUE, <<[start |-> start + (cur - offset),
                                     count |-> stop - cur,
                                     physical |-> hit.lba * PhysicalBlock
                                                  + (cur - Begin(hit))]>>),
                     From[stop])
  IN From[offset]

\* map_vhdx_payload_block and its like: the selected image is checked for length.
ImagePieces(f, start, offset, count) ==
  IF offset + count > f.size THEN Unmapped ELSE FilePieces(f, start, offset, count)

\* plan_vhdx_spans and plan_vdi_spans reject a parent for any one of its entries.
Plannable(f) ==
  \A b \in 0 .. (Blocks(f) - 1) :
    LET state == PayloadEntry(f, b).state
    IN /\ state \in {"present", "partial", "zero", "absent"}
       /\ state = "partial" => f.differencing

\* The planner takes a partial block of a parent for one without own sectors.
SpanSource(f, block) ==
  LET state == PayloadEntry(f, block).state
  IN CASE state = "present" -> "image"
       [] state = "partial" -> "parent"
       [] state = "absent" /\ f.differencing -> "parent"
       [] OTHER -> "zero"

\* map_parent_vhdx_range, map_parent_vdi_range.  A parent may have blocks of
\* another size than its child.
ParentPieces(depth, start, end) ==
  LET Span[d \in Nat] == [s \in Nat |-> [e \in Nat |->
        LET f == Parent(d)
            Block(b) ==
              LET from == Max({s, BlockStart(f, b)})
                  to == Least(e, BlockEnd(f, b))
                  source == SpanSource(f, b)
                  offset == PayloadOffset(f, PayloadEntry(f, b))
              IN IF from >= to \/ source = "zero" THEN Nothing
                 ELSE IF source = "image"
                   THEN FilePieces(f, from, offset + (from - BlockStart(f, b)), to - from)
                 ELSE Span[d + 1][from][to]
        IN IF d > Len(chain) \/ ~Plannable(f) THEN Unmapped
           ELSE All([i \in 1 .. Blocks(f) |-> Block(i - 1)])]]
  IN Span[depth][start][end]

\* map_vhdx_partial_payload_block, sector by sector; the code takes runs of
\* equal bits together.
PartialPieces(f, block) ==
  LET from == BlockStart(f, block)
      to == BlockEnd(f, block)
      Sector(s) ==
        LET a == from + s * f.sector
            z == Least(to, a + f.sector)
        IN IF SectorPresent(f, block, s)
             THEN ImagePieces(f, a, PayloadOffset(f, PayloadEntry(f, block)) + (a - from), z - a)
             ELSE ParentPieces(2, a, z)
  IN IF BitmapEntry(f, block).state # "present" THEN Unmapped
     ELSE All([i \in 1 .. DivUp(to - from, f.sector) |-> Sector(i - 1)])

\* One turn of the loop in build_dynamic_vhd_, build_vhdx_ or build_vdi_block_io.
BlockPieces(f, block) ==
  LET entry == PayloadEntry(f, block)
      from == BlockStart(f, block)
      to == BlockEnd(f, block)
  IN CASE entry.state = "present" ->
            ImagePieces(f, from, PayloadOffset(f, entry), to - from)
       [] entry.state = "partial" -> PartialPieces(f, block)
       [] entry.state = "absent" /\ f.differencing -> ParentPieces(2, from, to)
       [] entry.state = "zero" \/ (entry.state = "absent" /\ ~f.differencing) -> Nothing
       [] OTHER -> Unmapped

-----------------------------------------------------------------------------
\* Specification

Data(r, n) == [k \in 1 .. AlignUp(r.length, IsoSector) |->
                IF k <= r.length THEN 1000 * n + k ELSE Zero]
Pointer(sector) == 500 + sector
Descriptor == 400

Init ==
  /\ pc = "replace"
  /\ volume \in Volumes
  /\ image \in DOMAIN volume
  /\ plugin \in Plugins
  /\ rule = 1
  /\ append = AlignUp(Top.diskSize, IsoSector)
  /\ patches = <<>>
  /\ applied = {}
  /\ chain = <<image>>
  /\ index = 0
  /\ vbio = [table |-> Empty, size |-> Top.diskSize, block |-> Top.sector,
             overlays |-> <<>>, blocks |-> DeviceBlocks]
  /\ io = Idle

\* Mutant: the padding behind a file is not counted.
NextAppendUnpadded(at, data) == at + Len(SelectSeq(data, LAMBDA byte : byte # Zero))

\* The next file goes behind this one.
NextAppend(at, data) == at + Len(data)

\* build_conf_replace_overlays, one rule: the directory record (for UDF the
\* file entry, and the partition descriptor if it has to grow) is patched to
\* point to the sector behind everything else, where the new file is put.
ReplaceFile ==
  LET r == plugin.rules[rule]
      data == Data(r, rule)
  IN /\ pc = "replace" /\ IsIso(Top) /\ rule <= Len(plugin.rules)
     /\ patches' = patches
                   \o <<[at |-> r.record, data |-> <<Pointer(append \div IsoSector)>>]>>
                   \o (IF Top.udf /\ r.descriptor >= 0
                         THEN <<[at |-> r.descriptor, data |-> <<Descriptor>>]>> ELSE <<>>)
                   \o <<[at |-> append, data |-> data]>>
     /\ append' = NextAppend(append, data)
     /\ applied' = applied \cup {rule}
     /\ rule' = rule + 1
     /\ UNCHANGED <<pc, fixed, chain, index, vbio, io>>

\* The file to replace is missing or a directory, or the new one cannot be
\* loaded or is too large.
SkipRule ==
  /\ pc = "replace" /\ IsIso(Top) /\ rule <= Len(plugin.rules)
  /\ rule' = rule + 1
  /\ UNCHANGED <<pc, fixed, append, patches, applied, chain, index, vbio, io>>

RulesDone ==
  /\ pc = "replace" /\ (~IsIso(Top) \/ rule > Len(plugin.rules))
  /\ pc' = "source"
  /\ vbio' = [vbio EXCEPT !.size = IF patches = <<>> THEN @ ELSE Max({@, append})]
  /\ UNCHANGED <<fixed, build, io>>

\* Mutant: the table ends with the file, not with the enlarged disk.
PlainTableOfFile(f, size) ==
  IF f.extents = <<>> THEN Contiguous(0, size, f.sector)
  ELSE Optimize(FromFileExtents(f.extents, f.diskSize))

\* build_source_backed_virtual_block_io for images without a table of their own.
\* Without extents start_lba is 0 as well.
PlainTable(f, size) ==
  IF f.extents = <<>> THEN Contiguous(0, size, f.sector)
  ELSE Optimize(FromFileExtents(f.extents, size))

MapPlain ==
  /\ pc = "source" /\ Top.format \notin Layered
  /\ vbio' = [vbio EXCEPT !.table = PlainTable(Top, vbio.size)]
  /\ pc' = "memory"
  /\ UNCHANGED <<fixed, build, io>>

\* Without extents the headers are looked for at block 0 and not found.
OpenLayered ==
  /\ pc = "source" /\ Top.format \in Layered /\ Top.extents # <<>>
  /\ pc' = IF Top.format = "vhd" THEN "map" ELSE "parents"
  /\ UNCHANGED <<fixed, build, vbio, io>>

\* The parents a child names: locator paths, or the directory for a VDI.
Candidates(f) == IF f.format = "vhdx" THEN f.parents ELSE Listing

SameGeometry(child, f) == f.diskSize = child.diskSize /\ f.sector = child.sector

\* A VDI parent is found by its identity, files that are no VDI are passed over.
\* A VHDX parent is the file at the path; that it is no VHDX shows when it is opened.
Matches(child, f) ==
  \/ child.format = "vhdx" /\ (f.format = "vhdx" => SameGeometry(child, f))
  \/ child.format = "vdi" /\ f.format = "vdi" /\ SameGeometry(child, f)
     /\ f.block = child.block /\ f.id = child.parentId

\* The first candidate that is not the child itself, exists and matches; 0 if none.
FindParent(name) ==
  LET f == volume[name]
  IN SelectInSeq(Candidates(f),
       LAMBDA c : c # name /\ c \in DOMAIN volume /\ Matches(f, volume[c]))

NeedsParent ==
  LET last == chain[Len(chain)]
  IN /\ volume[last].differencing
     /\ Len(chain) <= MaxParentDepth
     /\ FindParent(last) # 0

OpenParent ==
  LET last == chain[Len(chain)]
      parent == Candidates(volume[last])[FindParent(last)]
  IN /\ pc = "parents" /\ NeedsParent
     /\ IF volume[parent].format = volume[last].format
          THEN chain' = Append(chain, parent) /\ UNCHANGED pc
          ELSE pc' = "failed" /\ UNCHANGED chain
     /\ UNCHANGED <<fixed, rule, append, patches, applied, index, vbio, io>>

ParentsDone ==
  /\ pc = "parents" /\ ~NeedsParent
  /\ pc' = "map"
  /\ UNCHANGED <<fixed, build, vbio, io>>

MapBlock ==
  LET p == BlockPieces(Top, index)
  IN /\ pc = "map" /\ index < Blocks(Top)
     /\ IF p.ok
          THEN /\ vbio' = [vbio EXCEPT !.table = AddSegments(@, p.pieces)]
               /\ index' = index + 1 /\ UNCHANGED pc
          ELSE /\ pc' = "failed" /\ UNCHANGED <<vbio, index>>
     /\ UNCHANGED <<fixed, rule, append, patches, applied, chain, io>>

MapDone ==
  /\ pc = "map" /\ index = Blocks(Top)
  /\ vbio' = [vbio EXCEPT !.table = Optimize(Truncate(@, Top.diskSize)),
                          !.size = Top.diskSize]
  /\ pc' = "memory"
  /\ UNCHANGED <<fixed, build, io>>

\* build_auto_memdisk_block_io: the image is read through the mapping just
\* built and becomes the first overlay of a disk of zeros.
LoadIntoMemory ==
  LET answer == ReadBytes(vbio, TRUE, 0, vbio.size)
  IN /\ pc = "memory" /\ plugin.memdisk
     /\ IF answer.status = "Success"
          THEN /\ vbio' = [vbio EXCEPT !.table = Contiguous(0, vbio.size, vbio.block),
                                       !.overlays = <<[at |-> 0, data |-> answer.data]>>,
                                       !.blocks = NoDevice]
               /\ pc' = "attach"
          ELSE pc' = "failed" /\ UNCHANGED vbio
     /\ UNCHANGED <<fixed, build, io>>

StayOnDisk ==
  /\ pc = "memory" /\ ~plugin.memdisk
  /\ pc' = "attach"
  /\ UNCHANGED <<fixed, build, vbio, io>>

\* add_memory_overlay for every overlay prepared: the disk grows to hold it.
AddMemoryOverlays(disk, overlays) ==
  LET end == Max({disk.size} \cup {o.at + Len(o.data) : o \in ToSet(overlays)})
  IN [disk EXCEPT !.size = end, !.overlays = @ \o overlays,
                  !.table.total = IF end > disk.size THEN end ELSE @]

AddOverlays ==
  /\ pc = "attach"
  /\ vbio' = AddMemoryOverlays(vbio, patches)
  /\ pc' = "ready"
  /\ UNCHANGED <<fixed, build, io>>

\* A header does not parse, a device read fails, memory runs out.
BuildFails ==
  /\ pc \in {"replace", "source", "parents", "map", "memory", "attach"}
  /\ pc' = "failed"
  /\ UNCHANGED <<fixed, build, vbio, io>>

Answer(op, sameMedia, at, count) ==
  CASE op = "bytes" -> ReadBytes(vbio, sameMedia, at, count)
    [] op = "blocks" -> ReadBlocks(vbio, sameMedia, at, count)
    [] op = "write" -> WriteBlocks(count)

Requests ==
  [op : {"bytes"}, at : 0 .. (vbio.size + 1), count : 0 .. MaxRead]
    \cup [op : {"blocks"}, at : 0 .. DivUp(vbio.size, vbio.block),
          count : {n * vbio.block : n \in 0 .. MaxRead} \cup {vbio.block + 1}]
    \cup [op : {"write"}, at : {0}, count : {0, vbio.block}]

Request(r, sameMedia) ==
  /\ pc = "ready"
  /\ io' = [op |-> r.op, at |-> r.at, count |-> r.count, fault |-> FALSE,
            media |-> sameMedia, answer |-> Answer(r.op, sameMedia, r.at, r.count)]
  /\ pc' = "answered"
  /\ UNCHANGED <<fixed, build, vbio>>

\* A block of the volume cannot be read; the buffer is then partly filled.
RequestFails(r) ==
  LET answer == Answer(r.op, TRUE, r.at, r.count)
  IN /\ pc = "ready" /\ answer.touched # {}
     /\ io' = [op |-> r.op, at |-> r.at, count |-> r.count, fault |-> TRUE,
               media |-> TRUE,
               answer |-> [answer EXCEPT !.status = "ReadFailed", !.data = <<>>]]
     /\ pc' = "answered"
     /\ UNCHANGED <<fixed, build, vbio>>

Return ==
  /\ pc = "answered"
  /\ pc' = "ready" /\ io' = Idle
  /\ UNCHANGED <<fixed, build, vbio>>

Next ==
  \/ ReplaceFile \/ SkipRule \/ RulesDone
  \/ MapPlain \/ OpenLayered \/ OpenParent \/ ParentsDone \/ MapBlock \/ MapDone
  \/ LoadIntoMemory \/ StayOnDisk \/ AddOverlays \/ BuildFails
  \/ \E r \in Requests : \/ \E sameMedia \in BOOLEAN : Request(r, sameMedia)
                         \/ RequestFails(r)
  \/ Return

Spec == Init /\ [][Next]_vars

-----------------------------------------------------------------------------
\* Properties

\* Where a file's byte lies on the volume, from the extents it really has.
StoredAt(f, offset) ==
  LET e == CHOOSE x \in ToSet(f.stored) :
             offset \div PhysicalBlock \in x.file .. (x.file + x.blocks - 1)
  IN e.lba * PhysicalBlock + (offset - e.file * PhysicalBlock)

\* The entry of a block, counted in the table of the file with the places of
\* the sector bitmaps left out.
EntryOf(f, block) ==
  LET places == {i \in DOMAIN f.bat : f.format = "vhdx" => i % (ChunkRatio + 1) # 0}
  IN f.bat[CHOOSE i \in places : Cardinality({j \in places : j < i}) = block]

\* The bit of an offset: a bitmap covers ChunkRatio blocks.
BitOf(f, offset) ==
  LET chunk == ChunkRatio * f.block
  IN (offset % chunk) \div f.sector \in f.bitmaps[offset \div chunk + 1]

\* The byte an image holds at an offset of its disk: its own where the table,
\* or the bitmap of a partial block, says so, else the parent's, else zero.
Missing == -2

ImageByte(offset) ==
  LET Layer[d \in Nat] ==
        LET f == Parent(d)
            entry == EntryOf(f, offset \div f.block)
            own == \/ entry.state = "present"
                   \/ entry.state = "partial" /\ BitOf(f, offset)
        IN IF d > Len(chain) THEN Missing
           ELSE IF f.format \notin Layered THEN StoredAt(f, offset)
           ELSE IF own THEN StoredAt(f, PayloadOffset(f, entry) + (offset % f.block))
           ELSE IF f.differencing /\ entry.state # "zero" THEN Layer[d + 1]
           ELSE Zero
  IN Layer[1]

Covering(offset) ==
  {i \in DOMAIN patches :
     offset \in patches[i].at .. (patches[i].at + Len(patches[i].data) - 1)}

ExpectedByte(offset) ==
  LET p == patches[Max(Covering(offset))]
  IN IF Covering(offset) # {} THEN p.data[offset - p.at + 1] ELSE ImageByte(offset)

(***************************************************************************)
(* What the proofs assume of the volumes and settings.  The extents of a   *)
(* file lead to its bytes and stay on the volume (VirtualFiles checks that *)
(* of the file systems); those of an image without a table cover its disk. *)
(* The table of an image has an entry for each of its blocks, and only     *)
(* VHDX knows partial ones.  What a rule patches was found in the image,   *)
(* and a record is no descriptor.                                          *)
(***************************************************************************)
Extent == [file : Nat, lba : Nat, blocks : Nat]
BytesOf(e) == (e.file * PhysicalBlock) .. ((e.file + e.blocks) * PhysicalBlock - 1)

SoundFile(f) ==
  /\ {f.size, f.diskSize, f.data} \subseteq Nat /\ {f.sector, f.block} \subseteq Nat \ {0}
  /\ f.extents \in Seq(Extent) /\ f.parents \in Seq(STRING)
  /\ \A e \in ToSet(f.extents) :
       /\ e.lba + e.blocks <= DeviceBlocks
       /\ \A x \in BytesOf(e) :
            StoredAt(f, x) = e.lba * PhysicalBlock + (x - e.file * PhysicalBlock)
  /\ f.format \notin Layered =>
       /\ f.extents # <<>>
       /\ \A x \in 0 .. (f.diskSize - 1) : \E e \in ToSet(f.extents) : x \in BytesOf(e)
  /\ f.format \in Layered =>
       /\ f.bat \in Seq([state : STRING, at : Nat])
       /\ \A b \in 0 .. (Blocks(f) - 1) :
            /\ PayloadIndex(f, b) < Len(f.bat)
            /\ PayloadEntry(f, b).state = "partial" => f.format = "vhdx"
  /\ f.format = "vhdx" => f.block % f.sector = 0

ASSUME VolumesAssumption ==
  /\ Listing \in Seq(STRING)
  /\ \A v \in Volumes : \A name \in DOMAIN v : SoundFile(v[name])

ASSUME PluginsAssumption ==
  \A p \in Plugins :
    /\ p.rules \in Seq([record : Nat, descriptor : Int, length : Nat])
    /\ \A q, r \in ToSet(p.rules) : q.record # r.descriptor
    /\ \A v \in Volumes : \A name \in DOMAIN v : IsIso(v[name]) =>
         \A r \in ToSet(p.rules) : {r.record, r.descriptor} \subseteq -1 .. (v[name].diskSize - 1)

Offset == IF io.op = "blocks" THEN io.at * vbio.block ELSE io.at

\* Whatever the firmware reads, at any offset and in any block size, is what
\* the image holds there: of its own, of the right parent, of the latest
\* replacement, or zero past the end of the disk.  Bytes between the end of an
\* image and the first replacement belong to nobody and are left open.
ReadsReturnTheImage ==
  io.answer.status = "Success" /\ io.op \in {"bytes", "blocks"} =>
    \A k \in 1 .. io.count :
      LET offset == Offset + k - 1
      IN /\ offset >= vbio.size => io.answer.data[k] = Zero
         /\ offset < Top.diskSize \/ Covering(offset) # {}
              => io.answer.data[k] = ExpectedByte(offset)

\* A registered disk has no unreadable spot: a request inside it fails only if
\* the source volume does.
ReadableEverywhere ==
  LET inside == \/ io.op = "bytes" /\ io.at + io.count <= vbio.size
                \/ io.op = "blocks" /\ io.count % vbio.block = 0
                   /\ io.at + io.count \div vbio.block <= DivUp(vbio.size, vbio.block)
  IN pc = "answered" /\ io.media /\ ~io.fault /\ inside => io.answer.status = "Success"

\* On the finished disk the patched directory record leads to the replacement
\* file, and all of the file is there, also with several rules, an image whose
\* size is no multiple of a sector, or a disk in memory.
ReplacementsAreIntact ==
  pc = "ready" =>
    \A n \in applied :
      LET r == plugin.rules[n]
          later == {m \in applied : m > n /\ plugin.rules[m].record = r.record}
          record == ReadBytes(vbio, TRUE, r.record, 1).data[1]
          sector == record - Pointer(0)
          file == ReadBytes(vbio, TRUE, sector * IsoSector, r.length)
      IN later = {} => /\ file.status = "Success"
                       /\ file.data = SubSeq(Data(r, n), 1, r.length)
=============================================================================
