------------------------------ MODULE ByteMap ------------------------------
(***************************************************************************)
(* The virtual block device as operators: ByteMappingTable, which places   *)
(* ranges of a virtual disk on the bytes of a source volume, and the reads *)
(* of VirtualBlockIo through it.                                           *)
(*                                                                         *)
(* A byte of the volume is represented by its address, so a read returns   *)
(* the addresses its bytes came from; Zero stands for a byte nobody        *)
(* stored.  A buffer is a sequence of such bytes.                          *)
(***************************************************************************)
EXTENDS Integers, Sequences, SequencesExt, FiniteSets, FiniteSetsExt

CONSTANT PhysicalBlock  \* bytes in a block of the source volume

Zero == -1

DivUp(value, divisor) == (value + divisor - 1) \div divisor
AlignUp(value, alignment) == DivUp(value, alignment) * alignment
Least(a, b) == Min({a, b})

-----------------------------------------------------------------------------
\* ByteMappingTable

Empty == [segs |-> <<>>, total |-> 0]

AddSegment(table, start, count, physical) ==
  IF count = 0 THEN table
  ELSE [segs |-> Append(table.segs,
                   [start |-> start, end |-> start + count, physical |-> physical]),
        total |-> Max({table.total, start + count})]

AddSegments(table, pieces) ==
  LET Added(p) == AddSegment(Empty, p.start, p.count, p.physical)
  IN [segs |-> table.segs \o FlattenSeq([i \in DOMAIN pieces |-> Added(pieces[i]).segs]),
      total |-> Max({table.total} \cup {Added(p).total : p \in ToSet(pieces)})]

Truncate(table, bytes) ==
  LET Cut(s) == IF s.start < bytes THEN <<[s EXCEPT !.end = Least(@, bytes)]>> ELSE <<>>
  IN [segs |-> FlattenSeq([i \in DOMAIN table.segs |-> Cut(table.segs[i])]), total |-> bytes]

\* Whether segment s continues segment c, on the virtual disk and on the volume.
Continues(c, s) ==
  /\ c.end = s.start
  /\ c.physical + (c.end - c.start) = s.physical

\* sort_by_key: segments with the same start keep their order.
SortByStart(segs) ==
  LET Earlier(i, j) == \/ segs[i].start < segs[j].start
                       \/ segs[i].start = segs[j].start /\ i < j
      Rank(i) == Cardinality({j \in DOMAIN segs : Earlier(j, i)}) + 1
  IN [k \in DOMAIN segs |-> segs[CHOOSE i \in DOMAIN segs : Rank(i) = k]]

Join(done, s) ==
  IF Continues(Last(done), s)
    THEN [done EXCEPT ![Len(done)] = [@ EXCEPT !.end = s.end]]
    ELSE Append(done, s)

Optimize(table) ==
  LET sorted == SortByStart(table.segs)
      Joined[n \in DOMAIN sorted] ==
        IF n = 1 THEN <<sorted[1]>> ELSE Join(Joined[n - 1], sorted[n])
  IN IF Len(table.segs) <= 1 THEN table
     ELSE [table EXCEPT !.segs = Joined[Len(sorted)]]

\* An extent is in blocks of the volume: where in the file, where on the volume.
FromFileExtents(extents, bytes) ==
  Truncate(AddSegments(Empty,
             [i \in DOMAIN extents |->
               [start |-> extents[i].file * PhysicalBlock,
                count |-> extents[i].blocks * PhysicalBlock,
                physical |-> extents[i].lba * PhysicalBlock]]),
           bytes)

\* VirtualBlockIo::new: one run of whole virtual blocks from a start LBA.
Contiguous(lba, bytes, block) ==
  AddSegment(Empty, 0, DivUp(bytes, block) * block, lba * PhysicalBlock)

-----------------------------------------------------------------------------
\* Reads

(***************************************************************************)
(* The mapped pieces of a range of the virtual disk.  The first segment    *)
(* that contains a byte counts; a hole is skipped to the next segment.     *)
(* The code joins pieces that continue each other, which changes no byte.  *)
(***************************************************************************)
TranslateRangeSparse(table, at, count) ==
  LET end == at + count
      From[cur \in Nat] ==
        LET hits == {i \in DOMAIN table.segs :
                       cur \in table.segs[i].start .. (table.segs[i].end - 1)}
            seg == table.segs[Min(hits)]
            stop == Least(end, seg.end)
            later == {s.start : s \in {r \in ToSet(table.segs) : r.start > cur}}
        IN IF cur >= end THEN <<>>
           ELSE IF hits = {} THEN From[Min(later \cup {end})]
           ELSE <<[dst |-> cur - at, physical |-> seg.physical + (cur - seg.start),
                   count |-> stop - cur]>> \o From[stop]
  IN From[at]

BlocksOf(piece) ==
  (piece.physical \div PhysicalBlock)
    .. ((piece.physical + piece.count - 1) \div PhysicalBlock)

\* The overlay that shows at an offset: they are copied over the buffer in order.
OverlayAt(overlays, offset) ==
  Max({0} \cup {i \in DOMAIN overlays :
         offset \in overlays[i].at .. (overlays[i].at + Len(overlays[i].data) - 1)})

(***************************************************************************)
(* read_virtual_bytes.  vbio is a VirtualBlockIo: table, size (iso_size),  *)
(* block (block_size), overlays, and blocks, the length of the source      *)
(* volume, or NoDevice for the reader that returns zeros.                  *)
(***************************************************************************)
NoDevice == -1

ReadVirtualBytes(vbio, at, count) ==
  LET readable == Least(vbio.size - at, count)
      pieces == ToSet(TranslateRangeSparse(vbio.table, at, readable))
      touched == UNION {BlocksOf(p) : p \in pieces}
      Stored(k) ==
        LET p == {q \in pieces : k \in q.dst .. (q.dst + q.count - 1)}
        IN IF p = {} \/ vbio.blocks = NoDevice THEN Zero
           ELSE LET q == CHOOSE q \in p : TRUE IN q.physical + (k - q.dst)
      Byte(k) ==
        LET o == IF k < readable THEN OverlayAt(vbio.overlays, at + k) ELSE 0
        IN IF o > 0 THEN vbio.overlays[o].data[at + k - vbio.overlays[o].at + 1]
           ELSE Stored(k)
      Answer(status, data, blocks) ==
        [status |-> status, data |-> data, touched |-> blocks]
  IN IF at >= vbio.size THEN Answer("Success", [k \in 1 .. count |-> Zero], {})
     ELSE IF at + readable > vbio.table.total THEN Answer("InvalidMapping", <<>>, {})
     ELSE IF vbio.blocks = NoDevice
       THEN Answer("Success", [k \in 1 .. count |-> Byte(k - 1)], {})
     ELSE IF \E b \in touched : b >= vbio.blocks THEN Answer("OutOfBounds", <<>>, touched)
     ELSE Answer("Success", [k \in 1 .. count |-> Byte(k - 1)], touched)

Refuse(status) == [status |-> status, data |-> <<>>, touched |-> {}]

\* read_bytes behind ReadDisk: any offset and length, checked against the size.
ReadBytes(vbio, sameMedia, at, count) ==
  IF count = 0 THEN Refuse("Success")
  ELSE IF ~sameMedia THEN Refuse("MediaChanged")
  ELSE IF at + count > vbio.size THEN Refuse("OutOfBounds")
  ELSE ReadVirtualBytes(vbio, at, count)

\* read_blocks behind ReadBlocks: whole virtual blocks, the last one may be short.
ReadBlocks(vbio, sameMedia, lba, count) ==
  IF count = 0 THEN Refuse("Success")
  ELSE IF count % vbio.block # 0 THEN Refuse("BadBufferSize")
  ELSE IF ~sameMedia THEN Refuse("MediaChanged")
  ELSE IF lba + (count \div vbio.block) > DivUp(vbio.size, vbio.block)
    THEN Refuse("OutOfBounds")
  ELSE ReadVirtualBytes(vbio, lba * vbio.block, count)

\* write_blocks behind WriteBlocks and WriteDisk: the device is read-only.
WriteBlocks(count) ==
  IF count = 0 THEN Refuse("Success") ELSE Refuse("WriteProtected")
=============================================================================
