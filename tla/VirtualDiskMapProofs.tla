------------------------- MODULE VirtualDiskMapProofs -------------------------
(***************************************************************************)
(* What the mapping operators of VirtualDisk compute, for every file, table*)
(* and chain of parents: the pieces made for a block stay in the block and *)
(* on the volume, and lead to the bytes of the image.                      *)
(***************************************************************************)
EXTENDS VirtualDisk, ByteMapProofs

---------------------------------------------------------------------------
(***************************************************************************)
(* From ranges of a file to the volume.                                    *)
(***************************************************************************)
Device == DeviceBlocks * PhysicalBlock

\* The constants, from DiskAssumption.
LEMMA ConstantTypes ==
  /\ PhysicalBlock \in Nat /\ PhysicalBlock > 0 /\ DeviceBlocks \in Nat /\ Device \in Nat
  /\ IsoSector \in Nat /\ IsoSector > 0 /\ ChunkRatio \in Nat /\ ChunkRatio > 0
  /\ VhdBitmap \in Nat
<1>1. /\ PhysicalBlock \in Nat /\ PhysicalBlock > 0 /\ DeviceBlocks \in Nat
      /\ IsoSector \in Nat /\ IsoSector > 0 /\ ChunkRatio \in Nat /\ ChunkRatio > 0
      /\ VhdBitmap \in Nat
  BY DiskAssumption
<1> QED BY <1>1 DEF Device

\* The byte x of a file lies in extent e.
InExtent(e, x) == e.file * PhysicalBlock <= x /\ x < (e.file + e.blocks) * PhysicalBlock
ExtentAddress(e, x) == e.lba * PhysicalBlock + (x - e.file * PhysicalBlock)

\* The extents of a file lead to its bytes.
LEMMA ExtentFacts ==
  ASSUME NEW f, SoundFile(f), NEW e \in ToSet(f.extents)
  PROVE  /\ e.file \in Nat /\ e.lba \in Nat /\ e.blocks \in Nat
         /\ e.file * PhysicalBlock \in Nat /\ e.lba * PhysicalBlock \in Nat
         /\ e.blocks * PhysicalBlock \in Nat
         /\ (e.file + e.blocks) * PhysicalBlock = e.file * PhysicalBlock + e.blocks * PhysicalBlock
         /\ \A x \in Nat : InExtent(e, x) =>
              /\ StoredAt(f, x) = ExtentAddress(e, x)
              /\ StoredAt(f, x) \in Nat /\ StoredAt(f, x) < Device
<1>1. f.extents \in Seq(Extent)
  BY DEF SoundFile
<1>2. e \in Extent
  BY <1>1, ToSetElements
<1>3. e.file \in Nat /\ e.lba \in Nat /\ e.blocks \in Nat /\ PhysicalBlock \in Nat /\ DeviceBlocks \in Nat
  BY <1>2, ConstantTypes DEF Extent
<1>4. /\ e.file * PhysicalBlock \in Nat /\ e.lba * PhysicalBlock \in Nat
      /\ e.blocks * PhysicalBlock \in Nat
      /\ (e.file + e.blocks) * PhysicalBlock = e.file * PhysicalBlock + e.blocks * PhysicalBlock
      /\ (e.lba + e.blocks) * PhysicalBlock = e.lba * PhysicalBlock + e.blocks * PhysicalBlock
  BY <1>3
<1>5. e.lba + e.blocks <= DeviceBlocks
      /\ \A x \in BytesOf(e) : StoredAt(f, x) = e.lba * PhysicalBlock + (x - e.file * PhysicalBlock)
  BY DEF SoundFile
<1>6. (e.lba + e.blocks) * PhysicalBlock <= Device /\ Device \in Nat
  BY <1>3, <1>5, Monotone DEF Device
<1>7. ASSUME NEW x \in Nat, InExtent(e, x)
      PROVE  /\ StoredAt(f, x) = ExtentAddress(e, x)
             /\ StoredAt(f, x) \in Nat /\ StoredAt(f, x) < Device
  <2>1. x \in BytesOf(e)
    BY <1>4, <1>7 DEF InExtent, BytesOf
  <2>2. StoredAt(f, x) = e.lba * PhysicalBlock + (x - e.file * PhysicalBlock)
    BY <1>5, <2>1
  <2>3. e.file * PhysicalBlock <= x /\ x < e.file * PhysicalBlock + e.blocks * PhysicalBlock
    BY <1>4, <1>7 DEF InExtent
  <2>4. StoredAt(f, x) \in Nat /\ StoredAt(f, x) < Device
    BY <1>4, <1>6, <2>2, <2>3
  <2> QED BY <2>2, <2>4 DEF ExtentAddress
<1> QED BY <1>3, <1>4, <1>7

\* One step of map_image_file_range_to_physical: the extent with the byte at the
\* cursor, and the piece that is read from it.
ExtentHits(f, cur) ==
  {i \in 1 .. Len(f.extents) :
     cur \in (f.extents[i].file * PhysicalBlock)
               .. ((f.extents[i].file + f.extents[i].blocks) * PhysicalBlock - 1)}
ExtentAt(f, cur) == IF ExtentHits(f, cur) # {} THEN Min(ExtentHits(f, cur)) ELSE 0
ExtentStop(f, end, cur) ==
  Least(end, (f.extents[ExtentAt(f, cur)].file + f.extents[ExtentAt(f, cur)].blocks) * PhysicalBlock)
ExtentPiece(f, start, offset, end, cur) ==
  [start |-> start + (cur - offset),
   count |-> ExtentStop(f, end, cur) - cur,
   physical |-> f.extents[ExtentAt(f, cur)].lba * PhysicalBlock
                + (cur - f.extents[ExtentAt(f, cur)].file * PhysicalBlock)]

IsFileWalk(g, f, start, offset, end) ==
  g = [cur \in Nat |->
        IF cur >= end THEN Nothing
        ELSE IF ExtentAt(f, cur) = 0 THEN Unmapped
        ELSE Both(Pieces(TRUE, <<ExtentPiece(f, start, offset, end, cur)>>),
                  g[ExtentStop(f, end, cur)])]

\* map_image_file_range_to_physical is the walk IsFileWalk describes.
LEMMA FileIsWalk ==
  ASSUME NEW f, NEW start, NEW offset, NEW count
  PROVE  FilePieces(f, start, offset, count)
           = (CHOOSE g : IsFileWalk(g, f, start, offset, offset + count))[offset]
  BY Zenon DEF FilePieces, IsFileWalk, ExtentAt, ExtentHits, ExtentStop, ExtentPiece, SelectInSeq

\* Every turn of that loop stays in one extent and moves on.
LEMMA ExtentAdvances ==
  ASSUME NEW f, SoundFile(f), NEW end \in Nat, NEW cur \in Nat, cur < end, ExtentAt(f, cur) # 0
  PROVE  LET hit == f.extents[ExtentAt(f, cur)]
         IN /\ hit \in ToSet(f.extents) /\ InExtent(hit, cur)
            /\ ExtentStop(f, end, cur) \in Nat /\ cur < ExtentStop(f, end, cur)
            /\ ExtentStop(f, end, cur) <= end
            /\ ExtentStop(f, end, cur) <= (hit.file + hit.blocks) * PhysicalBlock
<1> DEFINE H == ExtentHits(f, cur)
           i == ExtentAt(f, cur)
           hit == f.extents[i]
<1>1. f.extents \in Seq(Extent)
  BY DEF SoundFile
<1>2. H # {} /\ i = Min(H)
  BY DEF ExtentAt
<1>3. H \in SUBSET Nat
  BY DEF ExtentHits
<1>4. i \in H
  <2> HIDE DEF H
  <2> QED BY <1>2, <1>3, MinOfNaturals
<1>5. i \in DOMAIN f.extents
      /\ cur \in (hit.file * PhysicalBlock) .. ((hit.file + hit.blocks) * PhysicalBlock - 1)
  BY <1>1, <1>4 DEF ExtentHits
<1>6. hit \in ToSet(f.extents)
  BY <1>5 DEF ToSet
<1> DEFINE stop == (hit.file + hit.blocks) * PhysicalBlock
<1>7. ExtentStop(f, end, cur) = Least(end, stop)
  BY DEF ExtentStop
<1> HIDE DEF H, i, hit
<1>8. hit.file * PhysicalBlock \in Nat /\ stop \in Nat
  BY <1>6, ExtentFacts
<1> HIDE DEF stop
<1>9. hit.file * PhysicalBlock <= cur /\ cur < stop
  BY <1>5, <1>8 DEF stop
<1>10. Least(end, stop) \in Nat /\ cur < Least(end, stop) /\ Least(end, stop) <= end
       /\ Least(end, stop) <= stop
  BY <1>8, <1>9, LeastOfTwo
<1>11. InExtent(hit, cur)
  BY <1>9 DEF InExtent, stop
<1> QED BY <1>6, <1>7, <1>10, <1>11 DEF hit, i, stop

Results == [ok : BOOLEAN, pieces : Seq([start : Int, count : Int, physical : Int])]

\* The loop defines a function.
LEMMA FileWalkExists ==
  ASSUME NEW f, SoundFile(f), NEW start \in Nat, NEW offset \in Nat, NEW end \in Nat
  PROVE  \E g : IsFileWalk(g, f, start, offset, end)
<1> DEFINE next == [cur \in Nat |-> IF cur >= end \/ ExtentAt(f, cur) = 0 THEN cur + 1
                                    ELSE ExtentStop(f, end, cur)]
           Piece1(cur) == Pieces(TRUE, <<ExtentPiece(f, start, offset, end, cur)>>)
           Add(cur, x) == IF cur >= end THEN x ELSE IF ExtentAt(f, cur) = 0 THEN Unmapped
                          ELSE Both(Piece1(cur), x)
           comb == [cur \in Nat |-> [x \in Results |-> Add(cur, x)]]
<1>1. next \in [Nat -> Nat] /\ \A cur \in Nat : next[cur] > cur
  <2>1. \A cur \in Nat : ~(cur >= end \/ ExtentAt(f, cur) = 0) =>
          ExtentStop(f, end, cur) \in Nat /\ ExtentStop(f, end, cur) > cur
    BY ExtentAdvances
  <2> QED BY <2>1
<1>2. Nothing \in Results /\ Unmapped \in Results
  BY DEF Nothing, Unmapped, Results, Pieces
<1>3. ASSUME NEW cur \in Nat, NEW x \in Results PROVE Add(cur, x) \in Results
  <2>1. CASE cur >= end \/ ExtentAt(f, cur) = 0
    BY <1>2, <2>1
  <2>2. CASE ~(cur >= end \/ ExtentAt(f, cur) = 0)
    <3> DEFINE hit == f.extents[ExtentAt(f, cur)]
               p == ExtentPiece(f, start, offset, end, cur)
               T == [start : Int, count : Int, physical : Int]
    <3>1. hit \in ToSet(f.extents) /\ ExtentStop(f, end, cur) \in Nat
      BY <2>2, ExtentAdvances
    <3>2. hit.file * PhysicalBlock \in Nat /\ hit.lba * PhysicalBlock \in Nat
      BY <3>1, ExtentFacts
    <3>3. p \in T
      BY <3>1, <3>2 DEF ExtentPiece
    <3>4. Add(cur, x) = Both(Piece1(cur), x)
      BY <2>2
    <3>5. Both(Piece1(cur), x) = [ok |-> TRUE /\ x.ok, pieces |-> <<p>> \o x.pieces]
      BY DEF Both, Pieces
    <3>6. x.ok \in BOOLEAN /\ x.pieces \in Seq(T)
      BY DEF Results
    <3> HIDE DEF p, T, Add
    <3>7. <<p>> \o x.pieces \in Seq(T)
      BY <3>3, <3>6, Prepended
    <3>8. Both(Piece1(cur), x) \in Results
      <4>1. (TRUE /\ x.ok) \in BOOLEAN
        BY <3>6
      <4> HIDE DEF Piece1
      <4> QED BY <3>5, <3>7, <4>1 DEF Results, T
    <3> QED BY <3>4, <3>8
  <2> QED BY <2>1, <2>2
<1> HIDE DEF Add
<1>4. comb \in [Nat -> [Results -> Results]]
  BY <1>3
<1>5. \A cur \in Nat : \A x \in Results : comb[cur][x] = Add(cur, x)
  OBVIOUS
<1>6. \A cur \in Nat : ~(cur >= end \/ ExtentAt(f, cur) = 0) => next[cur] = ExtentStop(f, end, cur)
  OBVIOUS
<1> HIDE DEF next, comb, Piece1
<1>7. PICK g \in [Nat -> Results] : IsWalk(g, end, next, Nothing, comb)
  BY <1>1, <1>2, <1>4, WalkExists
<1>8. ASSUME NEW cur \in Nat
      PROVE  g[cur] = IF cur >= end THEN Nothing
                      ELSE IF ExtentAt(f, cur) = 0 THEN Unmapped
                      ELSE Both(Piece1(cur), g[ExtentStop(f, end, cur)])
  <2>1. CASE cur >= end
    BY <1>7, <2>1 DEF IsWalk
  <2>2. CASE ~(cur >= end)
    <3>1. g[cur] = comb[cur][g[next[cur]]] /\ next[cur] \in Nat /\ g[next[cur]] \in Results
      BY <1>1, <1>7, <2>2 DEF IsWalk
    <3>2. g[cur] = Add(cur, g[next[cur]])
      BY <1>5, <3>1
    <3> QED BY <1>6, <2>2, <3>2, Zenon DEF Add
  <2> QED BY <2>1, <2>2
<1>9. IsFileWalk(g, f, start, offset, end)
  BY <1>8 DEF IsFileWalk, Piece1
<1> QED BY <1>9

\* The pieces of a file range from byte cur on: each byte where the file has
\* it, and no byte of the range is left out.
FileFits(pieces, f, start, offset, end, cur) ==
  /\ pieces \in Seq(Piece)
  /\ \A p \in ToSet(pieces) : \A o \in Nat : \A a : PieceMaps(p, o, a) =>
       /\ start + (cur - offset) <= o /\ o < start + (end - offset)
       /\ a = StoredAt(f, offset + (o - start)) /\ a \in Nat /\ a < Device
  /\ \A o \in Nat : start + (cur - offset) <= o /\ o < start + (end - offset) =>
       \E p \in ToSet(pieces) : \E a : PieceMaps(p, o, a)

\* When all of a range of a file could be mapped, each of its bytes is mapped
\* to where the file has it.
LEMMA FilePiecesFit ==
  ASSUME NEW f, SoundFile(f), NEW start \in Nat, NEW offset \in Nat, NEW count \in Nat,
         FilePieces(f, start, offset, count).ok
  PROVE  FileFits(FilePieces(f, start, offset, count).pieces, f, start, offset,
                  offset + count, offset)
<1> DEFINE end == offset + count
           walk == CHOOSE g : IsFileWalk(g, f, start, offset, end)
           Good(cur) == walk[cur].ok => FileFits(walk[cur].pieces, f, start, offset, end, cur)
<1>0. end \in Nat
  OBVIOUS
<1>1. IsFileWalk(walk, f, start, offset, end)
  <2>1. \E g : IsFileWalk(g, f, start, offset, end)
    BY <1>0, FileWalkExists
  <2> QED BY <2>1
<1>2. FilePieces(f, start, offset, count) = walk[offset]
  BY FileIsWalk
<1> HIDE DEF walk
<1>3. \A cur \in Nat :
        walk[cur] = IF cur >= end THEN Nothing
                    ELSE IF ExtentAt(f, cur) = 0 THEN Unmapped
                    ELSE Both(Pieces(TRUE, <<ExtentPiece(f, start, offset, end, cur)>>),
                              walk[ExtentStop(f, end, cur)])
  BY <1>1, Zenon DEF IsFileWalk
<1> HIDE DEF end
<1>4. ASSUME NEW cur \in Nat, cur >= end PROVE Good(cur)
  <2>1. walk[cur].pieces = <<>>
    <3>1. walk[cur] = Nothing
      BY <1>3, <1>4, Zenon
    <3> QED BY <3>1 DEF Nothing, Pieces
  <2>2. <<>> \in Seq(Piece) /\ ToSet(<<>>) = {}
    BY DEF ToSet
  <2>3. \A o \in Nat : ~(start + (cur - offset) <= o /\ o < start + (end - offset))
    BY <1>0, <1>4
  <2> QED BY <2>1, <2>2, <2>3 DEF FileFits
<1>5. ASSUME NEW cur \in Nat, ~(cur >= end), offset <= cur, ExtentAt(f, cur) # 0,
             Good(ExtentStop(f, end, cur)), walk[cur].ok
      PROVE  FileFits(walk[cur].pieces, f, start, offset, end, cur)
  <2> DEFINE nxt == ExtentStop(f, end, cur)
             hit == f.extents[ExtentAt(f, cur)]
             p == ExtentPiece(f, start, offset, end, cur)
             rest == walk[nxt].pieces
  <2>1. walk[cur] = Both(Pieces(TRUE, <<p>>), walk[nxt])
    BY <1>3, <1>5, Zenon
  <2>2. walk[nxt].ok /\ walk[cur].pieces = <<p>> \o rest
    <3>1. \A r : Both(Pieces(TRUE, <<p>>), r).ok = (TRUE /\ r.ok)
                 /\ Both(Pieces(TRUE, <<p>>), r).pieces = <<p>> \o r.pieces
      BY DEF Both, Pieces
    <3>2. walk[cur].ok
      BY <1>5
    <3> QED BY <2>1, <3>1, <3>2
  <2>3. /\ hit \in ToSet(f.extents) /\ InExtent(hit, cur) /\ nxt \in Nat /\ cur < nxt /\ nxt <= end
        /\ nxt <= (hit.file + hit.blocks) * PhysicalBlock
    BY <1>0, <1>5, ExtentAdvances
  <2>4. /\ hit.file * PhysicalBlock \in Nat /\ hit.lba * PhysicalBlock \in Nat
        /\ (hit.file + hit.blocks) * PhysicalBlock \in Nat
    BY <2>3, ExtentFacts
  <2>5. /\ p.start = start + (cur - offset) /\ p.count = nxt - cur
        /\ p.physical = hit.lba * PhysicalBlock + (cur - hit.file * PhysicalBlock)
        /\ p = [start |-> p.start, count |-> p.count, physical |-> p.physical]
    BY DEF ExtentPiece
  <2> HIDE DEF p, nxt
  <2>6. FileFits(rest, f, start, offset, end, nxt)
    BY <1>5, <2>2 DEF nxt
  <2> HIDE DEF hit, rest
  <2>7. hit.file * PhysicalBlock <= cur
    BY <2>3 DEF InExtent
  <2>8. p.start \in Nat /\ p.count \in Nat /\ p.physical \in Nat
    BY <1>0, <1>5, <2>3, <2>4, <2>5, <2>7
  <2>9. p \in Piece
    BY <2>5, <2>8 DEF Piece
  <2>10. <<p>> \o rest \in Seq(Piece) /\ ToSet(<<p>> \o rest) = {p} \cup ToSet(rest)
    <3>1. rest \in Seq(Piece)
      BY <2>6 DEF FileFits
    <3> QED BY <2>9, <3>1, Prepended
  <2>11. ASSUME NEW o \in Nat, NEW a, PieceMaps(p, o, a)
         PROVE  /\ start + (cur - offset) <= o /\ o < start + (end - offset)
                /\ a = StoredAt(f, offset + (o - start)) /\ a \in Nat /\ a < Device
    <3> DEFINE x == offset + (o - start)
    <3>1. p.start <= o /\ o < p.start + p.count /\ a = p.physical + (o - p.start)
      BY <2>11 DEF PieceMaps
    <3>2. x \in Nat /\ cur <= x /\ x < nxt
      BY <1>5, <2>3, <2>5, <2>8, <3>1
    <3>3. InExtent(hit, x)
      BY <2>3, <2>4, <2>7, <3>2 DEF InExtent
    <3>4. a = hit.lba * PhysicalBlock + (x - hit.file * PhysicalBlock)
      BY <2>4, <2>5, <3>1
    <3>5. o < start + (end - offset) /\ start + (cur - offset) <= o
      BY <1>0, <2>3, <2>5, <3>1, <3>2
    <3> HIDE DEF x
    <3>6. StoredAt(f, x) = a /\ a \in Nat /\ a < Device
      BY <2>3, <3>2, <3>3, <3>4, ExtentFacts DEF ExtentAddress
    <3> QED BY <3>5, <3>6 DEF x
  <2>12. ASSUME NEW o \in Nat, start + (cur - offset) <= o, o < start + (end - offset)
         PROVE  \E q \in {p} \cup ToSet(rest) : \E a : PieceMaps(q, o, a)
    <3>1. CASE o < p.start + p.count
      <4>1. PieceMaps(p, o, p.physical + (o - p.start))
        BY <2>5, <2>12, <3>1 DEF PieceMaps
      <4> QED BY <4>1
    <3>2. CASE ~(o < p.start + p.count)
      <4>1. start + (nxt - offset) <= o
        BY <2>3, <2>5, <2>8, <3>2
      <4> QED BY <2>6, <2>12, <4>1 DEF FileFits
    <3> QED BY <3>1, <3>2
  <2>13. ASSUME NEW q \in ToSet(rest), NEW o \in Nat, NEW a, PieceMaps(q, o, a)
         PROVE  /\ start + (cur - offset) <= o /\ o < start + (end - offset)
                /\ a = StoredAt(f, offset + (o - start)) /\ a \in Nat /\ a < Device
    <3>1. /\ start + (nxt - offset) <= o /\ o < start + (end - offset)
          /\ a = StoredAt(f, offset + (o - start)) /\ a \in Nat /\ a < Device
      BY <2>6, <2>13 DEF FileFits
    <3>2. start + (cur - offset) <= start + (nxt - offset)
      BY <2>3
    <3>3. start + (cur - offset) <= o
      BY <2>3, <3>1, <3>2
    <3> QED BY <3>1, <3>3
  <2> QED BY <2>2, <2>10, <2>11, <2>12, <2>13 DEF FileFits
<1> DEFINE S == {cur \in Nat : offset <= cur => Good(cur)}
<1>7. ASSUME NEW cur \in Nat, cur < end => \A c \in Nat : c > cur => c \in S
      PROVE  cur \in S
  <2> SUFFICES ASSUME offset <= cur, walk[cur].ok
               PROVE  FileFits(walk[cur].pieces, f, start, offset, end, cur)
    OBVIOUS
  <2>1. CASE cur >= end
    BY <1>4, <2>1
  <2>2. CASE ~(cur >= end)
    <3>1. ExtentAt(f, cur) # 0
      <4> SUFFICES ASSUME ExtentAt(f, cur) = 0 PROVE FALSE
        OBVIOUS
      <4>1. walk[cur] = Unmapped
        BY <1>3, <2>2, Zenon
      <4>2. ~Unmapped.ok
        BY DEF Unmapped, Pieces
      <4> QED BY <4>1, <4>2
    <3>2. cur < end
      BY <1>0, <2>2
    <3>3. ExtentStop(f, end, cur) \in Nat /\ ExtentStop(f, end, cur) > cur
      BY <1>0, <3>1, <3>2, ExtentAdvances
    <3> HIDE DEF Good
    <3>4. Good(ExtentStop(f, end, cur))
      BY <1>7, <3>2, <3>3
    <3> QED BY <1>5, <2>2, <3>1, <3>4
  <2> QED BY <2>1, <2>2
<1> HIDE DEF S
<1>8. Nat \subseteq S
  BY <1>0, <1>7, DownInduction
<1>9. Good(offset)
  <2>1. offset \in S
    BY <1>8
  <2> QED BY <2>1 DEF S
<1> QED BY <1>2, <1>9 DEF end

---------------------------------------------------------------------------
(***************************************************************************)
(* The tables of an image.  payload_bat_index and bitmap_bit_present       *)
(* compute positions; the references count.                                *)
(***************************************************************************)
LEMMA NextQuotient ==
  ASSUME NEW m \in Nat, NEW q \in Nat, q > 1
  PROVE  (m + 1) \div q = IF (m + 1) % q = 0 THEN m \div q + 1 ELSE m \div q
<1> DEFINE d == m \div q
<1>1. d \in Nat /\ d * q \in Nat /\ (d + 1) * q = d * q + q /\ d * q <= m /\ m < d * q + q
  BY DivFacts
<1> HIDE DEF d
<1>2. CASE m + 1 < d * q + q
  <2>1. (m + 1) \div q = d /\ (m + 1) % q = (m + 1) - d * q
    BY <1>1, <1>2, DivRange
  <2>2. (m + 1) % q # 0
    BY <1>1, <2>1
  <2> QED BY <2>1, <2>2 DEF d
<1>3. CASE ~(m + 1 < d * q + q)
  <2>1. m + 1 = (d + 1) * q
    BY <1>1, <1>3
  <2>2. d + 1 \in Nat /\ (d + 1) * q <= m + 1 /\ ((d + 1) + 1) * q = (d + 1) * q + q
    BY <1>1, <2>1
  <2>3. (m + 1) \div q = d + 1 /\ (m + 1) % q = (m + 1) - (d + 1) * q
    BY <1>1, <2>1, <2>2, DivRange
  <2> QED BY <2>1, <2>3 DEF d
<1> QED BY <1>2, <1>3

\* The numbers up to m that q does not divide.
LEMMA CountUndivided ==
  ASSUME NEW q \in Nat, q > 1, NEW m \in Nat
  PROVE  /\ IsFiniteSet({j \in 1 .. m : j % q # 0})
         /\ Cardinality({j \in 1 .. m : j % q # 0}) = m - m \div q
<1> DEFINE U(n) == {j \in 1 .. n : j % q # 0}
           Good(n) == IsFiniteSet(U(n)) /\ Cardinality(U(n)) = n - n \div q
           S == {n \in Nat : Good(n)}
<1>1. Good(0)
  <2>1. U(0) = {}
    OBVIOUS
  <2>2. 0 \div q = 0
    OBVIOUS
  <2> QED BY <2>1, <2>2, FS_EmptySet
<1>2. ASSUME NEW n \in Nat, Good(n) PROVE Good(n + 1)
  <2>0. n \div q \in Nat
    BY DivFacts
  <2>1. CASE (n + 1) % q = 0
    <3>1. U(n + 1) = U(n)
      BY <2>1
    <3>2. (n + 1) \div q = n \div q + 1
      BY <2>1, NextQuotient
    <3>3. n - n \div q = (n + 1) - (n + 1) \div q
      BY <2>0, <3>2
    <3> HIDE DEF U
    <3> QED BY <1>2, <3>1, <3>3
  <2>2. CASE (n + 1) % q # 0
    <3>1. U(n + 1) = U(n) \cup {n + 1} /\ n + 1 \notin U(n)
      BY <2>2
    <3>2. (n + 1) \div q = n \div q
      BY <2>2, NextQuotient
    <3> HIDE DEF U
    <3>3. IsFiniteSet(U(n + 1)) /\ Cardinality(U(n + 1)) = Cardinality(U(n)) + 1
      BY <1>2, <3>1, FS_AddElement
    <3> QED BY <1>2, <2>0, <3>2, <3>3
  <2> QED BY <2>1, <2>2
<1> HIDE DEF Good
<1>3. Nat \subseteq S
  <2>1. 0 \in S /\ \A n \in Nat : n \in S => n + 1 \in S
    BY <1>1, <1>2
  <2> HIDE DEF S
  <2> QED BY <2>1, SetInduction
<1>4. Good(m)
  BY <1>3
<1> QED BY <1>4 DEF Good

\* A place of a set of numbers is told by the number of places before it.
Before(P, x) == {j \in P : j < x}

\* The number of smaller elements tells the elements of a set apart.
LEMMA CountIsInjective ==
  ASSUME NEW P \in SUBSET Nat, IsFiniteSet(P), NEW i \in P, NEW k \in P,
         Cardinality(Before(P, i)) = Cardinality(Before(P, k))
  PROVE  i = k
<1> DEFINE B(x) == Before(P, x)
<1>1. ASSUME NEW x \in P, NEW y \in P, x < y PROVE Cardinality(B(x)) # Cardinality(B(y))
  <2>0. x \in Nat /\ y \in Nat /\ \A j \in P : j \in Nat
    OBVIOUS
  <2>1. B(x) \in SUBSET B(y) /\ x \in B(y) /\ x \notin B(x) /\ B(y) \in SUBSET P
    <3>1. \A j \in P : j < x => j < y
      BY <1>1, <2>0
    <3>2. B(x) \in SUBSET B(y)
      BY <3>1 DEF Before
    <3>3. x \in B(y) /\ x \notin B(x)
      BY <1>1, <2>0 DEF Before
    <3>4. B(y) \in SUBSET P
      BY DEF Before
    <3> QED BY <3>2, <3>3, <3>4
  <2> HIDE DEF B
  <2>2. IsFiniteSet(B(y)) /\ B(x) # B(y)
    BY <2>1, FS_Subset
  <2> QED BY <2>1, <2>2, FS_Subset
<1> HIDE DEF B
<1>2. Cardinality(B(i)) = Cardinality(B(k)) /\ i \in Nat /\ k \in Nat
  BY DEF B
<1> QED BY <1>1, <1>2

\* The numbers in a sound file, and how many blocks it has.
LEMMA FileTypes ==
  ASSUME NEW f, SoundFile(f)
  PROVE  /\ f.size \in Nat /\ f.diskSize \in Nat /\ f.data \in Nat
         /\ f.sector \in Nat /\ f.sector > 0 /\ f.block \in Nat /\ f.block > 0
         /\ Blocks(f) \in Nat
         /\ \A b \in Nat : b < Blocks(f) <=> b * f.block < f.diskSize
<1>1. /\ f.size \in Nat /\ f.diskSize \in Nat /\ f.data \in Nat
      /\ f.sector \in Nat /\ f.sector > 0 /\ f.block \in Nat /\ f.block > 0
  BY DEF SoundFile
<1> QED BY <1>1, DivUpFacts DEF Blocks

\* The position of a payload entry among the entries and bitmap entries.
LEMMA PayloadPlace ==
  ASSUME NEW b \in Nat
  PROVE  LET i == b + b \div ChunkRatio
         IN /\ i \in Nat /\ i \div (ChunkRatio + 1) = b \div ChunkRatio
            /\ (i + 1) % (ChunkRatio + 1) # 0
<1> DEFINE R == ChunkRatio
           d == b \div R
           i == b + d
<1>0. R \in Nat /\ R > 0
  BY ConstantTypes
<1>1. d \in Nat /\ d * R \in Nat /\ (d + 1) * R = d * R + R /\ d * R <= b /\ b < d * R + R
  BY <1>0, DivFacts
<1> HIDE DEF d, R
<1>2. d * (R + 1) = d * R + d /\ (d + 1) * (R + 1) = d * R + d + R + 1
  BY <1>0, <1>1
<1>3. i \in Nat /\ i + 1 \in Nat /\ R + 1 \in Nat /\ R + 1 > 0
      /\ d * (R + 1) <= i /\ i < (d + 1) * (R + 1)
      /\ d * (R + 1) <= i + 1 /\ i + 1 < (d + 1) * (R + 1)
  BY <1>0, <1>1, <1>2
<1> HIDE DEF i
<1>4. i \div (R + 1) = d
  BY <1>1, <1>3, DivRange
<1>5. (i + 1) % (R + 1) = (i + 1) - d * (R + 1)
  BY <1>1, <1>3, DivRange
<1>6. (i + 1) - d * (R + 1) # 0
  BY <1>0, <1>1, <1>2 DEF i
<1> QED BY <1>3, <1>4, <1>5, <1>6 DEF i, d, R

\* payload_bat_index finds the entry of a block: the one counted off in the
\* table with the places of the sector bitmaps left out.
LEMMA EntryIsPayload ==
  ASSUME NEW f, SoundFile(f), f.format \in Layered, NEW b \in Nat, b < Blocks(f)
  PROVE  /\ EntryOf(f, b) = PayloadEntry(f, b)
         /\ PayloadEntry(f, b) \in [state : STRING, at : Nat]
<1> DEFINE places == {i \in DOMAIN f.bat : f.format = "vhdx" => i % (ChunkRatio + 1) # 0}
           At(i) == Cardinality(Before(places, i))
           n == PayloadIndex(f, b)
<1>1. f.bat \in Seq([state : STRING, at : Nat])
  BY DEF SoundFile
<1>2. b \in 0 .. (Blocks(f) - 1)
  BY FileTypes
<1>3. n < Len(f.bat)
  BY <1>2 DEF SoundFile
<1>4. n \in Nat /\ (f.format = "vhdx" => (n + 1) % (ChunkRatio + 1) # 0)
  BY PayloadPlace DEF PayloadIndex
<1>5. DOMAIN f.bat = 1 .. Len(f.bat) /\ Len(f.bat) \in Nat
  BY <1>1
<1>6. n + 1 \in DOMAIN f.bat
  BY <1>3, <1>4, <1>5
<1>7. n + 1 \in places
  BY <1>4, <1>6
<1>8. At(n + 1) = b
  <2>0. ChunkRatio \in Nat /\ ChunkRatio > 0
    BY ConstantTypes
  <2>1. CASE f.format = "vhdx"
    <3>1. n = b + b \div ChunkRatio
      BY <2>1 DEF PayloadIndex
    <3>2. Before(places, n + 1) = {j \in 1 .. n : j % (ChunkRatio + 1) # 0}
      BY <1>3, <1>4, <1>5, <2>1 DEF Before
    <3>3. Cardinality({j \in 1 .. n : j % (ChunkRatio + 1) # 0}) = n - n \div (ChunkRatio + 1)
      <4> HIDE DEF n
      <4>1. ChunkRatio + 1 \in Nat /\ ChunkRatio + 1 > 1
        BY <2>0
      <4> QED BY <1>4, <4>1, CountUndivided
    <3>4. n \div (ChunkRatio + 1) = b \div ChunkRatio
      BY <3>1, PayloadPlace
    <3>5. b \div ChunkRatio \in Nat
      BY <2>0, DivFacts
    <3>6. n - n \div (ChunkRatio + 1) = b
      BY <3>1, <3>4, <3>5
    <3> HIDE DEF n, places
    <3> QED BY <3>2, <3>3, <3>6
  <2>2. CASE f.format # "vhdx"
    <3>1. n = b
      BY <2>2 DEF PayloadIndex
    <3>2. Before(places, n + 1) = 1 .. n
      BY <1>3, <1>4, <1>5, <2>2 DEF Before
    <3>3. Cardinality(1 .. b) = b
      BY FS_Interval
    <3> QED BY <3>1, <3>2, <3>3
  <2> QED BY <2>1, <2>2
<1>9. places \in SUBSET Nat /\ IsFiniteSet(places)
  <2>1. places \in SUBSET DOMAIN f.bat /\ DOMAIN f.bat \in SUBSET Nat
    BY <1>5
  <2>2. IsFiniteSet(DOMAIN f.bat)
    BY <1>5, FS_Interval
  <2> HIDE DEF places
  <2> QED BY <2>1, <2>2, FS_Subset
<1>10. \A i \in places : At(i) = b => i = n + 1
  <2> SUFFICES ASSUME NEW i \in places, At(i) = b PROVE i = n + 1
    OBVIOUS
  <2>1. At(i) = At(n + 1)
    BY <1>8
  <2> HIDE DEF places
  <2>2. PICK k \in places : k = n + 1
    BY <1>7
  <2>3. Cardinality(Before(places, i)) = Cardinality(Before(places, k))
    BY <2>1, <2>2
  <2> HIDE DEF At, n
  <2>4. i = k
    BY <1>9, <2>3, CountIsInjective
  <2> QED BY <2>2, <2>4
<1>11. EntryOf(f, b) = f.bat[CHOOSE i \in places : At(i) = b]
  BY DEF EntryOf, Before
<1> HIDE DEF places, At
<1>12. (CHOOSE i \in places : At(i) = b) = n + 1
  BY <1>7, <1>8, <1>10
<1>13. EntryOf(f, b) = f.bat[n + 1] /\ f.bat[n + 1] \in [state : STRING, at : Nat]
  <2>1. f.bat[n + 1] \in [state : STRING, at : Nat]
    <3> DEFINE E == [state : STRING, at : Nat]
    <3>1. f.bat \in Seq(E)
      BY <1>1
    <3> HIDE DEF n, E
    <3>2. f.bat[n + 1] \in E
      BY <1>6, <3>1
    <3> QED BY <3>2 DEF E
  <2> QED BY <1>11, <1>12, <2>1
<1> QED BY <1>13 DEF PayloadEntry

\* bitmap_bit_present asks for the bit of the sector an offset lies in.
LEMMA BitIsSector ==
  ASSUME NEW f, SoundFile(f), f.format = "vhdx", NEW b \in Nat, NEW s \in Nat, NEW o \in Nat,
         b * f.block + s * f.sector <= o, o < b * f.block + (s + 1) * f.sector,
         o < (b + 1) * f.block
  PROVE  BitOf(f, o) <=> SectorPresent(f, b, s)
<1> DEFINE R == ChunkRatio
           k == f.block
           t == f.sector
           m == k \div t
           d == b \div R
           r == b % R
           x == o - b * k
           chunk == R * k
<1>0. R \in Nat /\ R > 0 /\ k \in Nat /\ k > 0 /\ t \in Nat /\ t > 0
  BY ConstantTypes, FileTypes
<1>1. m \in Nat /\ k = m * t
  <2>1. k % t = 0
    BY DEF SoundFile
  <2>2. k \div t \in Nat /\ (k \div t) * t \in Nat /\ k % t = k - (k \div t) * t
    BY <1>0, DivFacts
  <2>3. k = (k \div t) * t
    BY <1>0, <2>1, <2>2
  <2> QED BY <2>2, <2>3
<1>2. d \in Nat /\ r \in Nat /\ r < R /\ b = d * R + r
  BY <1>0, DivFacts
<1> HIDE DEF d, r, m, R, k, t
<1>3. x \in Nat /\ o = b * k + x /\ s * t <= x /\ x < (s + 1) * t /\ x < k
  BY <1>0 DEF k, t
<1>4. b * k = d * (R * k) + r * k /\ d * (R * k) \in Nat /\ r * k \in Nat
  BY <1>0, <1>2
<1>5. r * k + x < R * k /\ R * k \in Nat
  <2>1. (r + 1) * k <= R * k
    BY <1>0, <1>2, Monotone
  <2>2. (r + 1) * k = r * k + k
    BY <1>0, <1>2
  <2> QED BY <1>0, <1>2, <1>3, <1>4, <2>1, <2>2
<1> HIDE DEF x
<1>6. chunk \in Nat /\ chunk > 0 /\ d * chunk <= o /\ o < (d + 1) * chunk
      /\ o = d * chunk + (r * k + x)
  <2>1. (d + 1) * chunk = d * chunk + chunk
    BY <1>0, <1>2
  <2>2. chunk > 0
    BY <1>0
  <2> QED BY <1>3, <1>4, <1>5, <2>1, <2>2
<1> HIDE DEF chunk
<1>7. o \div chunk = d /\ o % chunk = r * k + x
  <2>1. d * chunk \in Nat /\ r * k + x \in Nat
    BY <1>2, <1>3, <1>4, <1>6
  <2> QED BY <1>2, <1>6, <2>1, DivRange
<1> DEFINE y == r * k + x
           w == r * m + s
<1>8. w \in Nat /\ w * t = r * k + s * t /\ (w + 1) * t = r * k + (s + 1) * t
  BY <1>0, <1>1, <1>2
<1>9. y \in Nat /\ w * t <= y /\ y < (w + 1) * t
  BY <1>0, <1>3, <1>4, <1>8
<1> HIDE DEF y, w
<1>10. y \div t = w
  BY <1>0, <1>8, <1>9, DivRange
<1>11. BitOf(f, o) <=> w \in f.bitmaps[d + 1]
  BY <1>7, <1>10 DEF BitOf, chunk, R, k, t, y
<1>12. SectorPresent(f, b, s) <=> w \in f.bitmaps[d + 1]
  BY DEF SectorPresent, w, r, m, k, t, d, R
<1> QED BY <1>11, <1>12

---------------------------------------------------------------------------
(***************************************************************************)
(* The bytes of an image, layer by layer.                                  *)
(***************************************************************************)
\* What layer d holds at offset o, and whether it asks the layer below.
LayerEntry(d, o) == EntryOf(Parent(d), o \div Parent(d).block)
OwnByte(d, o) == \/ LayerEntry(d, o).state = "present"
                 \/ LayerEntry(d, o).state = "partial" /\ BitOf(Parent(d), o)
AsksBelow(d, o) == /\ d <= Len(chain) /\ Parent(d).format \in Layered /\ ~OwnByte(d, o)
                   /\ Parent(d).differencing /\ LayerEntry(d, o).state # "zero"
LayerStep(below, d, o) ==
  IF d > Len(chain) THEN Missing
  ELSE IF Parent(d).format \notin Layered THEN StoredAt(Parent(d), o)
  ELSE IF OwnByte(d, o)
    THEN StoredAt(Parent(d), PayloadOffset(Parent(d), LayerEntry(d, o)) + (o % Parent(d).block))
  ELSE IF Parent(d).differencing /\ LayerEntry(d, o).state # "zero" THEN below
  ELSE Zero

IsLayers(g, o) == g = [d \in Nat |-> LayerStep(g[d + 1], d, o)]
LayerAt(d, o) == (CHOOSE g : IsLayers(g, o))[d]

\* The byte of the image is the byte seen from its first layer.
LEMMA ImageIsLayer ==
  ASSUME NEW o
  PROVE  ImageByte(o) = LayerAt(1, o)
  BY Zenon DEF ImageByte, LayerAt, IsLayers, LayerStep, OwnByte, LayerEntry

\* A layer shows its own byte, or what the layer below shows.
LEMMA LayerEquation ==
  ASSUME Len(chain) \in Nat, NEW o, NEW d \in Nat
  PROVE  LayerAt(d, o) = LayerStep(LayerAt(d + 1, o), d, o)
<1> DEFINE end == Len(chain) + 1
           V == {Zero} \cup {LayerStep(Zero, c, o) : c \in Nat}
           next == [c \in Nat |-> c + 1]
           Add(c, x) == IF AsksBelow(c, o) THEN x ELSE LayerStep(Zero, c, o)
           comb == [c \in Nat |-> [x \in V |-> Add(c, x)]]
<1>0. end \in Nat
  OBVIOUS
<1>1. next \in [Nat -> Nat] /\ \A c \in Nat : next[c] > c
  OBVIOUS
<1>2. Missing \in V
  <2>1. LayerStep(Zero, end, o) = Missing
    BY <1>0 DEF LayerStep
  <2> QED BY <1>0, <2>1
<1>3. \A c \in Nat : \A x \in V : Add(c, x) \in V
  OBVIOUS
<1> HIDE DEF V, Add
<1>4. comb \in [Nat -> [V -> V]]
  BY <1>3
<1>5. \A c \in Nat : \A x \in V : comb[c][x] = Add(c, x)
  OBVIOUS
<1>6. \A c \in Nat : next[c] = c + 1
  OBVIOUS
<1> HIDE DEF next, comb, end
<1>7. PICK g \in [Nat -> V] : IsWalk(g, end, next, Missing, comb)
  BY <1>0, <1>1, <1>2, <1>4, WalkExists
<1>8. ASSUME NEW c \in Nat PROVE g[c] = LayerStep(g[c + 1], c, o)
  <2>1. CASE c >= end
    <3>1. c > Len(chain)
      BY <2>1 DEF end
    <3>2. g[c] = Missing
      BY <1>7, <2>1 DEF IsWalk
    <3> QED BY <3>1, <3>2 DEF LayerStep
  <2>2. CASE ~(c >= end)
    <3>1. ~(c > Len(chain)) /\ c <= Len(chain)
      BY <2>2 DEF end
    <3>1a. c + 1 \in Nat /\ next[c] = c + 1
      BY <1>6
    <3>2. g[c] = comb[c][g[c + 1]] /\ g[c + 1] \in V
      BY <1>7, <2>2, <3>1a DEF IsWalk
    <3>3. g[c] = IF AsksBelow(c, o) THEN g[c + 1] ELSE LayerStep(Zero, c, o)
      BY <1>5, <3>2 DEF Add
    <3>4. CASE AsksBelow(c, o)
      BY <3>1, <3>3, <3>4, Zenon DEF AsksBelow, LayerStep
    <3>5. CASE ~AsksBelow(c, o)
      BY <3>1, <3>3, <3>5, Zenon DEF AsksBelow, LayerStep
    <3> QED BY <3>4, <3>5
  <2> QED BY <2>1, <2>2
<1>9. IsLayers(g, o)
  BY <1>8 DEF IsLayers
<1> DEFINE h == CHOOSE x : IsLayers(x, o)
<1>10. IsLayers(h, o)
  BY <1>9, Zenon
<1> HIDE DEF h
<1>11. h[d] = LayerStep(h[d + 1], d, o)
  BY <1>10, Zenon DEF IsLayers
<1> QED BY <1>11 DEF LayerAt, h

\* The volumes the planners are right about: no parent that has a parent
\* itself has a partial block.
PlainParents ==
  \A i \in 2 .. Len(chain) : Parent(i).differencing =>
    \A b \in 0 .. (Blocks(Parent(i)) - 1) : PayloadEntry(Parent(i), b).state # "partial"

\* The chain of images: each is a sound file of the format and size of the
\* first, and each but the last says it has a parent.
ChainOk ==
  /\ Len(chain) \in Nat /\ Len(chain) > 0 /\ chain[1] = image
  /\ \A i \in 1 .. Len(chain) :
       /\ SoundFile(Parent(i)) /\ Parent(i).diskSize = Top.diskSize
       /\ i > 1 => Parent(i).format \in Layered /\ Parent(i - 1).differencing

\* Pieces for the offsets in R, seen from layer d: inside R and on the volume,
\* each byte the layer's, and where there is none the layer holds zero.
Fits(pieces, d, R) ==
  /\ pieces \in Seq(Piece)
  /\ \A p \in ToSet(pieces) : \A o \in Nat : \A a : PieceMaps(p, o, a) =>
       o \in R /\ a \in Nat /\ a < Device /\ (PlainParents => a = LayerAt(d, o))
  /\ PlainParents => \A o \in R :
       LayerAt(d, o) = Zero \/ \E p \in ToSet(pieces) : \E a : PieceMaps(p, o, a)

\* No pieces are right where the layer holds zeros.
LEMMA NothingFits ==
  ASSUME NEW d, NEW R, PlainParents => \A o \in R : LayerAt(d, o) = Zero
  PROVE  Fits(Nothing.pieces, d, R)
<1>1. Nothing.pieces = <<>>
  BY DEF Nothing, Pieces
<1>2. <<>> \in Seq(Piece) /\ ToSet(<<>>) = {}
  BY DEF ToSet
<1> QED BY <1>1, <1>2 DEF Fits

\* Pieces right for a layer are right for one that shows the same bytes.
LEMMA BelowFits ==
  ASSUME NEW d, NEW c, NEW R \in SUBSET Nat, NEW pieces, Fits(pieces, c, R),
         PlainParents => \A o \in R : LayerAt(d, o) = LayerAt(c, o)
  PROVE  Fits(pieces, d, R)
  BY DEF Fits

\* The bytes of layer d from start on are those of file f from offset on.
Stretch(start, count) == {o \in Nat : start <= o /\ o < start + count}
Holds(d, f, start, offset, count) ==
  PlainParents => \A o \in Nat : start <= o /\ o < start + count =>
    LayerAt(d, o) = StoredAt(f, offset + (o - start))

\* Pieces of a file are right for a layer that shows the bytes of the file.
LEMMA FileFitsLayer ==
  ASSUME NEW d, NEW f, SoundFile(f), NEW start \in Nat, NEW offset \in Nat, NEW count \in Nat,
         FilePieces(f, start, offset, count).ok, Holds(d, f, start, offset, count)
  PROVE  Fits(FilePieces(f, start, offset, count).pieces, d, Stretch(start, count))
<1> DEFINE pieces == FilePieces(f, start, offset, count).pieces
           R == {o \in Nat : start <= o /\ o < start + count}
<1>1. FileFits(pieces, f, start, offset, offset + count, offset)
  BY FilePiecesFit
<1>2. start + (offset - offset) = start /\ start + ((offset + count) - offset) = start + count
  OBVIOUS
<1> HIDE DEF pieces
<1>3. /\ pieces \in Seq(Piece)
      /\ \A p \in ToSet(pieces) : \A o \in Nat : \A a : PieceMaps(p, o, a) =>
           /\ start <= o /\ o < start + count
           /\ a = StoredAt(f, offset + (o - start)) /\ a \in Nat /\ a < Device
      /\ \A o \in Nat : start <= o /\ o < start + count =>
           \E p \in ToSet(pieces) : \E a : PieceMaps(p, o, a)
  BY <1>1, <1>2 DEF FileFits
<1>4. Fits(pieces, d, R)
  BY <1>3 DEF Fits, Holds
<1> QED BY <1>4 DEF pieces, Stretch

\* Parts for several sets of offsets fit their union.
EachFits(parts, d, R, n) ==
  /\ parts = [i \in 1 .. n |-> parts[i]]
  /\ R \in [1 .. n -> SUBSET Nat]
  /\ \A i \in 1 .. n : parts[i].ok => Fits(parts[i].pieces, d, R[i])
Union(R, n) == UNION {R[i] : i \in 1 .. n}

\* Pieces right part by part are right together.
LEMMA AllFit ==
  ASSUME NEW d, NEW n \in Nat, NEW parts, All(parts).ok, NEW R, EachFits(parts, d, R, n)
  PROVE  Fits(All(parts).pieces, d, Union(R, n))
<1> DEFINE seqs == [i \in DOMAIN parts |-> parts[i].pieces]
           U == UNION {R[i] : i \in 1 .. n}
<1>0. /\ parts = [i \in 1 .. n |-> parts[i]] /\ R \in [1 .. n -> SUBSET Nat]
      /\ \A i \in 1 .. n : parts[i].ok => Fits(parts[i].pieces, d, R[i])
  BY DEF EachFits
<1>1. DOMAIN parts = 1 .. n
  BY <1>0
<1>2. (\A i \in DOMAIN parts : parts[i].ok) /\ All(parts).pieces = FlattenSeq(seqs)
  BY DEF All, Pieces
<1>3. \A i \in 1 .. n : Fits(parts[i].pieces, d, R[i])
  BY <1>0, <1>1, <1>2
<1>4. \A i \in 1 .. n : parts[i].pieces \in Seq(Piece)
  BY <1>3 DEF Fits
<1>5. seqs \in Seq(Seq(Piece)) /\ DOMAIN seqs = 1 .. n
      /\ \A i \in 1 .. n : seqs[i] = parts[i].pieces
  BY <1>1, <1>4
<1> HIDE DEF seqs
<1>6. FlattenSeq(seqs) \in Seq(Piece)
      /\ ToSet(FlattenSeq(seqs)) = UNION {ToSet(seqs[i]) : i \in DOMAIN seqs}
  BY <1>5, Flattened
<1> DEFINE all == FlattenSeq(seqs)
<1> HIDE DEF all, U
<1>7. ASSUME NEW p \in ToSet(all), NEW o \in Nat, NEW a, PieceMaps(p, o, a)
      PROVE  o \in U /\ a \in Nat /\ a < Device /\ (PlainParents => a = LayerAt(d, o))
  <2>1. PICK i \in 1 .. n : p \in ToSet(parts[i].pieces)
    BY <1>5, <1>6 DEF all
  <2>2. o \in R[i] /\ a \in Nat /\ a < Device /\ (PlainParents => a = LayerAt(d, o))
    BY <1>3, <1>7, <2>1 DEF Fits
  <2> QED BY <2>2 DEF U
<1>8. ASSUME PlainParents, NEW o \in U
      PROVE  LayerAt(d, o) = Zero \/ \E p \in ToSet(all) : \E a : PieceMaps(p, o, a)
  <2>1. PICK i \in 1 .. n : o \in R[i]
    BY DEF U
  <2>2. LayerAt(d, o) = Zero \/ \E p \in ToSet(parts[i].pieces) : \E a : PieceMaps(p, o, a)
    BY <1>3, <1>8, <2>1 DEF Fits
  <2>3. ToSet(parts[i].pieces) \subseteq ToSet(all)
    BY <1>5, <1>6 DEF all
  <2> QED BY <2>2, <2>3
<1>9. Fits(all, d, U)
  BY <1>6, <1>7, <1>8 DEF Fits, all
<1> QED BY <1>2, <1>9 DEF all, U, Union

---------------------------------------------------------------------------
(***************************************************************************)
(* Ranges of a parent.                                                     *)
(***************************************************************************)
\* map_parent_vhdx_range for a range s .. e of layer d: one block, all blocks.
SpanBlock(below, d, s, e, b) ==
  LET from == Max({s, BlockStart(Parent(d), b)})
      to == Least(e, BlockEnd(Parent(d), b))
      source == SpanSource(Parent(d), b)
      offset == PayloadOffset(Parent(d), PayloadEntry(Parent(d), b))
  IN IF from >= to \/ source = "zero" THEN Nothing
     ELSE IF source = "image"
       THEN FilePieces(Parent(d), from, offset + (from - BlockStart(Parent(d), b)), to - from)
     ELSE below[from][to]

SpanOf(below, d) ==
  [s \in Nat |-> [e \in Nat |->
     IF d > Len(chain) \/ ~Plannable(Parent(d)) THEN Unmapped
     ELSE All([i \in 1 .. Blocks(Parent(d)) |-> SpanBlock(below, d, s, e, i - 1)])]]

IsSpans(g) == g = [d \in Nat |-> SpanOf(g[d + 1], d)]
SpanAt(d) == (CHOOSE g : IsSpans(g))[d]

\* map_parent_vhdx_range and map_parent_vdi_range, one level at a time.
LEMMA ParentIsSpan ==
  ASSUME NEW depth, NEW start, NEW end
  PROVE  ParentPieces(depth, start, end) = SpanAt(depth)[start][end]
  BY Zenon DEF ParentPieces, SpanAt, IsSpans, SpanOf, SpanBlock

\* Past the last parent nothing depends on what lies below.
LEMMA SpanPastChain ==
  ASSUME Len(chain) \in Nat, NEW d \in Nat, d > Len(chain), NEW x, NEW y
  PROVE  SpanOf(x, d) = SpanOf(y, d)
  BY Zenon DEF SpanOf

\* A level maps its own blocks, or asks the level below.
LEMMA SpanEquation ==
  ASSUME Len(chain) \in Nat, NEW d \in Nat
  PROVE  SpanAt(d) = SpanOf(SpanAt(d + 1), d)
<1> DEFINE end == Len(chain) + 1
           From(g, c) == /\ g = [x \in Nat |-> g[x]]
                         /\ \A x \in Nat : x >= c => g[x] = SpanOf(g[x + 1], x)
           S == {c \in Nat : \E g : From(g, c)}
<1>0. end \in Nat
  OBVIOUS
<1>1. ASSUME NEW c \in Nat, c >= end PROVE c \in S
  <2> DEFINE g == [x \in Nat |-> SpanOf(Zero, x)]
  <2>1. ASSUME NEW x \in Nat, x >= c PROVE g[x] = SpanOf(g[x + 1], x)
    <3>1. x > Len(chain)
      BY <1>1, <2>1
    <3>2. g[x] = SpanOf(Zero, x)
      OBVIOUS
    <3> HIDE DEF g
    <3> QED BY <3>1, <3>2, SpanPastChain
  <2>2. g = [x \in Nat |-> g[x]]
    OBVIOUS
  <2> HIDE DEF g
  <2>3. From(g, c)
    BY <2>1, <2>2
  <2> QED BY <2>3
<1>2. ASSUME NEW c \in Nat, c + 1 \in S PROVE c \in S
  <2>1. PICK g : From(g, c + 1)
    BY <1>2
  <2> DEFINE h == [x \in Nat |-> IF x = c THEN SpanOf(g[c + 1], c) ELSE g[x]]
  <2>2. h[c] = SpanOf(g[c + 1], c) /\ \A x \in Nat : x # c => h[x] = g[x]
    OBVIOUS
  <2>3. h = [x \in Nat |-> h[x]]
    OBVIOUS
  <2> HIDE DEF h
  <2>4. ASSUME NEW x \in Nat, x >= c PROVE h[x] = SpanOf(h[x + 1], x)
    <3>1. x + 1 \in Nat /\ x + 1 # c
      BY <2>4
    <3>2. h[x + 1] = g[x + 1]
      BY <2>2, <3>1
    <3>3. CASE x = c
      BY <2>2, <3>2, <3>3
    <3>4. CASE x # c
      <4>1. x >= c + 1
        BY <2>4, <3>4
      <4> QED BY <2>1, <2>2, <3>2, <3>4, <4>1
    <3> QED BY <3>3, <3>4
  <2>5. From(h, c)
    BY <2>3, <2>4
  <2> QED BY <2>5
<1>3. ASSUME NEW c \in Nat, c < end => \A x \in Nat : x > c => x \in S PROVE c \in S
  <2> HIDE DEF S
  <2>1. c + 1 \in Nat /\ c + 1 > c
    OBVIOUS
  <2>2. CASE c < end
    BY <1>2, <1>3, <2>1, <2>2
  <2>3. CASE ~(c < end)
    BY <1>0, <1>1, <2>3
  <2> QED BY <2>2, <2>3
<1> HIDE DEF S, end
<1>4. 0 \in S
  BY <1>0, <1>3, DownInduction
<1>5. PICK g : From(g, 0)
  BY <1>4 DEF S
<1>6. IsSpans(g)
  <2>1a. g = [x \in Nat |-> g[x]]
    BY <1>5
  <2>1b. ASSUME NEW x \in Nat PROVE g[x] = SpanOf(g[x + 1], x)
    <3>1. x >= 0
      OBVIOUS
    <3> QED BY <1>5, <3>1
  <2>1. g = [x \in Nat |-> g[x]] /\ \A x \in Nat : g[x] = SpanOf(g[x + 1], x)
    BY <2>1a, <2>1b
  <2> HIDE DEF From
  <2>2. [x \in Nat |-> g[x]] = [x \in Nat |-> SpanOf(g[x + 1], x)]
    BY <2>1
  <2> QED BY <2>1, <2>2 DEF IsSpans
<1> DEFINE h == CHOOSE x : IsSpans(x)
<1>7. IsSpans(h)
  BY <1>6, Zenon
<1> HIDE DEF h
<1>8. h[d] = SpanOf(h[d + 1], d)
  BY <1>7, Zenon DEF IsSpans
<1> QED BY <1>8 DEF SpanAt, h

\* The offsets of a range that lie on the disk, and those in one block.
Range2(s, e) == {o \in Nat : s <= o /\ o < e /\ o < Top.diskSize}
InBlock(f, s, e, b) == {o \in Nat : /\ s <= o /\ o < e /\ o < f.diskSize
                                   /\ b * f.block <= o /\ o < (b + 1) * f.block}

\* The file offset of a block is a natural number.
LEMMA OffsetType ==
  ASSUME NEW f, SoundFile(f), f.format \in Layered, NEW b \in Nat, b < Blocks(f)
  PROVE  PayloadOffset(f, PayloadEntry(f, b)) \in Nat
<1> DEFINE n == PayloadEntry(f, b).at
<1>1. n \in Nat
  <2>1. PayloadEntry(f, b) \in [state : STRING, at : Nat]
    BY EntryIsPayload
  <2> QED BY <2>1
<1>2. f.sector \in Nat /\ f.block \in Nat /\ f.data \in Nat /\ VhdBitmap \in Nat
  BY FileTypes, ConstantTypes
<1> HIDE DEF n
<1>3. n * f.sector + VhdBitmap \in Nat /\ f.data + n * f.block \in Nat
  BY <1>1, <1>2
<1>4. f.format = "vhd" \/ f.format = "vhdx" \/ f.format = "vdi"
  BY DEF Layered
<1>5. CASE f.format = "vhd"
  BY <1>3, <1>5 DEF PayloadOffset, n
<1>6. CASE f.format = "vhdx"
  BY <1>1, <1>6 DEF PayloadOffset, n
<1>7. CASE f.format = "vdi"
  BY <1>3, <1>7 DEF PayloadOffset, n
<1> QED BY <1>4, <1>5, <1>6, <1>7

\* What the layers say inside a block.
LEMMA LayerInBlock ==
  ASSUME ChainOk, NEW d \in Nat, d >= 1, d <= Len(chain), Parent(d).format \in Layered,
         NEW b \in Nat, b < Blocks(Parent(d)), NEW o \in Nat,
         b * Parent(d).block <= o, o < (b + 1) * Parent(d).block
  PROVE  LET f == Parent(d)
             entry == PayloadEntry(f, b)
         IN /\ LayerEntry(d, o) = entry
            /\ OwnByte(d, o) => LayerAt(d, o)
                 = StoredAt(f, PayloadOffset(f, entry) + (o - b * f.block))
            /\ ~OwnByte(d, o) /\ f.differencing /\ entry.state # "zero" =>
                 LayerAt(d, o) = LayerAt(d + 1, o)
            /\ ~OwnByte(d, o) /\ ~(f.differencing /\ entry.state # "zero") =>
                 LayerAt(d, o) = Zero
<1> DEFINE f == Parent(d)
<1>1. SoundFile(f) /\ Len(chain) \in Nat
  BY DEF ChainOk
<1>2. f.block \in Nat /\ f.block > 0
  BY <1>1, FileTypes
<1>3. o \div f.block = b /\ o % f.block = o - b * f.block
  <2> HIDE DEF f
  <2> QED BY <1>2, DivRange DEF f
<1>4. LayerEntry(d, o) = PayloadEntry(f, b)
  BY <1>1, <1>3, EntryIsPayload DEF LayerEntry
<1>5. LayerAt(d, o) = LayerStep(LayerAt(d + 1, o), d, o)
  BY <1>1, LayerEquation
<1>6. ~(d > Len(chain))
  BY <1>1
<1>7. LayerAt(d, o) = IF OwnByte(d, o)
        THEN StoredAt(f, PayloadOffset(f, PayloadEntry(f, b)) + (o - b * f.block))
        ELSE IF f.differencing /\ PayloadEntry(f, b).state # "zero" THEN LayerAt(d + 1, o)
        ELSE Zero
  BY <1>3, <1>4, <1>5, <1>6, Zenon DEF LayerStep
<1> QED BY <1>4, <1>7

\* The part of a range in one block.
LEMMA RangeInBlock ==
  ASSUME NEW f, SoundFile(f), NEW b \in Nat, NEW s \in Nat, NEW e \in Nat
  PROVE  LET from == Max({s, BlockStart(f, b)})
             to == Least(e, BlockEnd(f, b))
         IN /\ from \in Nat /\ to \in Nat
            /\ BlockStart(f, b) = b * f.block /\ b * f.block \in Nat /\ b * f.block <= from
            /\ \A o \in Nat : o \in InBlock(f, s, e, b) <=> from <= o /\ o < to
<1>1. f.block \in Nat /\ f.block > 0 /\ f.diskSize \in Nat
  BY FileTypes
<1>2. b * f.block \in Nat /\ (b + 1) * f.block \in Nat
  BY <1>1
<1> DEFINE x == b * f.block
           y == (b + 1) * f.block
<1>3. BlockStart(f, b) = x /\ BlockEnd(f, b) = Least(f.diskSize, y)
  BY DEF BlockStart, BlockEnd
<1> HIDE DEF x, y
<1>4. x \in Nat /\ y \in Nat
  BY <1>2 DEF x, y
<1>5. Least(f.diskSize, y) \in Nat /\ Least(f.diskSize, y) <= f.diskSize
      /\ Least(f.diskSize, y) <= y
      /\ (Least(f.diskSize, y) = f.diskSize \/ Least(f.diskSize, y) = y)
  BY <1>1, <1>4, LeastOfTwo
<1> DEFINE z == Least(f.diskSize, y)
<1> HIDE DEF z
<1>6. z \in Nat /\ \A o \in Nat : o < z <=> o < f.diskSize /\ o < y
  BY <1>1, <1>4, <1>5 DEF z
<1> DEFINE from == Max({s, x})
           to == Least(e, z)
<1>7. from \in Nat /\ s <= from /\ x <= from /\ (from = s \/ from = x)
  BY <1>4, LargestOfTwo
<1>8. to \in Nat /\ to <= e /\ to <= z /\ (to = e \/ to = z)
  BY <1>6, LeastOfTwo
<1> HIDE DEF from, to
<1>9. \A o \in Nat : o \in InBlock(f, s, e, b) <=> from <= o /\ o < to
  <2> SUFFICES ASSUME NEW o \in Nat PROVE o \in InBlock(f, s, e, b) <=> from <= o /\ o < to
    OBVIOUS
  <2>1. o \in InBlock(f, s, e, b) <=> s <= o /\ o < e /\ o < f.diskSize /\ x <= o /\ o < y
    BY DEF InBlock, x, y
  <2>2. from <= o <=> s <= o /\ x <= o
    BY <1>4, <1>7
  <2>3. o < to <=> o < e /\ o < z
    BY <1>6, <1>8
  <2> QED BY <1>6, <2>1, <2>2, <2>3
<1> QED BY <1>3, <1>4, <1>7, <1>8, <1>9 DEF from, to, x, z

\* The blocks of a file cover its disk.
LEMMA BlocksCover ==
  ASSUME NEW f, SoundFile(f), NEW s \in Nat, NEW e \in Nat
  PROVE  /\ Blocks(f) \in Nat
         /\ UNION {InBlock(f, s, e, i - 1) : i \in 1 .. Blocks(f)}
              = {o \in Nat : s <= o /\ o < e /\ o < f.diskSize}
<1> DEFINE k == f.block
           n == Blocks(f)
           R == {o \in Nat : s <= o /\ o < e /\ o < f.diskSize}
<1>1. k \in Nat /\ k > 0 /\ f.diskSize \in Nat
  BY FileTypes
<1>2. n \in Nat /\ f.diskSize <= n * k
  <2> HIDE DEF k
  <2> QED BY <1>1, DivUpFacts DEF Blocks, k
<1>3. ASSUME NEW o \in R PROVE \E i \in 1 .. n : o \in InBlock(f, s, e, i - 1)
  <2> HIDE DEF n, k
  <2> DEFINE b == o \div k
  <2>0. o \in Nat /\ o < f.diskSize
    OBVIOUS
  <2>1. b \in Nat /\ b * k \in Nat /\ b * k <= o /\ o < (b + 1) * k
    <3>1. b \in Nat /\ b * k \in Nat /\ o % k = o - b * k /\ o % k \in Nat /\ o % k < k
      BY <1>1, <2>0, DivFacts
    <3> HIDE DEF b
    <3>2. (b + 1) * k = b * k + k
      BY <1>1, <3>1
    <3> QED BY <1>1, <2>0, <3>1, <3>2
  <2> HIDE DEF b
  <2>2. b < n
    <3> SUFFICES ASSUME n <= b PROVE FALSE
      BY <1>2, <2>1
    <3>1. n * k <= b * k
      BY <1>1, <1>2, <2>1, Monotone
    <3> QED BY <1>1, <1>2, <2>0, <2>1, <3>1
  <2>3. b + 1 \in 1 .. n /\ (b + 1) - 1 = b
    BY <1>2, <2>1, <2>2
  <2>4. o \in InBlock(f, s, e, b)
    BY <2>0, <2>1 DEF InBlock, k
  <2> QED BY <2>3, <2>4
<1>4. \A i \in 1 .. n : InBlock(f, s, e, i - 1) \subseteq R
  BY DEF InBlock
<1> HIDE DEF R, n
<1>5. UNION {InBlock(f, s, e, i - 1) : i \in 1 .. n} = R
  BY <1>3, <1>4
<1> QED BY <1>2, <1>5 DEF R, n

\* One block of a parent's range.
LEMMA SpanBlockFits ==
  ASSUME ChainOk, NEW d \in Nat, d >= 2, d <= Len(chain), Plannable(Parent(d)), NEW below,
         \A x, y \in Nat : below[x][y].ok => Fits(below[x][y].pieces, d + 1, Range2(x, y)),
         NEW s \in Nat, NEW e \in Nat, NEW b \in Nat, b < Blocks(Parent(d)),
         SpanBlock(below, d, s, e, b).ok
  PROVE  Fits(SpanBlock(below, d, s, e, b).pieces, d, InBlock(Parent(d), s, e, b))
<1> DEFINE f == Parent(d)
           from == Max({s, BlockStart(f, b)})
           to == Least(e, BlockEnd(f, b))
           state == PayloadEntry(f, b).state
           source == SpanSource(f, b)
           offset == PayloadOffset(f, PayloadEntry(f, b))
           R == InBlock(f, s, e, b)
           span == SpanBlock(below, d, s, e, b)
<1>1. SoundFile(f) /\ Len(chain) \in Nat /\ f.diskSize = Top.diskSize /\ f.format \in Layered
  <2>1. d \in 1 .. Len(chain) /\ d > 1
    BY DEF ChainOk
  <2> QED BY <2>1 DEF ChainOk
<1>2. /\ from \in Nat /\ to \in Nat
      /\ BlockStart(f, b) = b * f.block /\ b * f.block \in Nat /\ b * f.block <= from
      /\ \A o \in Nat : o \in R <=> from <= o /\ o < to
  BY <1>1, RangeInBlock
<1>3. offset \in Nat
  BY <1>1, OffsetType
<1>4. span = IF from >= to \/ source = "zero" THEN Nothing
             ELSE IF source = "image"
               THEN FilePieces(f, from, offset + (from - BlockStart(f, b)), to - from)
             ELSE below[from][to]
  BY Zenon DEF SpanBlock
<1>5. /\ state \in {"present", "partial", "zero", "absent"}
      /\ state = "partial" => f.differencing
  <2>0. Blocks(f) \in Nat
    BY <1>1, BlocksCover
  <2>1. b \in 0 .. (Blocks(f) - 1)
    BY <2>0
  <2> QED BY <2>1 DEF Plannable
<1>6. source = CASE state = "present" -> "image"
       [] state = "partial" -> "parent"
       [] state = "absent" /\ f.differencing -> "parent"
       [] OTHER -> "zero"
  BY Zenon DEF SpanSource
<1>7. PlainParents => ~(f.differencing /\ state = "partial")
  <2>0. Blocks(f) \in Nat
    BY <1>1, BlocksCover
  <2>1. b \in 0 .. (Blocks(f) - 1) /\ d \in 2 .. Len(chain)
    BY <1>1, <2>0
  <2> QED BY <2>1 DEF PlainParents
<1>7a. R \in SUBSET Nat
  BY DEF InBlock
<1>8. \A o \in R : b * f.block <= o /\ o < (b + 1) * f.block
  BY DEF InBlock
<1>8a. \A o \in R : o \in Nat
  BY DEF InBlock
<1>9. \A o \in R :
            /\ LayerEntry(d, o) = PayloadEntry(f, b)
            /\ OwnByte(d, o) => LayerAt(d, o) = StoredAt(f, offset + (o - b * f.block))
            /\ ~OwnByte(d, o) /\ f.differencing /\ state # "zero" =>
                 LayerAt(d, o) = LayerAt(d + 1, o)
            /\ ~OwnByte(d, o) /\ ~(f.differencing /\ state # "zero") =>
                 LayerAt(d, o) = Zero
  <2>1. ASSUME NEW o \in R
        PROVE  /\ LayerEntry(d, o) = PayloadEntry(f, b)
               /\ OwnByte(d, o) => LayerAt(d, o) = StoredAt(f, offset + (o - b * f.block))
               /\ ~OwnByte(d, o) /\ f.differencing /\ state # "zero" =>
                    LayerAt(d, o) = LayerAt(d + 1, o)
               /\ ~OwnByte(d, o) /\ ~(f.differencing /\ state # "zero") =>
                    LayerAt(d, o) = Zero
    <3>1. o \in Nat /\ b * f.block <= o /\ o < (b + 1) * f.block /\ d >= 1
      BY <1>8, <1>8a
    <3> QED BY <1>1, <3>1, LayerInBlock
  <2> HIDE DEF R, offset, state, f
  <2> QED BY <2>1
<1>10. \A o \in R : OwnByte(d, o) <=> (state = "present" \/ (state = "partial" /\ BitOf(f, o)))
  BY <1>9 DEF OwnByte
<1> HIDE DEF span, offset, R, from, to, state, source
<1>11. CASE from >= to
  <2>1. span = Nothing
    BY <1>4, <1>11, Zenon
  <2>2. \A o \in R : FALSE
    BY <1>2, <1>8a, <1>11
  <2>3. Fits(Nothing.pieces, d, R)
    BY <2>2, NothingFits
  <2> QED BY <2>1, <2>3 DEF span, R
<1>12. CASE ~(from >= to) /\ source = "zero"
  <2>1. span = Nothing
    BY <1>4, <1>12, Zenon
  <2>2. state = "zero" \/ (state = "absent" /\ ~f.differencing)
    BY <1>5, <1>6, <1>12
  <2>3. \A o \in R : LayerAt(d, o) = Zero
    BY <1>9, <1>10, <2>2
  <2>4. Fits(Nothing.pieces, d, R)
    BY <2>3, NothingFits
  <2> QED BY <2>1, <2>4 DEF span, R
<1>13. CASE ~(from >= to) /\ source = "image"
  <2> DEFINE at == offset + (from - b * f.block)
             count == to - from
  <2>1. span = FilePieces(f, from, at, count)
    <3>1. source # "zero"
      BY <1>13
    <3> QED BY <1>2, <1>4, <1>13, <3>1, Zenon
  <2>2. state = "present"
    BY <1>5, <1>6, <1>13
  <2>3. at \in Nat /\ count \in Nat /\ from + count = to
    BY <1>2, <1>3, <1>13
  <2>4. ASSUME NEW o \in Nat, from <= o, o < to
        PROVE LayerAt(d, o) = StoredAt(f, at + (o - from))
    <3>1. o \in R /\ at + (o - from) = offset + (o - b * f.block)
      BY <1>2, <1>3, <2>4
    <3> HIDE DEF at
    <3> QED BY <1>9, <1>10, <2>2, <3>1
  <2> HIDE DEF at, count
  <2>5. FilePieces(f, from, at, count).ok
    BY <2>1 DEF span
  <2>6. Fits(FilePieces(f, from, at, count).pieces, d, Stretch(from, count))
    <3> HIDE DEF f
    <3>1. Holds(d, f, from, at, count)
      BY <2>3, <2>4 DEF Holds
    <3> QED BY <1>1, <1>2, <2>3, <2>5, <3>1, FileFitsLayer
  <2>7. Stretch(from, count) = R
    BY <1>2, <1>7a, <2>3 DEF Stretch
  <2> QED BY <2>1, <2>6, <2>7 DEF span, R
<1>14. CASE ~(from >= to) /\ source # "zero" /\ source # "image"
  <2>1. span = below[from][to]
    BY <1>4, <1>14, Zenon
  <2>2. (state = "partial" \/ state = "absent") /\ f.differencing
    BY <1>5, <1>6, <1>14
  <2>3. PlainParents => \A o \in R : LayerAt(d, o) = LayerAt(d + 1, o)
    BY <1>7, <1>9, <1>10, <2>2
  <2>4. below[from][to].ok
    BY <2>1 DEF span
  <2>5. Fits(below[from][to].pieces, d + 1, Range2(from, to))
    BY <1>2, <2>4
  <2>6. Range2(from, to) = R
    <3>1. \A o \in R : o < Top.diskSize
      BY <1>1 DEF R, InBlock
    <3> QED BY <1>2, <1>7a, <3>1 DEF Range2
  <2>7. Fits(below[from][to].pieces, d, R)
    BY <1>7a, <2>3, <2>5, <2>6, BelowFits
  <2> QED BY <2>1, <2>7 DEF span, R
<1> QED BY <1>11, <1>12, <1>13, <1>14

\* A range of a parent gives pieces that fit the parent's layer.
LEMMA SpanFits ==
  ASSUME ChainOk, NEW depth \in Nat, depth >= 2, NEW start \in Nat, NEW end \in Nat,
         ParentPieces(depth, start, end).ok
  PROVE  Fits(ParentPieces(depth, start, end).pieces, depth, Range2(start, end))
<1> DEFINE Good(d) == \A s, e \in Nat : SpanAt(d)[s][e].ok =>
                        Fits(SpanAt(d)[s][e].pieces, d, Range2(s, e))
           S == {d \in Nat : d >= 2 => Good(d)}
           last == Len(chain) + 1
<1>0. Len(chain) \in Nat /\ last \in Nat
  BY DEF ChainOk
<1>1. ASSUME NEW d \in Nat, d < last => \A x \in Nat : x > d => x \in S PROVE d \in S
  <2> SUFFICES ASSUME d >= 2, NEW s \in Nat, NEW e \in Nat, SpanAt(d)[s][e].ok
               PROVE  Fits(SpanAt(d)[s][e].pieces, d, Range2(s, e))
    OBVIOUS
  <2> DEFINE below == SpanAt(d + 1)
             f == Parent(d)
             n == Blocks(f)
             parts == [i \in 1 .. n |-> SpanBlock(below, d, s, e, i - 1)]
             R == [i \in 1 .. n |-> InBlock(f, s, e, i - 1)]
  <2>1. SpanAt(d)[s][e] = IF d > Len(chain) \/ ~Plannable(f) THEN Unmapped ELSE All(parts)
    <3>1. SpanAt(d) = SpanOf(below, d)
      BY <1>0, SpanEquation
    <3> HIDE DEF below
    <3>2. SpanOf(below, d)[s][e] = IF d > Len(chain) \/ ~Plannable(f) THEN Unmapped ELSE All(parts)
      BY Zenon DEF SpanOf
    <3> QED BY <3>1, <3>2
  <2>2. ~Unmapped.ok
    BY DEF Unmapped, Pieces
  <2>3. ~(d > Len(chain)) /\ Plannable(f)
    <3> HIDE DEF parts
    <3> QED BY <2>1, <2>2, Zenon
  <2>4. SpanAt(d)[s][e] = All(parts)
    <3> HIDE DEF parts
    <3> QED BY <2>1, <2>3, Zenon
  <2>5. d <= Len(chain) /\ d \in 1 .. Len(chain)
    BY <1>0, <2>3
  <2>6. SoundFile(f) /\ f.diskSize = Top.diskSize
    BY <2>5 DEF ChainOk
  <2>7. n \in Nat /\ UNION {InBlock(f, s, e, i - 1) : i \in 1 .. n}
                        = {o \in Nat : s <= o /\ o < e /\ o < f.diskSize}
    BY <2>6, BlocksCover
  <2>8. Good(d + 1)
    <3>1. d < last
      BY <1>0, <2>5
    <3>2. d + 1 \in Nat /\ d + 1 > d /\ d + 1 >= 2
      OBVIOUS
    <3> HIDE DEF Good, last
    <3>3. d + 1 \in S
      BY <1>1, <3>1, <3>2
    <3> QED BY <3>2, <3>3
  <2>9. \A x, y \in Nat : below[x][y].ok => Fits(below[x][y].pieces, d + 1, Range2(x, y))
    BY <2>8
  <2> HIDE DEF below, n, f
  <2>10. ASSUME NEW i \in 1 .. n, parts[i].ok PROVE Fits(parts[i].pieces, d, R[i])
    <3>1. i - 1 \in Nat /\ i - 1 < n
      BY <2>7
    <3>2. parts[i] = SpanBlock(below, d, s, e, i - 1) /\ R[i] = InBlock(f, s, e, i - 1)
      OBVIOUS
    <3> DEFINE b == i - 1
    <3>3. SpanBlock(below, d, s, e, b).ok
      BY <2>10, <3>2
    <3> HIDE DEF b, parts, R
    <3>4. Fits(SpanBlock(below, d, s, e, b).pieces, d, InBlock(f, s, e, b))
      BY <2>3, <2>5, <2>9, <3>1, <3>3, SpanBlockFits DEF f, n, b
    <3> QED BY <3>2, <3>4 DEF b
  <2>11. parts = [i \in 1 .. n |-> parts[i]] /\ R \in [1 .. n -> SUBSET Nat]
    BY DEF InBlock
  <2>12. All(parts).ok
    BY <2>4
  <2>13. {R[i] : i \in 1 .. n} = {InBlock(f, s, e, i - 1) : i \in 1 .. n}
    OBVIOUS
  <2>14. Union(R, n) = Range2(s, e)
    BY <2>6, <2>7, <2>13 DEF Range2, Union
  <2> HIDE DEF parts, R
  <2>15. Fits(All(parts).pieces, d, Union(R, n))
    <3>1. n \in Nat
      BY <2>7
    <3>2. EachFits(parts, d, R, n)
      BY <2>10, <2>11 DEF EachFits
    <3> QED BY <2>12, <3>1, <3>2, AllFit
  <2> QED BY <2>4, <2>14, <2>15
<1> HIDE DEF last
<1>2. ASSUME NEW d \in Nat PROVE d \in S
  <2> HIDE DEF S
  <2> QED BY <1>0, <1>1, DownInduction
<1>3. Good(depth)
  BY <1>2
<1> HIDE DEF Good
<1>4. ParentPieces(depth, start, end) = SpanAt(depth)[start][end]
  BY ParentIsSpan
<1> QED BY <1>3, <1>4 DEF Good

---------------------------------------------------------------------------
(***************************************************************************)
(* One block of the selected image.                                        *)
(***************************************************************************)
LEMMA BlockFacts ==
  ASSUME NEW f, SoundFile(f), NEW b \in Nat, b < Blocks(f)
  PROVE  /\ BlockStart(f, b) = b * f.block /\ BlockStart(f, b) \in Nat /\ BlockEnd(f, b) \in Nat
         /\ BlockStart(f, b) < BlockEnd(f, b)
         /\ BlockEnd(f, b) <= f.diskSize /\ BlockEnd(f, b) <= (b + 1) * f.block
         /\ (b + 1) * f.block \in Nat
         /\ BlockEnd(f, b) = f.diskSize \/ BlockEnd(f, b) = (b + 1) * f.block
<1> DEFINE k == f.block
<1>1. k \in Nat /\ k > 0 /\ f.diskSize \in Nat
  BY FileTypes
<1>2. b * k < f.diskSize
  <2>1. Blocks(f) = DivUp(f.diskSize, k)
    BY DEF Blocks
  <2> HIDE DEF k
  <2>2. \A c \in Nat : c < DivUp(f.diskSize, k) <=> c * k < f.diskSize
    BY <1>1, DivUpFacts
  <2> QED BY <2>1, <2>2
<1> HIDE DEF k
<1>3. b * k \in Nat /\ (b + 1) * k = b * k + k /\ (b + 1) * k \in Nat
  BY <1>1
<1>4. BlockStart(f, b) = b * k /\ BlockEnd(f, b) = Least(f.diskSize, (b + 1) * k)
  BY DEF BlockStart, BlockEnd, k
<1>5. BlockEnd(f, b) = IF f.diskSize <= (b + 1) * k THEN f.diskSize ELSE (b + 1) * k
  BY <1>1, <1>3, <1>4, LeastOfTwo
<1> DEFINE x == b * k
           y == (b + 1) * k
<1> HIDE DEF x, y
<1>6. x \in Nat /\ y = x + k /\ y \in Nat /\ x < f.diskSize /\ BlockStart(f, b) = x
      /\ BlockEnd(f, b) = IF f.diskSize <= y THEN f.diskSize ELSE y
  BY <1>2, <1>3, <1>4, <1>5 DEF x, y
<1>7. /\ BlockStart(f, b) \in Nat /\ BlockEnd(f, b) \in Nat /\ BlockStart(f, b) < BlockEnd(f, b)
      /\ BlockEnd(f, b) <= f.diskSize /\ BlockEnd(f, b) <= y
      /\ BlockEnd(f, b) = f.diskSize \/ BlockEnd(f, b) = y
  BY <1>1, <1>6
<1> QED BY <1>6, <1>7 DEF x, y, k

\* The offsets of a block.
BlockRange(f, b) == {o \in Nat : BlockStart(f, b) <= o /\ o < BlockEnd(f, b)}

\* The pieces of the selected image are right, its length checked as well.
LEMMA ImageFits ==
  ASSUME NEW d, NEW f, SoundFile(f), NEW start \in Nat, NEW offset \in Nat, NEW count \in Nat,
         ImagePieces(f, start, offset, count).ok, Holds(d, f, start, offset, count)
  PROVE  Fits(ImagePieces(f, start, offset, count).pieces, d, Stretch(start, count))
<1>1. ~Unmapped.ok
  BY DEF Unmapped, Pieces
<1>2. ImagePieces(f, start, offset, count) = FilePieces(f, start, offset, count)
  BY <1>1, Zenon DEF ImagePieces
<1> QED BY <1>2, FileFitsLayer

\* Only an image with a parent gets pieces from one.
LEMMA ParentOk ==
  ASSUME ChainOk, NEW start \in Nat, NEW end \in Nat, ParentPieces(2, start, end).ok
  PROVE  Parent(1).differencing
<1>0. Len(chain) \in Nat
  BY DEF ChainOk
<1> DEFINE below == SpanAt(3)
<1>1. SpanAt(2) = SpanOf(below, 2)
  <2>1. SpanAt(2) = SpanOf(SpanAt(2 + 1), 2)
    BY <1>0, SpanEquation
  <2> QED BY <2>1
<1> HIDE DEF below
<1>2. \E x : SpanOf(below, 2)[start][end] = IF 2 > Len(chain) \/ ~Plannable(Parent(2)) THEN Unmapped ELSE x
  BY Zenon DEF SpanOf
<1>3. ParentPieces(2, start, end) = SpanOf(below, 2)[start][end]
  BY <1>1, ParentIsSpan
<1>4. ~Unmapped.ok
  BY DEF Unmapped, Pieces
<1>5. ~(2 > Len(chain))
  BY <1>2, <1>3, <1>4, Zenon
<1>6. 2 \in 1 .. Len(chain) /\ 2 > 1 /\ 2 - 1 = 1
  BY <1>0, <1>5
<1> QED BY <1>6 DEF ChainOk

\* The sectors of a block that has some of its own.
LEMMA PartialFits ==
  ASSUME ChainOk, Top.format \in Layered, NEW b \in Nat, b < Blocks(Top),
         PayloadEntry(Top, b).state = "partial", PartialPieces(Top, b).ok
  PROVE  Fits(PartialPieces(Top, b).pieces, 1, BlockRange(Top, b))
<1> DEFINE f == Top
           from == BlockStart(f, b)
           to == BlockEnd(f, b)
           t == f.sector
           offset == PayloadOffset(f, PayloadEntry(f, b))
           a(s) == from + s * t
           z(s) == Least(to, a(s) + t)
           Sector(s) == IF SectorPresent(f, b, s)
             THEN ImagePieces(f, a(s), offset + (a(s) - from), z(s) - a(s))
             ELSE ParentPieces(2, a(s), z(s))
           n == DivUp(to - from, t)
           parts == [i \in 1 .. n |-> Sector(i - 1)]
           R == [i \in 1 .. n |-> {o \in Nat : a(i - 1) <= o /\ o < z(i - 1)}]
<1>1. /\ SoundFile(f) /\ Parent(1) = f /\ 1 <= Len(chain) /\ Len(chain) \in Nat
  <2>1. 1 \in 1 .. Len(chain) /\ Len(chain) \in Nat /\ Parent(1) = Top
    BY DEF ChainOk, Top, Parent
  <2>2. SoundFile(Parent(1))
    BY <2>1 DEF ChainOk
  <2> QED BY <2>1, <2>2
<1>2. /\ from = b * f.block /\ from \in Nat /\ to \in Nat /\ from < to /\ to <= f.diskSize
      /\ to <= (b + 1) * f.block /\ (b + 1) * f.block \in Nat
  BY <1>1, BlockFacts
<1>3. t \in Nat /\ t > 0 /\ f.block \in Nat /\ f.block > 0 /\ f.diskSize \in Nat
  BY <1>1, FileTypes
<1>4. offset \in Nat
  BY <1>1, OffsetType
<1>5. f.format = "vhdx"
  <2>1. Blocks(f) \in Nat
    BY <1>1, BlocksCover
  <2>2. b \in 0 .. (Blocks(f) - 1)
    BY <2>1
  <2> QED BY <1>1, <2>2 DEF SoundFile
<1>6. PartialPieces(f, b)
        = IF BitmapEntry(f, b).state # "present" THEN Unmapped ELSE All(parts)
  BY Zenon DEF PartialPieces
<1>7. PartialPieces(f, b) = All(parts)
  <2>1. ~Unmapped.ok
    BY DEF Unmapped, Pieces
  <2> HIDE DEF parts
  <2> QED BY <1>6, <2>1, Zenon
<1>8. n \in Nat /\ to - from <= n * t /\ \A s \in Nat : s < n <=> s * t < to - from
  <2>1. to - from \in Nat
    BY <1>2
  <2> DEFINE v == to - from
  <2> HIDE DEF from, to, t, v
  <2>2. v \in Nat /\ n = DivUp(v, t)
    BY <2>1 DEF v
  <2>3. n \in Nat /\ v <= n * t /\ \A s \in Nat : s < n <=> s * t < v
    BY <1>3, <2>2, DivUpFacts
  <2> QED BY <2>3 DEF v
<1> HIDE DEF n
<1>9. ASSUME NEW s \in Nat, s < n
      PROVE  /\ a(s) \in Nat /\ from <= a(s) /\ z(s) \in Nat /\ a(s) < z(s) /\ z(s) <= to
             /\ z(s) <= a(s) + t /\ (z(s) = to \/ z(s) = a(s) + t)
  <2> HIDE DEF from, to, t
  <2>1. s * t \in Nat /\ s * t < to - from
    BY <1>3, <1>8, <1>9
  <2> DEFINE m == s * t
  <2> HIDE DEF m
  <2>2. m \in Nat /\ m < to - from /\ a(s) = from + m
    BY <2>1 DEF m
  <2>3. a(s) \in Nat /\ a(s) + t \in Nat /\ a(s) < to /\ from <= a(s)
    BY <1>2, <1>3, <2>2
  <2>4. Least(to, a(s) + t) = IF to <= a(s) + t THEN to ELSE a(s) + t
    BY <1>2, <2>3, LeastOfTwo
  <2> HIDE DEF a
  <2> QED BY <1>2, <1>3, <2>3, <2>4
<1> HIDE DEF z
<1>10. ASSUME NEW s \in Nat, s < n, NEW o \in Nat, a(s) <= o, o < z(s)
       PROVE  /\ BitOf(f, o) <=> SectorPresent(f, b, s)
              /\ SectorPresent(f, b, s) => LayerAt(1, o) = StoredAt(f, offset + (o - from))
              /\ ~SectorPresent(f, b, s) /\ f.differencing => LayerAt(1, o) = LayerAt(2, o)
  <2>1. /\ a(s) \in Nat /\ from <= a(s) /\ z(s) \in Nat /\ z(s) <= to /\ z(s) <= a(s) + t
    BY <1>9, <1>10
  <2>2. s * t \in Nat /\ (s + 1) * t = s * t + t
    BY <1>3
  <2>3. b * f.block + s * t <= o /\ o < b * f.block + (s + 1) * t /\ o < (b + 1) * f.block
        /\ b * f.block <= o
    <3> DEFINE m == s * t
    <3>1. m \in Nat /\ a(s) = from + m /\ (s + 1) * t = m + t
      BY <2>2
    <3> DEFINE w == (s + 1) * t
    <3> HIDE DEF m, w, t, a
    <3>2. from + m <= o /\ o < from + w /\ from <= o /\ o < to
      BY <1>2, <1>3, <1>10, <2>1, <3>1 DEF w
    <3> QED BY <1>2, <3>2 DEF m, w
  <2>4. BitOf(f, o) <=> SectorPresent(f, b, s)
    <3> HIDE DEF f
    <3> QED BY <1>1, <1>5, <2>3, BitIsSector DEF t
  <2>5. /\ LayerEntry(1, o) = PayloadEntry(f, b)
        /\ OwnByte(1, o) => LayerAt(1, o)
                 = StoredAt(f, offset + (o - b * f.block))
        /\ ~OwnByte(1, o) /\ f.differencing /\ PayloadEntry(f, b).state # "zero" =>
                 LayerAt(1, o) = LayerAt(1 + 1, o)
    <3>1. Parent(1).format \in Layered /\ b < Blocks(Parent(1)) /\ 1 >= 1
          /\ b * Parent(1).block <= o /\ o < (b + 1) * Parent(1).block
      BY <1>1, <2>3
    <3> QED BY <1>1, <3>1, LayerInBlock
  <2>6. OwnByte(1, o) <=> BitOf(f, o)
    BY <1>1, <2>5 DEF OwnByte
  <2> QED BY <1>2, <2>4, <2>5, <2>6
<1> HIDE DEF offset
<1>11. ASSUME NEW i \in 1 .. n, parts[i].ok
       PROVE  Fits(parts[i].pieces, 1, R[i])
  <2> DEFINE s == i - 1
  <2>1. s \in Nat /\ s < n
    BY <1>8
  <2>2. parts[i] = Sector(s) /\ R[i] = {o \in Nat : a(s) <= o /\ o < z(s)}
    BY <1>8
  <2> HIDE DEF s, parts, R
  <2>3. /\ a(s) \in Nat /\ from <= a(s) /\ z(s) \in Nat /\ a(s) < z(s) /\ z(s) <= to
    BY <1>9, <2>1
  <2> DEFINE x == a(s)
             y == z(s)
             count == y - x
             at == offset + (x - from)
  <2>4. x \in Nat /\ y \in Nat /\ from <= x /\ x < y /\ y <= to
    BY <2>3
  <2>5. parts[i] = IF SectorPresent(f, b, s) THEN ImagePieces(f, x, at, count) ELSE ParentPieces(2, x, y)
    BY <2>2, Zenon
  <2>6. \A o \in Nat : x <= o /\ o < y =>
              /\ BitOf(f, o) <=> SectorPresent(f, b, s)
              /\ SectorPresent(f, b, s) => LayerAt(1, o) = StoredAt(f, offset + (o - from))
              /\ ~SectorPresent(f, b, s) /\ f.differencing => LayerAt(1, o) = LayerAt(2, o)
    BY <1>10, <2>1
  <2> HIDE DEF x, y, a, from, to, t
  <2>7. count \in Nat /\ at \in Nat /\ x + count = y
    BY <1>2, <1>4, <2>4
  <2>8. CASE SectorPresent(f, b, s)
    <3>1. parts[i] = ImagePieces(f, x, at, count)
      BY <2>5, <2>8, Zenon
    <3>2. ASSUME NEW o \in Nat, x <= o, o < y PROVE LayerAt(1, o) = StoredAt(f, at + (o - x))
      <4>1. at + (o - x) = offset + (o - from)
        BY <1>2, <1>4, <2>4
      <4> HIDE DEF at
      <4> QED BY <2>6, <2>8, <3>2, <4>1
    <3>3. Holds(1, f, x, at, count)
      BY <2>7, <3>2 DEF Holds
    <3> HIDE DEF at, count, f
    <3>4. Fits(ImagePieces(f, x, at, count).pieces, 1, Stretch(x, count))
      BY <1>1, <1>11, <2>4, <2>7, <3>1, <3>3, ImageFits
    <3>5. Stretch(x, count) = R[i]
      BY <2>2, <2>7 DEF Stretch, x, y
    <3> QED BY <3>1, <3>4, <3>5
  <2>9. CASE ~SectorPresent(f, b, s)
    <3>1. parts[i] = ParentPieces(2, x, y)
      BY <2>5, <2>9, Zenon
    <3>2. f.differencing
      BY <1>1, <1>11, <2>4, <3>1, ParentOk
    <3>3. Fits(ParentPieces(2, x, y).pieces, 2, Range2(x, y))
      <4>1. 2 \in Nat /\ 2 >= 2
        OBVIOUS
      <4> QED BY <1>11, <2>4, <3>1, <4>1, SpanFits
    <3>4. Range2(x, y) = {o \in Nat : x <= o /\ o < y}
      BY <1>2, <1>3, <2>4 DEF Range2
    <3>5. Range2(x, y) = R[i] /\ Range2(x, y) \in SUBSET Nat
      BY <2>2, <3>4 DEF x, y
    <3>6. \A o \in Range2(x, y) : LayerAt(1, o) = LayerAt(2, o)
      BY <2>6, <2>9, <3>2, <3>4
    <3>7. Fits(ParentPieces(2, x, y).pieces, 1, Range2(x, y))
      BY <3>3, <3>5, <3>6, BelowFits
    <3> QED BY <3>1, <3>5, <3>7
  <2> QED BY <2>8, <2>9
<1>12. EachFits(parts, 1, R, n)
  <2>1. parts = [i \in 1 .. n |-> parts[i]] /\ R \in [1 .. n -> SUBSET Nat]
    OBVIOUS
  <2> HIDE DEF parts, R
  <2> QED BY <1>11, <2>1 DEF EachFits
<1>13. Union(R, n) = BlockRange(f, b)
  <2>1. ASSUME NEW o \in Nat, from <= o, o < to PROVE \E i \in 1 .. n : o \in R[i]
    <3> HIDE DEF from, to, t
    <3> DEFINE v == o - from
               s == v \div t
    <3>1. v \in Nat /\ v < to - from
      BY <1>2, <2>1
    <3>2. s \in Nat /\ s * t \in Nat /\ s * t <= v /\ v < (s + 1) * t
          /\ (s + 1) * t = s * t + t
      <4> HIDE DEF v
      <4> QED BY <1>3, <3>1, DivFacts
    <3> HIDE DEF s
    <3>3. s < n
      <4>1. s * t < to - from
        <5> DEFINE m == s * t
        <5>1. m \in Nat /\ m <= v
          BY <3>2
        <5> HIDE DEF m
        <5>2. m < to - from
          BY <1>2, <3>1, <5>1
        <5> QED BY <5>2 DEF m
      <4> QED BY <1>8, <3>2, <4>1
    <3>4. a(s) <= o /\ o < z(s)
      <4>1. a(s) <= o /\ o < a(s) + t
        <5> DEFINE m == s * t
        <5>1. m \in Nat /\ m <= v /\ v < m + t /\ a(s) = from + m
          BY <3>2
        <5> HIDE DEF m, a
        <5> QED BY <1>2, <1>3, <5>1
      <4>2. z(s) \in Nat /\ (z(s) = to \/ z(s) = a(s) + t)
        BY <1>9, <3>2, <3>3
      <4> QED BY <2>1, <4>1, <4>2
    <3>5. s + 1 \in 1 .. n /\ (s + 1) - 1 = s
      BY <1>8, <3>2, <3>3
    <3>6. R[s + 1] = {p \in Nat : a(s) <= p /\ p < z(s)}
      BY <3>5
    <3> QED BY <3>4, <3>5, <3>6
  <2>2. ASSUME NEW i \in 1 .. n, NEW o \in R[i] PROVE o \in Nat /\ from <= o /\ o < to
    <3> DEFINE s == i - 1
    <3>1. s \in Nat /\ s < n
      BY <1>8
    <3>2. o \in Nat /\ a(s) <= o /\ o < z(s)
      BY <2>2
    <3> HIDE DEF s
    <3>3. /\ a(s) \in Nat /\ from <= a(s) /\ z(s) \in Nat /\ z(s) <= to
      BY <1>9, <3>1
    <3> HIDE DEF a, from, to
    <3> QED BY <1>2, <3>2, <3>3
  <2> HIDE DEF R, n
  <2> QED BY <2>1, <2>2 DEF Union, BlockRange
<1> HIDE DEF parts, R
<1>14. Fits(All(parts).pieces, 1, Union(R, n))
  BY <1>7, <1>8, <1>12, AllFit
<1> QED BY <1>7, <1>13, <1>14

\* One turn of the loop in build_vhdx_block_io and its like: the pieces made for
\* a block lie in it and on the volume; with plain parents they are the bytes of
\* the image, and where there is none the image holds zero.
THEOREM BlockFits ==
  ASSUME ChainOk, Top.format \in Layered, NEW b \in Nat, b < Blocks(Top), BlockPieces(Top, b).ok
  PROVE  Fits(BlockPieces(Top, b).pieces, 1, BlockRange(Top, b))
<1> DEFINE f == Top
           entry == PayloadEntry(f, b)
           from == BlockStart(f, b)
           to == BlockEnd(f, b)
           offset == PayloadOffset(f, entry)
           R == BlockRange(f, b)
           count == to - from
<1>1. /\ SoundFile(f) /\ Parent(1) = f /\ 1 <= Len(chain) /\ Len(chain) \in Nat
  <2>1. 1 \in 1 .. Len(chain) /\ Len(chain) \in Nat /\ Parent(1) = Top
    BY DEF ChainOk, Top, Parent
  <2>2. SoundFile(Parent(1))
    BY <2>1 DEF ChainOk
  <2> QED BY <2>1, <2>2
<1>2. /\ from = b * f.block /\ from \in Nat /\ to \in Nat /\ from < to /\ to <= f.diskSize
      /\ to <= (b + 1) * f.block /\ (b + 1) * f.block \in Nat
  BY <1>1, BlockFacts
<1>3. offset \in Nat /\ f.diskSize \in Nat
  BY <1>1, OffsetType, FileTypes
<1>4. count \in Nat /\ from + count = to
  BY <1>2
<1>5. BlockPieces(f, b) =
        CASE entry.state = "present" -> ImagePieces(f, from, offset, count)
          [] entry.state = "partial" -> PartialPieces(f, b)
          [] entry.state = "absent" /\ f.differencing -> ParentPieces(2, from, to)
          [] entry.state = "zero" \/ (entry.state = "absent" /\ ~f.differencing) -> Nothing
          [] OTHER -> Unmapped
  BY Zenon DEF BlockPieces
<1>6. ASSUME NEW o \in Nat, from <= o, o < to
      PROVE  /\ OwnByte(1, o) <=> (entry.state = "present" \/ (entry.state = "partial" /\ BitOf(f, o)))
             /\ OwnByte(1, o) => LayerAt(1, o) = StoredAt(f, offset + (o - from))
             /\ ~OwnByte(1, o) /\ f.differencing /\ entry.state # "zero" =>
                  LayerAt(1, o) = LayerAt(1 + 1, o)
             /\ ~OwnByte(1, o) /\ ~(f.differencing /\ entry.state # "zero") =>
                  LayerAt(1, o) = Zero
  <2>1. b * f.block <= o /\ o < (b + 1) * f.block
    <3> DEFINE w == (b + 1) * f.block
    <3> HIDE DEF w, from, to, f
    <3>1. w \in Nat /\ to <= w
      BY <1>2 DEF w
    <3>2. o < w /\ from <= o
      BY <1>2, <1>6, <3>1
    <3> QED BY <1>2, <3>2 DEF w
  <2>2. /\ LayerEntry(1, o) = PayloadEntry(f, b)
        /\ OwnByte(1, o) => LayerAt(1, o) = StoredAt(f, offset + (o - b * f.block))
        /\ ~OwnByte(1, o) /\ f.differencing /\ PayloadEntry(f, b).state # "zero" =>
                 LayerAt(1, o) = LayerAt(1 + 1, o)
        /\ ~OwnByte(1, o) /\ ~(f.differencing /\ PayloadEntry(f, b).state # "zero") =>
                 LayerAt(1, o) = Zero
    <3>1. Parent(1).format \in Layered /\ b < Blocks(Parent(1)) /\ 1 >= 1
          /\ b * Parent(1).block <= o /\ o < (b + 1) * Parent(1).block
      BY <1>1, <2>1
    <3> QED BY <1>1, <3>1, LayerInBlock
  <2>3. OwnByte(1, o) <=> (entry.state = "present" \/ (entry.state = "partial" /\ BitOf(f, o)))
    BY <1>1, <2>2 DEF OwnByte
  <2> QED BY <1>2, <2>2, <2>3
<1>7. R = {o \in Nat : from <= o /\ o < to} /\ R \in SUBSET Nat
  BY DEF BlockRange
<1>8. ~Unmapped.ok
  BY DEF Unmapped, Pieces
<1> HIDE DEF entry, from, to, offset, R, f
<1>9. CASE entry.state = "present"
  <2>1. BlockPieces(f, b) = ImagePieces(f, from, offset, count)
    BY <1>5, <1>9
  <2>2. Holds(1, f, from, offset, count)
    <3>1. \A o \in Nat : from <= o /\ o < from + count => LayerAt(1, o) = StoredAt(f, offset + (o - from))
      BY <1>4, <1>6, <1>9
    <3> QED BY <3>1 DEF Holds
  <2>3. ImagePieces(f, from, offset, count).ok
    BY <2>1 DEF f
  <2> HIDE DEF count
  <2>4. Fits(ImagePieces(f, from, offset, count).pieces, 1, Stretch(from, count))
    BY <1>1, <1>2, <1>3, <1>4, <2>2, <2>3, ImageFits
  <2>5. Stretch(from, count) = R
    BY <1>4, <1>7 DEF Stretch
  <2> QED BY <2>1, <2>4, <2>5 DEF f, R
<1>10. CASE entry.state = "partial"
  <2>1. BlockPieces(f, b) = PartialPieces(f, b)
    BY <1>5, <1>10
  <2>2. PartialPieces(Top, b).ok /\ PayloadEntry(Top, b).state = "partial"
    BY <1>10, <2>1 DEF f, entry
  <2>3. Fits(PartialPieces(Top, b).pieces, 1, BlockRange(Top, b))
    BY <2>2, PartialFits
  <2> QED BY <2>1, <2>3 DEF f
<1>11. CASE entry.state = "absent" /\ f.differencing
  <2>1. BlockPieces(f, b) = ParentPieces(2, from, to)
    BY <1>5, <1>11
  <2>2. ParentPieces(2, from, to).ok
    BY <2>1 DEF f
  <2>3. Fits(ParentPieces(2, from, to).pieces, 2, Range2(from, to))
    <3>1. 2 \in Nat /\ 2 >= 2
      OBVIOUS
    <3> QED BY <1>2, <2>2, <3>1, SpanFits
  <2>4. Range2(from, to) = R
    BY <1>2, <1>3, <1>7 DEF Range2, f
  <2>5. \A o \in R : LayerAt(1, o) = LayerAt(2, o)
    BY <1>6, <1>7, <1>11
  <2>6. Fits(ParentPieces(2, from, to).pieces, 1, R)
    BY <1>7, <2>3, <2>4, <2>5, BelowFits
  <2> QED BY <2>1, <2>6 DEF f, R
<1>12. CASE entry.state = "zero" \/ (entry.state = "absent" /\ ~f.differencing)
  <2>1. BlockPieces(f, b) = Nothing
    BY <1>5, <1>12
  <2>2. \A o \in R : LayerAt(1, o) = Zero
    BY <1>6, <1>7, <1>12
  <2>3. Fits(Nothing.pieces, 1, R)
    BY <2>2, NothingFits
  <2> QED BY <2>1, <2>3 DEF f, R
<1>13. CASE /\ entry.state # "present" /\ entry.state # "partial" /\ entry.state # "zero"
            /\ entry.state # "absent"
  <2>1. BlockPieces(f, b) = Unmapped
    BY <1>5, <1>13
  <2> QED BY <1>8, <2>1 DEF f
<1> QED BY <1>9, <1>10, <1>11, <1>12, <1>13

---------------------------------------------------------------------------
(***************************************************************************)
(* The tables.                                                             *)
(***************************************************************************)
TableOk(table) ==
  table = [segs |-> table.segs, total |-> table.total] /\ table.segs \in Seq(Segment)

\* optimize keeps a table a table.
LEMMA OptimizeOk ==
  ASSUME NEW table, TableOk(table)
  PROVE  TableOk(Optimize(table))
<1>1. \E x : Optimize(table) = table \/ Optimize(table) = [table EXCEPT !.segs = x]
  BY Zenon DEF Optimize
<1>2. PICK x : Optimize(table) = table \/ Optimize(table) = [table EXCEPT !.segs = x]
  BY <1>1
<1>3. [table EXCEPT !.segs = x] = [segs |-> x, total |-> table.total]
  BY DEF TableOk
<1>4. Optimize(table).segs \in Seq(Segment)
  BY OptimizeMaps DEF TableOk
<1>5. Optimize(table) = [segs |-> Optimize(table).segs, total |-> Optimize(table).total]
  BY <1>2, <1>3 DEF TableOk
<1> QED BY <1>4, <1>5 DEF TableOk

\* truncate keeps a table a table and sets its end.
LEMMA TruncateOk ==
  ASSUME NEW table, table.segs \in Seq(Segment), NEW bytes \in Nat
  PROVE  TableOk(Truncate(table, bytes)) /\ Truncate(table, bytes).total = bytes
<1>1. \E x : Truncate(table, bytes) = [segs |-> x, total |-> bytes]
  BY Zenon DEF Truncate
<1>2. PICK x : Truncate(table, bytes) = [segs |-> x, total |-> bytes]
  BY <1>1
<1>3. Truncate(table, bytes).segs \in Seq(Segment)
  BY TruncateMaps
<1> QED BY <1>2, <1>3 DEF TableOk

\* add_segment keeps a table a table.
LEMMA AddSegmentsOk ==
  ASSUME NEW table, table.segs \in Seq(Segment), NEW pieces \in Seq(Piece)
  PROVE  TableOk(AddSegments(table, pieces))
<1>1. \E x, y : AddSegments(table, pieces) = [segs |-> x, total |-> y]
  BY Zenon DEF AddSegments
<1>2. PICK x, y : AddSegments(table, pieces) = [segs |-> x, total |-> y]
  BY <1>1
<1>3. AddSegments(table, pieces).segs \in Seq(Segment)
  BY AddSegmentsMaps
<1> QED BY <1>2, <1>3 DEF TableOk

\* The pieces of a file's extents.
ExtentPieces(extents) ==
  [i \in DOMAIN extents |->
    [start |-> extents[i].file * PhysicalBlock,
     count |-> extents[i].blocks * PhysicalBlock,
     physical |-> extents[i].lba * PhysicalBlock]]

\* The pieces from_file_extents makes of the extents of a file lead to the
\* bytes of the file, and cover what the extents cover.
LEMMA ExtentPiecesMap ==
  ASSUME NEW f, SoundFile(f)
  PROVE  /\ ExtentPieces(f.extents) \in Seq(Piece)
         /\ \A p \in ToSet(ExtentPieces(f.extents)) : \A o \in Nat : \A a : PieceMaps(p, o, a) =>
              a = StoredAt(f, o) /\ a \in Nat /\ a < Device
         /\ \A e \in ToSet(f.extents) : \A o \in Nat : o \in BytesOf(e) =>
              \E p \in ToSet(ExtentPieces(f.extents)) : \E a : PieceMaps(p, o, a)
<1> DEFINE P == PhysicalBlock
           pieces == ExtentPieces(f.extents)
           PieceOf(e) == [start |-> e.file * P, count |-> e.blocks * P, physical |-> e.lba * P]
<1>0. P \in Nat /\ P > 0 /\ DeviceBlocks \in Nat
  BY ConstantTypes
<1>1. f.extents \in Seq(Extent)
  BY DEF SoundFile
<1>2. \A e \in Extent : e.file \in Nat /\ e.lba \in Nat /\ e.blocks \in Nat
  BY DEF Extent
<1>3. \A i \in DOMAIN f.extents : f.extents[i] \in Extent /\ f.extents[i] \in ToSet(f.extents)
  BY <1>1 DEF ToSet
<1>4. DOMAIN pieces = DOMAIN f.extents /\ \A i \in DOMAIN f.extents : pieces[i] = PieceOf(f.extents[i])
  BY DEF ExtentPieces
<1> HIDE DEF P
<1>5. ASSUME NEW e \in Extent
      PROVE  /\ e.file * P \in Nat /\ e.blocks * P \in Nat /\ e.lba * P \in Nat
             /\ (e.file + e.blocks) * P = e.file * P + e.blocks * P
             /\ (e.lba + e.blocks) * P = e.lba * P + e.blocks * P
  BY <1>0, <1>2
<1>6. \A e \in Extent : PieceOf(e) \in Piece
  BY <1>5 DEF Piece
<1>7. pieces \in Seq(Piece)
  <2>1. Len(f.extents) \in Nat /\ DOMAIN f.extents = 1 .. Len(f.extents)
    BY <1>1
  <2>2. \A i \in 1 .. Len(f.extents) : pieces[i] \in Piece
    BY <1>3, <1>4, <1>6, <2>1
  <2>3. pieces = [i \in 1 .. Len(f.extents) |-> pieces[i]]
    BY <2>1 DEF ExtentPieces
  <2> HIDE DEF pieces, PieceOf
  <2> QED BY <2>1, <2>2, <2>3
<1>8. ToSet(pieces) = {PieceOf(e) : e \in ToSet(f.extents)}
  <2> HIDE DEF pieces, PieceOf
  <2> QED BY <1>4 DEF ToSet
<1>9. ToSet(f.extents) \subseteq Extent
  BY <1>1 DEF ToSet
<1> HIDE DEF pieces
<1>10. ASSUME NEW e \in ToSet(f.extents), NEW o \in Nat, NEW a, PieceMaps(PieceOf(e), o, a)
       PROVE  a = StoredAt(f, o) /\ a \in Nat /\ a < Device
  <2>1. e \in Extent /\ e.lba + e.blocks <= DeviceBlocks
    BY <1>9 DEF SoundFile
  <2> DEFINE x == e.file * P
             y == e.blocks * P
             z == e.lba * P
  <2>2. x \in Nat /\ y \in Nat /\ z \in Nat
    BY <1>5, <2>1
  <2>3. x <= o /\ o < x + y /\ a = z + (o - x)
    BY <1>10 DEF PieceMaps
  <2>4. (e.lba + e.blocks) * P = z + y /\ (e.file + e.blocks) * P = x + y
    BY <1>5, <2>1
  <2>5. z + y <= Device
    <3>1. e.lba + e.blocks \in Nat
      BY <1>2, <2>1
    <3>2. (e.lba + e.blocks) * P <= DeviceBlocks * P
      BY <1>0, <2>1, <3>1, Monotone
    <3> QED BY <2>4, <3>2 DEF Device, P
  <2>6. Device \in Nat
    BY <1>0 DEF Device, P
  <2>7. o \in BytesOf(e)
    <3>0. BytesOf(e) = x .. ((e.file + e.blocks) * P - 1)
      BY DEF BytesOf, P
    <3>1. BytesOf(e) = x .. ((x + y) - 1)
      BY <2>4, <3>0
    <3> HIDE DEF x, y
    <3> QED BY <2>2, <2>3, <3>1
  <2>8. StoredAt(f, o) = z + (o - x)
    BY <2>7 DEF SoundFile, P
  <2> HIDE DEF x, y, z
  <2> QED BY <2>2, <2>3, <2>5, <2>6, <2>8
<1>11. ASSUME NEW e \in ToSet(f.extents), NEW o \in Nat, o \in BytesOf(e)
       PROVE  \E a : PieceMaps(PieceOf(e), o, a)
  <2> DEFINE x == e.file * P
             y == e.blocks * P
             z == e.lba * P
  <2>1. e \in Extent
    BY <1>9
  <2>2. x \in Nat /\ y \in Nat /\ z \in Nat
    BY <1>5, <2>1
  <2>4. (e.file + e.blocks) * P = x + y
    BY <1>5, <2>1
  <2>5. x <= o /\ o < x + y
    <3>0. BytesOf(e) = x .. ((e.file + e.blocks) * P - 1)
      BY DEF BytesOf, P
    <3>1. BytesOf(e) = x .. ((x + y) - 1)
      BY <2>4, <3>0
    <3> HIDE DEF x, y
    <3> QED BY <1>11, <2>2, <3>1
  <2>6. PieceOf(e).start = x /\ PieceOf(e).count = y
    OBVIOUS
  <2> HIDE DEF PieceOf, x, y
  <2> QED BY <2>5, <2>6 DEF PieceMaps
<1> HIDE DEF PieceOf
<1>12. \A p \in ToSet(pieces) : \A o \in Nat : \A a : PieceMaps(p, o, a) =>
              a = StoredAt(f, o) /\ a \in Nat /\ a < Device
  BY <1>8, <1>10
<1>13. \A e \in ToSet(f.extents) : \A o \in Nat : o \in BytesOf(e) =>
              \E p \in ToSet(pieces) : \E a : PieceMaps(p, o, a)
  BY <1>8, <1>11
<1> QED BY <1>7, <1>12, <1>13 DEF pieces

\* The table of an image without one of its own.
LEMMA PlainTableMaps ==
  ASSUME NEW f, SoundFile(f), f.format \notin Layered, NEW size \in Nat
  PROVE  LET table == PlainTable(f, size)
         IN /\ TableOk(table) /\ table.total = size
            /\ \A o \in Nat : \A a : Maps(table.segs, o, a) =>
                 a = StoredAt(f, o) /\ a \in Nat /\ a < Device
            /\ \A o \in Nat : o < f.diskSize /\ o < size => \E a : Maps(table.segs, o, a)
<1> DEFINE pieces == ExtentPieces(f.extents)
           added == AddSegments(Empty, pieces)
           cut == Truncate(added, size)
           table == PlainTable(f, size)
<1>1. f.extents # <<>> /\ f.diskSize \in Nat
  BY FileTypes DEF SoundFile
<1>2. PlainTable(f, size) = Optimize(cut)
  BY <1>1, Zenon DEF PlainTable, FromFileExtents, ExtentPieces
<1>3. /\ pieces \in Seq(Piece)
      /\ \A p \in ToSet(pieces) : \A o \in Nat : \A a : PieceMaps(p, o, a) =>
              a = StoredAt(f, o) /\ a \in Nat /\ a < Device
      /\ \A e \in ToSet(f.extents) : \A o \in Nat : o \in BytesOf(e) =>
              \E p \in ToSet(pieces) : \E a : PieceMaps(p, o, a)
  BY ExtentPiecesMap
<1> HIDE DEF pieces
<1>4. Empty.segs \in Seq(Segment) /\ \A o, a : ~Maps(Empty.segs, o, a)
  BY EmptyMaps
<1>5. /\ added.segs \in Seq(Segment)
      /\ \A o \in Nat : \A a : Maps(added.segs, o, a) <=> \E p \in ToSet(pieces) : PieceMaps(p, o, a)
  <2>1. /\ added.segs \in Seq(Segment)
        /\ \A o \in Nat : \A a : Maps(added.segs, o, a)
             <=> Maps(Empty.segs, o, a) \/ \E p \in ToSet(pieces) : PieceMaps(p, o, a)
    BY <1>3, <1>4, AddSegmentsMaps
  <2> QED BY <1>4, <2>1
<1> HIDE DEF added
<1>6. /\ cut.segs \in Seq(Segment) /\ TableOk(cut) /\ cut.total = size
      /\ \A o \in Nat : \A a : Maps(cut.segs, o, a) <=> Maps(added.segs, o, a) /\ o < size
  BY <1>5, TruncateMaps, TruncateOk
<1> HIDE DEF cut
<1>7. /\ TableOk(Optimize(cut)) /\ Optimize(cut).total = size
      /\ \A o \in Nat : \A a : Maps(Optimize(cut).segs, o, a) <=> Maps(cut.segs, o, a)
  <2>1. cut = [segs |-> cut.segs, total |-> cut.total]
    BY <1>6 DEF TableOk
  <2> QED BY <1>6, <2>1, OptimizeMaps, OptimizeOk
<1>8. /\ TableOk(table) /\ table.total = size
      /\ \A o \in Nat : \A a : Maps(table.segs, o, a)
           <=> o < size /\ \E p \in ToSet(pieces) : PieceMaps(p, o, a)
  BY <1>2, <1>5, <1>6, <1>7
<1> HIDE DEF table
<1>9. \A o \in Nat : \A a : Maps(table.segs, o, a) => a = StoredAt(f, o) /\ a \in Nat /\ a < Device
  BY <1>3, <1>8
<1>10. ASSUME NEW o \in Nat, o < f.diskSize, o < size PROVE \E a : Maps(table.segs, o, a)
  <2>1. o \in 0 .. (f.diskSize - 1)
    BY <1>1, <1>10
  <2>2. PICK e \in ToSet(f.extents) : o \in BytesOf(e)
    BY <2>1 DEF SoundFile
  <2>3. PICK p \in ToSet(pieces) : \E a : PieceMaps(p, o, a)
    BY <1>3, <2>2
  <2> QED BY <1>8, <1>10, <2>3
<1> QED BY <1>8, <1>9, <1>10 DEF table
=============================================================================
