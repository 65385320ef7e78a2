------------------------------ MODULE FileReaders ------------------------------
(***************************************************************************)
(* The read-only file systems of nextboot-fs: what read_dir, read_file and  *)
(* file_extents of each of them answer for a volume.                        *)
(*                                                                          *)
(* A volume is a record.  Its fields are what the disk holds:               *)
(*   kind, fits   the format; whether its block size suits the device       *)
(*   per          device blocks in one unit of allocation of the format     *)
(*   total        the number of units; next and wild are the FAT            *)
(*   size, meta   length in bytes and block map of each node                *)
(*   dir, inside  the entries of each directory: unit by unit, and those    *)
(*                stored inside its metadata                                *)
(*   layout       which unit, counted from the start of the volume, holds   *)
(*                which part of a node (what the block maps stand for; Hole *)
(*                where nothing is allocated)                               *)
(*   geo          of XFS: units in a directory block, words in a unit, units*)
(*                in an allocation group and the distance of the first block*)
(*                numbers of two groups (that size rounded up to 2^n)       *)
(* A byte is named by its address on the device, so that reading the wrong  *)
(* place shows; Zero is a byte of a hole and Inline(k) byte k of a file     *)
(* stored inside its own metadata.  Names of files are not decoded.  An     *)
(* entry has a name, the node it leads to, a tag, and in `here` how many of *)
(* its three records (exFAT: file, stream, name) lie in the unit in which   *)
(* it begins.                                                               *)
(***************************************************************************)
EXTENDS Integers, Sequences, FiniteSets, SequencesExt, FiniteSetsExt

CONSTANTS
    BlockSize,      \* bytes of a device block
    Heap,           \* first block behind the FATs (FAT32, exFAT)
    PartitionStart, \* first block of the UDF partition
    DirectBlocks,   \* LEGACY_DIRECT_BLOCKS of ext4, scaled down
    IndirectBlocks, \* block numbers in one ext4 indirect block
    ExtentLimit,    \* 2^15, the length of the longest written ext4 extent
    LeafStart,      \* first unit of an XFS directory that holds no entries, scaled down
    NameOrder,      \* all names, by code points
    Lower(_)        \* a name with its ASCII letters in lower case

ASSUME ReadersAssumption ==
    /\ {BlockSize, DirectBlocks, IndirectBlocks, ExtentLimit, LeafStart} \subseteq Nat \ {0}
    /\ {Heap, PartitionStart} \subseteq Nat

Hole == -1
Zero == -1
Inline(k) == -2 - k
EndOfChain == 1000

Kinds == {"fat32", "exfat", "ntfs", "ext4", "xfs", "btrfs", "iso9660", "udf"}

Good(value) == [ok |-> TRUE, val |-> value]
Fail == [ok |-> FALSE, val |-> <<>>]

\* What the question mark operator of the code does: go on with a value, or
\* return the error.
Try(answer, Use(_)) == IF answer.ok THEN Use(answer.val) ELSE Fail

\* n bytes from device address a on, and the part [from, from + n) of s
Bytes(a, n) == [i \in 1..n |-> a + i - 1]
Slice(s, from, n) == SubSeq(s, from + 1, Min({from + n, Len(s)}))

CeilDiv(a, b) == (a + b - 1) \div b
Extent(virt, phys, count) == [virt |-> virt, phys |-> phys, count |-> count]
UnitBytes(v) == v.per * BlockSize

\* eq_ignore_ascii_case
SameName(a, b) == Lower(a) = Lower(b)

(***************************************************************************)
(* The units of a volume                                                    *)
(***************************************************************************)
ClusterToLba(v, c) == Heap + (c - 2) * v.per
IsCluster(v, c) == c \in 2..(v.total + 1)

\* Where unit u of a layout lies on the device.  The numbers stored in a block
\* map are something else: those of XFS consist of group and block.
UnitLba(v, u) ==
    CASE v.kind \in {"fat32", "exfat"} -> ClusterToLba(v, u)
      [] v.kind = "udf" -> PartitionStart + u
      [] OTHER -> u * v.per

\* The directory a unit belongs to, and which part of it the unit is.
DirParts(v, u) ==
    {p \in UNION {{d} \X DOMAIN v.layout[d] : d \in DOMAIN v.dir} :
        u # Hole /\ v.layout[p[1]][p[2]] = u}

\* The entries a unit holds; a unit that is no directory's holds none.
DirUnit(v, u) ==
    IF DirParts(v, u) = {} THEN <<>>
    ELSE LET p == CHOOSE q \in DirParts(v, u) : TRUE IN v.dir[p[1]][p[2]]

\* The entries of directory n a reader shows, inside its metadata and in units.
Entries(v, n, units, tags) ==
    SelectSeq(v.inside[n] \o FlattenSeq([i \in DOMAIN units |-> DirUnit(v, units[i])]),
              LAMBDA e : e.tag \in tags)

\* Mutant: pieces are joined when they follow each other in the file only.
PushExtentAnywhere(exts, e) ==
    IF e.count = 0 THEN exts
    ELSE IF exts # <<>> /\ Last(exts).virt + Last(exts).count = e.virt
    THEN [exts EXCEPT ![Len(exts)].count = @ + e.count]
    ELSE Append(exts, e)

\* Append a piece, or lengthen the last extent when the piece follows it in
\* the file and on the device.
PushExtent(exts, e) ==
    IF e.count = 0 THEN exts
    ELSE IF exts # <<>> /\ LET l == Last(exts) IN
                              /\ l.virt + l.count = e.virt
                              /\ l.phys + l.count = e.phys
    THEN [exts EXCEPT ![Len(exts)].count = @ + e.count]
    ELSE Append(exts, e)

(***************************************************************************)
(* FAT32 and exFAT: chains of clusters                                      *)
(***************************************************************************)
\* The FAT entry of c; an end mark taken for a cluster number leads far
\* behind the FAT, to a read that fails (0) or to whatever lies there.
NextCluster(v, c) ==
    IF c \in DOMAIN v.next THEN Good(v.next[c])
    ELSE IF v.wild = 0 THEN Fail ELSE Good(v.wild)

\* parse_file_entry drops hidden and system files.
ExfatShown == {"live"}

\* The clusters of a directory: every one of the chain, up to the end mark.
RECURSIVE DirectoryChain(_, _)
DirectoryChain(v, c) ==
    LET next == NextCluster(v, c) IN
    IF ~IsCluster(v, c) \/ ~next.ok THEN Fail
    ELSE IF next.val >= EndOfChain THEN Good(<<c>>)
    ELSE LET rest == DirectoryChain(v, next.val) IN
         IF rest.ok THEN Good(<<c>> \o rest.val) ELSE Fail

Fat32ReadDirectory(v, n) ==
    Try(DirectoryChain(v, v.meta[n].first),
        LAMBDA chain : Good(Entries(v, n, chain, {"live", "hidden"})))

\* parse_file_entry sees the cluster an entry begins in and no further: without
\* its stream record the entry is dropped, without its name record it has no name.
ExfatEntries(list) ==
    LET Named(e) == [e EXCEPT !.name = IF e.here = 2 THEN "" ELSE @]
        seen == SelectSeq(list, LAMBDA e : e.here >= 2)
    IN [i \in DOMAIN seen |-> Named(seen[i])]

\* The FAT is followed for every directory, contiguous or not.
ExfatReadDirectory(v, n) ==
    Try(DirectoryChain(v, v.meta[n].first),
        LAMBDA chain : Good(ExfatEntries(Entries(v, n, chain, ExfatShown))))

RECURSIVE ChainExtents(_, _, _, _, _)
ChainExtents(v, c, virt, left, exts) ==
    IF left = 0 THEN Good(exts)
    ELSE IF ~IsCluster(v, c) THEN Fail
    ELSE LET count == Min({v.per, left})
             more == PushExtent(exts, Extent(virt, ClusterToLba(v, c), count))
             next == NextCluster(v, c)
         IN IF left = count THEN Good(more)
            ELSE IF ~next.ok \/ next.val >= EndOfChain THEN Fail
            ELSE ChainExtents(v, next.val, virt + count, left - count, more)

Fat32Extents(v, n) ==
    ChainExtents(v, v.meta[n].first, 0, CeilDiv(v.size[n], BlockSize), <<>>)

ContiguousExtents(v, n) ==
    IF v.size[n] = 0 THEN Good(<<>>)
    ELSE IF ~IsCluster(v, v.meta[n].first) THEN Fail
    ELSE Good(<<Extent(0, ClusterToLba(v, v.meta[n].first),
                       CeilDiv(v.size[n], BlockSize))>>)

ExfatChainExtents(v, n) ==
    ChainExtents(v, v.meta[n].first, 0, CeilDiv(v.size[n], BlockSize), <<>>)

ExfatExtents(v, n) ==
    IF v.meta[n].contiguous THEN ContiguousExtents(v, n) ELSE ExfatChainExtents(v, n)

\* Skipping follows the FAT without looking for the end of the chain.
RECURSIVE SkipClusters(_, _, _)
SkipClusters(v, c, k) ==
    IF k = 0 THEN Good(c)
    ELSE LET next == NextCluster(v, c) IN
         IF next.ok THEN SkipClusters(v, next.val, k - 1) ELSE Fail

\* The rest of the chain, until the bytes are complete, the chain ends
\* (a short answer) or leads outside the volume (an error).
RECURSIVE ReadChain(_, _, _, _)
ReadChain(v, c, skip, left) ==
    IF left = 0 \/ c < 2 \/ c >= EndOfChain THEN Good(<<>>)
    ELSE IF ~IsCluster(v, c) THEN Fail
    ELSE LET count == Min({UnitBytes(v) - skip, left})
             piece == Bytes(ClusterToLba(v, c) * BlockSize + skip, count)
             next == NextCluster(v, c)
             rest == ReadChain(v, next.val, 0, left - count)
         IN IF left = count THEN Good(piece)
            ELSE IF ~next.ok \/ ~rest.ok THEN Fail
            ELSE Good(piece \o rest.val)

Fat32Read(v, n, off, len) ==
    Try(SkipClusters(v, v.meta[n].first, off \div UnitBytes(v)),
        LAMBDA start : ReadChain(v, start, off % UnitBytes(v), len))

\* read_from_extents takes the extents one after the other.
ReadFromExtents(exts, off, len) ==
    Slice(FlattenSeq([i \in DOMAIN exts |->
              Bytes(exts[i].phys * BlockSize, exts[i].count * BlockSize)]), off, len)

ExfatRead(v, n, off, len) ==
    Try(ExfatExtents(v, n), LAMBDA exts : Good(ReadFromExtents(exts, off, len)))

(***************************************************************************)
(* NTFS: attributes, whose run lists are spread over several file records   *)
(***************************************************************************)
\* Mutant: a sparse run resets the position.
RECURSIVE DataRunsResetBySparse(_, _, _)
DataRunsResetBySparse(coded, vcn, lcn) ==
    IF coded = <<>> THEN <<>>
    ELSE LET c == Head(coded)
             at == IF c.sparse THEN 0 ELSE lcn + c.delta
         IN <<[vcn |-> vcn, lcn |-> IF c.sparse THEN Hole ELSE at, count |-> c.count]>>
               \o DataRunsResetBySparse(Tail(coded), vcn + c.count, at)

\* parse_data_runs: lengths and signed distances from one run to the next; a
\* sparse run has no distance and does not move the position.
RECURSIVE DataRuns(_, _, _)
DataRuns(coded, vcn, lcn) ==
    IF coded = <<>> THEN <<>>
    ELSE LET c == Head(coded)
             at == IF c.sparse THEN lcn ELSE lcn + c.delta
         IN <<[vcn |-> vcn, lcn |-> IF c.sparse THEN Hole ELSE at, count |-> c.count]>>
               \o DataRuns(Tail(coded), vcn + c.count, at)

\* expand_attribute_list: the attributes of the base record and those of the
\* extension records the list names.
NtfsAttributes(m) == m.base \o SelectSeq(m.extension, LAMBDA a : a.listed)

\* collect_nonresident_runs: all runs, by the cluster of the file they begin at.
NtfsRuns(attrs) ==
    SortSeq(FlattenSeq([i \in DOMAIN attrs |->
                DataRuns(attrs[i].coded, attrs[i].lowest, 0)]),
            LAMBDA r, s : r.vcn < s.vcn)

\* The first run that reaches byte p of a file; 0 if there is none.
RunAt(v, runs, p) ==
    SelectInSeq(runs, LAMBDA r : p \div UnitBytes(v) \in r.vcn..(r.vcn + r.count - 1))

\* read_from_runs: a sparse run gives zeros, a gap and a place behind the end
\* of the volume an error.
ReadFromRuns(v, runs, off, len) ==
    LET Run(p) == runs[RunAt(v, runs, p)]
        Inside(p) == Run(p).lcn + p \div UnitBytes(v) - Run(p).vcn < v.total
    IN IF \A p \in off..(off + len - 1) :
              RunAt(v, runs, p) # 0 /\ (Run(p).lcn = Hole \/ Inside(p))
       THEN Good([i \in 1..len |->
                LET p == off + i - 1 IN
                IF Run(p).lcn = Hole THEN Zero
                ELSE (Run(p).lcn - Run(p).vcn) * UnitBytes(v) + p])
       ELSE Fail

NtfsRead(v, n, off, len) ==
    LET attrs == NtfsAttributes(v.meta[n]) IN
    IF Len(attrs) = 1 /\ attrs[1].resident
    THEN Good([i \in 1..len |-> Inline(off + i - 1)])
    ELSE IF \E i \in DOMAIN attrs : attrs[i].resident THEN Fail
    ELSE ReadFromRuns(v, NtfsRuns(attrs), off, len)

\* runs_to_extents: as many blocks as the file has; a sparse run is refused.
RECURSIVE RunsToExtents(_, _, _, _)
RunsToExtents(v, runs, left, exts) ==
    IF left = 0 THEN Good(exts)
    ELSE IF runs = <<>> \/ Head(runs).lcn = Hole THEN Fail
    ELSE LET r == Head(runs)
             count == Min({r.count * v.per, left})
         IN RunsToExtents(v, Tail(runs), left - count,
                PushExtent(exts, Extent(r.vcn * v.per, r.lcn * v.per, count)))

NtfsExtents(v, n) ==
    LET attrs == NtfsAttributes(v.meta[n]) IN
    IF Len(attrs) = 1 /\ attrs[1].resident THEN Good(<<>>)
    ELSE IF \E i \in DOMAIN attrs : attrs[i].resident THEN Fail
    ELSE RunsToExtents(v, NtfsRuns(attrs), CeilDiv(v.size[n], BlockSize), <<>>)

\* Names of the DOS name space are second names of files listed anyway.
NtfsShown == {"live", "hidden"}

\* parse_index_allocations: the runs are read as one piece, up to the end of the
\* last one; every unit holds one index record, one of zeros is passed over.
NtfsIndexUnits(v, runs) ==
    LET units == Max({0} \cup {runs[i].vcn + runs[i].count : i \in DOMAIN runs})
    IN Try(ReadFromRuns(v, runs, 0, units * UnitBytes(v)),
           LAMBDA data : Good([k \in 1..units |->
                                 data[(k - 1) * UnitBytes(v) + 1] \div UnitBytes(v)]))

\* Mutant: the entries are not sorted before neighbours are compared.
NtfsSortedNot(list) ==
    LET Keep(kept, e) == IF kept # <<>> /\ SameName(Last(kept).name, e.name)
                         THEN kept ELSE Append(kept, e)
    IN FoldLeft(Keep, <<>>, list)

\* sort_by name, then dedup_by: of neighbours that differ in case alone the first
\* one stays.
NtfsSorted(list) ==
    LET Rank(e) == CHOOSE i \in DOMAIN NameOrder : NameOrder[i] = e.name
        Keep(kept, e) == IF kept # <<>> /\ SameName(Last(kept).name, e.name)
                         THEN kept ELSE Append(kept, e)
    IN FoldLeft(Keep, <<>>, SortSeq(list, LAMBDA a, b : Rank(a) < Rank(b)))

\* The index root and the allocated index records, as one sorted list.
NtfsReadDirectory(v, n) ==
    Try(NtfsIndexUnits(v, NtfsRuns(NtfsAttributes(v.meta[n]))),
        LAMBDA units : Good(NtfsSorted(Entries(v, n, units, NtfsShown))))

(***************************************************************************)
(* ext4 and XFS: extents with gaps between them                             *)
(***************************************************************************)
\* Extents are taken in turn and what each has of the range is copied behind
\* what is there already; nothing is copied for a gap.
ReadExtents(v, exts, off, len) ==
    LET unit == UnitBytes(v)
        Piece(e) ==
            LET from == Max({off, e.at * unit})
                to == Min({off + len, (e.at + e.count) * unit})
            IN IF from < to THEN Bytes(e.unit * unit + from - e.at * unit, to - from)
               ELSE <<>>
    IN FlattenSeq([i \in DOMAIN exts |-> Piece(exts[i])])

\* extent_tree_extents: the top bit of a length marks an extent that was never
\* written, and is masked out.
Ext4Tree(m) ==
    LET Decode(e) == [at |-> e.at, unit |-> e.unit, count |-> e.len % ExtentLimit]
    IN IF m.depth # 0 THEN Fail
       ELSE Good(SelectSeq([i \in DOMAIN m.tree |-> Decode(m.tree[i])],
                           LAMBDA e : e.count # 0))

\* legacy_block_extents: direct pointers, then one indirect block; a zero
\* pointer among those the file needs is taken for damage.
RECURSIVE LegacyExtents(_, _)
LegacyExtents(ptrs, exts) ==
    IF ptrs = <<>> THEN exts
    ELSE LET p == Head(ptrs)
             at == IF exts = <<>> THEN 0 ELSE Last(exts).at + Last(exts).count
         IN LegacyExtents(Tail(ptrs),
                IF exts # <<>> /\ Last(exts).unit + Last(exts).count = p
                THEN [exts EXCEPT ![Len(exts)].count = @ + 1]
                ELSE Append(exts, [at |-> at, unit |-> p, count |-> 1]))

Ext4Legacy(v, n) ==
    LET needed == CeilDiv(v.size[n], BlockSize)
        ptrs == SubSeq(v.meta[n].ptrs, 1, needed)
    IN IF \/ needed > DirectBlocks + IndirectBlocks
          \/ \E i \in DOMAIN ptrs : ptrs[i] = Hole
       THEN Fail
       ELSE Good(LegacyExtents(ptrs, <<>>))

Ext4NodeExtents(v, n) ==
    IF v.meta[n].legacy THEN Ext4Legacy(v, n) ELSE Ext4Tree(v.meta[n])

Ext4Read(v, n, off, len) ==
    Try(Ext4NodeExtents(v, n), LAMBDA exts : Good(ReadExtents(v, exts, off, len)))

Ext4Extents(v, n) ==
    Try(Ext4NodeExtents(v, n),
        LAMBDA exts : Good([i \in DOMAIN exts |->
                               Extent(exts[i].at, exts[i].unit, exts[i].count)]))

\* The blocks of which data was read, counted from block base of the device.
BlocksOf(data, base) ==
    [i \in 1..CeilDiv(Len(data), BlockSize) |->
        data[(i - 1) * BlockSize + 1] \div BlockSize - base]

\* A directory is read like a file and then cut into records.
Ext4ReadDirectory(v, n) ==
    Try(Ext4Read(v, n, 0, v.size[n]),
        LAMBDA data : Good(Entries(v, n, BlocksOf(data, 0), {"live", "hidden"})))

\* read_inode: inodes with a tree of extents, or with an extent that was
\* allocated and never written, are refused as a whole.
XfsReadable(m) == ~m.tree /\ \A i \in DOMAIN m.exts : m.exts[i].written

\* The numbers of a block map are taken for blocks counted from the start of the
\* volume; read_block fails behind its end.
XfsRead(v, n, off, len) ==
    LET data == ReadExtents(v, v.meta[n].exts, off, len) IN
    IF ~XfsReadable(v.meta[n]) THEN Fail
    ELSE IF v.meta[n].local THEN Good([i \in 1..len |-> Inline(off + i - 1)])
    ELSE IF \E i \in DOMAIN data : data[i] >= v.total * UnitBytes(v) THEN Fail
    ELSE Good(data)

XfsExtents(v, n) ==
    LET exts == v.meta[n].exts IN
    IF ~XfsReadable(v.meta[n]) THEN Fail
    ELSE Good([i \in DOMAIN exts |-> Extent(exts[i].at * v.per, exts[i].unit * v.per,
                                            exts[i].count * v.per)])

\* read_directory_blocks: each extent below the leaves is cut into directory
\* blocks, beginning anew with every extent.
XfsDirectoryBlocks(v, exts) ==
    LET data == SelectSeq(exts, LAMBDA e : e.at < LeafStart)
        Cut(e) == [k \in 1..CeilDiv(e.count, v.geo.dirUnits) |->
                     LET from == (k - 1) * v.geo.dirUnits IN
                     [j \in 1..Min({v.geo.dirUnits, e.count - from}) |-> e.unit + from + j - 1]]
    IN FlattenSeq([i \in DOMAIN data |-> Cut(data[i])])

\* The magic a directory block begins with.
XfsMagic(v, block) ==
    IF DirParts(v, block[1]) = {} THEN "none"
    ELSE LET p == CHOOSE q \in DirParts(v, block[1]) : TRUE IN v.meta[p[1]].magic[p[2]]

RecordWords == 3

\* block_data_limit: in a directory of one block the entries end before a table
\* with a word for each of them; the code counts two words in the format of XFS
\* version 5.
XfsDataLimit(v, block, records) ==
    LET used == Len(SelectSeq(records, LAMBDA e : e.tag # "deleted")) IN
    Len(block) * v.geo.slots -
        CASE XfsMagic(v, block) = "block" -> used
          [] XfsMagic(v, block) = "block3" -> 2 * used
          [] OTHER -> 0

\* read_nextboot_dir takes every record; parse_dir2_entries stops at the limit,
\* drops dot entries, and fails at a record that reaches past the limit.
XfsBlockEntries(v, block) ==
    LET records == FlattenSeq([j \in DOMAIN block |-> DirUnit(v, block[j])])
        limit == XfsDataLimit(v, block, records)
    IN IF XfsMagic(v, block) = "nextboot" THEN Good(records)
       ELSE IF \E i \in DOMAIN records :
                   /\ records[i].tag # "deleted"
                   /\ limit \in (RecordWords * (i - 1) + 1)..(RecordWords * i - 1)
       THEN Fail
       ELSE Good(SelectSeq(SubSeq(records, 1, Min({limit \div RecordWords, Len(records)})),
                           LAMBDA e : e.tag \in {"live", "hidden"}))

\* read_dir_entries: the inode's own entries, or those of the blocks with a known
\* magic; a directory without such a block is refused.
XfsReadDirectory(v, n) ==
    LET blocks == XfsDirectoryBlocks(v, v.meta[n].exts)
        known == SelectSeq(blocks, LAMBDA b : XfsMagic(v, b) # "none")
        answers == [i \in DOMAIN known |-> XfsBlockEntries(v, known[i])]
    IN IF v.meta[n].local THEN Good(Entries(v, n, <<>>, {"live", "hidden"}))
       ELSE IF \/ \E i \in DOMAIN blocks : \E u \in Range(blocks[i]) : u >= v.total
               \/ known = <<>>
               \/ \E i \in DOMAIN answers : ~answers[i].ok
       THEN Fail
       ELSE Good(FlattenSeq([i \in DOMAIN answers |-> answers[i].val]))

\* read_dir reads the inode of every entry it lists: one refused inode makes
\* the whole directory unreadable.
XfsReadDir(v, n) ==
    Try(XfsReadDirectory(v, n),
        LAMBDA list : IF \A i \in DOMAIN list : XfsReadable(v.meta[list[i].node])
                      THEN Good(list) ELSE Fail)

(***************************************************************************)
(* Btrfs (the compact layout of the image generator) and ISO9660: one run   *)
(***************************************************************************)
BtrfsRead(v, n, off, len) ==
    Good(Bytes(v.meta[n].first * UnitBytes(v) + off, len))

BtrfsExtents(v, n) ==
    Good(IF v.meta[n].blocks = 0 THEN <<>>
         ELSE <<Extent(0, v.meta[n].first * v.per, v.meta[n].blocks * v.per)>>)

BtrfsReadDirectory(v, n) ==
    IF v.meta[n].blocks # 1 THEN Fail
    ELSE Good(Entries(v, n, <<v.meta[n].first>>, {"live", "hidden"}))

IsoRead(v, n, off, len) == Good(Bytes(v.meta[n].first * BlockSize + off, len))

IsoExtents(v, n) ==
    LET count == CeilDiv(v.size[n], BlockSize) IN
    Good(IF count = 0 THEN <<>> ELSE <<Extent(0, v.meta[n].first, count)>>)

\* parse_directory_record drops hidden records.
IsoShown == {"live"}

IsoReadDirectory(v, n) ==
    LET count == Max({CeilDiv(v.size[n], BlockSize), 1}) IN
    Good(Entries(v, n, [i \in 1..count |-> v.meta[n].first + i - 1], IsoShown))

(***************************************************************************)
(* UDF: allocation descriptors with lengths in bytes                        *)
(***************************************************************************)
\* Descriptors of blocks behind the end of the partition are refused.
UdfMapped(v, n) == \A i \in DOMAIN v.meta[n].ads : v.meta[n].ads[i].block < v.total

\* read_node_data: an extent that was not recorded is passed over, the start
\* inside a block is kept for the first block of an extent only.
RECURSIVE UdfCopy(_, _, _, _, _)
UdfCopy(ads, cursor, off, len, copied) ==
    IF ads = <<>> \/ Len(copied) = len THEN copied
    ELSE LET ad == Head(ads)
             end == cursor + ad.len
             within == Max({off - cursor, 0})
             skip == within \div BlockSize
             inside == IF skip = 0 /\ copied = <<>> THEN within % BlockSize ELSE 0
             count == Min({ad.len - within, len - Len(copied)})
             piece == Bytes((PartitionStart + ad.block + skip) * BlockSize + inside, count)
         IN UdfCopy(Tail(ads), end, off, len,
                    IF ~ad.recorded \/ off >= end THEN copied ELSE copied \o piece)

UdfRead(v, n, off, len) ==
    IF v.meta[n].embedded THEN Good([i \in 1..len |-> Inline(off + i - 1)])
    ELSE IF UdfMapped(v, n) THEN Good(UdfCopy(v.meta[n].ads, 0, off, len, <<>>))
    ELSE Fail

RECURSIVE UdfNodeExtents(_, _, _)
UdfNodeExtents(ads, virt, exts) ==
    IF ads = <<>> THEN exts
    ELSE LET ad == Head(ads)
             count == CeilDiv(ad.len, BlockSize)
         IN UdfNodeExtents(Tail(ads), virt + count,
                IF ad.recorded
                THEN Append(exts, Extent(virt, PartitionStart + ad.block, count))
                ELSE exts)

UdfExtents(v, n) ==
    IF v.meta[n].embedded THEN Good(<<>>)
    ELSE IF UdfMapped(v, n) THEN Good(UdfNodeExtents(v.meta[n].ads, 0, <<>>))
    ELSE Fail

\* A directory is read like a file; deleted and parent entries are dropped.
UdfReadDirectory(v, n) ==
    IF v.meta[n].embedded THEN Good(Entries(v, n, <<>>, {"live", "hidden"}))
    ELSE Try(UdfRead(v, n, 0, v.size[n]),
             LAMBDA data : Good(Entries(v, n, BlocksOf(data, PartitionStart),
                                        {"live", "hidden"})))

(***************************************************************************)
(* The FileSystem trait                                                     *)
(***************************************************************************)
\* init: FAT32, exFAT, NTFS, ext4, ISO9660 and UDF want their own block size
\* from the device; XFS and Btrfs accept a multiple of it.
Mounts(v) == v.fits \/ v.kind \in {"xfs", "btrfs"}

ReadDirectory(v, n) ==
    CASE v.kind = "fat32" -> Fat32ReadDirectory(v, n)
      [] v.kind = "exfat" -> ExfatReadDirectory(v, n)
      [] v.kind = "ntfs" -> NtfsReadDirectory(v, n)
      [] v.kind = "ext4" -> Ext4ReadDirectory(v, n)
      [] v.kind = "xfs" -> XfsReadDirectory(v, n)
      [] v.kind = "btrfs" -> BtrfsReadDirectory(v, n)
      [] v.kind = "iso9660" -> IsoReadDirectory(v, n)
      [] v.kind = "udf" -> UdfReadDirectory(v, n)

\* The node a path names: component by component, the first entry in each
\* directory on the way whose name is the same but for case.
RECURSIVE FindNode(_, _, _)
FindNode(v, n, path) ==
    IF path = <<>> THEN Good(n)
    ELSE IF n \notin DOMAIN v.dir THEN Fail
    ELSE Try(ReadDirectory(v, n),
             LAMBDA list :
                 LET at == SelectInSeq(list, LAMBDA e : SameName(e.name, Head(path)))
                 IN IF at = 0 THEN Fail ELSE FindNode(v, list[at].node, Tail(path)))

Stat(v, path) == IF Mounts(v) THEN FindNode(v, "root", path) ELSE Fail

ReadDir(v, path) ==
    Try(Stat(v, path),
        LAMBDA n : IF n \notin DOMAIN v.dir THEN Fail
                   ELSE IF v.kind = "xfs" THEN XfsReadDir(v, n) ELSE ReadDirectory(v, n))

ReadNode(v, n, off, len) ==
    CASE v.kind = "fat32" -> Fat32Read(v, n, off, len)
      [] v.kind = "exfat" -> ExfatRead(v, n, off, len)
      [] v.kind = "ntfs" -> NtfsRead(v, n, off, len)
      [] v.kind = "ext4" -> Ext4Read(v, n, off, len)
      [] v.kind = "xfs" -> XfsRead(v, n, off, len)
      [] v.kind = "btrfs" -> BtrfsRead(v, n, off, len)
      [] v.kind = "iso9660" -> IsoRead(v, n, off, len)
      [] v.kind = "udf" -> UdfRead(v, n, off, len)

\* As many bytes as fit the buffer and are left of the file.
ReadFile(v, path, off, want) ==
    Try(Stat(v, path),
        LAMBDA n : IF n \in DOMAIN v.dir THEN Fail
                   ELSE IF off >= v.size[n] \/ want = 0 THEN Good(<<>>)
                   ELSE ReadNode(v, n, off, Min({want, v.size[n] - off})))

NodeExtents(v, n) ==
    CASE v.kind = "fat32" -> Fat32Extents(v, n)
      [] v.kind = "exfat" -> ExfatExtents(v, n)
      [] v.kind = "ntfs" -> NtfsExtents(v, n)
      [] v.kind = "ext4" -> Ext4Extents(v, n)
      [] v.kind = "xfs" -> XfsExtents(v, n)
      [] v.kind = "btrfs" -> BtrfsExtents(v, n)
      [] v.kind = "iso9660" -> IsoExtents(v, n)
      [] v.kind = "udf" -> UdfExtents(v, n)

FileExtents(v, path) ==
    Try(Stat(v, path), LAMBDA n : IF n \in DOMAIN v.dir THEN Fail ELSE NodeExtents(v, n))
================================================================================
