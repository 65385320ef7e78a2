---------------------------- MODULE MCVirtualFiles ----------------------------
(* Volumes of every format, written from a layout the way a formatting tool  *)
(* would: a root, a directory d of up to two units, an empty file k and a    *)
(* file f of up to three units, in any order, with holes where the format    *)
(* has them, and damaged block maps.                                         *)
EXTENDS VirtualFiles

CONSTANT MCKinds

\* An entry that lies in one unit as a whole.
Entry(name, node, tag) == [name |-> name, node |-> node, tag |-> tag, here |-> 3]
RootUnit == 2
Units == {5, 6, 7}

\* The layouts of f: distinct units, in any order.
Layouts(places) ==
    {s \in UNION {[1..k -> places] : k \in 0..3} :
        \A i, j \in DOMAIN s : s[i] = s[j] /\ s[i] # Hole => i = j}
Consecutive(s) == \A i \in 1..(Len(s) - 1) : s[i + 1] = s[i] + 1
FileLayouts(kind) ==
    CASE kind \in {"fat32", "exfat"} -> Layouts(Units)
      [] kind \in {"btrfs", "iso9660"} -> {s \in Layouts(Units) : Consecutive(s)}
      [] OTHER -> Layouts(Units \cup {Hole})

\* The maximal pieces of a layout that are consecutive, or one hole.
Pieces(layout) ==
    LET Add(acc, i) ==
            LET u == layout[i] IN
            IF acc # <<>> /\ LET l == Last(acc) IN
                                IF u = Hole THEN l.unit = Hole
                                ELSE l.unit # Hole /\ l.unit + l.count = u
            THEN [acc EXCEPT ![Len(acc)].count = @ + 1]
            ELSE Append(acc, [at |-> i - 1, unit |-> u, count |-> 1])
    IN FoldLeft(Add, <<>>, [i \in 1..Len(layout) |-> i])
Placed(layout) == SelectSeq(Pieces(layout), LAMBDA e : e.unit # Hole)

(* Block maps *)
RECURSIVE Coded(_, _)
Coded(pieces, lcn) ==
    IF pieces = <<>> THEN <<>>
    ELSE LET e == Head(pieces) IN
         IF e.unit = Hole
         THEN <<[sparse |-> TRUE, delta |-> 0, count |-> e.count]>> \o Coded(Tail(pieces), lcn)
         ELSE <<[sparse |-> FALSE, delta |-> e.unit - lcn, count |-> e.count]>>
                 \o Coded(Tail(pieces), e.unit)
Attribute(pieces, listed) ==
    [resident |-> pieces = <<>>, listed |-> listed,
     lowest |-> IF pieces = <<>> THEN 0 ELSE pieces[1].at, coded |-> Coded(pieces, 0)]

NtfsMaps(layout) ==
    LET p == Pieces(layout)
        whole == [base |-> <<Attribute(p, TRUE)>>, extension |-> <<>>]
        Split(first, rest) == [base |-> <<>>,
                               extension |-> <<Attribute(Tail(p), rest),
                                               Attribute(<<p[1]>>, first)>>]
    IN {<<whole, TRUE>>}
       \cup IF Len(p) < 2 THEN {}
            ELSE {<<Split(first, rest), first /\ rest>> : first \in BOOLEAN, rest \in BOOLEAN}

Ext4Maps(layout) ==
    LET Coding(p) == [i \in DOMAIN p |->
            [at |-> p[i].at, unit |-> IF p[i].unit = Hole THEN 8 ELSE p[i].unit,
             len |-> p[i].count + IF p[i].unit = Hole THEN ExtentLimit ELSE 0]]
        tree == [legacy |-> FALSE, ptrs |-> <<>>, depth |-> 0, tree |-> Coding(Placed(layout))]
    IN {[tree EXCEPT !.legacy = TRUE, !.ptrs = layout, !.tree = <<>>], tree,
        [tree EXCEPT !.tree = Coding(Pieces(layout))], [tree EXCEPT !.depth = 1]}
       \X {TRUE}

XfsMaps(layout) ==
    LET map == [local |-> layout = <<>>, tree |-> FALSE, magic |-> <<>>,
                exts |-> [i \in DOMAIN Placed(layout) |->
                    LET e == Placed(layout)[i] IN
                    [at |-> e.at, unit |-> e.unit, count |-> e.count, written |-> TRUE]]]
    IN ({map, [map EXCEPT !.tree = TRUE]}
        \cup IF map.exts = <<>> THEN {} ELSE {[map EXCEPT !.exts[1].written = FALSE]})
       \X {TRUE}

UdfMap(pieces, size) ==
    [embedded |-> pieces = <<>>,
     ads |-> [i \in DOMAIN pieces |->
                LET e == pieces[i] IN
                [len |-> Min({e.count * BlockSize, size - e.at * BlockSize}),
                 block |-> IF e.unit = Hole THEN 0 ELSE e.unit, recorded |-> e.unit # Hole]]]
UdfMaps(layout, size) ==
    {UdfMap(Pieces(layout), size),
     UdfMap([i \in DOMAIN layout |-> [at |-> i - 1, unit |-> layout[i], count |-> 1]], size)}
    \X {TRUE}

ChainMaps(layout) ==
    {[first |-> IF layout = <<>> THEN 0 ELSE layout[1], contiguous |-> c] :
        c \in {FALSE} \cup IF layout # <<>> /\ Consecutive(layout) THEN {TRUE} ELSE {}} \X {TRUE}

\* The block maps of a layout, each with whether it is whole.
Maps(kind, layout, size) ==
    CASE kind \in {"fat32", "exfat"} -> ChainMaps(layout)
      [] kind = "ntfs" -> NtfsMaps(layout)
      [] kind = "ext4" -> Ext4Maps(layout)
      [] kind = "xfs" -> XfsMaps(layout)
      [] kind = "udf" -> UdfMaps(layout, size)
      [] OTHER -> {<<[first |-> IF layout = <<>> THEN 0 ELSE layout[1],
                      blocks |-> Len(layout)], TRUE>>}
\* A whole map every reader accepts.
PlainMap(kind, layout, size) ==
    CHOOSE m \in Maps(kind, layout, size) :
        /\ m[2]
        /\ kind = "ext4" => m[1].depth = 0
        /\ kind = "xfs" => XfsReadable(m[1])
        /\ kind = "exfat" => ~m[1].contiguous

(* Chains: the FAT of a volume, whole or cut behind the first cluster of d or f *)
Fat(total, chains, contiguous, cuts) ==
    LET Follow(s, i) == IF i = Len(s) THEN EndOfChain ELSE s[i + 1]
        Of(c) == {p \in UNION {{k} \X DOMAIN chains[k] : k \in DOMAIN chains} :
                     chains[p[1]][p[2]] = c}
    IN [c \in 0..(total + 1) |->
          IF c < 2 THEN EndOfChain
          ELSE IF Of(c) = {} THEN 0
          ELSE LET p == CHOOSE q \in Of(c) : TRUE IN
               IF p[1] \in contiguous THEN 0
               ELSE IF p[2] = 1 /\ p[1] \in DOMAIN cuts /\ cuts[p[1]] # Hole THEN cuts[p[1]]
               ELSE Follow(chains[p[1]], p[2])]

(* Directories *)
InsideRoot(kind) == kind \in {"ntfs", "xfs", "udf"}
Deleted(kind) ==
    IF kind \in {"fat32", "exfat", "ext4", "xfs"} THEN <<Entry("x", "f", "deleted")>> ELSE <<>>
RootEntries(kind) ==
    (IF InsideRoot(kind) THEN <<>> ELSE Deleted(kind)) \o <<Entry("d", "d", "live")>>
       \o IF kind \in {"iso9660", "udf"} THEN <<Entry("g", "f", "live")>> ELSE <<>>

\* The entries of d in two parts, each with live ones.
FirstPart(kind) ==
    <<Entry("m", "k", "live"), Entry("h", "f", "hidden")>>
       \o (CASE kind = "ntfs" -> <<Entry("f~1", "f", "dos")>>
             [] kind \in {"exfat", "btrfs"} -> <<>>
             [] OTHER -> <<Entry(".", "d", "dot")>>)
       \o Deleted(kind)
LastPart(extra) == <<Entry("f", "f", "live")>> \o extra
Small == <<Entry("a", "k", "live")>>
\* Names that differ in case alone, with and without another one between them.
Twins == {<<Entry("F", "k", "live"), Entry("A", "k", "live")>>,
          <<Entry("F", "k", "live"), Entry("a", "k", "live")>>}

\* Entry sets of three records written one behind the other over units of `slots`.
Written(entries, slots, units) ==
    LET At(i) == 3 * (i - 1)
    IN [u \in 1..units |->
          LET mine == SetToSortSeq({i \in DOMAIN entries : At(i) \div slots = u - 1}, <)
          IN [j \in DOMAIN mine |->
                [entries[mine[j]] EXCEPT !.here = Min({3, slots - (At(mine[j]) % slots)})]]]

OneGroup == [dirUnits |-> 1, slots |-> 12, ag |-> 10, span |-> 16]

\* A directory: its layout, its entries by unit and inside, its map; for XFS the
\* magic of each unit and the geometry of the volume; where its chain is cut.
Directory(layout, units, inside, map, magic, geo) ==
    [layout |-> layout, units |-> units, inside |-> inside, map |-> map[1], whole |-> map[2],
     magic |-> magic, geo |-> geo, cut |-> Hole]
Simple(layout, units, inside, map) ==
    Directory(layout, units, inside, map, <<"data", "data">>, OneGroup)

DirLayouts(kind) ==
    CASE kind = "iso9660" -> {<<3, 4>>}
      [] kind = "btrfs" -> {<<3>>}
      [] OTHER -> {<<3, 4>>, <<4, 3>>}

\* Over the two units (or the one) of a layout.
Spread(kind, layout, extra, map) ==
    LET first == FirstPart(kind)
        last == LastPart(extra)
    IN CASE Len(layout) = 1 -> Simple(layout, <<first \o last>>, <<>>, map)
         [] kind = "ntfs" -> Simple(layout, <<Front(last), <<Last(last)>>>>, first, map)
         [] OTHER -> Simple(layout, <<first, last>>, <<>>, map)

PlainDirectories(kind) ==
    {Spread(kind, l, Small, PlainMap(kind, l, Len(l) * BlockSize)) : l \in DirLayouts(kind)}

\* exFAT: contiguous ones, and entry sets that cross the end of a cluster.
ExfatDirectories ==
    {Spread("exfat", l, Small, m) : l \in {<<3, 4>>}, m \in ChainMaps(<<3, 4>>)}
    \cup {Simple(l, Written(FirstPart("exfat") \o LastPart(Small), slots, 2), <<>>,
                 PlainMap("exfat", l, 0)) : l \in DirLayouts("exfat"), slots \in 8..11}

NtfsDirectories ==
    UNION {{Spread("ntfs", l, extra, m) : extra \in Twins \cup {Small}, m \in NtfsMaps(l)} :
              l \in DirLayouts("ntfs")}

\* XFS: several groups; directory blocks of two units; directories of one block, of
\* either version and with little or much room; the compact form, and none at all.
XfsDirectories ==
    LET one == FirstPart("xfs") \o LastPart(Small)
        used == Len(one) - Len(Deleted("xfs"))
        Map(l) == PlainMap("xfs", l, 0)
        Geo(g) == {[d EXCEPT !.geo.ag = g[1], !.geo.span = g[2]] : d \in PlainDirectories("xfs")}
        Blocks(slots) ==
            {Directory(l, Written(one, slots, 2), <<>>, Map(l), <<"data", "none">>,
                       [OneGroup EXCEPT !.dirUnits = 2, !.slots = slots]) : l \in DirLayouts("xfs")}
        Single(magic, slots, entries, whole) ==
            Directory(<<3>>, <<entries>>, <<>>, <<Map(<<3>>)[1], whole>>, <<magic>>,
                      [OneGroup EXCEPT !.slots = slots])
    IN UNION {Geo(g) : g \in {<<8, 8>>, <<6, 8>>, <<3, 4>>}}
       \cup Blocks(12) \cup Blocks(13) \cup Blocks(16)
       \cup {Single(magic, 3 * Len(one) + room * used, one, TRUE) :
                magic \in {"block", "block3"}, room \in {1, 2}}
       \cup {Single("block3", 3 * Len(one) + 2 * used - 1, one, TRUE),
             Single("nextboot", 30, LastPart(Small), TRUE), Single("none", 30, one, FALSE)}
       \cup {Spread("xfs", l, extra, Map(l)) : l \in DirLayouts("xfs"), extra \in Twins}

CutDirectories(kind) ==
    {[d EXCEPT !.cut = c] : d \in PlainDirectories(kind), c \in {EndOfChain, 0, 20}}

Directories(kind) ==
    PlainDirectories(kind) \cup
    (IF kind \in {"fat32", "exfat"} THEN CutDirectories(kind) ELSE {}) \cup
    CASE kind = "exfat" -> ExfatDirectories
      [] kind = "ntfs" -> NtfsDirectories
      [] kind = "xfs" -> XfsDirectories
      [] kind = "ext4" -> {Spread("ext4", l, extra, PlainMap("ext4", l, 0)) :
                             l \in DirLayouts("ext4"), extra \in Twins}
      [] OTHER -> {}

(* Volumes *)
\* The number an XFS block map holds for a unit: group and block in the group.
Numbered(kind, map, geo) ==
    IF kind # "xfs" THEN map
    ELSE [map EXCEPT !.exts = [i \in DOMAIN @ |-> [@[i] EXCEPT
              !.unit = (@ \div geo.ag) * geo.span + (@ % geo.ag)]]]

\* XFS keeps the hash table of a directory of several blocks behind LeafStart.
DirectoryMap(kind, d) ==
    LET leaf == [at |-> LeafStart, unit |-> 9, count |-> 1, written |-> TRUE]
        full == IF kind = "xfs" /\ Len(d.layout) > 1 THEN [d.map EXCEPT !.exts = Append(@, leaf)]
                ELSE d.map
    IN IF kind = "xfs" THEN [Numbered(kind, full, d.geo) EXCEPT !.magic = d.magic] ELSE full

RootMap(kind, layout, size) ==
    IF kind = "ntfs" THEN [base |-> <<>>, extension |-> <<>>]
    ELSE PlainMap(kind, layout, size)[1]

Volume(kind, per, d, fl, slack, fm, cut, wild, fits) ==
    LET total == IF kind \in {"fat32", "exfat"} THEN 8 ELSE 10
        size == IF fl = <<>> THEN slack ELSE Len(fl) * per * BlockSize - slack
        rl == IF InsideRoot(kind) THEN <<>> ELSE <<RootUnit>>
        layout == [root |-> rl, d |-> d.layout, k |-> <<>>, f |-> fl]
        flat(l) == Len(l) * per * BlockSize
        contiguous == {n \in {"d", "f"} :
                         kind = "exfat" /\ (IF n = "d" THEN d.map ELSE fm[1]).contiguous}
    IN [kind |-> kind, fits |-> fits, per |-> per, total |-> total, wild |-> wild, geo |-> d.geo,
        intact |-> fm[2] /\ d.whole /\ cut = Hole /\ d.cut = Hole,
        size |-> [root |-> flat(rl), d |-> flat(d.layout), k |-> 0, f |-> size],
        meta |-> [root |-> RootMap(kind, rl, flat(rl)), d |-> DirectoryMap(kind, d),
                  k |-> PlainMap(kind, <<>>, 0)[1], f |-> Numbered(kind, fm[1], d.geo)],
        dir |-> [root |-> IF InsideRoot(kind) THEN <<>> ELSE <<RootEntries(kind)>>, d |-> d.units],
        inside |-> [root |-> IF InsideRoot(kind) THEN RootEntries(kind) ELSE <<>>, d |-> d.inside],
        layout |-> layout,
        next |-> IF kind \notin {"fat32", "exfat"} THEN <<>>
                 ELSE Fat(total, layout, contiguous, [d |-> d.cut, f |-> cut])]

Pers(kind) == IF kind \in {"ext4", "iso9660", "udf"} THEN {1} ELSE {1, 2}
\* FAT32 has no contiguous files; a cut chain is a damage of chained files.
Cuts(kind, fl, fm) ==
    IF kind \in {"fat32", "exfat"} /\ Len(fl) > 1 /\ ~fm[1].contiguous
    THEN {Hole, EndOfChain, 0, 20} ELSE {Hole}
\* Only NTFS, XFS and UDF keep a small file inside its metadata.
Slacks(kind, per, fl) ==
    IF fl # <<>> THEN {0, per * BlockSize - 1}
    ELSE IF InsideRoot(kind) THEN {0, 3} ELSE {0}

\* Every directory meets two of the files, every file a plain directory.
VolumesOf(kind) ==
    UNION {UNION {UNION {
        {Volume(kind, per, d, fl, slack, fm, cut, wild, fits) :
            d \in IF fl \in {<<5, 6>>, <<6, 7>>} THEN Directories(kind) ELSE PlainDirectories(kind),
            wild \in IF cut = EndOfChain THEN {0, 8} ELSE {0},
            fits \in IF fl = <<5, 6>> THEN BOOLEAN ELSE {TRUE}} :
        cut \in Cuts(kind, fl, fm)} :
        fm \in {m \in Maps(kind, fl, IF fl = <<>> THEN slack
                                     ELSE Len(fl) * per * BlockSize - slack) :
                   kind = "fat32" => ~m[1].contiguous}} :
        <<per, fl, slack>> \in {t \in Pers(kind) \X FileLayouts(kind) \X (0..3) :
                                  t[3] \in Slacks(kind, t[1], t[2])}}

MCLower(name) == CASE name = "F" -> "f" [] name = "A" -> "a" [] OTHER -> name
MCNameOrder == <<"", ".", "A", "F", "a", "d", "f", "f~1", "g", "h", "m", "x">>

MCVolumes == UNION {VolumesOf(k) : k \in MCKinds}
MCPaths == {<<>>, <<"d">>, <<"d", "f">>, <<"q">>}
MCRequests == {[absolute |-> FALSE, parts |-> <<"d">>], [absolute |-> FALSE, parts |-> <<"g">>],
               [absolute |-> FALSE, parts |-> <<"..", "d", "f">>],
               [absolute |-> TRUE, parts |-> <<"d", "f">>]}
MCReplaced == [path |-> <<"g">>, size |-> 2]
================================================================================
