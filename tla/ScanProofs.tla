----------------------------- MODULE ScanProofs -----------------------------
(***************************************************************************)
(* Proofs about Scan, for every machine: whichever way the scan comes to   *)
(* list an image, the entry leads to its blocks; a link leads to the       *)
(* partition it names; an image is listed once; and none of the boot disk  *)
(* is left out.  Concatenations of lists are handled by the lemmas of      *)
(* ByteMapProofs.                                                          *)
(***************************************************************************)
EXTENDS Scan, ByteMapProofs

---------------------------------------------------------------------------
(***************************************************************************)
(* Lists.                                                                  *)
(***************************************************************************)
\* A sequence of anything.
IsList(s) == s \in Seq(ToSet(s))

\* A sequence over some set is a list, with its elements in that set.
LEMMA AnySequence ==
  ASSUME NEW S, NEW s \in Seq(S)
  PROVE  IsList(s) /\ ToSet(s) \subseteq S
<1> DEFINE T == ToSet(s)
<1>1. (\A i \in DOMAIN s : s[i] \in T) /\ T \subseteq S
  BY DEF ToSet
<1> HIDE DEF T
<1>2. s \in Seq(T)
  BY <1>1
<1> QED BY <1>1, <1>2 DEF IsList, T

\* The positions and the elements of a list.
LEMMA ListPositions ==
  ASSUME NEW s, IsList(s)
  PROVE  /\ Len(s) \in Nat /\ DOMAIN s = 1 .. Len(s) /\ s = [i \in DOMAIN s |-> s[i]]
         /\ \A i \in DOMAIN s : s[i] \in ToSet(s)
  BY DEF IsList, ToSet

\* The empty list and the list of one element.
LEMMA ShortLists ==
  /\ IsList(<<>>) /\ ToSet(<<>>) = {}
  /\ \A x : IsList(<<x>>) /\ ToSet(<<x>>) = {x}
<1>1. IsList(<<>>) /\ ToSet(<<>>) = {}
  BY DEF IsList, ToSet
<1>2. ASSUME NEW x PROVE IsList(<<x>>) /\ ToSet(<<x>>) = {x}
  <2>1. ToSet(<<x>>) = {x}
    BY DEF ToSet
  <2> QED BY <2>1 DEF IsList
<1> QED BY <1>1, <1>2

\* FlattenSeq of a list of lists.
LEMMA FlatList ==
  ASSUME NEW n \in Nat, NEW seqs, seqs = [i \in 1 .. n |-> seqs[i]],
         \A i \in 1 .. n : IsList(seqs[i])
  PROVE  /\ IsList(FlattenSeq(seqs))
         /\ ToSet(FlattenSeq(seqs)) = UNION {ToSet(seqs[i]) : i \in 1 .. n}
<1> DEFINE S == UNION {ToSet(seqs[i]) : i \in 1 .. n}
<1>1. ASSUME NEW i \in 1 .. n PROVE seqs[i] \in Seq(S)
  <2>1. ToSet(seqs[i]) \subseteq S
    OBVIOUS
  <2>2. seqs[i] \in Seq(ToSet(seqs[i]))
    BY DEF IsList
  <2> HIDE DEF S
  <2> QED BY <2>1, <2>2
<1> HIDE DEF S
<1>2. seqs \in Seq(Seq(S)) /\ DOMAIN seqs = 1 .. n
  BY <1>1
<1>3. FlattenSeq(seqs) \in Seq(S)
      /\ ToSet(FlattenSeq(seqs)) = UNION {ToSet(seqs[i]) : i \in DOMAIN seqs}
  BY <1>2, Flattened
<1> QED BY <1>2, <1>3, AnySequence DEF S

\* Two lists one after the other.
LEMMA ConcatLists ==
  ASSUME NEW s, NEW t, IsList(s), IsList(t)
  PROVE  IsList(s \o t) /\ ToSet(s \o t) = ToSet(s) \cup ToSet(t)
<1> DEFINE S == ToSet(s) \cup ToSet(t)
<1>1. s \in Seq(S) /\ t \in Seq(S)
  <2>1. ToSet(s) \subseteq S /\ ToSet(t) \subseteq S
    OBVIOUS
  <2> HIDE DEF S
  <2> QED BY <2>1 DEF IsList
<1> HIDE DEF S
<1>2. s \o t \in Seq(S)
  BY <1>1
<1>3. ToSet(s \o t) = ToSet(s) \cup ToSet(t)
  BY <1>1, ToSetConcat
<1>4. IsList(s \o t)
  BY <1>2, AnySequence
<1> QED BY <1>3, <1>4

\* Only keeps the elements at the positions it is given.
LEMMA OnlyKeeps ==
  ASSUME NEW s, IsList(s), NEW keep
  PROVE  /\ IsList(Only(s, keep))
         /\ ToSet(Only(s, keep)) = {s[i] : i \in keep \cap DOMAIN s}
<1> DEFINE parts1 == [i \in DOMAIN s |-> IF i \in keep THEN <<s[i]>> ELSE <<>>]
<1>1. PICK n \in Nat : n = Len(s) /\ DOMAIN s = 1 .. n
  BY ListPositions
<1>2. /\ parts1 = [i \in 1 .. n |-> parts1[i]]
      /\ \A i \in 1 .. n : /\ IsList(parts1[i])
                           /\ ToSet(parts1[i]) = IF i \in keep THEN {s[i]} ELSE {}
  BY <1>1, ShortLists
<1>3. Only(s, keep) = FlattenSeq(parts1)
  BY DEF Only
<1> HIDE DEF parts1
<1>4. /\ IsList(FlattenSeq(parts1))
      /\ ToSet(FlattenSeq(parts1)) = UNION {ToSet(parts1[i]) : i \in 1 .. n}
  BY <1>2, FlatList
<1>5. UNION {ToSet(parts1[i]) : i \in 1 .. n} = {s[i] : i \in keep \cap DOMAIN s}
  BY <1>1, <1>2
<1> QED BY <1>3, <1>4, <1>5

\* The first element of a list.
LEMMA HeadOfList ==
  ASSUME NEW s, IsList(s), s # <<>>
  PROVE  Head(s) \in ToSet(s)
  BY DEF IsList, ToSet
---------------------------------------------------------------------------
(***************************************************************************)
(* Paths.                                                                  *)
(***************************************************************************)
\* The names of S in lower case.
Folded(S) == {Fold(n) : n \in S}

\* Folding a path folds each of its names.
LEMMA FoldedPath ==
  ASSUME NEW S, NEW p \in Seq(S)
  PROVE  /\ FoldPath(p) \in Seq(Folded(S)) /\ Len(FoldPath(p)) = Len(p)
         /\ \A i \in 1 .. Len(p) : FoldPath(p)[i] = Fold(p[i])
<1>1. \A i \in 1 .. Len(p) : Fold(p[i]) \in Folded(S)
  BY DEF Folded
<1>2. [i \in DOMAIN p |-> Fold(p[i])] \in Seq(Folded(S))
  BY <1>1
<1> QED BY <1>2 DEF FoldPath

\* The root an entry was found through, as it was asked for, and the names on
\* the volume below it make up the path of the file, whatever their case.
LEMMA ShownPath ==
  ASSUME NEW S, NEW root \in Seq(S), NEW f, f.dir \in Seq(S), f.name \in S,
         IsPrefix(FoldPath(root), FoldPath(f.dir))
  PROVE  /\ Shown(root, f) \in Seq(S)
         /\ FoldPath(Shown(root, f)) = FoldPath(Append(f.dir, f.name))
         /\ root # <<>> => Shown(root, f) # <<>> /\ Shown(root, f)[1] = root[1]
<1> DEFINE r == Len(root)  d == Len(f.dir)
           low == SubSeq(f.dir, r + 1, d)
           shown == root \o low \o <<f.name>>
           path == Append(f.dir, f.name)
<1>0. /\ FoldPath(root) \in Seq(Folded(S)) /\ Len(FoldPath(root)) = Len(root)
      /\ \A i \in 1 .. Len(root) : FoldPath(root)[i] = Fold(root[i])
      /\ FoldPath(f.dir) \in Seq(Folded(S)) /\ Len(FoldPath(f.dir)) = Len(f.dir)
      /\ \A i \in 1 .. Len(f.dir) : FoldPath(f.dir)[i] = Fold(f.dir[i])
  BY FoldedPath, Zenon
<1>1. r \in Nat /\ d \in Nat /\ r <= d
  BY <1>0 DEF IsPrefix
<1>2. ASSUME NEW i \in 1 .. r PROVE Fold(root[i]) = Fold(f.dir[i])
  <2> DEFINE a == FoldPath(root)  b == FoldPath(f.dir)
  <2>1. /\ a \in Seq(Folded(S)) /\ Len(a) = r /\ a[i] = Fold(root[i])
        /\ b \in Seq(Folded(S)) /\ Len(b) = d /\ b[i] = Fold(f.dir[i])
    BY <1>0, <1>1
  <2>2. SubSeq(a, 1, Len(a)) = SubSeq(b, 1, Len(a))
    BY DEF IsPrefix
  <2> HIDE DEF a, b
  <2>3. SubSeq(a, 1, r)[i] = a[i] /\ SubSeq(b, 1, r)[i] = b[i]
    BY <1>1, <2>1
  <2> QED BY <2>1, <2>2, <2>3
<1>3. low \in Seq(S) /\ Len(low) = d - r /\ \A i \in 1 .. d - r : low[i] = f.dir[r + i]
  BY <1>1
<1>4. path \in Seq(S) /\ Len(path) = d + 1 /\ path[d + 1] = f.name
      /\ \A i \in 1 .. d : path[i] = f.dir[i]
  BY <1>1
<1> HIDE DEF low
<1> DEFINE last == <<f.name>>
<1>10. last \in Seq(S) /\ Len(last) = 1 /\ last[1] = f.name
  OBVIOUS
<1> HIDE DEF last
<1>11. shown = (root \o low) \o last
  BY DEF last
<1>5. shown \in Seq(S) /\ Len(shown) = d + 1
  <2> HIDE DEF shown
  <2>1. root \o low \in Seq(S) /\ Len(root \o low) = d
    BY <1>1, <1>3
  <2>2. PICK q : q = root \o low
    OBVIOUS
  <2>4. q \in Seq(S) /\ Len(q) = d
    BY <2>1, <2>2
  <2>5. last \in Seq(S)
    BY <1>10
  <2>6. q \in Seq(S)
    BY <2>4
  <2>3. q \o last \in Seq(S) /\ Len(q \o last) = Len(q) + Len(last)
    BY <2>5, <2>6
  <2> QED BY <1>1, <1>10, <1>11, <2>2, <2>3, <2>4
<1>6. ASSUME NEW i \in 1 .. d + 1 PROVE Fold(shown[i]) = Fold(path[i])
  <2>1. CASE i <= r
    <3>1. shown[i] = root[i] /\ path[i] = f.dir[i] /\ i \in 1 .. r
      BY <1>1, <1>3, <1>4, <1>10, <1>11, <2>1
    <3> QED BY <1>2, <3>1
  <2>2. CASE r < i /\ i <= d
    <3>1. shown[i] = low[i - r] /\ i - r \in 1 .. d - r /\ r + (i - r) = i
      BY <1>1, <1>3, <1>10, <1>11, <2>2
    <3>2. path[i] = f.dir[i]
      BY <1>1, <1>4, <2>2
    <3> QED BY <1>3, <3>1, <3>2
  <2>3. CASE i = d + 1
    <3>1. shown[i] = last[1]
      BY <1>1, <1>3, <1>10, <1>11, <2>3
    <3> QED BY <1>4, <1>10, <2>3, <3>1
  <2>4. i <= r \/ (r < i /\ i <= d) \/ i = d + 1
    BY <1>1
  <2> QED BY <2>1, <2>2, <2>3, <2>4
<1>7. DOMAIN shown = 1 .. d + 1 /\ DOMAIN path = 1 .. d + 1
  BY <1>1, <1>4, <1>5
<1>8. Shown(root, f) = shown
  BY DEF Shown, low
<1>12. ASSUME root # <<>> PROVE shown # <<>> /\ shown[1] = root[1]
  <2>1. r >= 1
    BY <1>12
  <2>2. shown[1] = root[1]
    BY <1>1, <1>3, <1>10, <1>11, <2>1
  <2>3. shown # <<>>
    BY <1>1, <1>7
  <2> QED BY <2>2, <2>3
<1> HIDE DEF shown, path
<1>9. FoldPath(shown) = FoldPath(path)
  BY <1>6, <1>7 DEF FoldPath
<1> QED BY <1>5, <1>8, <1>9, <1>12 DEF path

---------------------------------------------------------------------------
(***************************************************************************)
(* The ways to a volume.                                                   *)
(***************************************************************************)
\* Volume v is reached through handle h under the identity source, offset
\* blocks from where the handle begins: that is where its extents are read
\* at boot, and the identity, if there is one, is that of the partition.
Reached(h, v, source, offset) ==
  /\ h \in DOMAIN Handles /\ v \in machine.volumes /\ offset \in Nat
  /\ v.disk = Handles[h].disk /\ v.start = Handles[h].start + offset
  /\ SourceVolumeRange(Total(h), source) # <<>>
  /\ SourceVolumeRange(Total(h), source)[1] = offset
  /\ source # NoDisk => /\ source.ident = Disk(h).ident /\ source.bs = Disk(h).bs
                        /\ source.start = v.start

\* What is known of a handle.
LEMMA HandleFacts ==
  ASSUME machine \in Machines, NEW h \in DOMAIN Handles
  PROVE  /\ Handles[h].disk \in DOMAIN machine.disks
         /\ Handles[h].start \in Nat /\ Handles[h].count \in Nat
         /\ Handles[h].whole \in BOOLEAN /\ Handles[h].simple \in BOOLEAN
         /\ Handles[h].path \in BOOLEAN
         /\ Handles[h].whole => Handles[h].start = 0
         /\ Disk(h).blocks \in Nat
         /\ DiscoverPartitionCandidates(Disk(h))
              \in Seq([number : Nat, start : Nat, count : Nat, format : {"gpt", "mbr"}])
<1>1. SoundMachine(machine)
  BY MachinesAssumption
<1> DEFINE R == [disk : DOMAIN machine.disks, start : Nat, count : Nat,
                 whole : BOOLEAN, simple : BOOLEAN, path : BOOLEAN]
<1>2. /\ Handles \in Seq(R)
      /\ Handles[h].whole => Handles[h].start = 0
  BY <1>1 DEF SoundMachine, Handles
<1>3. Handles[h] \in R
  <2> HIDE DEF R
  <2> QED BY <1>2
<1>4. \A d \in DOMAIN machine.disks :
        /\ machine.disks[d].blocks \in Nat
        /\ DiscoverPartitionCandidates(machine.disks[d])
             \in Seq([number : Nat, start : Nat, count : Nat, format : {"gpt", "mbr"}])
  BY <1>1 DEF SoundMachine
<1>5. Handles[h].disk \in DOMAIN machine.disks
  BY <1>3
<1>6. Disk(h) = machine.disks[Handles[h].disk]
  BY DEF Disk
<1> QED BY <1>2, <1>3, <1>4, <1>5, <1>6

\* The handles are numbered from 1.
LEMMA HandleNumbers ==
  ASSUME machine \in Machines
  PROVE  Len(Handles) \in Nat /\ DOMAIN Handles = 1 .. Len(Handles)
<1>1. SoundMachine(machine)
  BY MachinesAssumption
<1> QED BY <1>1 DEF SoundMachine, Handles

\* The volume a handle stands for, whichever identity could be resolved while
\* some handles were held open.
LEMMA ReachedDirectly ==
  ASSUME machine \in Machines, NEW h \in DOMAIN Handles, NEW v \in HandleVolume(h), NEW held
  PROVE  Reached(h, v, ResolveSourceDisk(h, held), 0)
<1> DEFINE own == ResolveSourceDisk(h, held)
<1>1. v \in machine.volumes /\ v.disk = Handles[h].disk /\ v.start = Handles[h].start
  BY DEF HandleVolume, VolumesAt
<1>2. \/ own = NoDisk
      \/ ~Handles[h].whole /\ own = Identity(Disk(h), Handles[h].start, Handles[h].count)
      \/ Handles[h].whole /\ own = Identity(Disk(h), 0, 0)
  BY HandleFacts DEF ResolveSourceDisk
<1> SUFFICES Reached(h, v, own, 0)
  OBVIOUS
<1> HIDE DEF own
<1>6. <<0, Total(h)>> # <<>> /\ <<0, Total(h)>>[1] = 0 /\ v.start = Handles[h].start + 0
  BY <1>1, HandleFacts
<1>3. CASE own = NoDisk
  <2>1. SourceVolumeRange(Total(h), own) = <<0, Total(h)>>
    BY <1>3 DEF NoDisk, SourceVolumeRange
  <2> QED BY <1>1, <1>3, <1>6, <2>1 DEF Reached
<1>4. CASE ~Handles[h].whole /\ own = Identity(Disk(h), Handles[h].start, Handles[h].count)
  <2>1. Total(h) = Handles[h].count
    BY <1>4 DEF Total
  <2>2. SourceVolumeRange(Total(h), own) = <<0, Total(h)>>
    BY <1>4, <2>1, HandleFacts DEF Identity, SourceVolumeRange
  <2>3. own.ident = Disk(h).ident /\ own.bs = Disk(h).bs /\ own.start = v.start
    BY <1>1, <1>4 DEF Identity
  <2> QED BY <1>1, <1>6, <2>2, <2>3 DEF Reached
<1>5. CASE Handles[h].whole /\ own = Identity(Disk(h), 0, 0)
  <2>1. SourceVolumeRange(Total(h), own) = <<0, Total(h)>>
    BY <1>5 DEF Identity, SourceVolumeRange
  <2>2. own.ident = Disk(h).ident /\ own.bs = Disk(h).bs /\ own.start = v.start
    BY <1>1, <1>5, HandleFacts DEF Identity
  <2> QED BY <1>1, <1>6, <2>1, <2>2 DEF Reached
<1> QED BY <1>2, <1>3, <1>4, <1>5

\* A volume on a partition of the table of a disk, read through the disk.
LEMMA ReachedOnPartition ==
  ASSUME machine \in Machines, NEW h \in DOMAIN Handles, Handles[h].whole,
         NEW p, p.start \in Nat, p.count \in Nat, FitsDisk(p.start, p.count, Disk(h)),
         NEW v \in VolumesAt(Handles[h].disk, p.start)
  PROVE  Reached(h, v, PartitionSourceDisk(Disk(h), p), p.start)
<1>1. v \in machine.volumes /\ v.disk = Handles[h].disk /\ v.start = p.start
  BY DEF VolumesAt
<1>2. Total(h) = Disk(h).blocks /\ p.count > 0 /\ p.start + p.count <= Disk(h).blocks
  BY DEF Total, FitsDisk
<1> DEFINE own == PartitionSourceDisk(Disk(h), p)
<1>3. own.start = p.start /\ own.count = p.count /\ own.ident = Disk(h).ident /\ own.bs = Disk(h).bs
  BY DEF PartitionSourceDisk, Identity
<1> HIDE DEF own
<1>4. SourceVolumeRange(Total(h), own) = <<p.start, p.count>>
  BY <1>2, <1>3, HandleFacts DEF SourceVolumeRange
<1>5. Reached(h, v, own, p.start)
  <2>1. <<p.start, p.count>> # <<>> /\ <<p.start, p.count>>[1] = p.start
        /\ v.start = Handles[h].start + p.start
    BY <1>1, HandleFacts
  <2> QED BY <1>1, <1>3, <1>4, <2>1 DEF Reached
<1> QED BY <1>5 DEF own

---------------------------------------------------------------------------
(***************************************************************************)
(* Entries.                                                                *)
(***************************************************************************)
\* Where the entries of one pass over a volume come from.
Home(v, h, index) == [volume |-> v, handle |-> h, index |-> index]

\* An entry for a file that is no link: it leads to the file, or is without
\* extents on a handle through which firmware reads the volume.
OfFile(e, home, f) ==
  /\ e.target = None
  /\ f.mapped /\ RawReader(home.volume) # None =>
       \/ BootPlace(e) = <<home.volume.disk, home.volume.start + f.lba>>
       \/ e.extents = <<>> /\ home.volume \in HandleVolume(e.handle)

\* An entry has the path of a file of the volume it was found on, and when it
\* is no link it leads to that file.
AtHome(e, home) ==
  /\ e.index = home.index /\ e.path \in Seq(Names)
  /\ e.target = None /\ BootPlace(e) # None =>
       \E f \in ToSet(home.volume.files) :
         /\ f.mapped /\ FoldPath(e.path) = FoldPath(Append(f.dir, f.name))
         /\ BootPlace(e) = <<home.volume.disk, home.volume.start + f.lba>>
  /\ \E f \in ToSet(home.volume.files) :
       /\ FoldPath(e.path) = FoldPath(Append(f.dir, f.name))
       /\ f.kind = "link" \/ OfFile(e, home, f)

\* The path of a link on the volume.
AtLink(index, path, home) ==
  /\ home.index = index /\ path \in Seq(Names)
  /\ \E f \in ToSet(home.volume.files) :
       f.kind = "link" /\ FoldPath(path) = FoldPath(Append(f.dir, f.name))

\* An entry that leads to its image, on the partition a link names.
EntryOk(e, home) == ReachesTheImage(e) /\ ReachesItsPartition(e) /\ AtHome(e, home)

\* A list of such entries.
GoodList(s, home) == IsList(s) /\ \A e \in ToSet(s) : EntryOk(e, home)

\* What is known of a volume and its files.
LEMMA VolumeFacts ==
  ASSUME machine \in Machines, NEW v \in machine.volumes
  PROVE  /\ v.disk \in DOMAIN machine.disks /\ v.start \in Nat
         /\ v.config.roots \in Seq(Seq(Names))
         /\ IsList(v.files)
         /\ \A f \in ToSet(v.files) :
              /\ f.dir \in Seq(Names) /\ f.name \in Names /\ f.lba \in Nat
              /\ f.kind = "link" => f.link.target # None
<1>1. SoundMachine(machine)
  BY MachinesAssumption
<1>2. SoundVolume(machine, v)
  BY <1>1 DEF SoundMachine
<1>3. v.disk \in DOMAIN machine.disks /\ v.start \in Nat /\ v.config.roots \in Seq(Seq(Names))
  BY <1>2 DEF SoundVolume
<1>4. IsList(v.files)
  BY <1>2 DEF SoundVolume, IsList
<1>5. ASSUME NEW f \in ToSet(v.files)
      PROVE  f.dir \in Seq(Names) /\ f.name \in Names /\ f.lba \in Nat
  BY <1>2 DEF SoundVolume
<1>6. ASSUME NEW f \in ToSet(v.files), f.kind = "link" PROVE f.link.target # None
  BY <1>2, <1>6 DEF SoundVolume
<1> QED BY <1>3, <1>4, <1>5, <1>6

\* The block a file begins at holds its content.
LEMMA ContentOfFile ==
  ASSUME machine \in Machines, NEW v \in machine.volumes, NEW f \in ToSet(v.files), f.mapped
  PROVE  ContentAt(<<v.disk, v.start + f.lba>>) = f.content
<1> DEFINE place == <<v.disk, v.start + f.lba>>
           on == {w \in machine.volumes : w.disk = place[1]}
           held == {g \in UNION {ToSet(w.files) : w \in on} :
                      \E w \in machine.volumes : /\ w.disk = place[1]
                                                 /\ g \in ToSet(w.files)
                                                 /\ g.mapped
                                                 /\ w.start + g.lba = place[2]}
<1>1. place[1] = v.disk /\ place[2] = v.start + f.lba
  OBVIOUS
<1>2. f \in held
  BY <1>1
<1>3. ASSUME NEW g \in held PROVE g.content = f.content
  <2>1. PICK w \in machine.volumes : /\ w.disk = v.disk /\ g \in ToSet(w.files) /\ g.mapped
                                     /\ w.start + g.lba = v.start + f.lba
    BY <1>1
  <2>2. SoundMachine(machine)
    BY MachinesAssumption
  <2>3. \A x, y \in machine.volumes : \A k \in ToSet(x.files), l \in ToSet(y.files) :
          x.disk = y.disk /\ x.start + k.lba = y.start + l.lba /\ k.mapped /\ l.mapped
            => k.content = l.content
    BY <2>2 DEF SoundMachine
  <2> QED BY <2>1, <2>3
<1>4. ContentAt(place) = (IF held = {} THEN None ELSE (CHOOSE g \in held : TRUE).content)
  BY DEF ContentAt
<1> HIDE DEF held, place
<1>5. (CHOOSE g \in held : TRUE) \in held
  BY <1>2
<1>6. ContentAt(place) = f.content
  BY <1>2, <1>3, <1>4, <1>5
<1> QED BY <1>6 DEF place

\* Extents that were found are those of the file.
LEMMA FoundExtents ==
  ASSUME NEW f, NEW reader
  PROVE  Extents(reader, f) = <<>> \/ (Extents(reader, f) = <<f.lba>> /\ f.mapped)
<1>1. CASE reader = None \/ ~f.mapped
  <2>1. Extents(reader, f) = <<>>
    BY <1>1 DEF Extents
  <2> QED BY <2>1
<1>2. CASE ~(reader = None \/ ~f.mapped)
  <2>1. f.mapped
    BY <1>2
  <2>2. Extents(reader, f) = <<f.lba>>
    BY <1>2 DEF Extents
  <2> QED BY <2>1, <2>2
<1> QED BY <1>1, <1>2

\* An entry for a file of a volume leads to the file at boot, and what was
\* read for it at scan time was read from the same place.
LEMMA EntryLeads ==
  ASSUME machine \in Machines, NEW h, NEW v, NEW source, NEW offset,
         Reached(h, v, source, offset), NEW f \in ToSet(v.files), f.mapped,
         NEW index, NEW path, NEW type, NEW target, NEW e,
         e = Entry(index, path, h, source, <<f.lba>>,
                   ResolveImageMetadata(h, offset, <<f.lba>>, type), target)
  PROVE  /\ BootPlace(e) = <<v.disk, v.start + f.lba>>
         /\ e.meta = Metadata(type, f.content)
<1>1. /\ e.handle = h /\ e.source = source /\ e.extents = <<f.lba>>
      /\ e.meta = ResolveImageMetadata(h, offset, <<f.lba>>, type)
  BY DEF Entry
<1>2. <<f.lba>> # <<>> /\ Head(<<f.lba>>) = f.lba
  OBVIOUS
<1>3. /\ h \in DOMAIN Handles /\ v \in machine.volumes /\ offset \in Nat
      /\ v.disk = Handles[h].disk /\ v.start = Handles[h].start + offset
      /\ SourceVolumeRange(Total(h), source) # <<>>
      /\ SourceVolumeRange(Total(h), source)[1] = offset
  BY DEF Reached
<1>4. f.lba \in Nat /\ v.start \in Nat /\ Handles[h].start \in Nat
  BY <1>3, VolumeFacts, HandleFacts
<1>5. BootPlace(e) = <<Handles[h].disk, Handles[h].start + offset + f.lba>>
  BY <1>1, <1>2, <1>3 DEF BootPlace
<1>6. ResolveImageMetadata(h, offset, <<f.lba>>, type)
        = Metadata(type, ContentAt(<<Handles[h].disk, Handles[h].start + offset + f.lba>>))
  BY <1>2 DEF ResolveImageMetadata
<1>7. Handles[h].start + offset + f.lba = v.start + f.lba
  BY <1>3
<1>8. ContentAt(<<v.disk, v.start + f.lba>>) = f.content
  BY <1>3, ContentOfFile
<1> QED BY <1>1, <1>3, <1>5, <1>6, <1>7, <1>8

\* An entry without extents that is no link.
LEMMA PlainEntry ==
  ASSUME NEW e, NEW home, e.target = None, AtHome(e, home), e.extents = <<>> \/ ReachesTheImage(e)
  PROVE  EntryOk(e, home)
  BY DEF EntryOk, ReachesTheImage, ReachesItsPartition

\* What it takes for an entry to reach its image.
LEMMA Witnessed ==
  ASSUME NEW v \in machine.volumes, NEW f \in ToSet(v.files), NEW e,
         FoldPath(Append(f.dir, f.name)) = Wanted(e),
         BootPlace(e) = <<v.disk, v.start + f.lba>>,
         NEW type, type = f.type \/ (f.type = "unknown" /\ type \in LinkTypes),
         e.meta = Metadata(type, f.content)
  PROVE  ReachesTheImage(e)
<1>1. PICK i \in DOMAIN v.files : v.files[i] = f
  BY DEF ToSet
<1>2. type \in {f.type} \cup (IF f.type = "unknown" THEN LinkTypes ELSE {})
  OBVIOUS
<1> QED BY <1>1, <1>2 DEF ReachesTheImage

\* The entry of a file found in a directory.
LEMMA ImageEntry ==
  ASSUME machine \in Machines, NEW h, NEW v, NEW source, NEW offset,
         Reached(h, v, source, offset), NEW f \in ToSet(v.files),
         NEW index, NEW path \in Seq(Names), FoldPath(path) = FoldPath(Append(f.dir, f.name)),
         NEW reader, NEW home, home = Home(v, h, index),
         reader = RawReader(v) \/ v \in HandleVolume(h)
  PROVE  EntryOk(Entry(index, path, h, source, Extents(reader, f),
                       ResolveImageMetadata(h, offset, Extents(reader, f), f.type), None), home)
<1>1. PICK e : e = Entry(index, path, h, source, Extents(reader, f),
                         ResolveImageMetadata(h, offset, Extents(reader, f), f.type), None)
  OBVIOUS
<1>2. /\ e.target = None /\ e.path = path /\ e.extents = Extents(reader, f)
      /\ e.index = index /\ e.handle = h
  BY <1>1 DEF Entry
<1>5. home.volume = v /\ home.handle = h /\ home.index = index
  BY DEF Home
<1>3. CASE Extents(reader, f) = <<>>
  <2>1. BootPlace(e) = None
    BY <1>2, <1>3 DEF BootPlace
  <2>2. OfFile(e, home, f)
    BY <1>2, <1>3, <1>5 DEF OfFile, Extents
  <2>3. AtHome(e, home)
    BY <1>2, <1>5, <2>1, <2>2 DEF AtHome
  <2> QED BY <1>1, <1>2, <1>3, <2>3, PlainEntry
<1>4. CASE Extents(reader, f) = <<f.lba>> /\ f.mapped
  <2>1. BootPlace(e) = <<v.disk, v.start + f.lba>> /\ e.meta = Metadata(f.type, f.content)
    BY <1>1, <1>4, EntryLeads
  <2>2. Wanted(e) = FoldPath(path)
    BY <1>2 DEF Wanted
  <2>3. v \in machine.volumes
    BY DEF Reached
  <2>4. ReachesTheImage(e)
    BY <2>1, <2>2, <2>3, Witnessed
  <2>5. AtHome(e, home)
    BY <1>2, <1>4, <1>5, <2>1 DEF AtHome, OfFile
  <2> QED BY <1>1, <1>2, <2>4, <2>5, PlainEntry
<1> QED BY <1>3, <1>4, FoundExtents

\* The entry of a link, once a volume is found that the link names.
LEMMA LinkEntry ==
  ASSUME machine \in Machines, NEW h, NEW v, NEW source, NEW offset,
         Reached(h, v, source, offset), NEW w \in machine.volumes, NEW g \in ToSet(w.files),
         g.kind = "link", g.link.intact, NamesPartition(g.link, v),
         NEW index, NEW path, NEW home, AtLink(index, path, home)
  PROVE  GoodList(BuildVlnkIsoFile(index, path, h, source, offset, v, g.link), home)
<1> DEFINE link == g.link
           keep == {i \in DOMAIN v.files :
                      FoldPath(Append(v.files[i].dir, v.files[i].name)) = FoldPath(link.target)}
           hits == Only(v.files, keep)
           f == Head(hits)
           reader == VlnkReader(v)
           type == IF f.type = "unknown" THEN link.type ELSE f.type
           e == Entry(index, path, h, source, Extents(reader, f),
                      ResolveImageMetadata(h, offset, Extents(reader, f), type), link.target)
           built == BuildVlnkIsoFile(index, path, h, source, offset, v, g.link)
<1>1. v \in machine.volumes
  BY DEF Reached
<1>2. IsList(hits) /\ \A x \in ToSet(hits) : /\ x \in ToSet(v.files)
                                             /\ FoldPath(Append(x.dir, x.name))
                                                  = FoldPath(link.target)
  <2>1. IsList(v.files) /\ \A i \in DOMAIN v.files : v.files[i] \in ToSet(v.files)
    BY <1>1, VolumeFacts, ListPositions
  <2>2. IsList(hits) /\ ToSet(hits) = {v.files[i] : i \in keep \cap DOMAIN v.files}
    <3> HIDE DEF keep
    <3> QED BY <2>1, OnlyKeeps
  <2> HIDE DEF hits
  <2> QED BY <2>1, <2>2
<1>3. built = <<>> \/ (hits # <<>> /\ f.mapped /\ reader # None /\ built = <<e>>)
  BY DEF BuildVlnkIsoFile
<1>4. CASE built = <<>>
  BY <1>4, ShortLists DEF GoodList
<1>5. CASE hits # <<>> /\ f.mapped /\ reader # None /\ built = <<e>>
  <2> HIDE DEF hits, built, reader
  <2>1. f \in ToSet(v.files) /\ FoldPath(Append(f.dir, f.name)) = FoldPath(link.target)
    BY <1>2, <1>5, HeadOfList
  <2>2. Extents(reader, f) = <<f.lba>>
    BY <1>5 DEF Extents
  <2> HIDE DEF f, type
  <2>3. e.target = link.target /\ e.extents = <<f.lba>> /\ e.index = index /\ e.path = path
    BY <2>2 DEF Entry
  <2>4. BootPlace(e) = <<v.disk, v.start + f.lba>> /\ e.meta = Metadata(type, f.content)
    BY <1>5, <2>1, <2>2, EntryLeads
  <2>5. link.target # None
    BY VolumeFacts
  <2> HIDE DEF e
  <2>6. Wanted(e) = FoldPath(link.target)
    BY <2>3, <2>5 DEF Wanted
  <2>7. link.type \in LinkTypes
    BY DEF LinkTypes
  <2>8. type = f.type \/ (f.type = "unknown" /\ type \in LinkTypes)
    BY <2>7 DEF type
  <2>9. ReachesTheImage(e)
    BY <1>1, <2>1, <2>4, <2>6, <2>8, Witnessed
  <2>10. ReachesItsPartition(e)
    <3>1. PICK i \in DOMAIN w.files : w.files[i] = g
      BY DEF ToSet
    <3>2. PICK j \in DOMAIN v.files : v.files[j] = f
      BY <2>1 DEF ToSet
    <3>3. \E k \in DOMAIN v.files : BootPlace(e) = <<v.disk, v.start + v.files[k].lba>>
      BY <2>4, <3>2
    <3>4. \E t \in machine.volumes :
            /\ NamesPartition(g.link, t)
            /\ \E k \in DOMAIN t.files : BootPlace(e) = <<t.disk, t.start + t.files[k].lba>>
      BY <1>1, <3>3
    <3> QED BY <2>3, <3>1, <3>4 DEF ReachesItsPartition
  <2>11. EntryOk(e, home)
    BY <2>3, <2>5, <2>9, <2>10 DEF EntryOk, AtHome, AtLink
  <2> QED BY <1>5, <2>11, ShortLists DEF GoodList, built
<1> QED BY <1>3, <1>4, <1>5

---------------------------------------------------------------------------
(***************************************************************************)
(* Lists of entries.                                                       *)
(***************************************************************************)
\* The empty list is right, and so is that of one right entry.
LEMMA GoodShort ==
  ASSUME NEW home
  PROVE  GoodList(<<>>, home) /\ \A e : EntryOk(e, home) => GoodList(<<e>>, home)
  BY ShortLists DEF GoodList

\* Right lists one after the other.
LEMMA GoodConcat ==
  ASSUME NEW home, NEW s, NEW t, GoodList(s, home), GoodList(t, home)
  PROVE  GoodList(s \o t, home)
<1>1. IsList(s \o t) /\ ToSet(s \o t) = ToSet(s) \cup ToSet(t)
  BY ConcatLists DEF GoodList
<1> QED BY <1>1 DEF GoodList

\* A list of right lists.
LEMMA GoodFlat ==
  ASSUME NEW home, NEW n \in Nat, NEW seqs, seqs = [i \in 1 .. n |-> seqs[i]],
         \A i \in 1 .. n : GoodList(seqs[i], home)
  PROVE  GoodList(FlattenSeq(seqs), home)
<1>1. /\ IsList(FlattenSeq(seqs))
      /\ ToSet(FlattenSeq(seqs)) = UNION {ToSet(seqs[i]) : i \in 1 .. n}
  BY FlatList DEF GoodList
<1> QED BY <1>1 DEF GoodList

\* The first entry of a right list.
LEMMA GoodFirst ==
  ASSUME NEW home, NEW s, GoodList(s, home)
  PROVE  GoodList(FirstOnly(s), home)
<1>1. CASE s = <<>>
  BY <1>1, GoodShort DEF FirstOnly
<1>2. CASE s # <<>>
  <2>1. EntryOk(Head(s), home)
    BY <1>2, HeadOfList DEF GoodList
  <2> QED BY <1>2, <2>1, GoodShort DEF FirstOnly
<1> QED BY <1>1, <1>2

---------------------------------------------------------------------------
(***************************************************************************)
(* Links.                                                                  *)
(***************************************************************************)
\* A link that some file of the machine holds, with a right checksum.
IntactLink(link) ==
  \E w \in machine.volumes : \E g \in ToSet(w.files) :
    g.kind = "link" /\ g.link.intact /\ link = g.link

\* What parse_vlnk returns for a link file.
LEMMA ParsedLink ==
  ASSUME NEW w \in machine.volumes, NEW g \in ToSet(w.files), g.kind = "link"
  PROVE  \/ ParseVlnk(g) = <<>>
         \/ ParseVlnk(g) = <<g.link>> /\ IntactLink(g.link)
  BY DEF ParseVlnk, IntactLink

\* An identity that fits a link is that of the partition the link names.
LEMMA MatchedVolume ==
  ASSUME NEW h, NEW v, NEW source, NEW offset, Reached(h, v, source, offset), NEW link,
         VlnkMatchesSourceDisk(source, link)
  PROVE  NamesPartition(link, v)
<1>1. /\ source.ident = Disk(h).ident /\ source.bs = Disk(h).bs /\ source.start = v.start
      /\ Disk(h) = machine.disks[v.disk]
  BY DEF Reached, VlnkMatchesSourceDisk, Disk
<1> QED BY <1>1 DEF VlnkMatchesSourceDisk, NamesPartition

\* The image of a link on the volumes at one place.
LEMMA FromVolumesGood ==
  ASSUME machine \in Machines, NEW link, IntactLink(link), NEW vols,
         NEW h, NEW source, NEW offset,
         \A v \in vols : Reached(h, v, source, offset) /\ NamesPartition(link, v),
         NEW index, NEW path, NEW home, AtLink(index, path, home)
  PROVE  GoodList(FromVolumes(vols, index, path, h, source, offset, link), home)
<1>1. CASE vols = {}
  BY <1>1, GoodShort DEF FromVolumes
<1>2. CASE vols # {}
  <2>1. PICK v \in vols : v = CHOOSE x \in vols : TRUE
    BY <1>2
  <2>2. PICK w \in machine.volumes : \E g \in ToSet(w.files) :
          g.kind = "link" /\ g.link.intact /\ link = g.link
    BY DEF IntactLink
  <2>5. PICK g \in ToSet(w.files) : g.kind = "link" /\ g.link.intact /\ link = g.link
    BY <2>2
  <2>3. GoodList(BuildVlnkIsoFile(index, path, h, source, offset, v, g.link), home)
    BY <2>5, LinkEntry
  <2> QED BY <1>2, <2>1, <2>3, <2>5 DEF FromVolumes
<1> QED BY <1>1, <1>2

\* The volume a handle stands for, tried as the target.
LEMMA ResolveDirectGood ==
  ASSUME machine \in Machines, NEW link, IntactLink(link), NEW h \in DOMAIN Handles, NEW held,
         NEW index, NEW path, NEW home, AtLink(index, path, home)
  PROVE  GoodList(ResolveDirect(index, path, link, h, ResolveSourceDisk(h, held)), home)
<1>1. PICK own : own = ResolveSourceDisk(h, held)
  OBVIOUS
<1>2. \A v \in HandleVolume(h) : Reached(h, v, own, 0)
  BY <1>1, ReachedDirectly
<1>3. CASE VlnkMatchesSourceDisk(own, link)
  <2>1. \A v \in HandleVolume(h) : NamesPartition(link, v)
    BY <1>2, <1>3, MatchedVolume
  <2>2. GoodList(FromVolumes(HandleVolume(h), index, path, h, own, 0, link), home)
    BY <1>2, <2>1, FromVolumesGood
  <2> QED BY <1>1, <1>3, <2>2 DEF ResolveDirect
<1>4. CASE ~VlnkMatchesSourceDisk(own, link)
  BY <1>1, <1>4, GoodShort DEF ResolveDirect
<1> QED BY <1>3, <1>4

\* The partitions in the table of a disk, tried as the target.
LEMMA ResolveOnPartitionsGood ==
  ASSUME machine \in Machines, NEW link, IntactLink(link), NEW h \in DOMAIN Handles,
         Handles[h].whole, Disk(h).ident.sig = link.sig,
         NEW index, NEW path, NEW home, AtLink(index, path, home)
  PROVE  GoodList(ResolveOnPartitions(index, path, link, h,
                                      DiscoverPartitionCandidates(Disk(h))), home)
<1> DEFINE C == [number : Nat, start : Nat, count : Nat, format : {"gpt", "mbr"}]
<1>1. PICK candidates \in Seq(C) : candidates = DiscoverPartitionCandidates(Disk(h))
  BY HandleFacts
<1> DEFINE Fits(p) == /\ PartitionOffsetMatches(p.start, Disk(h).bs, link.offset)
                      /\ FitsDisk(p.start, p.count, Disk(h))
           From(p) == FromVolumes(VolumesAt(Handles[h].disk, p.start), index, path, h,
                                  PartitionSourceDisk(Disk(h), p), p.start, link)
           tried == [k \in DOMAIN candidates |-> IF Fits(candidates[k]) THEN From(candidates[k])
                                                                       ELSE <<>>]
<1>2. ASSUME NEW p \in C, Fits(p) PROVE GoodList(From(p), home)
  <2>1. p.start \in Nat /\ p.count \in Nat
    OBVIOUS
  <2>2. ASSUME NEW v \in VolumesAt(Handles[h].disk, p.start)
        PROVE  /\ Reached(h, v, PartitionSourceDisk(Disk(h), p), p.start)
               /\ NamesPartition(link, v)
    <3>1. Reached(h, v, PartitionSourceDisk(Disk(h), p), p.start)
      BY <1>2, <2>1, ReachedOnPartition
    <3>2. v.disk = Handles[h].disk /\ v.start = p.start /\ Disk(h) = machine.disks[v.disk]
      BY DEF VolumesAt, Disk
    <3>3. NamesPartition(link, v)
      BY <1>2, <3>2 DEF NamesPartition
    <3> QED BY <3>1, <3>3
  <2> QED BY <2>2, FromVolumesGood
<1> HIDE DEF C, Fits, From
<1>3. PICK n \in Nat : DOMAIN candidates = 1 .. n /\ \A k \in 1 .. n : candidates[k] \in C
  BY <1>1
<1>4. ASSUME NEW k \in 1 .. n PROVE GoodList(tried[k], home)
  <2>1. CASE Fits(candidates[k])
    BY <1>2, <1>3, <2>1
  <2>2. CASE ~Fits(candidates[k])
    BY <1>3, <2>2, GoodShort
  <2> QED BY <2>1, <2>2
<1>5. tried = [k \in 1 .. n |-> tried[k]]
  BY <1>3
<1>6. ResolveOnPartitions(index, path, link, h, candidates) = FlattenSeq(tried)
  BY DEF ResolveOnPartitions, Fits, From
<1> HIDE DEF tried
<1>7. GoodList(FlattenSeq(tried), home)
  BY <1>4, <1>5, GoodFlat
<1> QED BY <1>1, <1>6, <1>7

\* One handle, tried as the target's.
LEMMA OnHandleGood ==
  ASSUME machine \in Machines, NEW link, IntactLink(link), NEW h \in DOMAIN Handles, NEW held,
         NEW index, NEW path, NEW home, AtLink(index, path, home)
  PROVE  GoodList(ResolveVlnkOnHandle(index, path, link, h, held), home)
<1> DEFINE direct == ResolveDirect(index, path, link, h, ResolveSourceDisk(h, held \cup {h}))
           table == ResolveOnPartitions(index, path, link, h, DiscoverPartitionCandidates(Disk(h)))
<1>1. GoodList(direct, home)
  BY ResolveDirectGood
<1>2. CASE h \in held
  BY <1>2, GoodShort DEF ResolveVlnkOnHandle
<1>3. CASE h \notin held /\ Handles[h].whole /\ Disk(h).ident.sig = link.sig
  <2>1. GoodList(table, home)
    BY <1>3, ResolveOnPartitionsGood
  <2>2. ResolveVlnkOnHandle(index, path, link, h, held) = direct \o table
    BY <1>3 DEF ResolveVlnkOnHandle
  <2> HIDE DEF direct, table
  <2> QED BY <1>1, <2>1, <2>2, GoodConcat
<1>4. CASE h \notin held /\ ~(Handles[h].whole /\ Disk(h).ident.sig = link.sig)
  <2>1. ResolveVlnkOnHandle(index, path, link, h, held) = direct \o <<>>
    BY <1>4 DEF ResolveVlnkOnHandle
  <2> HIDE DEF direct
  <2> QED BY <1>1, <2>1, GoodConcat, GoodShort
<1> QED BY <1>2, <1>3, <1>4

\* The target of a link, searched on every handle that is not held open.
LEMMA TargetGood ==
  ASSUME machine \in Machines, NEW link, IntactLink(link), NEW held,
         NEW index, NEW path, NEW home, AtLink(index, path, home)
  PROVE  GoodList(ResolveVlnkTarget(index, path, link, held), home)
<1> DEFINE tried == [h \in DOMAIN Handles |-> ResolveVlnkOnHandle(index, path, link, h, held)]
<1>1. PICK n \in Nat : DOMAIN Handles = 1 .. n
  BY HandleNumbers
<1>2. \A h \in 1 .. n : GoodList(tried[h], home)
  BY <1>1, OnHandleGood
<1>3. tried = [h \in 1 .. n |-> tried[h]]
  BY <1>1
<1>4. ResolveVlnkTarget(index, path, link, held) = FirstOnly(FlattenSeq(tried))
  BY DEF ResolveVlnkTarget
<1> HIDE DEF tried
<1>5. GoodList(FlattenSeq(tried), home)
  BY <1>2, <1>3, GoodFlat
<1> QED BY <1>4, <1>5, GoodFirst

\* A link found on a raw volume.
LEMMA BlockLinkGood ==
  ASSUME machine \in Machines, NEW link, IntactLink(link), NEW h, NEW v, NEW source, NEW offset,
         Reached(h, v, source, offset), NEW index, NEW path, NEW home, AtLink(index, path, home)
  PROVE  GoodList(ResolveBlockVlnkFile(index, path, link, h, source, offset, v), home)
<1> DEFINE here == IF VlnkMatchesSourceDisk(source, link)
                   THEN BuildVlnkIsoFile(index, path, h, source, offset, v, link) ELSE <<>>
<1>1. CASE VlnkMatchesSourceDisk(source, link)
  <2>1. PICK w \in machine.volumes : \E g \in ToSet(w.files) :
          g.kind = "link" /\ g.link.intact /\ link = g.link
    BY DEF IntactLink
  <2>5. PICK g \in ToSet(w.files) : g.kind = "link" /\ g.link.intact /\ link = g.link
    BY <2>1
  <2>2. NamesPartition(link, v)
    BY <1>1, MatchedVolume
  <2>3. GoodList(BuildVlnkIsoFile(index, path, h, source, offset, v, g.link), home)
    BY <2>2, <2>5, LinkEntry
  <2>4. GoodList(here, home)
    BY <1>1, <2>3, <2>5
  <2> HIDE DEF here
  <2> QED BY <2>4, TargetGood DEF ResolveBlockVlnkFile, here
<1>2. CASE ~VlnkMatchesSourceDisk(source, link)
  BY <1>2, TargetGood DEF ResolveBlockVlnkFile
<1> QED BY <1>1, <1>2

---------------------------------------------------------------------------
(***************************************************************************)
(* The scan of a volume.                                                   *)
(***************************************************************************)
\* The search roots of a volume are paths.
LEMMA RootsAreLists ==
  ASSUME machine \in Machines, NEW v \in machine.volumes
  PROVE  SearchRoots(LoadVentoyConfig(v)) \in Seq(Seq(Names))
<1>1. DefaultConfig.roots = <<>>
  BY DEF DefaultConfig
<1>2. v.config.roots \in Seq(Seq(Names)) /\ DefaultRoots \in Seq(Seq(Names))
  BY VolumeFacts, MachinesAssumption
<1> QED BY <1>1, <1>2 DEF SearchRoots, LoadVentoyConfig

\* What either walk finds below a root are files of the volume, shown under
\* their own path.
LEMMA WalkedFiles ==
  ASSUME machine \in Machines, NEW v \in machine.volumes, NEW root \in Seq(Names)
  PROVE  /\ IsList(ScanDirectoryEntries(v, root)) /\ IsList(ScanBlockFilesystemPath(v, root))
         /\ \A f \in ToSet(ScanDirectoryEntries(v, root))
                       \cup ToSet(ScanBlockFilesystemPath(v, root)) :
              /\ f \in ToSet(v.files) /\ Shown(root, f) \in Seq(Names)
              /\ FoldPath(Shown(root, f)) = FoldPath(Append(f.dir, f.name))
         /\ \A f \in ToSet(v.files) :
              Walked(v, LoadVentoyConfig(v), root, f) =>
                /\ f \in ToSet(ScanDirectoryEntries(v, root))
                /\ ~f.hidden => f \in ToSet(ScanBlockFilesystemPath(v, root))
                /\ ~IsVentoyPluginTree(root)
<1> DEFINE W(f) == Walked(v, LoadVentoyConfig(v), root, f)
           keep1 == {i \in DOMAIN v.files : W(v.files[i])}
           keep2 == {i \in DOMAIN v.files : W(v.files[i]) /\ ~v.files[i].hidden}
<1>1. IsList(v.files) /\ \A i \in DOMAIN v.files : v.files[i] \in ToSet(v.files)
  BY VolumeFacts, ListPositions
<1>2. ASSUME NEW f \in ToSet(v.files), W(f)
      PROVE  /\ Shown(root, f) \in Seq(Names)
             /\ FoldPath(Shown(root, f)) = FoldPath(Append(f.dir, f.name))
             /\ ~IsVentoyPluginTree(root)
  <2>1. f.dir \in Seq(Names) /\ f.name \in Names
    BY VolumeFacts
  <2>2. IsPrefix(FoldPath(root), FoldPath(f.dir)) /\ ~IsVentoyPluginTree(Shown(root, f))
    BY <1>2 DEF Walked
  <2>3. /\ Shown(root, f) \in Seq(Names)
        /\ FoldPath(Shown(root, f)) = FoldPath(Append(f.dir, f.name))
        /\ root # <<>> => Shown(root, f) # <<>> /\ Shown(root, f)[1] = root[1]
    BY <2>1, <2>2, ShownPath
  <2>4. ~IsVentoyPluginTree(root)
    BY <2>2, <2>3 DEF IsVentoyPluginTree
  <2> QED BY <2>3, <2>4
<1>3. /\ ScanDirectoryEntries(v, root) = Only(v.files, keep1)
      /\ ScanBlockFilesystemPath(v, root) = Only(v.files, keep2)
  BY DEF ScanDirectoryEntries, ScanBlockFilesystemPath
<1> HIDE DEF W
<1>4. \A i \in keep1 \cup keep2 : i \in DOMAIN v.files /\ W(v.files[i])
  OBVIOUS
<1>6. ASSUME NEW f \in ToSet(v.files), W(f)
      PROVE  \E i \in DOMAIN v.files : /\ f = v.files[i] /\ i \in keep1
                                       /\ ~f.hidden => i \in keep2
  BY <1>6 DEF ToSet
<1> HIDE DEF keep1, keep2
<1>5. /\ IsList(Only(v.files, keep1)) /\ IsList(Only(v.files, keep2))
      /\ ToSet(Only(v.files, keep1)) = {v.files[i] : i \in keep1 \cap DOMAIN v.files}
      /\ ToSet(Only(v.files, keep2)) = {v.files[i] : i \in keep2 \cap DOMAIN v.files}
  BY <1>1, OnlyKeeps
<1>7. ASSUME NEW f \in ToSet(v.files), Walked(v, LoadVentoyConfig(v), root, f)
      PROVE  /\ f \in ToSet(ScanDirectoryEntries(v, root))
             /\ ~f.hidden => f \in ToSet(ScanBlockFilesystemPath(v, root))
             /\ ~IsVentoyPluginTree(root)
  <2>1. W(f)
    BY <1>7 DEF W
  <2>2. PICK i \in DOMAIN v.files : f = v.files[i] /\ i \in keep1 /\ (~f.hidden => i \in keep2)
    BY <1>6, <2>1
  <2> QED BY <1>2, <1>3, <1>5, <2>1, <2>2
<1>8. \A f \in ToSet(ScanDirectoryEntries(v, root)) \cup ToSet(ScanBlockFilesystemPath(v, root)) :
        /\ f \in ToSet(v.files) /\ Shown(root, f) \in Seq(Names)
        /\ FoldPath(Shown(root, f)) = FoldPath(Append(f.dir, f.name))
  BY <1>1, <1>2, <1>3, <1>4, <1>5
<1> QED BY <1>3, <1>5, <1>7, <1>8

\* Every image of a volume that a walk below one of its roots comes to, and
\* that is not hidden, has an entry in S.
ListsFiles(S, v) ==
  \A r \in DOMAIN SearchRoots(LoadVentoyConfig(v)) : \A f \in ToSet(v.files) :
    /\ f.kind # "link" /\ ~f.hidden
    /\ Walked(v, LoadVentoyConfig(v), SearchRoots(LoadVentoyConfig(v))[r], f)
    => \E e \in S : FoldPath(e.path) = FoldPath(Append(f.dir, f.name))

\* Everything listed for a volume the firmware mounted.
LEMMA ScanVolumeGood ==
  ASSUME machine \in Machines, NEW h \in DOMAIN Handles, NEW v \in HandleVolume(h), NEW index,
         NEW home, home = Home(v, h, index)
  PROVE  /\ GoodList(ScanVolumePaths(v, h, index), home)
         /\ ListsFiles(ToSet(ScanVolumePaths(v, h, index)), v)
<1> DEFINE Of(root, f) ==
             LET extents == Extents(SourceFileReader(v), f)
             IN <<Entry(index, Shown(root, f), h, ResolveSourceDisk(h, {}), extents,
                        ResolveImageMetadata(h, 0, extents, f.type), None)>>
           Links(root, f) ==
             [l \in DOMAIN ParseVlnk(f) |->
                ResolveVlnkTarget(index, Shown(root, f), ParseVlnk(f)[l], {})]
           One(root, f) == IF f.kind = "link" THEN FlattenSeq(Links(root, f)) ELSE Of(root, f)
           Hits(root) == ScanDirectoryEntries(v, root)
           Ones(root) == [i \in DOMAIN Hits(root) |-> One(root, Hits(root)[i])]
           OfRoot(root) == IF IsVentoyPluginTree(root) THEN <<>> ELSE FlattenSeq(Ones(root))
           roots == SearchRoots(LoadVentoyConfig(v))
           lists == [r \in DOMAIN roots |-> OfRoot(roots[r])]
<1>1. Reached(h, v, ResolveSourceDisk(h, {}), 0)
  BY ReachedDirectly
<1>2. v \in machine.volumes
  BY <1>1 DEF Reached
<1>3. roots \in Seq(Seq(Names))
  BY <1>2, RootsAreLists
<1>4. ASSUME NEW root \in Seq(Names), NEW f \in ToSet(Hits(root))
      PROVE  GoodList(One(root, f), home)
  <2>1. /\ f \in ToSet(v.files) /\ Shown(root, f) \in Seq(Names)
        /\ FoldPath(Shown(root, f)) = FoldPath(Append(f.dir, f.name))
    BY <1>2, WalkedFiles
  <2>2. CASE f.kind = "link"
    <3>0. AtLink(index, Shown(root, f), home)
      BY <2>1, <2>2 DEF AtLink, Home
    <3>1. CASE ParseVlnk(f) = <<>>
      <4>1. Links(root, f) = <<>>
        BY <3>1
      <4>2. GoodList(FlattenSeq(<<>>), home)
        BY GoodShort DEF FlattenSeq
      <4> QED BY <2>2, <4>1, <4>2
    <3>2. CASE ParseVlnk(f) = <<f.link>> /\ IntactLink(f.link)
      <4> DEFINE seqs == Links(root, f)
      <4>1. DOMAIN ParseVlnk(f) = 1 .. 1 /\ ParseVlnk(f)[1] = f.link
        BY <3>2
      <4>2. seqs = [i \in 1 .. 1 |-> seqs[i]]
        BY <4>1
      <4>3. GoodList(seqs[1], home)
        BY <1>1, <3>0, <3>2, <4>1, TargetGood
      <4>4. \A i \in 1 .. 1 : GoodList(seqs[i], home)
        BY <4>3
      <4> HIDE DEF seqs
      <4>5. GoodList(FlattenSeq(seqs), home)
        BY <4>2, <4>4, GoodFlat
      <4> QED BY <2>2, <4>5 DEF seqs
    <3> QED BY <1>2, <2>1, <2>2, <3>1, <3>2, ParsedLink
  <2>3. CASE f.kind # "link"
    <3>1. GoodList(Of(root, f), home)
      BY <1>1, <2>1, ImageEntry, GoodShort
    <3> QED BY <2>3, <3>1
  <2> QED BY <2>2, <2>3
<1> HIDE DEF One
<1>5. ASSUME NEW root \in Seq(Names) PROVE GoodList(OfRoot(root), home)
  <2>1. CASE IsVentoyPluginTree(root)
    BY <2>1, GoodShort
  <2>2. CASE ~IsVentoyPluginTree(root)
    <3> DEFINE hits == Hits(root)  seqs == Ones(root)
    <3>1. IsList(hits)
      BY <1>2, WalkedFiles
    <3>2. PICK n \in Nat : DOMAIN hits = 1 .. n /\ \A i \in 1 .. n : hits[i] \in ToSet(hits)
      <4> HIDE DEF hits
      <4> QED BY <3>1, ListPositions
    <3>3. seqs = [i \in 1 .. n |-> seqs[i]]
      BY <3>2
    <3>4. ASSUME NEW i \in 1 .. n PROVE GoodList(seqs[i], home)
      BY <1>4, <3>2
    <3> HIDE DEF seqs
    <3>5. GoodList(FlattenSeq(seqs), home)
      BY <3>3, <3>4, GoodFlat
    <3> QED BY <2>2, <3>5 DEF seqs
  <2> QED BY <2>1, <2>2
<1>10. ASSUME NEW root \in Seq(Names), NEW f \in ToSet(v.files), f.kind # "link", ~f.hidden,
              Walked(v, LoadVentoyConfig(v), root, f)
       PROVE  \E e \in ToSet(OfRoot(root)) : FoldPath(e.path) = FoldPath(Append(f.dir, f.name))
  <2> DEFINE hits == Hits(root)  seqs == Ones(root)
  <2>1. /\ IsList(hits) /\ f \in ToSet(hits) /\ ~IsVentoyPluginTree(root)
        /\ FoldPath(Shown(root, f)) = FoldPath(Append(f.dir, f.name))
    BY <1>2, <1>10, WalkedFiles
  <2>2. PICK n \in Nat : DOMAIN hits = 1 .. n /\ \A i \in 1 .. n : hits[i] \in ToSet(hits)
    <3> HIDE DEF hits
    <3> QED BY <2>1, ListPositions
  <2>3. PICK i \in 1 .. n : hits[i] = f
    <3> HIDE DEF hits
    <3> QED BY <2>1, <2>2 DEF ToSet
  <2>4. /\ seqs = [j \in 1 .. n |-> seqs[j]] /\ seqs[i] = Of(root, f)
        /\ \A j \in 1 .. n : IsList(seqs[j])
    BY <1>4, <1>10, <2>2, <2>3 DEF One, GoodList
  <2>5. \E e \in ToSet(Of(root, f)) : e.path = Shown(root, f)
    BY ShortLists DEF Entry
  <2>6. OfRoot(root) = FlattenSeq(seqs)
    BY <2>1
  <2> HIDE DEF seqs, Of, OfRoot
  <2>7. ToSet(FlattenSeq(seqs)) = UNION {ToSet(seqs[j]) : j \in 1 .. n}
    BY <2>4, FlatList
  <2> QED BY <2>1, <2>4, <2>5, <2>6, <2>7
<1>6. ScanVolumePaths(v, h, index) = FlattenSeq(lists)
  BY DEF ScanVolumePaths, One
<1> HIDE DEF OfRoot, roots
<1>7. PICK n \in Nat : DOMAIN roots = 1 .. n /\ \A r \in 1 .. n : roots[r] \in Seq(Names)
  BY <1>3
<1>8. /\ lists = [r \in 1 .. n |-> lists[r]]
      /\ \A r \in 1 .. n : lists[r] = OfRoot(roots[r]) /\ GoodList(lists[r], home)
  BY <1>5, <1>7
<1> HIDE DEF lists
<1>9. GoodList(FlattenSeq(lists), home)
  BY <1>8, GoodFlat
<1>11. ToSet(FlattenSeq(lists)) = UNION {ToSet(lists[r]) : r \in 1 .. n}
  BY <1>8, FlatList DEF GoodList
<1>12. ASSUME NEW r \in DOMAIN roots, NEW f \in ToSet(v.files), f.kind # "link", ~f.hidden,
              Walked(v, LoadVentoyConfig(v), roots[r], f)
       PROVE  \E e \in ToSet(FlattenSeq(lists)) : FoldPath(e.path) = FoldPath(Append(f.dir, f.name))
  <2>1. r \in 1 .. n /\ roots[r] \in Seq(Names) /\ lists[r] = OfRoot(roots[r])
    BY <1>7, <1>8
  <2>2. \E e \in ToSet(OfRoot(roots[r])) : FoldPath(e.path) = FoldPath(Append(f.dir, f.name))
    BY <1>10, <1>12, <2>1, Zenon
  <2> QED BY <1>11, <2>1, <2>2
<1>13. ListsFiles(ToSet(FlattenSeq(lists)), v)
  BY <1>12 DEF ListsFiles, roots
<1> QED BY <1>6, <1>9, <1>13

\* Everything listed for a volume read through the loader's own readers.
LEMMA ScanBlockGood ==
  ASSUME machine \in Machines, NEW h, NEW v, NEW source, NEW offset,
         Reached(h, v, source, offset), NEW index, NEW home, home = Home(v, h, index)
  PROVE  /\ GoodList(ScanBlockFilesystemPaths(v, h, index, source, offset), home)
         /\ ListsFiles(ToSet(ScanBlockFilesystemPaths(v, h, index, source, offset)), v)
<1> DEFINE Of(root, f) ==
             LET extents == Extents(RawReader(v), f)
             IN <<Entry(index, Shown(root, f), h, source, extents,
                        ResolveImageMetadata(h, offset, extents, f.type), None)>>
           Links(root, f) ==
             [l \in DOMAIN ParseVlnk(f) |->
                ResolveBlockVlnkFile(index, Shown(root, f), ParseVlnk(f)[l], h, source, offset, v)]
           One(root, f) == IF f.kind = "link" THEN FlattenSeq(Links(root, f)) ELSE Of(root, f)
           Hits(root) == ScanBlockFilesystemPath(v, root)
           Ones(root) == [i \in DOMAIN Hits(root) |-> One(root, Hits(root)[i])]
           OfRoot(root) == IF IsVentoyPluginTree(root) THEN <<>> ELSE FlattenSeq(Ones(root))
           roots == SearchRoots(LoadVentoyConfig(v))
           lists == [r \in DOMAIN roots |-> OfRoot(roots[r])]
<1>1. Reached(h, v, source, offset)
  OBVIOUS
<1>2. v \in machine.volumes
  BY <1>1 DEF Reached
<1>3. roots \in Seq(Seq(Names))
  BY <1>2, RootsAreLists
<1>4. ASSUME NEW root \in Seq(Names), NEW f \in ToSet(Hits(root))
      PROVE  GoodList(One(root, f), home)
  <2>1. /\ f \in ToSet(v.files) /\ Shown(root, f) \in Seq(Names)
        /\ FoldPath(Shown(root, f)) = FoldPath(Append(f.dir, f.name))
    BY <1>2, WalkedFiles
  <2>2. CASE f.kind = "link"
    <3>0. AtLink(index, Shown(root, f), home)
      BY <2>1, <2>2 DEF AtLink, Home
    <3>1. CASE ParseVlnk(f) = <<>>
      <4>1. Links(root, f) = <<>>
        BY <3>1
      <4>2. GoodList(FlattenSeq(<<>>), home)
        BY GoodShort DEF FlattenSeq
      <4> QED BY <2>2, <4>1, <4>2
    <3>2. CASE ParseVlnk(f) = <<f.link>> /\ IntactLink(f.link)
      <4> DEFINE seqs == Links(root, f)
      <4>1. DOMAIN ParseVlnk(f) = 1 .. 1 /\ ParseVlnk(f)[1] = f.link
        BY <3>2
      <4>2. seqs = [i \in 1 .. 1 |-> seqs[i]]
        BY <4>1
      <4>3. GoodList(seqs[1], home)
        BY <1>1, <3>0, <3>2, <4>1, BlockLinkGood
      <4>4. \A i \in 1 .. 1 : GoodList(seqs[i], home)
        BY <4>3
      <4> HIDE DEF seqs
      <4>5. GoodList(FlattenSeq(seqs), home)
        BY <4>2, <4>4, GoodFlat
      <4> QED BY <2>2, <4>5 DEF seqs
    <3> QED BY <1>2, <2>1, <2>2, <3>1, <3>2, ParsedLink
  <2>3. CASE f.kind # "link"
    <3>1. GoodList(Of(root, f), home)
      BY <1>1, <2>1, ImageEntry, GoodShort
    <3> QED BY <2>3, <3>1
  <2> QED BY <2>2, <2>3
<1> HIDE DEF One
<1>5. ASSUME NEW root \in Seq(Names) PROVE GoodList(OfRoot(root), home)
  <2>1. CASE IsVentoyPluginTree(root)
    BY <2>1, GoodShort
  <2>2. CASE ~IsVentoyPluginTree(root)
    <3> DEFINE hits == Hits(root)  seqs == Ones(root)
    <3>1. IsList(hits)
      BY <1>2, WalkedFiles
    <3>2. PICK n \in Nat : DOMAIN hits = 1 .. n /\ \A i \in 1 .. n : hits[i] \in ToSet(hits)
      <4> HIDE DEF hits
      <4> QED BY <3>1, ListPositions
    <3>3. seqs = [i \in 1 .. n |-> seqs[i]]
      BY <3>2
    <3>4. ASSUME NEW i \in 1 .. n PROVE GoodList(seqs[i], home)
      BY <1>4, <3>2
    <3> HIDE DEF seqs
    <3>5. GoodList(FlattenSeq(seqs), home)
      BY <3>3, <3>4, GoodFlat
    <3> QED BY <2>2, <3>5 DEF seqs
  <2> QED BY <2>1, <2>2
<1>10. ASSUME NEW root \in Seq(Names), NEW f \in ToSet(v.files), f.kind # "link", ~f.hidden,
              Walked(v, LoadVentoyConfig(v), root, f)
       PROVE  \E e \in ToSet(OfRoot(root)) : FoldPath(e.path) = FoldPath(Append(f.dir, f.name))
  <2> DEFINE hits == Hits(root)  seqs == Ones(root)
  <2>1. /\ IsList(hits) /\ f \in ToSet(hits) /\ ~IsVentoyPluginTree(root)
        /\ FoldPath(Shown(root, f)) = FoldPath(Append(f.dir, f.name))
    BY <1>2, <1>10, WalkedFiles
  <2>2. PICK n \in Nat : DOMAIN hits = 1 .. n /\ \A i \in 1 .. n : hits[i] \in ToSet(hits)
    <3> HIDE DEF hits
    <3> QED BY <2>1, ListPositions
  <2>3. PICK i \in 1 .. n : hits[i] = f
    <3> HIDE DEF hits
    <3> QED BY <2>1, <2>2 DEF ToSet
  <2>4. /\ seqs = [j \in 1 .. n |-> seqs[j]] /\ seqs[i] = Of(root, f)
        /\ \A j \in 1 .. n : IsList(seqs[j])
    BY <1>4, <1>10, <2>2, <2>3 DEF One, GoodList
  <2>5. \E e \in ToSet(Of(root, f)) : e.path = Shown(root, f)
    BY ShortLists DEF Entry
  <2>6. OfRoot(root) = FlattenSeq(seqs)
    BY <2>1
  <2> HIDE DEF seqs, Of, OfRoot
  <2>7. ToSet(FlattenSeq(seqs)) = UNION {ToSet(seqs[j]) : j \in 1 .. n}
    BY <2>4, FlatList
  <2> QED BY <2>1, <2>4, <2>5, <2>6, <2>7
<1>6. ScanBlockFilesystemPaths(v, h, index, source, offset) = FlattenSeq(lists)
  BY DEF ScanBlockFilesystemPaths, One
<1> HIDE DEF OfRoot, roots
<1>7. PICK n \in Nat : DOMAIN roots = 1 .. n /\ \A r \in 1 .. n : roots[r] \in Seq(Names)
  BY <1>3
<1>8. /\ lists = [r \in 1 .. n |-> lists[r]]
      /\ \A r \in 1 .. n : lists[r] = OfRoot(roots[r]) /\ GoodList(lists[r], home)
  BY <1>5, <1>7
<1> HIDE DEF lists
<1>9. GoodList(FlattenSeq(lists), home)
  BY <1>8, GoodFlat
<1>11. ToSet(FlattenSeq(lists)) = UNION {ToSet(lists[r]) : r \in 1 .. n}
  BY <1>8, FlatList DEF GoodList
<1>12. ASSUME NEW r \in DOMAIN roots, NEW f \in ToSet(v.files), f.kind # "link", ~f.hidden,
              Walked(v, LoadVentoyConfig(v), roots[r], f)
       PROVE  \E e \in ToSet(FlattenSeq(lists)) : FoldPath(e.path) = FoldPath(Append(f.dir, f.name))
  <2>1. r \in 1 .. n /\ roots[r] \in Seq(Names) /\ lists[r] = OfRoot(roots[r])
    BY <1>7, <1>8
  <2>2. \E e \in ToSet(OfRoot(roots[r])) : FoldPath(e.path) = FoldPath(Append(f.dir, f.name))
    BY <1>10, <1>12, <2>1, Zenon
  <2> QED BY <1>11, <2>1, <2>2
<1>13. ListsFiles(ToSet(FlattenSeq(lists)), v)
  BY <1>12 DEF ListsFiles, roots
<1> QED BY <1>6, <1>9, <1>13

---------------------------------------------------------------------------
(***************************************************************************)
(* Each volume is scanned once.                                            *)
(***************************************************************************)
\* A machine on which an image can be listed once.
Plain == PathsKnown /\ Separate

\* The partitions of the disk behind a handle.
Table(h) == DiscoverPartitionCandidates(Disk(h))

\* How an entry was come by: its volume lies where the handle does, or is a
\* partition of the disk behind the handle that no handle stands for.
Via(home) ==
  LET v == home.volume  h == home.handle
  IN /\ h \in DOMAIN Handles /\ v \in machine.volumes /\ v.disk = Handles[h].disk
     /\ \/ v.start = Handles[h].start
        \/ /\ Handles[h].whole /\ ~Handles[h].simple
           /\ \E c \in ToSet(Table(h)) : /\ c.start = v.start
                                         /\ <<c.start, c.count>> \notin ExposedChildPartitions(h)

\* The scan is past the handle, or past the partition on the handle it is at.
Past(home) ==
  LET v == home.volume  h == home.handle
  IN IF Handles[h].simple THEN stage = "mounted" => \E k \in 1 .. at - 1 : Mounted[k] = h
     ELSE /\ stage # "mounted"
          /\ \/ h < at
             \/ /\ h = at /\ stage = "partitions" /\ v.start # Handles[h].start
                /\ \A p \in ToSet(parts) : p.start # v.start

\* On such a machine one handle leads to a volume, and in one way.
LEMMA OneHandle ==
  ASSUME machine \in Machines, Plain, NEW a, NEW b, Via(a), Via(b), a.volume = b.volume
  PROVE  a.handle = b.handle
<1> DEFINE Direct(home) == home.volume.start = Handles[home.handle].start
<1>1. /\ a.handle \in DOMAIN Handles /\ b.handle \in DOMAIN Handles
      /\ a.volume.disk = Handles[a.handle].disk /\ a.volume.disk = Handles[b.handle].disk
  BY DEF Via
<1>2. \A g, h \in DOMAIN Handles :
        Handles[g].disk = Handles[h].disk /\ Handles[g].start = Handles[h].start => g = h
  BY DEF Plain, Separate
<1>3. \A h \in DOMAIN Handles : Handles[h].path
  BY DEF Plain, PathsKnown
<1>4. ASSUME NEW x, NEW y, Via(x), Via(y), x.volume = y.volume, Direct(x), ~Direct(y)
      PROVE  FALSE
  <2> DEFINE h == y.handle  g == x.handle
  <2>1. /\ h \in DOMAIN Handles /\ Handles[h].whole
        /\ g \in DOMAIN Handles /\ Handles[g].disk = Handles[h].disk
    BY <1>4 DEF Via
  <2>2. PICK c \in ToSet(Table(h)) : /\ c.start = y.volume.start
                                     /\ <<c.start, c.count>> \notin ExposedChildPartitions(h)
    BY <1>4 DEF Via
  <2>3. PICK k \in DOMAIN Table(h) : c = Table(h)[k]
    BY DEF ToSet
  <2>4. Handles[g].start = c.start
    BY <1>4, <2>2
  <2>5. c.start > 0 /\ Handles[g].count = c.count
    BY <2>1, <2>3, <2>4 DEF Plain, Separate, Table
  <2>6. Handles[h].start = 0 /\ Handles[g].start # 0 /\ Handles[g].whole \in BOOLEAN
    BY <2>1, <2>4, <2>5, HandleFacts
  <2>7. ~Handles[g].whole /\ g # h
    BY <2>1, <2>6, HandleFacts
  <2>8. <<Handles[g].start, Handles[g].count>> \in ExposedChildPartitions(h)
    BY <1>3, <2>1, <2>7 DEF ExposedChildPartitions, ParentPath
  <2> QED BY <2>2, <2>4, <2>5, <2>8
<1>5. CASE Direct(a) /\ Direct(b)
  BY <1>1, <1>2, <1>5
<1>6. CASE ~Direct(a) /\ ~Direct(b)
  <2>1. Handles[a.handle].whole /\ Handles[b.handle].whole
    BY <1>6 DEF Via
  <2>2. Handles[a.handle].start = 0 /\ Handles[b.handle].start = 0
    BY <1>1, <2>1, HandleFacts
  <2> QED BY <1>1, <1>2, <2>2
<1>7. CASE Direct(a) /\ ~Direct(b)
  BY <1>4, <1>7
<1>8. CASE ~Direct(a) /\ Direct(b)
  BY <1>4, <1>8
<1> QED BY <1>5, <1>6, <1>7, <1>8

\* Two entries that lead to the same block, neither of them for a link.
Alike(e, f) ==
  /\ e.target = None /\ f.target = None
  /\ BootPlace(e) # None /\ BootPlace(e) = BootPlace(f)

\* Every entry is right and was come by in one of these ways.
Listed ==
  /\ IsList(files)
  /\ \A e \in ToSet(files) : \E home : EntryOk(e, home) /\ (Plain => Via(home) /\ Past(home))

\* Entries of a plain machine that lead to the same block have the same index.
OneIndex == Plain => \A e, f \in ToSet(files) : Alike(e, f) => e.index = f.index

\* The machine does not change during a scan, and so an entry stays right.
LEMMA EntryStays ==
  ASSUME machine' = machine
  PROVE  /\ \A e, home : EntryOk(e, home) => EntryOk(e, home)'
         /\ \A e, f : Alike(e, f)' => Alike(e, f)
         /\ Plain' <=> Plain
         /\ \A home : Via(home) => Via(home)'
<1>0. \A e : BootPlace(e)' = BootPlace(e)
  BY DEF BootPlace, Total, Handles, Disk
<1>1. ASSUME NEW e, NEW home, EntryOk(e, home) PROVE EntryOk(e, home)'
  <2>2. LinkTypes' = LinkTypes
    BY DEF LinkTypes
  <2>3. \A link, t : NamesPartition(link, t)' <=> NamesPartition(link, t)
    BY DEF NamesPartition
  <2>4. ReachesTheImage(e)'
    BY <1>0, <1>1, <2>2 DEF EntryOk, ReachesTheImage
  <2>5. ReachesItsPartition(e)'
    BY <1>0, <1>1, <2>3 DEF EntryOk, ReachesItsPartition
  <2>6. AtHome(e, home)'
    BY <1>0, <1>1 DEF EntryOk, AtHome, OfFile, HandleVolume, VolumesAt, Handles
  <2> QED BY <2>4, <2>5, <2>6 DEF EntryOk
<1>2. \A e, f : Alike(e, f)' => Alike(e, f)
  BY <1>0 DEF Alike
<1>3. Plain' <=> Plain
  BY DEF Plain, PathsKnown, Separate, Handles, Disk
<1>4. ASSUME NEW home, Via(home) PROVE Via(home)'
  BY <1>4 DEF Via, Handles, Table, Disk, ExposedChildPartitions, ParentPath
<1> QED BY <1>1, <1>2, <1>3, <1>4

\* Two entries for the same block were found on the same volume.
LEMMA SameVolume ==
  ASSUME Plain, NEW e, NEW f, Alike(e, f), NEW a, NEW b, EntryOk(e, a), EntryOk(f, b),
         a.volume \in machine.volumes, b.volume \in machine.volumes
  PROVE  a.volume = b.volume /\ FoldPath(e.path) = FoldPath(f.path)
<1>1. PICK p \in ToSet(a.volume.files) :
        /\ p.mapped /\ FoldPath(e.path) = FoldPath(Append(p.dir, p.name))
        /\ BootPlace(e) = <<a.volume.disk, a.volume.start + p.lba>>
  BY DEF EntryOk, AtHome, Alike
<1>2. PICK q \in ToSet(b.volume.files) :
        /\ q.mapped /\ FoldPath(f.path) = FoldPath(Append(q.dir, q.name))
        /\ BootPlace(f) = <<b.volume.disk, b.volume.start + q.lba>>
  BY DEF EntryOk, AtHome, Alike
<1>3. a.volume.disk = b.volume.disk /\ a.volume.start + p.lba = b.volume.start + q.lba
  <2>1. PICK x, y : x = a.volume.start + p.lba /\ y = b.volume.start + q.lba
    OBVIOUS
  <2>2. <<a.volume.disk, x>> = <<b.volume.disk, y>>
    BY <1>1, <1>2, <2>1 DEF Alike
  <2> QED BY <2>1, <2>2
<1>4. /\ a.volume = b.volume
      /\ FoldPath(Append(p.dir, p.name)) = FoldPath(Append(q.dir, q.name))
  BY <1>1, <1>2, <1>3 DEF Plain, Separate
<1> QED BY <1>1, <1>2, <1>4

\* A step that lists nothing.
LEMMA NothingListed ==
  ASSUME machine' = machine, files' = files, Listed, OneIndex,
         Plain => \A a : Via(a) /\ Past(a) => Past(a)'
  PROVE  Listed' /\ OneIndex'
<1>1. Listed'
  <2> SUFFICES ASSUME NEW e \in ToSet(files)
               PROVE  \E home : EntryOk(e, home)' /\ (Plain' => Via(home)' /\ Past(home)')
    BY DEF Listed, IsList
  <2>1. PICK home : EntryOk(e, home) /\ (Plain => Via(home) /\ Past(home))
    BY DEF Listed
  <2> QED BY <2>1, EntryStays
<1>2. OneIndex'
  BY EntryStays DEF OneIndex
<1> QED BY <1>1, <1>2

\* A step that lists the entries of one volume, the first time it is scanned.
LEMMA VolumeListed ==
  ASSUME machine' = machine, Listed, OneIndex, NEW s, NEW home, GoodList(s, home),
         files' = files \o s, Plain => Via(home) /\ Past(home)',
         Plain => \A a : Via(a) /\ Past(a) => Past(a)' /\ a.volume # home.volume
  PROVE  Listed' /\ OneIndex'
<1>1. IsList(files') /\ ToSet(files') = ToSet(files) \cup ToSet(s)
  BY ConcatLists DEF Listed, GoodList
<1>2. ASSUME NEW e \in ToSet(files')
      PROVE  \E a : EntryOk(e, a)' /\ (Plain' => Via(a)' /\ Past(a)')
  <2>1. CASE e \in ToSet(s)
    BY <2>1, EntryStays DEF GoodList
  <2>2. CASE e \in ToSet(files)
    <3>1. PICK a : EntryOk(e, a) /\ (Plain => Via(a) /\ Past(a))
      BY <2>2 DEF Listed
    <3> QED BY <3>1, EntryStays
  <2> QED BY <1>1, <2>1, <2>2
<1>3. Listed'
  BY <1>1, <1>2 DEF Listed, IsList
<1>4. ASSUME Plain, NEW e \in ToSet(s), NEW f \in ToSet(files), Alike(e, f) \/ Alike(f, e)
      PROVE  FALSE
  <2>1. PICK a : EntryOk(f, a) /\ Via(a) /\ Past(a)
    BY <1>4 DEF Listed
  <2>2. a.volume \in machine.volumes /\ home.volume \in machine.volumes
    BY <1>4, <2>1 DEF Via
  <2>3. EntryOk(e, home)
    BY DEF GoodList
  <2>4. a.volume = home.volume
    BY <1>4, <2>1, <2>2, <2>3, SameVolume
  <2> QED BY <1>4, <2>1, <2>4
<1>5. ASSUME Plain, NEW e \in ToSet(s), NEW f \in ToSet(s), Alike(e, f) PROVE e.index = f.index
  BY <1>5 DEF Alike, GoodList, EntryOk, AtHome
<1>6. OneIndex'
  <2> SUFFICES ASSUME Plain, NEW e \in ToSet(files'), NEW f \in ToSet(files'), Alike(e, f)
               PROVE  e.index = f.index
    BY EntryStays DEF OneIndex
  <2>1. CASE e \in ToSet(files) /\ f \in ToSet(files)
    BY <2>1 DEF OneIndex
  <2> QED BY <1>1, <1>4, <1>5, <2>1
<1> QED BY <1>3, <1>6

---------------------------------------------------------------------------
(***************************************************************************)
(* The scan of a machine.                                                  *)
(***************************************************************************)
\* A selection of the numbers from 1 to n has none of them twice.
LEMMA OnlyDistinct ==
  ASSUME NEW n \in Nat, NEW keep, NEW s, s = [i \in 1 .. n |-> i]
  PROVE  Distinct(Only(s, keep))
<1> DEFINE seqs == [i \in DOMAIN s |-> IF i \in keep THEN <<s[i]>> ELSE <<>>]
<1>1. Only(s, keep) = FlattenSeq(seqs)
  BY DEF Only
<1>2. \A i \in 1 .. n : seqs[i] = <<i>> \/ seqs[i] = <<>>
  OBVIOUS
<1>3. seqs \in [1 .. n -> Seq(Nat)] /\ Len(seqs) = n
  <2>1. \A i \in 1 .. n : (IF i \in keep THEN <<i>> ELSE <<>>) \in Seq(Nat)
    OBVIOUS
  <2> QED BY <2>1
<1> HIDE DEF seqs
<1> QED BY <1>1, <1>2, <1>3, FlatDistinct

\* The mounted volumes are handles, each once.
LEMMA MountedHandles ==
  ASSUME machine \in Machines
  PROVE  /\ IsList(Mounted) /\ Distinct(Mounted)
         /\ \A h \in DOMAIN Handles : Handles[h].simple => \E k \in DOMAIN Mounted : Mounted[k] = h
         /\ \A k \in DOMAIN Mounted : Mounted[k] \in DOMAIN Handles /\ Handles[Mounted[k]].simple
<1> DEFINE keep == {h \in DOMAIN Handles : Handles[h].simple}
<1>1. PICK n \in Nat : n = Len(Handles) /\ DOMAIN Handles = 1 .. n
  BY HandleNumbers
<1>0. Indices = [h \in 1 .. n |-> h]
  BY <1>1 DEF Indices
<1>2. Indices \in Seq(Nat) /\ DOMAIN Indices = 1 .. n /\ \A i \in 1 .. n : Indices[i] = i
  BY <1>0
<1>3. IsList(Indices)
  BY <1>2, AnySequence
<1>4. Mounted = Only(Indices, keep)
  BY DEF Mounted
<1>5. \A h \in keep : h \in DOMAIN Handles /\ Handles[h].simple
  OBVIOUS
<1> HIDE DEF keep
<1>6. IsList(Mounted) /\ ToSet(Mounted) = {Indices[i] : i \in keep \cap DOMAIN Indices}
  BY <1>3, <1>4, OnlyKeeps
<1>7. \A k \in DOMAIN Mounted : Mounted[k] \in ToSet(Mounted)
  BY <1>6, ListPositions
<1>8. \A h \in ToSet(Mounted) : h \in keep
  BY <1>1, <1>2, <1>5, <1>6
<1>9. Distinct(Mounted)
  BY <1>0, <1>4, OnlyDistinct
<1>10. ASSUME NEW h \in DOMAIN Handles, Handles[h].simple
       PROVE  \E k \in DOMAIN Mounted : Mounted[k] = h
  <2>1. h \in keep /\ h \in DOMAIN Indices /\ Indices[h] = h
    BY <1>1, <1>2, <1>10 DEF keep
  <2>2. h \in ToSet(Mounted)
    BY <1>6, <2>1
  <2> QED BY <2>2 DEF ToSet
<1> QED BY <1>5, <1>6, <1>7, <1>8, <1>9, <1>10

\* The candidates that are left are partitions of the disk at hand.
Cursor ==
  /\ machine \in Machines /\ at \in Nat \ {0}
  /\ parts \in Seq([number : Nat, start : Nat, count : Nat, format : {"gpt", "mbr"}])
  /\ stage = "partitions" =>
       /\ at \in DOMAIN Handles /\ ~Handles[at].simple /\ (parts # <<>> => Handles[at].whole)
       /\ ToSet(parts) \subseteq ToSet(Table(at))
       /\ Separate => \A i, j \in DOMAIN parts : parts[i].start = parts[j].start => i = j

\* What the list is cut down to: of the entries of a file the first.
First(k) ==
  \A j \in DOMAIN files \ {k} :
    files[j].index = files[k].index /\ FoldPath(files[j].path) = FoldPath(files[k].path)
      => \/ Before(files[k], files[j])
         \/ files[j].path = files[k].path /\ k < j

\* The list handed to the menu holds these and nothing else.
Chosen == stage = "done" => listing = {files[k] : k \in {k \in DOMAIN files : First(k)}}

ScanInv == Cursor /\ Listed /\ OneIndex /\ Chosen

\* Nothing is listed when the scan begins.
LEMMA InitScan == Init => ScanInv
<1> SUFFICES ASSUME Init PROVE ScanInv
  OBVIOUS
<1>1. Cursor
  BY DEF Init, Cursor
<1>2. IsList(files) /\ ToSet(files) = {}
  BY ShortLists DEF Init
<1>3. Listed /\ OneIndex
  BY <1>2 DEF Listed, OneIndex
<1>4. Chosen
  BY DEF Init, Chosen
<1> QED BY <1>1, <1>3, <1>4 DEF ScanInv

\* A mounted volume: an earlier one of the list is another volume.
LEMMA MountedScan ==
  ASSUME ScanInv, ScanMountedVolume
  PROVE  Listed' /\ OneIndex'
<1>1. /\ machine' = machine /\ machine \in Machines /\ stage = "mounted" /\ stage' = "mounted"
      /\ at \in Nat \ {0} /\ at' = at + 1 /\ Listed /\ OneIndex
  BY DEF ScanInv, Cursor, ScanMountedVolume
<1>2. at \in DOMAIN Mounted /\ Mounted[at] \in DOMAIN Handles /\ Handles[Mounted[at]].simple
  BY <1>1, MountedHandles, ListPositions DEF ScanMountedVolume
<1>3. Handles' = Handles /\ Mounted' = Mounted
  BY <1>1 DEF Handles, Mounted, Indices
<1>4. ASSUME NEW a, Past(a) PROVE Past(a)'
  BY <1>1, <1>3, <1>4 DEF Past
<1>5. CASE files' = files
  BY <1>1, <1>4, <1>5, NothingListed
<1>6. CASE \E v \in HandleVolume(Mounted[at]) :
             files' = files \o ScanVolumePaths(v, Mounted[at], at - 1)
  <2>0. PICK v \in HandleVolume(Mounted[at]) :
          files' = files \o ScanVolumePaths(v, Mounted[at], at - 1)
    BY <1>6
  <2>1. PICK s, home : /\ s = ScanVolumePaths(v, Mounted[at], at - 1) /\ files' = files \o s
                       /\ home = Home(v, Mounted[at], at - 1)
    BY <2>0
  <2>2. GoodList(s, home)
    BY <1>1, <1>2, <2>1, ScanVolumeGood
  <2>3. home.volume = v /\ home.handle = Mounted[at]
    BY <2>1 DEF Home
  <2>4. Via(home)
    BY <1>2, <2>3 DEF Via, HandleVolume, VolumesAt
  <2>5. Past(home)'
    BY <1>1, <1>2, <1>3, <2>3 DEF Past
  <2>6. ASSUME Plain, NEW a, Via(a), Past(a) PROVE a.volume # home.volume
    <3>1. SUFFICES ASSUME a.handle = Mounted[at] PROVE FALSE
      BY <1>1, <2>3, <2>4, <2>6, OneHandle
    <3>2. PICK k \in 1 .. at - 1 : Mounted[k] = Mounted[at]
      BY <1>1, <1>2, <2>6, <3>1 DEF Past
    <3>3. k \in DOMAIN Mounted /\ k # at
      BY <1>1, <1>2, MountedHandles, ListPositions
    <3> QED BY <1>1, <1>2, <3>2, <3>3, MountedHandles DEF Distinct
  <2> QED BY <1>1, <1>4, <2>1, <2>2, <2>4, <2>5, <2>6, VolumeListed
<1> QED BY <1>5, <1>6 DEF ScanMountedVolume

\* A raw handle scanned as one volume, at once or after its partitions: what
\* was found through it before lies elsewhere.
LEMMA HandleScan ==
  ASSUME ScanInv, machine' = machine, stage \in {"blocks", "partitions"}, stage' = "blocks",
         at \in DOMAIN Handles, at' = at + 1, ~Handles[at].simple,
         \/ files' = files
         \/ \E v \in HandleVolume(at) :
              files' = files \o ScanBlockFilesystemPaths(v, at, BlockVolumeIndex,
                                                         ResolveSourceDisk(at, {at}), 0)
  PROVE  Listed' /\ OneIndex'
<1>1. machine \in Machines /\ at \in Nat /\ Listed /\ OneIndex
  BY DEF ScanInv, Cursor
<1>3. Handles' = Handles
  BY DEF Handles
<1>4. ASSUME NEW a, Via(a), Past(a) PROVE Past(a)'
  <2>1. a.handle \in Nat
    BY <1>1, <1>4, HandleNumbers DEF Via
  <2> QED BY <1>1, <1>3, <1>4, <2>1 DEF Past
<1>5. CASE files' = files
  BY <1>1, <1>4, <1>5, NothingListed
<1>6. CASE \E v \in HandleVolume(at) :
              files' = files \o ScanBlockFilesystemPaths(v, at, BlockVolumeIndex,
                                                         ResolveSourceDisk(at, {at}), 0)
  <2>0. PICK v \in HandleVolume(at) :
          files' = files \o ScanBlockFilesystemPaths(v, at, BlockVolumeIndex,
                                                     ResolveSourceDisk(at, {at}), 0)
    BY <1>6
  <2>1. PICK s, home :
          /\ s = ScanBlockFilesystemPaths(v, at, BlockVolumeIndex, ResolveSourceDisk(at, {at}), 0)
          /\ files' = files \o s /\ home = Home(v, at, BlockVolumeIndex)
    BY <2>0
  <2>2. GoodList(s, home)
    <3>1. Reached(at, v, ResolveSourceDisk(at, {at}), 0)
      BY <1>1, ReachedDirectly
    <3> QED BY <1>1, <2>1, <3>1, ScanBlockGood
  <2>3. home.volume = v /\ home.handle = at /\ v.start = Handles[at].start
    BY <2>1 DEF Home, HandleVolume, VolumesAt
  <2>4. Via(home)
    BY <2>3 DEF Via, HandleVolume, VolumesAt
  <2>5. Past(home)'
    BY <1>1, <1>3, <2>3 DEF Past
  <2>6. ASSUME Plain, NEW a, Via(a), Past(a) PROVE a.volume # home.volume
    <3>1. SUFFICES ASSUME a.handle = at, a.volume = v PROVE FALSE
      BY <1>1, <2>3, <2>4, <2>6, OneHandle
    <3> QED BY <1>1, <2>3, <2>6, <3>1 DEF Past
  <2> QED BY <1>1, <1>4, <2>1, <2>2, <2>4, <2>5, <2>6, VolumeListed
<1> QED BY <1>5, <1>6

\* A partition of the table: those before it begin elsewhere.
LEMMA PartitionScan ==
  ASSUME ScanInv, ScanPartition
  PROVE  Cursor' /\ Listed' /\ OneIndex'
<1> DEFINE C == [number : Nat, start : Nat, count : Nat, format : {"gpt", "mbr"}]
<1>1. /\ machine' = machine /\ machine \in Machines /\ stage = "partitions" /\ stage' = stage
      /\ at \in Nat /\ at' = at /\ Listed /\ OneIndex /\ parts # <<>> /\ parts' = Tail(parts)
      /\ at \in DOMAIN Handles /\ ~Handles[at].simple /\ Handles[at].whole /\ parts \in Seq(C)
      /\ ToSet(parts) \subseteq ToSet(Table(at)) /\ at # 0
      /\ Separate => \A i, j \in DOMAIN parts : parts[i].start = parts[j].start => i = j
  BY DEF ScanInv, Cursor, ScanPartition
<1> HIDE DEF C
<1>2. PICK part \in C : part = Head(parts) /\ part \in ToSet(parts)
  <2>1. Head(parts) \in C /\ Head(parts) = parts[1] /\ 1 \in DOMAIN parts
    BY <1>1
  <2> QED BY <2>1 DEF ToSet
<1>3. /\ Handles' = Handles /\ Table(at)' = Table(at)
      /\ Separate' <=> Separate
  BY <1>1 DEF Handles, Table, Disk, Separate
<1>4. /\ parts' \in Seq(C) /\ ToSet(parts') \subseteq ToSet(parts)
      /\ Separate => /\ \A i, j \in DOMAIN parts' : parts'[i].start = parts'[j].start => i = j
                     /\ \A p \in ToSet(parts') : p.start # part.start
  <2>1. PICK n \in Nat : n = Len(parts) /\ n > 0 /\ DOMAIN parts = 1 .. n
    BY <1>1
  <2>2. /\ parts' \in Seq(C) /\ DOMAIN parts' = 1 .. n - 1
        /\ \A i \in 1 .. n - 1 : parts'[i] = parts[i + 1]
    BY <1>1, <2>1
  <2>3. \A p \in ToSet(parts') : \E i \in 1 .. n - 1 : p = parts[i + 1]
    BY <2>2 DEF ToSet
  <2>4. \A i \in 1 .. n - 1 : i + 1 \in DOMAIN parts /\ i + 1 # 1
    BY <2>1
  <2>5. ToSet(parts') \subseteq ToSet(parts)
    BY <2>3, <2>4 DEF ToSet
  <2>6. part = parts[1] /\ 1 \in DOMAIN parts
    BY <1>1, <1>2, <2>1
  <2>7. ASSUME Separate, NEW p \in ToSet(parts') PROVE p.start # part.start
    BY <1>1, <2>3, <2>4, <2>6, <2>7
  <2>8. ASSUME Separate, NEW i \in DOMAIN parts', NEW j \in DOMAIN parts',
               parts'[i].start = parts'[j].start
        PROVE  i = j
    <3>1. /\ parts[i + 1].start = parts[j + 1].start
          /\ i + 1 \in DOMAIN parts /\ j + 1 \in DOMAIN parts
      BY <2>2, <2>4, <2>8
    <3>2. i + 1 = j + 1
      BY <1>1, <2>8, <3>1
    <3> QED BY <2>1, <2>2, <3>2
  <2> QED BY <2>2, <2>5, <2>7, <2>8
<1>5. Cursor'
  <2>1. /\ machine' \in Machines /\ at' \in Nat \ {0}
        /\ at' \in DOMAIN Handles' /\ ~Handles'[at'].simple /\ Handles'[at'].whole
    BY <1>1, <1>3
  <2>2. parts' \in Seq([number : Nat, start : Nat, count : Nat, format : {"gpt", "mbr"}])
    BY <1>4 DEF C
  <2>3. ToSet(parts') \subseteq ToSet(Table(at)')
    BY <1>1, <1>3, <1>4
  <2>4. Separate' => \A i, j \in DOMAIN parts' : parts'[i].start = parts'[j].start => i = j
    BY <1>3, <1>4
  <2> QED BY <2>1, <2>2, <2>3, <2>4 DEF Cursor
<1>6. ASSUME NEW a, Past(a) PROVE Past(a)'
  <2>1. ToSet(parts') \subseteq ToSet(parts)
    BY <1>4
  <2>2. stage = "partitions" /\ stage' = "partitions" /\ at' = at /\ Handles' = Handles
    BY <1>1, <1>3
  <2> QED BY <1>6, <2>1, <2>2 DEF Past
<1>7. CASE files' = files
  BY <1>1, <1>5, <1>6, <1>7, NothingListed
<1>8. CASE /\ FitsDisk(part.start, part.count, Disk(at))
           /\ <<part.start, part.count>> \notin ExposedChildPartitions(at)
           /\ \E v \in VolumesAt(Handles[at].disk, part.start) :
                files' = files \o ScanBlockFilesystemPaths(v, at, BlockVolumeIndex,
                                    PartitionSourceDisk(Disk(at), part), part.start)
  <2>0. PICK v \in VolumesAt(Handles[at].disk, part.start) :
          files' = files \o ScanBlockFilesystemPaths(v, at, BlockVolumeIndex,
                              PartitionSourceDisk(Disk(at), part), part.start)
    BY <1>8
  <2>1. PICK s, home :
          /\ s = ScanBlockFilesystemPaths(v, at, BlockVolumeIndex,
                                          PartitionSourceDisk(Disk(at), part), part.start)
          /\ files' = files \o s /\ home = Home(v, at, BlockVolumeIndex)
    BY <2>0
  <2>2. GoodList(s, home)
    <3>1. part.start \in Nat /\ part.count \in Nat
      BY <1>2 DEF C
    <3>2. Reached(at, v, PartitionSourceDisk(Disk(at), part), part.start)
      BY <1>1, <1>8, <3>1, ReachedOnPartition
    <3> QED BY <1>1, <2>1, <3>2, ScanBlockGood
  <2>3. home.volume = v /\ home.handle = at /\ v.start = part.start
    BY <2>1 DEF Home, VolumesAt
  <2>4. part \in ToSet(Table(at))
    BY <1>1, <1>2
  <2>5. Via(home)
    BY <1>1, <1>8, <2>3, <2>4 DEF Via, VolumesAt
  <2>6. ASSUME Plain PROVE Past(home)'
    <3>1. part.start # 0
      BY <1>1, <2>4, <2>6 DEF Plain, Separate, Table, ToSet
    <3>2. Handles[at].start = 0
      BY <1>1, HandleFacts
    <3> QED BY <1>1, <1>3, <1>4, <2>3, <2>6, <3>1, <3>2 DEF Past, Plain
  <2>7. ASSUME Plain, NEW a, Via(a), Past(a) PROVE a.volume # home.volume
    <3>1. SUFFICES ASSUME a.handle = at, a.volume = v PROVE FALSE
      BY <1>1, <2>3, <2>5, <2>7, OneHandle
    <3> QED BY <1>1, <1>2, <2>3, <2>7, <3>1 DEF Past
  <2>8. Listed' /\ OneIndex'
    BY <1>1, <1>6, <2>1, <2>2, <2>5, <2>6, <2>7, VolumeListed
  <2> QED BY <1>5, <2>8
<1> QED BY <1>2, <1>7, <1>8 DEF ScanPartition

\* Every step of the scan keeps the invariant.
LEMMA NextScan == ScanInv /\ [Next]_vars => ScanInv'
<1> SUFFICES ASSUME ScanInv, [Next]_vars PROVE ScanInv'
  OBVIOUS
<1>0. /\ machine' = machine /\ machine \in Machines /\ Handles' = Handles /\ Mounted' = Mounted
      /\ at \in Nat \ {0} /\ Listed /\ OneIndex
  BY DEF ScanInv, Cursor, Next, vars, ScanMountedVolume, MountedDone, SkipBlockHandle,
         ScanBlockVolume, DiscoverPartitions, ScanPartition, PartitionsDone, Finish, Done,
         Handles, Mounted, Indices
<1>00. Separate' <=> Separate
  BY <1>0 DEF Separate, Disk
<1>1. CASE ScanMountedVolume
  <2>1. Cursor' /\ Chosen'
    BY <1>0, <1>1 DEF ScanInv, Cursor, Chosen, ScanMountedVolume
  <2> QED BY <1>1, <2>1, MountedScan DEF ScanInv
<1>2. CASE MountedDone \/ SkipBlockHandle
  <2>1. Cursor' /\ Chosen' /\ files' = files
    BY <1>0, <1>2 DEF ScanInv, Cursor, Chosen, MountedDone, SkipBlockHandle
  <2>2. ASSUME NEW a, Via(a), Past(a) PROVE Past(a)'
    <3>1. a.handle \in Nat
      BY <1>0, <2>2, HandleNumbers DEF Via
    <3> QED BY <1>0, <1>2, <2>2, <3>1 DEF Past, MountedDone, SkipBlockHandle
  <2>3. Listed' /\ OneIndex'
    BY <1>0, <2>1, <2>2, NothingListed
  <2> QED BY <2>1, <2>3 DEF ScanInv
<1>3. CASE ScanBlockVolume
  <2>1. Cursor' /\ Chosen'
    BY <1>0, <1>3 DEF ScanInv, Cursor, Chosen, ScanBlockVolume
  <2>2. at \in DOMAIN Handles /\ ~Handles[at].simple
    BY <1>0, <1>3, HandleNumbers DEF ScanBlockVolume, ScannedRaw
  <2>3. Listed' /\ OneIndex'
    BY <1>0, <1>3, <2>2, HandleScan DEF ScanBlockVolume
  <2> QED BY <2>1, <2>3 DEF ScanInv
<1>4. CASE DiscoverPartitions
  <2>1. at \in DOMAIN Handles /\ ~Handles[at].simple
    BY <1>0, <1>4, HandleNumbers DEF DiscoverPartitions, ScannedRaw
  <2>2. /\ stage = "blocks" /\ stage' = "partitions" /\ at' = at /\ files' = files
        /\ parts' = Table(at) \/ parts' = <<>>
        /\ parts' # <<>> => Handles[at].whole
    BY <1>4 DEF DiscoverPartitions, Table
  <2>3. parts' \in Seq([number : Nat, start : Nat, count : Nat, format : {"gpt", "mbr"}])
    <3> DEFINE C == [number : Nat, start : Nat, count : Nat, format : {"gpt", "mbr"}]
    <3>1. Table(at) \in Seq(C)
      BY <1>0, <2>1, HandleFacts DEF Table
    <3> HIDE DEF C
    <3>2. <<>> \in Seq(C) /\ (parts' = Table(at) \/ parts' = <<>>)
      BY <2>2
    <3>3. parts' \in Seq(C)
      BY <3>1, <3>2, Zenon
    <3> QED BY <3>3 DEF C
  <2>4. /\ ToSet(parts') \subseteq ToSet(Table(at))
        /\ Separate => \A i, j \in DOMAIN parts' : parts'[i].start = parts'[j].start => i = j
    BY <2>1, <2>2, ShortLists DEF Separate, Table
  <2>5. Cursor' /\ Chosen'
    <3>1. /\ machine' \in Machines /\ at' \in Nat \ {0} /\ stage' = "partitions"
          /\ at' \in DOMAIN Handles' /\ ~Handles'[at'].simple
          /\ parts' # <<>> => Handles'[at'].whole
      BY <1>0, <2>1, <2>2
    <3>2. Table(at)' = Table(at)
      BY <1>0, <2>2 DEF Table, Disk
    <3>3. ToSet(parts') \subseteq ToSet(Table(at)')
      BY <2>4, <3>2
    <3>4. Separate' => \A i, j \in DOMAIN parts' : parts'[i].start = parts'[j].start => i = j
      BY <1>00, <2>4
    <3> QED BY <2>3, <3>1, <3>3, <3>4 DEF Cursor, Chosen
  <2>6. ASSUME NEW a, Via(a), Past(a) PROVE Past(a)'
    BY <1>0, <2>2, <2>6 DEF Past
  <2>7. Listed' /\ OneIndex'
    BY <1>0, <2>2, <2>6, NothingListed
  <2> QED BY <2>5, <2>7 DEF ScanInv
<1>5. CASE ScanPartition
  <2>1. Chosen'
    BY <1>5 DEF Chosen, ScanPartition
  <2> QED BY <1>5, <2>1, PartitionScan DEF ScanInv
<1>6. CASE PartitionsDone
  <2>1. Cursor' /\ Chosen'
    BY <1>0, <1>6 DEF ScanInv, Cursor, Chosen, PartitionsDone
  <2>2. at \in DOMAIN Handles /\ ~Handles[at].simple
    BY <1>6 DEF ScanInv, Cursor, PartitionsDone
  <2>3. Listed' /\ OneIndex'
    BY <1>0, <1>6, <2>2, HandleScan DEF PartitionsDone
  <2> QED BY <2>1, <2>3 DEF ScanInv
<1>7. CASE Finish
  <2>1. Cursor' /\ files' = files
    BY <1>0, <1>7 DEF ScanInv, Cursor, Finish
  <2>2. ASSUME NEW a, Past(a) PROVE Past(a)'
    BY <1>0, <1>7, <2>2 DEF Past, Finish
  <2>3. Listed' /\ OneIndex'
    BY <1>0, <2>1, <2>2, NothingListed
  <2>4. \A k : First(k)' <=> First(k)
    BY <2>1 DEF First
  <2>5. listing' = {files[k] : k \in {k \in DOMAIN files : First(k)}}
    BY <1>7 DEF Finish, First
  <2>6. Chosen'
    BY <2>1, <2>4, <2>5 DEF Chosen
  <2> QED BY <2>1, <2>3, <2>6 DEF ScanInv
<1>8. CASE Done \/ UNCHANGED vars
  <2>1. UNCHANGED vars
    BY <1>8 DEF Done
  <2>2. ASSUME NEW a, Past(a) PROVE Past(a)'
    BY <1>0, <2>1, <2>2 DEF Past, vars
  <2>3. Listed' /\ OneIndex'
    BY <1>0, <2>1, <2>2, NothingListed DEF vars
  <2>4. Cursor' /\ Chosen'
    <3>1. Table(at)' = Table(at)
      BY <1>0, <2>1 DEF Table, Disk, vars
    <3>2. Cursor'
      BY <1>0, <1>00, <2>1, <3>1 DEF ScanInv, Cursor, vars
    <3>3. Chosen'
      BY <2>1 DEF ScanInv, Chosen, First, vars
    <3> QED BY <3>2, <3>3
  <2> QED BY <2>3, <2>4 DEF ScanInv
<1> QED BY <1>1, <1>2, <1>3, <1>4, <1>5, <1>6, <1>7, <1>8 DEF Next

\* The invariant of the scan: entries are right, and those of one file have
\* one index.
THEOREM ScanInvariant == Spec => []ScanInv
  BY InitScan, NextScan, PTL DEF Spec

\* Whichever way an image was found (a mounted volume, a raw handle, a table
\* of partitions, a link), with whatever handles held open, the extents of
\* its entry lead to it at boot, and what the list says of it was read from
\* its own blocks.
THEOREM EntriesReachTheirImage == Spec => []ExtentsReachTheImage
<1>1. ScanInv => ExtentsReachTheImage
  <2> SUFFICES ASSUME ScanInv, NEW k \in DOMAIN files PROVE ReachesTheImage(files[k])
    BY DEF ExtentsReachTheImage
  <2> QED BY ListPositions DEF ScanInv, Listed, EntryOk
<1> QED BY <1>1, ScanInvariant, PTL

\* A link is listed with the image of the partition whose disk signature and
\* start it names, never with one of another disk.
THEOREM LinksReachWhatTheyName == Spec => []LinksReachTheirPartition
<1>1. ScanInv => LinksReachTheirPartition
  <2> SUFFICES ASSUME ScanInv, NEW k \in DOMAIN files PROVE ReachesItsPartition(files[k])
    BY DEF LinksReachTheirPartition
  <2> QED BY ListPositions DEF ScanInv, Listed, EntryOk
<1> QED BY <1>1, ScanInvariant, PTL

---------------------------------------------------------------------------
(***************************************************************************)
(* The list without repetitions.                                           *)
(***************************************************************************)
\* The first name in which a path differs from another.
Differs(p, q, k) == p[k] # q[k] /\ \A j \in 1 .. (k - 1) : p[j] = q[j]

Off(p, q) == CHOOSE k \in DOMAIN p : p[k] # q[k] /\ \A j \in 1 .. (k - 1) : p[j] = q[j]

\* Two different paths of the same length differ at a first name, and the
\* order of the list looks at that name, whichever path it is asked about.
LEMMA FirstDifference ==
  ASSUME NEW p, NEW q, p \in Seq(Names), q \in Seq(Names), Len(p) = Len(q), p # q
  PROVE  \E i \in 1 .. Len(p) :
           /\ i = Off(p, q) /\ i = Off(q, p) /\ Differs(p, q, i)
           /\ \A k \in 1 .. Len(p) : Differs(p, q, k) => k = i
<1> DEFINE D == {k \in 1 .. Len(p) : p[k] # q[k]}
           IsFirst(k) == p[k] # q[k] /\ \A j \in 1 .. (k - 1) : p[j] = q[j]
           IsFirst2(k) == q[k] # p[k] /\ \A j \in 1 .. (k - 1) : q[j] = p[j]
<1>1. DOMAIN p = 1 .. Len(p) /\ DOMAIN q = 1 .. Len(p) /\ Len(p) \in Nat
  OBVIOUS
<1>2. D # {}
  BY <1>1
<1>3. PICK i \in D : \A y \in D : i <= y
  <2>1. D \in SUBSET Nat
    BY <1>1
  <2> HIDE DEF D
  <2> QED BY <1>2, <2>1, LeastNatural
<1>4. i \in 1 .. Len(p) /\ IsFirst(i)
  BY <1>1, <1>3
<1>5. ASSUME NEW k \in 1 .. Len(p), IsFirst(k) PROVE k = i
  <2>1. i <= k
    BY <1>3, <1>5
  <2>2. ~(i < k)
    BY <1>1, <1>4, <1>5
  <2> QED BY <1>1, <1>4, <2>1, <2>2
<1>6. \A k : IsFirst(k) <=> IsFirst2(k)
  OBVIOUS
<1> HIDE DEF IsFirst, IsFirst2
<1>7. i = CHOOSE k \in DOMAIN p : IsFirst(k)
  BY <1>1, <1>4, <1>5
<1>8. i = CHOOSE k \in DOMAIN q : IsFirst2(k)
  BY <1>1, <1>4, <1>5, <1>6
<1>9. i = Off(p, q)
  BY <1>7 DEF IsFirst, Off
<1>10. i = Off(q, p)
  BY <1>8 DEF IsFirst2, Off
<1> QED BY <1>4, <1>5, <1>9, <1>10 DEF IsFirst, Differs

\* Of two entries for the same file not each comes before the other.
LEMMA BeforeOneWay ==
  ASSUME NEW a, NEW b, a.path \in Seq(Names), b.path \in Seq(Names),
         FoldPath(a.path) = FoldPath(b.path), Before(a, b), Before(b, a)
  PROVE  FALSE
<1> DEFINE Pos(n) == CHOOSE i \in DOMAIN NameOrder : NameOrder[i] = n
<1>1. Len(a.path) = Len(b.path) /\ a.path # b.path
  BY FoldedPath DEF Before
<1>2. PICK i \in 1 .. Len(a.path) : i = Off(a.path, b.path) /\ i = Off(b.path, a.path)
  BY <1>1, FirstDifference
<1>3. Pos(a.path[i]) < Pos(b.path[i]) /\ Pos(b.path[i]) < Pos(a.path[i])
  BY <1>2, Zenon DEF Before, Off
<1>4. \A n \in Names : Pos(n) \in Nat
  <2>1. DOMAIN NameOrder = 1 .. Len(NameOrder) /\ Len(NameOrder) \in Nat
    BY MachinesAssumption
  <2>2. ASSUME NEW n \in Names PROVE Pos(n) \in DOMAIN NameOrder
    <3>1. \E i1 \in DOMAIN NameOrder : NameOrder[i1] = n
      BY DEF Names, ToSet
    <3> QED BY <3>1
  <2> HIDE DEF Pos
  <2> QED BY <2>1, <2>2
<1>5. a.path[i] \in Names /\ b.path[i] \in Names
  BY <1>1
<1> HIDE DEF Pos
<1>6. PICK x \in Nat, y \in Nat : x = Pos(a.path[i]) /\ y = Pos(b.path[i])
  BY <1>4, <1>5
<1> QED BY <1>3, <1>6

\* An image is listed once, through however many handles, tables and search
\* roots it can be seen: entries that lead to one block were found on one
\* volume, which was scanned once, under one path but for its case, and the
\* list keeps the first of those.
THEOREM ImagesListedOnce == Spec => []ListedOnce
<1>1. ScanInv => ListedOnce
  <2> SUFFICES ASSUME ScanInv, stage = "done", PathsKnown, Separate,
                      NEW e \in listing, NEW f \in listing, e.target = None, f.target = None,
                      BootPlace(e) # None, BootPlace(e) = BootPlace(f)
               PROVE  e = f
    BY DEF ListedOnce
  <2>1. Plain /\ Alike(e, f)
    BY DEF Plain, Alike
  <2>2. PICK k \in DOMAIN files : e = files[k] /\ First(k)
    BY DEF ScanInv, Chosen
  <2>3. PICK j \in DOMAIN files : f = files[j] /\ First(j)
    BY DEF ScanInv, Chosen
  <2>4. /\ e \in ToSet(files) /\ f \in ToSet(files) /\ k \in Nat /\ j \in Nat
    BY <2>2, <2>3, ListPositions DEF ScanInv, Listed
  <2>5. e.index = f.index
    BY <2>1, <2>4 DEF ScanInv, OneIndex
  <2>6. PICK a : EntryOk(e, a) /\ Via(a)
    BY <2>1, <2>4 DEF ScanInv, Listed
  <2>7. PICK b : EntryOk(f, b) /\ Via(b)
    BY <2>1, <2>4 DEF ScanInv, Listed
  <2>8. FoldPath(e.path) = FoldPath(f.path)
    BY <2>1, <2>6, <2>7, SameVolume DEF Via
  <2>9. e.path \in Seq(Names) /\ f.path \in Seq(Names)
    BY <2>6, <2>7 DEF EntryOk, AtHome
  <2>10. ASSUME k # j PROVE FALSE
    <3>1. Before(e, f) \/ (f.path = e.path /\ k < j)
      BY <2>2, <2>3, <2>5, <2>8, <2>10 DEF First
    <3>2. Before(f, e) \/ (f.path = e.path /\ j < k)
      BY <2>2, <2>3, <2>5, <2>8, <2>10 DEF First
    <3>3. ~(Before(e, f) /\ Before(f, e))
      BY <2>8, <2>9, BeforeOneWay
    <3>4. (Before(e, f) => e.path # f.path) /\ (Before(f, e) => f.path # e.path)
      BY DEF Before
    <3> QED BY <2>4, <3>1, <3>2, <3>3, <3>4
  <2> QED BY <2>2, <2>3, <2>10
<1> QED BY <1>1, ScanInvariant, PTL

---------------------------------------------------------------------------
(***************************************************************************)
(* The boot disk is scanned completely.                                    *)
(***************************************************************************)
\* A volume of the boot disk that a reader of the loader opens, alone in its
\* place.
BootVolume(v) ==
  /\ machine.boot # 0 /\ PathsKnown
  /\ v \in machine.volumes /\ v.disk = Handles[machine.boot].disk /\ RawReader(v) # None
  /\ \A w \in VolumesAt(v.disk, v.start) : w = v

\* The volume is scanned through the handle that stands for it: firmware
\* mounted it, or no partition of the same disk goes before it.
AsVolume(v, h) ==
  /\ h \in DOMAIN Handles /\ v \in HandleVolume(h)
  /\ \/ Handles[h].simple \/ ~Handles[h].whole
     \/ v.sector \in SectorFormats \/ Table(h) = <<>>

\* The volume is scanned as partition c of the disk behind a handle.
AsPartition(v, h, c) ==
  /\ h \in DOMAIN Handles /\ Handles[h].disk = v.disk
  /\ Handles[h].whole /\ ~Handles[h].simple /\ ~KnownSector(h)
  /\ c \in ToSet(Table(h)) /\ c.start = v.start /\ FitsDisk(c.start, c.count, Disk(h))
  /\ <<c.start, c.count>> \notin ExposedChildPartitions(h)

\* The scan is past a handle as one volume, or past a partition of its disk.
PassedVolume(h) ==
  IF Handles[h].simple THEN stage = "mounted" => \E k \in 1 .. at - 1 : Mounted[k] = h
  ELSE stage # "mounted" /\ h < at

PassedPartition(h, c) ==
  /\ stage # "mounted"
  /\ h < at \/ (h = at /\ stage = "partitions" /\ c \notin ToSet(parts))

Seen(v) ==
  \/ \E h : AsVolume(v, h) /\ PassedVolume(h)
  \/ \E h, c : AsPartition(v, h, c) /\ PassedPartition(h, c)

\* The volume index that is used next.
NextIndex == IF stage = "mounted" THEN at - 1 ELSE BlockVolumeIndex

\* The images of a volume are listed under an index that nothing else has.
Covered(v, home) ==
  /\ home.volume = v /\ home.index \in Nat /\ home.index < NextIndex
  /\ \A e \in ToSet(files) : e.index = home.index => AtHome(e, home)
  /\ ListsFiles({e \in ToSet(files) : e.index = home.index}, v)

\* Where the scan is in the lists of handles.
Progress ==
  /\ blockIndex \in Nat
  /\ stage = "mounted" => at <= Len(Mounted) + 1
  /\ stage = "done" => at > Len(Handles)
  /\ stage = "partitions" =>
       /\ ~KnownSector(at)
       /\ ~Handles[at].whole \/ Table(at) = <<>> => scanned = 0 /\ parts = <<>>

\* No index of the list is used again.
FreshIndex == \A e \in ToSet(files) : e.index \in Nat /\ e.index < NextIndex

\* The volumes of the boot disk that the scan is past are in the list.
SeenCovered == \A v : BootVolume(v) /\ Seen(v) => \E home : Covered(v, home)

CoverInv == Progress /\ FreshIndex /\ SeenCovered

\* What is said of the machine stays true during the scan.
LEMMA WaysStay ==
  ASSUME machine' = machine
  PROVE  /\ Handles' = Handles /\ Mounted' = Mounted
         /\ \A v : BootVolume(v)' <=> BootVolume(v)
         /\ \A v, h : AsVolume(v, h)' <=> AsVolume(v, h)
         /\ \A v, h, c : AsPartition(v, h, c)' <=> AsPartition(v, h, c)
         /\ \A h : KnownSector(h)' <=> KnownSector(h)
         /\ \A h : Table(h)' = Table(h)
<1>1. Handles' = Handles /\ Mounted' = Mounted
  BY DEF Handles, Mounted, Indices
<1>2. /\ \A h : HandleVolume(h)' = HandleVolume(h) /\ Table(h)' = Table(h) /\ Disk(h)' = Disk(h)
      /\ \A h : ExposedChildPartitions(h)' = ExposedChildPartitions(h)
      /\ \A d, s : VolumesAt(d, s)' = VolumesAt(d, s)
  BY <1>1 DEF HandleVolume, VolumesAt, Table, Disk, ExposedChildPartitions, ParentPath
<1>3. PathsKnown' <=> PathsKnown
  BY <1>1 DEF PathsKnown
<1>4. ASSUME NEW v PROVE BootVolume(v)' <=> BootVolume(v)
  BY <1>1, <1>2, <1>3 DEF BootVolume
<1>5. \A h : KnownSector(h)' <=> KnownSector(h)
  BY <1>2 DEF KnownSector
<1>6. ASSUME NEW v, NEW h PROVE AsVolume(v, h)' <=> AsVolume(v, h)
  BY <1>1, <1>2 DEF AsVolume
<1>7. ASSUME NEW v, NEW h, NEW c PROVE AsPartition(v, h, c)' <=> AsPartition(v, h, c)
  BY <1>1, <1>2, <1>5 DEF AsPartition
<1> QED BY <1>1, <1>2, <1>4, <1>5, <1>6, <1>7

\* Entries stay where they were found.
LEMMA AtHomeStays ==
  ASSUME machine' = machine
  PROVE  \A e, home : AtHome(e, home) => AtHome(e, home)'
<1>1. \A e : BootPlace(e)' = BootPlace(e)
  BY DEF BootPlace, Total, Handles, Disk
<1> QED BY <1>1 DEF AtHome, OfFile, HandleVolume, VolumesAt, Handles

\* A step that lists nothing and passes no volume of the boot disk.
LEMMA NothingCovered ==
  ASSUME machine' = machine, files' = files, NextIndex \in Nat, NextIndex' \in Nat,
         NextIndex <= NextIndex', FreshIndex, SeenCovered,
         \A v : BootVolume(v) /\ Seen(v)' => Seen(v)
  PROVE  FreshIndex' /\ SeenCovered'
<1>1. FreshIndex'
  <2> SUFFICES ASSUME NEW e \in ToSet(files) PROVE e.index \in Nat /\ e.index < NextIndex'
    BY DEF FreshIndex
  <2> QED BY DEF FreshIndex
<1>2. SeenCovered'
  <2> SUFFICES ASSUME NEW v, BootVolume(v)', Seen(v)' PROVE \E home : Covered(v, home)'
    BY DEF SeenCovered
  <2>1. PICK home : Covered(v, home)
    BY WaysStay DEF SeenCovered
  <2>2. home.index \in Nat /\ home.index < NextIndex'
    BY <2>1 DEF Covered
  <2>3. \A e \in ToSet(files) : e.index = home.index => AtHome(e, home)'
    BY <2>1, AtHomeStays DEF Covered
  <2>4. Covered(v, home)'
    BY <2>1, <2>2, <2>3 DEF Covered, ListsFiles
  <2> QED BY <2>4
<1> QED BY <1>1, <1>2

\* A step that lists a volume under the next index.
LEMMA VolumeCovered ==
  ASSUME machine' = machine, NextIndex \in Nat, NextIndex' = NextIndex + 1,
         IsList(files), FreshIndex, SeenCovered,
         NEW s, NEW v, NEW home, GoodList(s, home), ListsFiles(ToSet(s), v),
         home.volume = v, home.index = NextIndex, files' = files \o s,
         \A w : BootVolume(w) /\ Seen(w)' => Seen(w) \/ w = v
  PROVE  FreshIndex' /\ SeenCovered'
<1>1. ToSet(files') = ToSet(files) \cup ToSet(s)
  BY ConcatLists DEF GoodList
<1>2. \A e \in ToSet(s) : e.index = NextIndex /\ AtHome(e, home)
  BY DEF GoodList, EntryOk, AtHome
<1>3. \A e \in ToSet(files) : e.index \in Nat /\ e.index < NextIndex
  BY DEF FreshIndex
<1>4. FreshIndex'
  <2> SUFFICES ASSUME NEW e \in ToSet(files') PROVE e.index \in Nat /\ e.index < NextIndex'
    BY DEF FreshIndex
  <2> QED BY <1>1, <1>2, <1>3
<1>5. SeenCovered'
  <2> SUFFICES ASSUME NEW w, BootVolume(w)', Seen(w)' PROVE \E a : Covered(w, a)'
    BY DEF SeenCovered
  <2>1. CASE w = v
    <3>1. \A e \in ToSet(files') : e.index = home.index => e \in ToSet(s)
      BY <1>1, <1>3
    <3>2. ToSet(s) = {e \in ToSet(files') : e.index = home.index}
      BY <1>1, <1>2, <3>1
    <3>3. \A e \in ToSet(files') : e.index = home.index => AtHome(e, home)'
      BY <1>2, <3>1, AtHomeStays
    <3>4. ListsFiles({e \in ToSet(files') : e.index = home.index}, v)
      BY <3>2
    <3>5. home.index \in Nat /\ home.index < NextIndex'
      OBVIOUS
    <3>6. Covered(v, home)'
      BY <3>3, <3>4, <3>5 DEF Covered, ListsFiles
    <3> QED BY <2>1, <3>6
  <2>2. CASE Seen(w)
    <3>1. PICK a : Covered(w, a)
      BY <2>2, WaysStay DEF SeenCovered
    <3>2. a.index \in Nat /\ a.index < NextIndex /\ a.index < NextIndex'
      BY <3>1 DEF Covered
    <3>3. \A e \in ToSet(files') : e.index = a.index => e \in ToSet(files)
      BY <1>1, <1>2, <3>2
    <3>4. {e \in ToSet(files') : e.index = a.index} = {e \in ToSet(files) : e.index = a.index}
      BY <1>1, <3>3
    <3>5. \A e \in ToSet(files') : e.index = a.index => AtHome(e, a)'
      BY <3>1, <3>3, AtHomeStays DEF Covered
    <3>6. ListsFiles({e \in ToSet(files') : e.index = a.index}, w)
      BY <3>1, <3>4 DEF Covered
    <3>7. Covered(w, a)'
      BY <3>1, <3>2, <3>5, <3>6 DEF Covered, ListsFiles
    <3> QED BY <3>7
  <2> QED BY <2>1, <2>2, WaysStay
<1> QED BY <1>4, <1>5

\* Every handle of the boot disk that firmware did not mount is scanned raw.
LEMMA BootDiskScanned ==
  ASSUME machine \in Machines, NEW v, BootVolume(v), NEW h \in DOMAIN Handles,
         Handles[h].disk = v.disk, ~Handles[h].simple
  PROVE  ScannedRaw(h)
<1>1. SoundMachine(machine)
  BY MachinesAssumption
<1>2. machine.boot \in DOMAIN Handles
  BY <1>1 DEF SoundMachine, BootVolume, Handles
<1>3. Handles[machine.boot].path /\ Handles[h].path
  BY <1>2 DEF BootVolume, PathsKnown
<1>4. ParentPath(machine.boot) = ParentPath(h) /\ machine.boot # 0
  BY DEF ParentPath, BootVolume
<1>5. RawScanCandidateIsBootMedia(h, {h})
  BY <1>3, <1>4 DEF RawScanCandidateIsBootMedia
<1> QED BY <1>5 DEF ScannedRaw

\* Nothing is passed when the scan begins.
LEMMA InitCover == Init => CoverInv
<1> SUFFICES ASSUME Init PROVE CoverInv
  OBVIOUS
<1>1. machine \in Machines /\ stage = "mounted" /\ at = 1 /\ blockIndex = 0
  BY DEF Init
<1>2. Len(Mounted) \in Nat
  BY <1>1, MountedHandles, ListPositions
<1>3. Progress
  BY <1>1, <1>2 DEF Progress
<1>4. FreshIndex
  BY ShortLists DEF Init, FreshIndex
<1>5. \A v : ~Seen(v)
  BY <1>1 DEF Seen, PassedVolume, PassedPartition
<1> QED BY <1>3, <1>4, <1>5 DEF CoverInv, SeenCovered

\* What the steps start from.
LEMMA CoverFacts ==
  ASSUME ScanInv, CoverInv
  PROVE  /\ machine \in Machines /\ at \in Nat \ {0} /\ blockIndex \in Nat
         /\ Len(Mounted) \in Nat /\ NextIndex \in Nat /\ IsList(files)
         /\ Len(Handles) \in Nat /\ DOMAIN Handles = 1 .. Len(Handles)
         /\ Progress /\ FreshIndex /\ SeenCovered
<1>1. machine \in Machines /\ at \in Nat \ {0} /\ blockIndex \in Nat /\ IsList(files)
  BY DEF ScanInv, Cursor, Listed, CoverInv, Progress
<1>2. Len(Mounted) \in Nat
  BY <1>1, MountedHandles, ListPositions
<1>3. NextIndex \in Nat
  BY <1>1, <1>2 DEF NextIndex, BlockVolumeIndex
<1> QED BY <1>1, <1>2, <1>3, HandleNumbers DEF CoverInv

\* A mounted volume.
LEMMA MountedCover ==
  ASSUME ScanInv, CoverInv, ScanMountedVolume
  PROVE  CoverInv'
<1>1. /\ machine' = machine /\ machine \in Machines /\ stage = "mounted" /\ stage' = "mounted"
      /\ at \in Nat \ {0} /\ at' = at + 1 /\ at <= Len(Mounted) /\ blockIndex' = blockIndex
  BY CoverFacts DEF ScanMountedVolume
<1>2. at \in DOMAIN Mounted /\ Mounted[at] \in DOMAIN Handles /\ Handles[Mounted[at]].simple
  BY <1>1, MountedHandles, ListPositions
<1>3. /\ Handles' = Handles /\ Mounted' = Mounted
      /\ NextIndex = at - 1 /\ NextIndex' = NextIndex + 1
  BY <1>1, WaysStay DEF NextIndex
<1>4. Progress'
  BY <1>1, <1>3, CoverFacts DEF Progress
<1>5. ASSUME NEW w, BootVolume(w), Seen(w)' PROVE Seen(w) \/ w \in HandleVolume(Mounted[at])
  <2>1. PICK h : AsVolume(w, h) /\ PassedVolume(h)'
    BY <1>1, <1>5, WaysStay DEF Seen, PassedPartition
  <2>2. h \in DOMAIN Handles /\ w \in HandleVolume(h)
    BY <2>1 DEF AsVolume
  <2>3. Handles[h].simple /\ \E k \in 1 .. at' - 1 : Mounted[k] = h
    BY <1>1, <1>3, <2>1 DEF PassedVolume
  <2>4. PICK k \in 1 .. at : Mounted[k] = h
    BY <1>1, <2>3
  <2>5. CASE k = at
    BY <2>2, <2>4, <2>5
  <2>6. CASE k # at
    <3>1. k \in 1 .. at - 1
      BY <1>1, <2>6
    <3>2. PassedVolume(h)
      BY <2>3, <2>4, <3>1 DEF PassedVolume
    <3> QED BY <2>1, <3>2 DEF Seen
  <2> QED BY <2>5, <2>6
<1>6. CASE HandleVolume(Mounted[at]) = {}
  <2>1. files' = files
    BY <1>6 DEF ScanMountedVolume
  <2>2. FreshIndex' /\ SeenCovered'
    BY <1>1, <1>3, <1>5, <1>6, <2>1, CoverFacts, NothingCovered
  <2> QED BY <1>4, <2>2 DEF CoverInv
<1>7. CASE HandleVolume(Mounted[at]) # {}
  <2>0. PICK v \in HandleVolume(Mounted[at]) :
          files' = files \o ScanVolumePaths(v, Mounted[at], at - 1)
    BY <1>7 DEF ScanMountedVolume
  <2>1. PICK s, home : /\ s = ScanVolumePaths(v, Mounted[at], at - 1) /\ files' = files \o s
                       /\ home = Home(v, Mounted[at], at - 1)
    BY <2>0
  <2>2. GoodList(s, home) /\ ListsFiles(ToSet(s), v)
    BY <1>1, <1>2, <2>1, ScanVolumeGood
  <2>3. home.volume = v /\ home.index = NextIndex
    BY <1>3, <2>1 DEF Home
  <2>4. ASSUME NEW w, BootVolume(w), Seen(w)' PROVE Seen(w) \/ w = v
    BY <1>5, <2>4 DEF BootVolume, HandleVolume, VolumesAt
  <2>5. FreshIndex' /\ SeenCovered'
    BY <1>1, <1>3, <2>1, <2>2, <2>3, <2>4, CoverFacts, VolumeCovered
  <2> QED BY <1>4, <2>5 DEF CoverInv
<1> QED BY <1>6, <1>7

\* The mounted volumes are all passed.
LEMMA MountedDoneCover ==
  ASSUME ScanInv, CoverInv, MountedDone
  PROVE  CoverInv'
<1>1. /\ machine' = machine /\ machine \in Machines /\ stage = "mounted" /\ stage' = "blocks"
      /\ at \in Nat \ {0} /\ at' = 1 /\ at > Len(Mounted) /\ blockIndex' = blockIndex
      /\ files' = files /\ at <= Len(Mounted) + 1 /\ blockIndex \in Nat /\ Len(Mounted) \in Nat
  BY CoverFacts DEF MountedDone, Progress
<1>2. /\ Handles' = Handles /\ Mounted' = Mounted /\ NextIndex = at - 1
      /\ NextIndex' = Len(Mounted) + blockIndex
  BY <1>1, WaysStay DEF NextIndex, BlockVolumeIndex
<1>3. NextIndex' \in Nat /\ NextIndex <= NextIndex'
  BY <1>1, <1>2
<1>4. Progress'
  BY <1>1 DEF Progress
<1>5. ASSUME NEW w, BootVolume(w), Seen(w)' PROVE Seen(w)
  <2>1. ASSUME NEW h \in DOMAIN Handles PROVE ~(h < at')
    BY <1>1, CoverFacts
  <2>2. PICK h : AsVolume(w, h) /\ PassedVolume(h)'
    BY <1>1, <1>5, <2>1, WaysStay DEF Seen, PassedPartition, AsPartition
  <2>3. h \in DOMAIN Handles
    BY <2>2 DEF AsVolume
  <2>4. Handles[h].simple
    BY <1>2, <2>1, <2>2, <2>3 DEF PassedVolume
  <2>5. PICK k \in DOMAIN Mounted : Mounted[k] = h
    BY <1>1, <2>3, <2>4, MountedHandles
  <2>6. k \in 1 .. at - 1
    BY <1>1, MountedHandles, ListPositions
  <2>7. PassedVolume(h)
    BY <2>4, <2>5, <2>6 DEF PassedVolume
  <2> QED BY <2>2, <2>7 DEF Seen
<1>6. FreshIndex' /\ SeenCovered'
  BY <1>1, <1>3, <1>5, CoverFacts, NothingCovered
<1> QED BY <1>4, <1>6 DEF CoverInv

\* A handle that is not scanned raw leads to no volume of the boot disk.
LEMMA SkipCover ==
  ASSUME ScanInv, CoverInv, SkipBlockHandle
  PROVE  CoverInv'
<1>1. /\ machine' = machine /\ machine \in Machines /\ stage = "blocks" /\ stage' = "blocks"
      /\ at \in Nat \ {0} /\ at' = at + 1 /\ at \in DOMAIN Handles /\ blockIndex' = blockIndex
      /\ files' = files /\ ~ScannedRaw(at) /\ blockIndex \in Nat
  BY CoverFacts DEF SkipBlockHandle
<1>2. Handles' = Handles /\ Mounted' = Mounted /\ NextIndex' = NextIndex
  BY <1>1, WaysStay DEF NextIndex, BlockVolumeIndex
<1>3. Progress'
  BY <1>1 DEF Progress
<1>4. ASSUME NEW w, BootVolume(w), NEW h \in DOMAIN Handles, Handles[h].disk = w.disk,
             ~Handles[h].simple, h < at'
      PROVE  h < at
  <2>1. h # at
    BY <1>1, <1>4, BootDiskScanned
  <2> QED BY <1>1, <1>4, <2>1, CoverFacts
<1>5. ASSUME NEW w, BootVolume(w), Seen(w)' PROVE Seen(w)
  <2>1. CASE \E h : AsVolume(w, h) /\ PassedVolume(h)'
    <3>1. PICK h : AsVolume(w, h) /\ PassedVolume(h)'
      BY <2>1
    <3>2. h \in DOMAIN Handles /\ Handles[h].disk = w.disk
      BY <3>1 DEF AsVolume, HandleVolume, VolumesAt
    <3>3. PassedVolume(h)
      BY <1>1, <1>2, <1>4, <1>5, <3>1, <3>2 DEF PassedVolume
    <3> QED BY <3>1, <3>3 DEF Seen
  <2>2. CASE \E h, c : AsPartition(w, h, c) /\ PassedPartition(h, c)'
    <3>1. PICK h, c : AsPartition(w, h, c) /\ PassedPartition(h, c)'
      BY <2>2
    <3>2. h \in DOMAIN Handles /\ Handles[h].disk = w.disk /\ ~Handles[h].simple
      BY <3>1 DEF AsPartition
    <3>3. PassedPartition(h, c)
      BY <1>1, <1>2, <1>4, <1>5, <3>1, <3>2 DEF PassedPartition
    <3> QED BY <3>1, <3>3 DEF Seen
  <2> QED BY <1>1, <1>5, <2>1, <2>2, WaysStay DEF Seen
<1>6. FreshIndex' /\ SeenCovered'
  BY <1>1, <1>2, <1>5, CoverFacts, NothingCovered
<1> QED BY <1>3, <1>6 DEF CoverInv

\* A raw handle left behind, scanned as one volume or not: what it leads to
\* as a volume was listed, and its partitions were passed before.
LEMMA HandleCover ==
  ASSUME ScanInv, CoverInv, machine' = machine, stage \in {"blocks", "partitions"},
         stage' = "blocks", at \in DOMAIN Handles, at' = at + 1, ~Handles[at].simple,
         \A w, c : AsPartition(w, at, c) => PassedPartition(at, c),
         \/ /\ files' = files /\ blockIndex' = blockIndex
            /\ \A w : BootVolume(w) => ~AsVolume(w, at)
         \/ /\ blockIndex' = blockIndex + 1
            /\ \E v \in HandleVolume(at) :
                 files' = files \o ScanBlockFilesystemPaths(v, at, BlockVolumeIndex,
                                                            ResolveSourceDisk(at, {at}), 0)
  PROVE  CoverInv'
<1>1. machine \in Machines /\ at \in Nat \ {0} /\ blockIndex \in Nat /\ Len(Mounted) \in Nat
  BY CoverFacts
<1>2. /\ Handles' = Handles /\ Mounted' = Mounted /\ NextIndex = Len(Mounted) + blockIndex
      /\ NextIndex' = Len(Mounted) + blockIndex' /\ NextIndex = BlockVolumeIndex
  BY WaysStay DEF NextIndex, BlockVolumeIndex
<1>3. Progress'
  BY <1>1 DEF Progress
<1>4. ASSUME NEW w, BootVolume(w), Seen(w)' PROVE Seen(w) \/ AsVolume(w, at)
  <2>1. CASE \E h : AsVolume(w, h) /\ PassedVolume(h)'
    <3>1. PICK h : AsVolume(w, h) /\ PassedVolume(h)'
      BY <2>1
    <3>2. h \in DOMAIN Handles
      BY <3>1 DEF AsVolume
    <3>3. h = at \/ PassedVolume(h)
      BY <1>1, <1>2, <3>1, <3>2, CoverFacts DEF PassedVolume
    <3> QED BY <3>1, <3>3 DEF Seen
  <2>2. CASE \E h, c : AsPartition(w, h, c) /\ PassedPartition(h, c)'
    <3>1. PICK h, c : AsPartition(w, h, c) /\ PassedPartition(h, c)'
      BY <2>2
    <3>2. h \in DOMAIN Handles
      BY <3>1 DEF AsPartition
    <3>3. h = at \/ PassedPartition(h, c)
      BY <1>1, <3>1, <3>2, CoverFacts DEF PassedPartition
    <3>4. PassedPartition(h, c)
      BY <3>1, <3>3
    <3> QED BY <3>1, <3>4 DEF Seen
  <2> QED BY <1>4, <2>1, <2>2, WaysStay DEF Seen
<1>5. CASE /\ files' = files /\ blockIndex' = blockIndex
           /\ \A w : BootVolume(w) => ~AsVolume(w, at)
  <2>1. NextIndex' = NextIndex
    BY <1>2, <1>5
  <2>2. FreshIndex' /\ SeenCovered'
    BY <1>4, <1>5, <2>1, CoverFacts, NothingCovered
  <2> QED BY <1>3, <2>2 DEF CoverInv
<1>6. CASE /\ blockIndex' = blockIndex + 1
           /\ \E v \in HandleVolume(at) :
                files' = files \o ScanBlockFilesystemPaths(v, at, BlockVolumeIndex,
                                                           ResolveSourceDisk(at, {at}), 0)
  <2>0. PICK v \in HandleVolume(at) :
          files' = files \o ScanBlockFilesystemPaths(v, at, BlockVolumeIndex,
                                                     ResolveSourceDisk(at, {at}), 0)
    BY <1>6
  <2>1. PICK s, home :
          /\ s = ScanBlockFilesystemPaths(v, at, BlockVolumeIndex, ResolveSourceDisk(at, {at}), 0)
          /\ files' = files \o s /\ home = Home(v, at, BlockVolumeIndex)
    BY <2>0
  <2>2. GoodList(s, home) /\ ListsFiles(ToSet(s), v)
    <3>1. Reached(at, v, ResolveSourceDisk(at, {at}), 0)
      BY <1>1, ReachedDirectly
    <3> QED BY <1>1, <2>1, <3>1, ScanBlockGood
  <2>3. home.volume = v /\ home.index = NextIndex
    BY <1>2, <2>1 DEF Home
  <2>4. ASSUME NEW w, BootVolume(w), Seen(w)' PROVE Seen(w) \/ w = v
    BY <1>4, <2>4 DEF AsVolume, BootVolume, HandleVolume, VolumesAt
  <2>5. NextIndex' = NextIndex + 1
    BY <1>1, <1>2, <1>6
  <2>6. FreshIndex' /\ SeenCovered'
    BY <2>1, <2>2, <2>3, <2>4, <2>5, CoverFacts, VolumeCovered
  <2> QED BY <1>3, <2>6 DEF CoverInv
<1> QED BY <1>5, <1>6

\* A handle with a boot sector of its own.
LEMMA BlockVolumeCover ==
  ASSUME ScanInv, CoverInv, ScanBlockVolume
  PROVE  CoverInv'
<1>1. /\ machine' = machine /\ stage = "blocks" /\ stage' = "blocks"
      /\ at' = at + 1 /\ at \in DOMAIN Handles /\ ~Handles[at].simple /\ KnownSector(at)
  BY CoverFacts DEF ScanBlockVolume, ScannedRaw
<1>2. \A w, c : AsPartition(w, at, c) => PassedPartition(at, c)
  BY <1>1 DEF AsPartition
<1>3. PICK v \in HandleVolume(at) :
        IF RawReader(v) = None THEN UNCHANGED <<files, blockIndex>>
        ELSE /\ files' = files \o ScanBlockFilesystemPaths(v, at, BlockVolumeIndex,
                                                           ResolveSourceDisk(at, {at}), 0)
             /\ blockIndex' = blockIndex + 1
  BY DEF ScanBlockVolume
<1>4. CASE RawReader(v) = None
  <2>1. ASSUME NEW w, BootVolume(w), AsVolume(w, at) PROVE FALSE
    BY <1>4, <2>1 DEF BootVolume, AsVolume, HandleVolume, VolumesAt
  <2> QED BY <1>1, <1>2, <1>3, <1>4, <2>1, HandleCover
<1>5. CASE RawReader(v) # None
  BY <1>1, <1>2, <1>3, <1>5, HandleCover
<1> QED BY <1>4, <1>5

\* A handle whose partitions were tried, as one volume when none was scanned.
LEMMA PartitionsDoneCover ==
  ASSUME ScanInv, CoverInv, PartitionsDone
  PROVE  CoverInv'
<1>1. /\ machine' = machine /\ stage = "partitions" /\ stage' = "blocks" /\ parts = <<>>
      /\ at' = at + 1 /\ at \in DOMAIN Handles /\ ~Handles[at].simple
  BY DEF PartitionsDone, ScanInv, Cursor
<1>2. /\ ~KnownSector(at)
      /\ ~Handles[at].whole \/ Table(at) = <<>> => scanned = 0
  BY <1>1 DEF CoverInv, Progress
<1>3. \A w, c : AsPartition(w, at, c) => PassedPartition(at, c)
  BY <1>1, ShortLists DEF PassedPartition
<1> DEFINE vols == {v \in HandleVolume(at) : RawReader(v) # None}
<1>4. CASE scanned > 0 \/ vols = {}
  <2>1. files' = files /\ blockIndex' = blockIndex
    BY <1>4 DEF PartitionsDone
  <2>2. ASSUME NEW w, BootVolume(w), AsVolume(w, at) PROVE FALSE
    <3>1. w \in vols
      BY <2>2 DEF BootVolume, AsVolume
    <3>2. w.sector \notin SectorFormats
      BY <1>2, <2>2 DEF KnownSector, AsVolume
    <3>3. scanned = 0
      BY <1>1, <1>2, <2>2, <3>2 DEF AsVolume
    <3> QED BY <1>4, <3>1, <3>3
  <2> QED BY <1>1, <1>3, <2>1, <2>2, HandleCover
<1>5. CASE ~(scanned > 0 \/ vols = {})
  <2>1. /\ blockIndex' = blockIndex + 1
        /\ \E v \in HandleVolume(at) :
             files' = files \o ScanBlockFilesystemPaths(v, at, BlockVolumeIndex,
                                                        ResolveSourceDisk(at, {at}), 0)
    BY <1>5 DEF PartitionsDone
  <2> QED BY <1>1, <1>3, <2>1, HandleCover
<1> QED BY <1>4, <1>5

\* The table of a disk that is to be tried, whole.
LEMMA DiscoverCover ==
  ASSUME ScanInv, CoverInv, DiscoverPartitions
  PROVE  CoverInv'
<1>1. /\ machine' = machine /\ stage = "blocks" /\ stage' = "partitions" /\ at' = at
      /\ files' = files /\ blockIndex' = blockIndex /\ scanned' = 0 /\ ~KnownSector(at)
      /\ parts' = IF Handles[at].whole THEN Table(at) ELSE <<>>
  BY DEF DiscoverPartitions, Table
<1>2. Handles' = Handles /\ Mounted' = Mounted /\ NextIndex' = NextIndex
  BY <1>1, WaysStay DEF NextIndex, BlockVolumeIndex
<1>3. Progress'
  <2>1. ~KnownSector(at') /\ Handles'[at'] = Handles[at] /\ blockIndex \in Nat
    BY <1>1, <1>2, CoverFacts
  <2>2. (~KnownSector(at))' /\ Table(at)' = Table(at)
    BY <1>1, WaysStay
  <2>3. ~Handles[at].whole \/ Table(at) = <<>> => parts' = <<>>
    BY <1>1
  <2> QED BY <1>1, <1>2, <2>1, <2>2, <2>3 DEF Progress
<1>4. ASSUME NEW w, Seen(w)' PROVE Seen(w)
  <2>1. CASE \E h : AsVolume(w, h) /\ PassedVolume(h)'
    BY <1>1, <1>2, <2>1 DEF Seen, PassedVolume
  <2>2. CASE \E h, c : AsPartition(w, h, c) /\ PassedPartition(h, c)'
    <3>1. PICK h, c : AsPartition(w, h, c) /\ PassedPartition(h, c)'
      BY <2>2
    <3>2. ~(h = at /\ c \notin ToSet(parts'))
      BY <1>1, <3>1 DEF AsPartition
    <3>3. PassedPartition(h, c)
      BY <1>1, <3>1, <3>2 DEF PassedPartition
    <3> QED BY <3>1, <3>3 DEF Seen
  <2> QED BY <1>1, <1>4, <2>1, <2>2, WaysStay DEF Seen
<1>5. FreshIndex' /\ SeenCovered'
  BY <1>1, <1>2, <1>4, CoverFacts, NothingCovered
<1> QED BY <1>3, <1>5 DEF CoverInv

\* One partition of the table.
LEMMA PartitionCover ==
  ASSUME ScanInv, CoverInv, ScanPartition
  PROVE  CoverInv'
<1> DEFINE C == [number : Nat, start : Nat, count : Nat, format : {"gpt", "mbr"}]
<1>1. /\ machine' = machine /\ machine \in Machines /\ stage = "partitions" /\ stage' = stage
      /\ at \in Nat /\ at' = at /\ parts # <<>> /\ parts' = Tail(parts)
      /\ at \in DOMAIN Handles /\ ~Handles[at].simple /\ Handles[at].whole /\ parts \in Seq(C)
      /\ Table(at) # <<>> /\ ~KnownSector(at)
  BY DEF ScanInv, Cursor, ScanPartition, CoverInv, Progress
<1> HIDE DEF C
<1>2. PICK part \in C : part = Head(parts)
  BY <1>1
<1>3. \A c \in ToSet(parts) : c = part \/ c \in ToSet(parts')
  <2>1. PICK n \in Nat : n = Len(parts) /\ n > 0 /\ DOMAIN parts = 1 .. n /\ part = parts[1]
    BY <1>1, <1>2
  <2>2. DOMAIN parts' = 1 .. n - 1 /\ \A i \in 1 .. n - 1 : parts'[i] = parts[i + 1]
    BY <1>1, <2>1
  <2>3. ASSUME NEW i \in 1 .. n PROVE parts[i] = part \/ parts[i] \in ToSet(parts')
    <3>1. CASE i = 1
      BY <2>1, <3>1
    <3>2. CASE i # 1
      <4>1. i - 1 \in 1 .. n - 1 /\ parts'[i - 1] = parts[i]
        BY <2>2, <3>2
      <4> QED BY <2>2, <4>1 DEF ToSet
    <3> QED BY <3>1, <3>2
  <2> QED BY <2>1, <2>3 DEF ToSet
<1>4. /\ Handles' = Handles /\ Mounted' = Mounted /\ Len(Mounted) \in Nat /\ blockIndex \in Nat
      /\ NextIndex = Len(Mounted) + blockIndex /\ NextIndex' = Len(Mounted) + blockIndex'
      /\ NextIndex = BlockVolumeIndex
  BY <1>1, WaysStay, CoverFacts DEF NextIndex, BlockVolumeIndex
<1>5. blockIndex' \in Nat => Progress'
  <2>1. (~KnownSector(at))' /\ Table(at)' = Table(at)
    BY <1>1, WaysStay
  <2> QED BY <1>1, <1>4, <2>1 DEF Progress
<1>6. ASSUME NEW w, BootVolume(w), Seen(w)' PROVE Seen(w) \/ AsPartition(w, at, part)
  <2>1. CASE \E h : AsVolume(w, h) /\ PassedVolume(h)'
    BY <1>1, <1>4, <2>1 DEF Seen, PassedVolume
  <2>2. CASE \E h, c : AsPartition(w, h, c) /\ PassedPartition(h, c)'
    <3>1. PICK h, c : AsPartition(w, h, c) /\ PassedPartition(h, c)'
      BY <2>2
    <3>2. PassedPartition(h, c) \/ (h = at /\ c = part)
      BY <1>1, <1>3, <3>1 DEF PassedPartition
    <3> QED BY <3>1, <3>2 DEF Seen
  <2> QED BY <1>1, <1>6, <2>1, <2>2, WaysStay DEF Seen
<1> DEFINE vols == VolumesAt(Handles[at].disk, part.start)
           skipped == \/ <<part.start, part.count>> \in ExposedChildPartitions(at)
                      \/ ~FitsDisk(part.start, part.count, Disk(at))
                      \/ \A v \in vols : RawReader(v) = None
<1>7. ASSUME NEW w, BootVolume(w), AsPartition(w, at, part)
      PROVE  w \in vols /\ ~skipped /\ \A v \in vols : w = v
  <2>1. w \in vols
    BY <1>7 DEF BootVolume, AsPartition, VolumesAt
  <2>2. \A v \in vols : w = v
    BY <1>7 DEF BootVolume, AsPartition
  <2> QED BY <1>7, <2>1, <2>2 DEF BootVolume, AsPartition
<1>8. CASE skipped
  <2>1. files' = files /\ blockIndex' = blockIndex
    BY <1>2, <1>8 DEF ScanPartition
  <2> HIDE DEF skipped
  <2>2. \A w : BootVolume(w) /\ Seen(w)' => Seen(w)
    BY <1>6, <1>7, <1>8
  <2>3. NextIndex' = NextIndex
    BY <1>4, <2>1
  <2>4. FreshIndex' /\ SeenCovered'
    BY <1>1, <2>1, <2>2, <2>3, CoverFacts, NothingCovered
  <2> QED BY <1>4, <1>5, <2>1, <2>4 DEF CoverInv
<1>9. CASE ~skipped
  <2>0. PICK v \in vols :
          /\ files' = files \o ScanBlockFilesystemPaths(v, at, BlockVolumeIndex,
                                 PartitionSourceDisk(Disk(at), part), part.start)
          /\ blockIndex' = blockIndex + 1
    BY <1>2, <1>9 DEF ScanPartition
  <2>1. PICK s, home :
          /\ s = ScanBlockFilesystemPaths(v, at, BlockVolumeIndex,
                                          PartitionSourceDisk(Disk(at), part), part.start)
          /\ files' = files \o s /\ home = Home(v, at, BlockVolumeIndex)
    BY <2>0
  <2>2. GoodList(s, home) /\ ListsFiles(ToSet(s), v)
    <3>1. part.start \in Nat /\ part.count \in Nat
      BY <1>2 DEF C
    <3>2. Reached(at, v, PartitionSourceDisk(Disk(at), part), part.start)
      BY <1>1, <1>9, <3>1, ReachedOnPartition
    <3> QED BY <1>1, <2>1, <3>2, ScanBlockGood
  <2> HIDE DEF skipped, vols
  <2>3. home.volume = v /\ home.index = NextIndex
    BY <1>4, <2>1 DEF Home
  <2>4. \A w : BootVolume(w) /\ Seen(w)' => Seen(w) \/ w = v
    BY <1>6, <1>7, <2>0
  <2>5. NextIndex' = NextIndex + 1 /\ blockIndex' \in Nat
    BY <1>4, <2>0
  <2>6. FreshIndex' /\ SeenCovered'
    BY <1>1, <2>1, <2>2, <2>3, <2>4, <2>5, CoverFacts, VolumeCovered
  <2> QED BY <1>5, <2>5, <2>6 DEF CoverInv
<1> QED BY <1>8, <1>9

\* Every step of the scan keeps it.
LEMMA NextCover == ScanInv /\ CoverInv /\ [Next]_vars => CoverInv'
<1> SUFFICES ASSUME ScanInv, CoverInv, [Next]_vars PROVE CoverInv'
  OBVIOUS
<1>1. CASE Finish
  <2>1. /\ machine' = machine /\ stage = "blocks" /\ stage' = "done" /\ at' = at
        /\ files' = files /\ blockIndex' = blockIndex /\ at > Len(Handles)
    BY <1>1 DEF Finish
  <2>2. Handles' = Handles /\ Mounted' = Mounted /\ NextIndex' = NextIndex
    BY <2>1, WaysStay DEF NextIndex, BlockVolumeIndex
  <2>3. Progress'
    BY <2>1, <2>2, CoverFacts DEF Progress
  <2>4. ASSUME NEW w, Seen(w)' PROVE Seen(w)
    BY <2>1, <2>2, <2>4, WaysStay DEF Seen, PassedVolume, PassedPartition
  <2>5. FreshIndex' /\ SeenCovered'
    BY <2>1, <2>2, <2>4, CoverFacts, NothingCovered
  <2> QED BY <2>3, <2>5 DEF CoverInv
<1>2. CASE Done \/ UNCHANGED vars
  <2>1. UNCHANGED vars
    BY <1>2 DEF Done
  <2>2. Handles' = Handles /\ Mounted' = Mounted /\ NextIndex' = NextIndex
    BY <2>1, WaysStay DEF NextIndex, BlockVolumeIndex, vars
  <2>3. Progress'
    <3>1. KnownSector(at)' <=> KnownSector(at)
      BY <2>1 DEF KnownSector, HandleVolume, VolumesAt, Handles, vars
    <3>2. Table(at)' = Table(at)
      BY <2>1 DEF Table, Disk, Handles, vars
    <3> QED BY <2>1, <2>2, <3>1, <3>2 DEF CoverInv, Progress, vars
  <2>4. ASSUME NEW w, Seen(w)' PROVE Seen(w)
    BY <2>1, <2>2, <2>4, WaysStay DEF Seen, PassedVolume, PassedPartition, vars
  <2>5. FreshIndex' /\ SeenCovered'
    BY <2>1, <2>2, <2>4, CoverFacts, NothingCovered DEF vars
  <2> QED BY <2>3, <2>5 DEF CoverInv
<1> QED BY <1>1, <1>2, MountedCover, MountedDoneCover, SkipCover, BlockVolumeCover,
           PartitionsDoneCover, DiscoverCover, PartitionCover DEF Next

\* The invariant of a complete scan: each volume of the boot disk that the
\* scan is past has its images in the list, under an index of its own.
THEOREM CoverInvariant == Spec => []CoverInv
  BY InitCover, NextCover, ScanInvariant, PTL DEF Spec

\* The place of a name in the order, which tells names apart.
Rank(n) == CHOOSE i \in DOMAIN NameOrder : NameOrder[i] = n

LEMMA Ranks == \A n \in Names : Rank(n) \in Nat /\ NameOrder[Rank(n)] = n
<1>1. DOMAIN NameOrder = 1 .. Len(NameOrder) /\ Len(NameOrder) \in Nat
  BY MachinesAssumption
<1>2. ASSUME NEW n \in Names PROVE Rank(n) \in DOMAIN NameOrder /\ NameOrder[Rank(n)] = n
  <2>1. \E i \in DOMAIN NameOrder : NameOrder[i] = n
    BY DEF Names, ToSet
  <2> QED BY <2>1 DEF Rank
<1> QED BY <1>1, <1>2

\* The order of entries is that of their paths.
LEMMA BeforePaths ==
  \A a, b : Before(a, b) <=>
    a.path # b.path /\ Rank(a.path[Off(a.path, b.path)]) < Rank(b.path[Off(a.path, b.path)])
  BY Zenon DEF Before, Off, Rank

\* Paths of one length are in order when the first name they differ in is.
LEMMA BeforeAt ==
  ASSUME NEW a, NEW b, a.path \in Seq(Names), b.path \in Seq(Names), Len(a.path) = Len(b.path)
  PROVE  Before(a, b) <=>
           \E i \in 1 .. Len(a.path) : /\ \A j \in 1 .. (i - 1) : a.path[j] = b.path[j]
                                       /\ Rank(a.path[i]) < Rank(b.path[i])
<1>0. a.path \in Seq(Names) /\ b.path \in Seq(Names)
  OBVIOUS
<1>1. Before(a, b) <=>
        a.path # b.path /\ Rank(a.path[Off(a.path, b.path)]) < Rank(b.path[Off(a.path, b.path)])
  BY BeforePaths
<1>2. CASE a.path = b.path
  <2>1. \A i \in 1 .. Len(a.path) : Rank(a.path[i]) \in Nat
    BY <1>0, Ranks
  <2> QED BY <1>1, <1>2, <2>1
<1>3. CASE a.path # b.path
  <2>1. PICK i \in 1 .. Len(a.path) :
          /\ i = Off(a.path, b.path) /\ Differs(a.path, b.path, i)
          /\ \A k \in 1 .. Len(a.path) : Differs(a.path, b.path, k) => k = i
    BY <1>0, <1>3, FirstDifference
  <2>2. ASSUME NEW k \in 1 .. Len(a.path), \A j \in 1 .. (k - 1) : a.path[j] = b.path[j],
               Rank(a.path[k]) < Rank(b.path[k])
        PROVE  k = i
    <3>1. Rank(a.path[k]) \in Nat
      BY <1>0, Ranks
    <3>2. Differs(a.path, b.path, k)
      BY <2>2, <3>1 DEF Differs
    <3> QED BY <2>1, <3>2
  <2>3. \A j \in 1 .. (i - 1) : a.path[j] = b.path[j]
    BY <2>1 DEF Differs
  <2> QED BY <1>1, <1>3, <2>1, <2>2, <2>3
<1> QED BY <1>2, <1>3

\* The order is total, up to entries with one path, and transitive.
LEMMA BeforeTotal ==
  ASSUME NEW a, NEW b, a.path \in Seq(Names), b.path \in Seq(Names), Len(a.path) = Len(b.path)
  PROVE  Before(a, b) \/ Before(b, a) \/ a.path = b.path
<1> SUFFICES ASSUME a.path # b.path PROVE Before(a, b) \/ Before(b, a)
  OBVIOUS
<1>0. PICK i \in 1 .. Len(a.path) : Differs(a.path, b.path, i)
  BY FirstDifference
<1>1. a.path[i] # b.path[i] /\ \A j \in 1 .. (i - 1) : a.path[j] = b.path[j]
  BY <1>0 DEF Differs
<1>2. a.path[i] \in Names /\ b.path[i] \in Names
  BY <1>1
<1>3. PICK x \in Nat, y \in Nat : x = Rank(a.path[i]) /\ y = Rank(b.path[i])
  BY <1>2, Ranks
<1>4. x # y
  BY <1>1, <1>2, <1>3, Ranks
<1>5. CASE x < y
  BY <1>1, <1>3, <1>5, BeforeAt
<1>6. CASE y < x
  BY <1>1, <1>3, <1>6, BeforeAt
<1> QED BY <1>4, <1>5, <1>6

LEMMA BeforeTransitive ==
  ASSUME NEW a, NEW b, NEW c, a.path \in Seq(Names), b.path \in Seq(Names), c.path \in Seq(Names),
         Len(a.path) = Len(b.path), Len(b.path) = Len(c.path), Before(a, b), Before(b, c)
  PROVE  Before(a, c)
<1>1. PICK n \in Nat : n = Len(a.path) /\ n = Len(b.path) /\ n = Len(c.path)
  OBVIOUS
<1>2. PICK i \in 1 .. n : /\ \A j \in 1 .. (i - 1) : a.path[j] = b.path[j]
                          /\ Rank(a.path[i]) < Rank(b.path[i])
  BY <1>1, BeforeAt
<1>3. PICK k \in 1 .. n : /\ \A j \in 1 .. (k - 1) : b.path[j] = c.path[j]
                          /\ Rank(b.path[k]) < Rank(c.path[k])
  BY <1>1, BeforeAt
<1>4. \A j \in 1 .. n : /\ Rank(a.path[j]) \in Nat /\ Rank(b.path[j]) \in Nat
                        /\ Rank(c.path[j]) \in Nat
  <2>1. \A j \in 1 .. n : a.path[j] \in Names /\ b.path[j] \in Names /\ c.path[j] \in Names
    BY <1>1
  <2> QED BY <2>1, Ranks
<1>5. CASE i < k
  <2>1. b.path[i] = c.path[i] /\ \A j \in 1 .. (i - 1) : a.path[j] = c.path[j]
    BY <1>2, <1>3, <1>5
  <2>2. Rank(a.path[i]) < Rank(c.path[i])
    BY <1>2, <2>1
  <2> QED BY <1>1, <2>1, <2>2, BeforeAt
<1>6. CASE k < i
  <2>1. a.path[k] = b.path[k] /\ \A j \in 1 .. (k - 1) : a.path[j] = c.path[j]
    BY <1>2, <1>3, <1>6
  <2>2. Rank(a.path[k]) < Rank(c.path[k])
    BY <1>3, <2>1
  <2> QED BY <1>1, <2>1, <2>2, BeforeAt
<1>7. CASE i = k
  <2>1. \A j \in 1 .. (i - 1) : a.path[j] = c.path[j]
    BY <1>2, <1>3, <1>7
  <2>2. PICK x \in Nat, y \in Nat, z \in Nat :
          x = Rank(a.path[i]) /\ y = Rank(b.path[i]) /\ z = Rank(c.path[i])
    BY <1>4
  <2>3. Rank(a.path[i]) < Rank(c.path[i])
    BY <1>2, <1>3, <1>7, <2>2
  <2> QED BY <1>1, <2>1, <2>3, BeforeAt
<1> QED BY <1>5, <1>6, <1>7

\* The entries of one file that stand in the list for one another.
Class(k) ==
  {j \in DOMAIN files : /\ files[j].index = files[k].index
                        /\ FoldPath(files[j].path) = FoldPath(files[k].path)}

\* Entry k goes before entry j.
Leads(k, j) == Before(files[k], files[j]) \/ (files[j].path = files[k].path /\ k < j)

\* Of the entries of one file one is first, so the list keeps one.
LEMMA OneIsKept ==
  ASSUME IsList(files), \A e \in ToSet(files) : e.path \in Seq(Names), NEW k0 \in DOMAIN files
  PROVE  \E k \in Class(k0) : First(k)
<1>1. PICK n \in Nat : DOMAIN files = 1 .. n
  BY ListPositions
<1>2. \A j \in DOMAIN files : files[j].path \in Seq(Names)
  BY ListPositions
<1>3. ASSUME NEW j \in Class(k0), NEW k \in Class(k0)
      PROVE  /\ files[j].path \in Seq(Names) /\ files[k].path \in Seq(Names)
             /\ Len(files[j].path) = Len(files[k].path)
  BY <1>2, FoldedPath DEF Class
<1> DEFINE Upto(m) == Class(k0) \cap 1 .. m
           Least1(k, m) == k \in Upto(m) /\ \A j \in Upto(m) \ {k} : Leads(k, j)
           S == {m \in Nat : Upto(m) # {} => \E k \in Upto(m) : Least1(k, m)}
<1>4. 0 \in S
  OBVIOUS
<1>5. ASSUME NEW m \in Nat, m \in S PROVE m + 1 \in S
  <2> SUFFICES ASSUME Upto(m + 1) # {} PROVE \E k : Least1(k, m + 1)
    OBVIOUS
  <2>1. \A j : j \in Upto(m + 1) <=> j \in Upto(m) \/ (j = m + 1 /\ j \in Class(k0))
    OBVIOUS
  <2>2. CASE m + 1 \notin Class(k0)
    <3>1. Upto(m + 1) = Upto(m)
      BY <2>1, <2>2
    <3> QED BY <1>5, <3>1
  <2>3. CASE m + 1 \in Class(k0) /\ Upto(m) = {}
    <3>1. Upto(m + 1) = {m + 1}
      BY <2>1, <2>3
    <3> QED BY <3>1
  <2>4. CASE m + 1 \in Class(k0) /\ Upto(m) # {}
    <3>1. PICK k : Least1(k, m)
      BY <1>5, <2>4
    <3>2. k \in Class(k0) /\ k \in Nat /\ k < m + 1
      BY <3>1
    <3>3. CASE Before(files[m + 1], files[k])
      <4>1. ASSUME NEW j \in Upto(m) PROVE Leads(m + 1, j)
        <5>1. j \in Class(k0)
          OBVIOUS
        <5>2. CASE j = k
          BY <3>3, <5>2 DEF Leads
        <5>3. CASE j # k /\ Before(files[k], files[j])
          <6>1. Before(files[m + 1], files[j])
            BY <1>3, <2>4, <3>2, <3>3, <5>1, <5>3, BeforeTransitive
          <6> QED BY <6>1 DEF Leads
        <5>4. CASE j # k /\ files[j].path = files[k].path
          <6>1. Before(files[m + 1], files[j])
            BY <3>3, <5>4, BeforePaths
          <6> QED BY <6>1 DEF Leads
        <5> QED BY <3>1, <5>2, <5>3, <5>4 DEF Leads
      <4> HIDE DEF Upto
      <4>2. Least1(m + 1, m + 1)
        BY <2>1, <2>4, <4>1
      <4> QED BY <4>2
    <3>4. CASE ~Before(files[m + 1], files[k])
      <4>1. Before(files[k], files[m + 1]) \/ files[m + 1].path = files[k].path
        BY <1>3, <2>4, <3>2, <3>4, BeforeTotal
      <4>2. Leads(k, m + 1)
        BY <3>2, <4>1 DEF Leads
      <4>3. k \in Upto(m)
        BY <3>1
      <4>4. \A j \in Upto(m) \ {k} : Leads(k, j)
        BY <3>1
      <4> HIDE DEF Upto
      <4>5. Least1(k, m + 1)
        BY <2>1, <4>2, <4>3, <4>4
      <4> QED BY <4>5
    <3> QED BY <3>3, <3>4
  <2> QED BY <2>2, <2>3, <2>4
<1>6. n \in S
  <2> HIDE DEF S
  <2> QED BY <1>1, <1>4, <1>5, SetInduction
<1>7. Upto(n) = Class(k0) /\ k0 \in Class(k0)
  BY <1>1 DEF Class
<1>8. PICK k \in Class(k0) : \A j \in Class(k0) \ {k} : Leads(k, j)
  <2>1. \E k \in Upto(n) : Least1(k, n)
    BY <1>6, <1>7
  <2> QED BY <1>7, <2>1
<1>9. First(k)
  <2> SUFFICES ASSUME NEW j \in DOMAIN files \ {k}, files[j].index = files[k].index,
                      FoldPath(files[j].path) = FoldPath(files[k].path)
               PROVE  Leads(k, j)
    BY DEF First, Leads
  <2>1. j \in Class(k0)
    BY <1>8 DEF Class
  <2> QED BY <1>8, <2>1
<1> QED BY <1>8, <1>9

\* What the scan needs of the boot disk to find every image on it: a readable
\* volume is alone in its place, no two of its files have one path but for its
\* case, and it is scanned in one of the two ways.  A partition on a disk whose
\* first block is that of a file system is not, unless firmware has a handle
\* for it, nor need be a volume that is the whole of a disk with a table.
Accessible ==
  machine.boot # 0 /\ PathsKnown =>
    \A v \in machine.volumes :
      v.disk = Handles[machine.boot].disk /\ RawReader(v) # None =>
        /\ \A w \in VolumesAt(v.disk, v.start) : w = v
        /\ \A f, g \in ToSet(v.files) :
             FoldPath(Append(f.dir, f.name)) = FoldPath(Append(g.dir, g.name)) => f = g
        /\ \E h \in DOMAIN Handles :
             AsVolume(v, h) \/ \E c \in ToSet(Table(h)) : AsPartition(v, h, c)

\* When the scan is over it is past every handle.
LEMMA AllSeen ==
  ASSUME ScanInv, CoverInv, stage = "done", NEW v,
         \E h \in DOMAIN Handles :
           AsVolume(v, h) \/ \E c \in ToSet(Table(h)) : AsPartition(v, h, c)
  PROVE  Seen(v)
<1>1. \A h \in DOMAIN Handles : h < at
  BY CoverFacts DEF Progress
<1>2. ASSUME NEW h, AsVolume(v, h) PROVE PassedVolume(h)
  BY <1>1, <1>2 DEF AsVolume, PassedVolume
<1>3. ASSUME NEW h, NEW c, AsPartition(v, h, c) PROVE PassedPartition(h, c)
  BY <1>1, <1>3 DEF AsPartition, PassedPartition
<1> QED BY <1>2, <1>3 DEF Seen

\* An image in a readable directory of a readable volume of the boot disk is
\* in the list, however firmware shows that volume, and its entry leads to it
\* or to a handle through which firmware reads it: its volume was scanned,
\* under an index of its own, and of the entries of one file the list keeps
\* one.
THEOREM BootDiskListed == Spec /\ Accessible => []BootMediaComplete
<1>1. ScanInv /\ CoverInv /\ Accessible => BootMediaComplete
  <2> SUFFICES ASSUME ScanInv, CoverInv, Accessible, PathsKnown, stage = "done", machine.boot # 0,
                      NEW v \in machine.volumes, NEW i \in DOMAIN v.files,
                      NEW r \in DOMAIN SearchRoots(LoadVentoyConfig(v)),
                      v.disk = Handles[machine.boot].disk, RawReader(v) # None,
                      v.files[i].kind \in {"image", "dot"}, ~v.files[i].hidden, v.files[i].mapped,
                      Walked(v, LoadVentoyConfig(v), SearchRoots(LoadVentoyConfig(v))[r],
                             v.files[i])
               PROVE  \E e \in listing :
                        /\ e.target = None
                        /\ \/ BootPlace(e) = <<v.disk, v.start + v.files[i].lba>>
                           \/ /\ e.extents = <<>>
                              /\ v \in HandleVolume(e.handle)
                              /\ FoldPath(e.path)
                                   = FoldPath(Append(v.files[i].dir, v.files[i].name))
    BY DEF BootMediaComplete
  <2>1. PICK f \in ToSet(v.files) : f = v.files[i] /\ f.kind # "link"
    BY DEF ToSet
  <2>2. BootVolume(v) /\ Seen(v)
    BY AllSeen DEF BootVolume, Accessible
  <2>3. PICK home : Covered(v, home)
    BY <2>2 DEF CoverInv, SeenCovered
  <2>4. PICK e0 \in ToSet(files) :
          e0.index = home.index /\ FoldPath(e0.path) = FoldPath(Append(f.dir, f.name))
    <3>1. ListsFiles({e \in ToSet(files) : e.index = home.index}, v)
      BY <2>3 DEF Covered
    <3>2. \E e \in {e \in ToSet(files) : e.index = home.index} :
            FoldPath(e.path) = FoldPath(Append(f.dir, f.name))
      BY <2>1, <3>1, Zenon DEF ListsFiles
    <3> QED BY <3>2
  <2>5. PICK k0 \in DOMAIN files : e0 = files[k0]
    BY DEF ToSet
  <2>6. IsList(files) /\ \A e \in ToSet(files) : e.path \in Seq(Names)
    BY DEF ScanInv, Listed, EntryOk, AtHome
  <2>7. PICK k \in Class(k0) : First(k)
    BY <2>6, OneIsKept
  <2>8. PICK e : e = files[k]
    OBVIOUS
  <2>9. /\ e \in listing /\ e \in ToSet(files) /\ e.index = home.index
        /\ FoldPath(e.path) = FoldPath(Append(f.dir, f.name))
    BY <2>4, <2>5, <2>7, <2>8 DEF Class, ScanInv, Chosen, ToSet
  <2>10. AtHome(e, home) /\ home.volume = v
    BY <2>3, <2>9 DEF Covered
  <2>11. PICK g \in ToSet(v.files) : /\ FoldPath(e.path) = FoldPath(Append(g.dir, g.name))
                                     /\ g.kind = "link" \/ OfFile(e, home, g)
    BY <2>10 DEF AtHome
  <2>12. g = f
    BY <2>9, <2>11 DEF Accessible
  <2>13. OfFile(e, home, f)
    BY <2>1, <2>11, <2>12
  <2> QED BY <2>1, <2>9, <2>10, <2>13 DEF OfFile
<1>2. Accessible /\ [Next]_vars => Accessible'
  <2> SUFFICES ASSUME Accessible, [Next]_vars PROVE Accessible'
    OBVIOUS
  <2>1. machine' = machine
    BY DEF Next, vars, ScanMountedVolume, MountedDone, SkipBlockHandle, ScanBlockVolume,
           DiscoverPartitions, ScanPartition, PartitionsDone, Finish, Done
  <2>2. /\ Handles' = Handles /\ \A d, s : VolumesAt(d, s)' = VolumesAt(d, s)
        /\ PathsKnown' <=> PathsKnown
    BY <2>1 DEF Handles, VolumesAt, PathsKnown
  <2> QED BY <2>1, <2>2, WaysStay DEF Accessible
<1> QED BY <1>1, <1>2, ScanInvariant, CoverInvariant, PTL DEF Spec

=============================================================================
