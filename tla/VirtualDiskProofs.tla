------------------------- MODULE VirtualDiskProofs -------------------------
(***************************************************************************)
(* The invariant of VirtualDisk, and the theorems: for every volume with   *)
(* sound files, every list of rules, every failure and every request.      *)
(*                                                                         *)
(* The properties are about answers of the finished disk.  The invariant   *)
(* says of every phase what the disk already holds: while blocks are mapped*)
(* the table leads to the image and is complete up to the block that comes *)
(* next, afterwards on the whole disk, and a copy in memory equals it; and *)
(* the replacements stay out of each other's way as they are prepared.     *)
(***************************************************************************)
EXTENDS VirtualDiskMapProofs

\* The settings of the attempt.
Settings ==
  /\ volume \in Volumes /\ image \in DOMAIN volume /\ plugin \in Plugins

\* The images opened so far.
Opened ==
  /\ ChainOk /\ chain \in Seq(DOMAIN volume)
  /\ pc \in {"parents", "map"} => Top.format \in Layered

\* What no step changes, and where a step may go.
LEMMA Frame ==
  ASSUME [Next]_vars
  PROVE  /\ UNCHANGED <<volume, image, plugin>>
         /\ OpenParent \/ UNCHANGED chain
         /\ ReplaceFile \/ UNCHANGED <<patches, append, applied>>
         /\ ReplaceFile \/ SkipRule \/ UNCHANGED rule
         /\ MapBlock \/ UNCHANGED index
         /\ RulesDone \/ MapPlain \/ MapBlock \/ MapDone \/ LoadIntoMemory \/ AddOverlays
            \/ UNCHANGED vbio
         /\ \/ UNCHANGED pc \/ pc' = "failed"
            \/ RulesDone \/ MapPlain \/ OpenLayered \/ ParentsDone \/ MapDone
            \/ LoadIntoMemory \/ StayOnDisk \/ AddOverlays
            \/ (pc = "ready" /\ pc' = "answered") \/ (pc = "answered" /\ pc' = "ready")
<1>1. CASE UNCHANGED vars
  BY <1>1 DEF vars
<1>2. CASE ReplaceFile
  BY <1>2 DEF ReplaceFile, fixed
<1>3. CASE SkipRule
  BY <1>3 DEF SkipRule, fixed
<1>4. CASE RulesDone
  BY <1>4 DEF RulesDone, fixed, build
<1>5. CASE MapPlain
  BY <1>5 DEF MapPlain, fixed, build
<1>6. CASE OpenLayered
  BY <1>6 DEF OpenLayered, fixed, build
<1>7. CASE OpenParent
  BY <1>7 DEF OpenParent, fixed, build
<1>8. CASE ParentsDone
  BY <1>8 DEF ParentsDone, fixed, build
<1>9. CASE MapBlock
  BY <1>9 DEF MapBlock, fixed, build
<1>10. CASE MapDone
  BY <1>10 DEF MapDone, fixed, build
<1>11. CASE LoadIntoMemory
  BY <1>11 DEF LoadIntoMemory, fixed, build
<1>12. CASE StayOnDisk
  BY <1>12 DEF StayOnDisk, fixed, build
<1>13. CASE AddOverlays
  BY <1>13 DEF AddOverlays, fixed, build
<1>14. CASE BuildFails
  BY <1>14 DEF BuildFails, fixed, build
<1>15. ASSUME NEW r, NEW sameMedia, Request(r, sameMedia)
       PROVE  /\ UNCHANGED <<volume, image, plugin, chain, patches, append, applied, rule, index, vbio>>
              /\ pc = "ready" /\ pc' = "answered"
  BY <1>15 DEF Request, fixed, build
<1>16. ASSUME NEW r, RequestFails(r)
       PROVE  /\ UNCHANGED <<volume, image, plugin, chain, patches, append, applied, rule, index, vbio>>
              /\ pc = "ready" /\ pc' = "answered"
  BY <1>16 DEF RequestFails, fixed, build
<1>17. CASE Return
  BY <1>17 DEF Return, fixed, build
<1> QED BY <1>1, <1>2, <1>3, <1>4, <1>5, <1>6, <1>7, <1>8, <1>9, <1>10, <1>11, <1>12, <1>13,
           <1>14, <1>15, <1>16, <1>17 DEF Next

\* No step changes the volume, the image or its settings.
LEMMA SettingsStep ==
  ASSUME Settings, [Next]_vars
  PROVE  Settings'
  BY Frame DEF Settings

\* The first candidate that matches is one.
LEMMA FoundParent ==
  ASSUME Settings, NEW name \in DOMAIN volume, FindParent(name) # 0
  PROVE  LET parent == Candidates(volume[name])[FindParent(name)]
         IN parent \in DOMAIN volume /\ Matches(volume[name], volume[parent])
<1> DEFINE s == Candidates(volume[name])
           Test(c) == c # name /\ c \in DOMAIN volume /\ Matches(volume[name], volume[c])
           I == {i \in 1 .. Len(s) : Test(s[i])}
<1>1. s \in Seq(STRING)
  <2>1. SoundFile(volume[name])
    BY VolumesAssumption DEF Settings
  <2> QED BY <2>1, VolumesAssumption DEF Candidates, SoundFile
<1>2. FindParent(name) = IF I # {} THEN Min(I) ELSE 0
  BY Zenon DEF FindParent, SelectInSeq
<1>3. I # {} /\ FindParent(name) = Min(I)
  BY <1>2, Zenon
<1>4. I \in SUBSET Nat
  BY <1>1
<1>5. Min(I) \in I
  BY <1>3, <1>4, MinOfNaturals
<1> HIDE DEF s
<1>6. Test(s[Min(I)])
  BY <1>5
<1> QED BY <1>3, <1>6 DEF s

\* Opening a parent keeps the chain one of sound files of the same size.
LEMMA OpenedStep ==
  ASSUME Settings, Opened, [Next]_vars
  PROVE  Opened'
<1>1. ASSUME UNCHANGED chain PROVE ChainOk' /\ chain' \in Seq(DOMAIN volume')
  <2>1. UNCHANGED <<chain, volume, image>>
    BY <1>1, Frame
  <2>2. ChainOk /\ chain \in Seq(DOMAIN volume)
    BY DEF Opened
  <2> QED BY <2>1, <2>2 DEF ChainOk, Top, Parent
<1>2. ASSUME OpenParent, ~UNCHANGED chain
      PROVE  ChainOk' /\ chain' \in Seq(DOMAIN volume')
  <2>0. PICK n \in Nat : n = Len(chain) /\ n > 0
    BY DEF Opened, ChainOk
  <2> DEFINE last == chain[n]
             parent == Candidates(volume[last])[FindParent(last)]
             S == DOMAIN volume
  <2>1. UNCHANGED <<volume, image>>
    BY Frame
  <2>2. ChainOk /\ chain \in Seq(S) /\ n \in Nat /\ n > 0 /\ Len(chain) = n
    BY <2>0 DEF Opened, ChainOk
  <2>3. last \in S
    BY <2>2
  <2>4. /\ volume[last].differencing /\ FindParent(last) # 0
        /\ volume[parent].format = volume[last].format /\ chain' = Append(chain, parent)
    BY <1>2, <2>0 DEF OpenParent, NeedsParent
  <2>5. parent \in S /\ Matches(volume[last], volume[parent])
    BY <2>3, <2>4, FoundParent
  <2> HIDE DEF parent, last
  <2>6. /\ volume[parent].diskSize = volume[last].diskSize /\ volume[parent].format \in Layered
    BY <2>4, <2>5 DEF Matches, SameGeometry, Layered
  <2>7. SoundFile(volume[parent])
    BY <2>5, VolumesAssumption DEF Settings
  <2>8. /\ chain' \in Seq(S) /\ Len(chain') = n + 1 /\ chain'[n + 1] = parent
        /\ \A i \in 1 .. n : chain'[i] = chain[i]
    BY <2>2, <2>4, <2>5
  <2>9. /\ \A i \in 1 .. n : Parent(i)' = Parent(i)
        /\ Parent(n + 1)' = volume[parent] /\ Parent(n) = volume[last] /\ Top' = Top
    BY <2>1, <2>8 DEF Parent, Top, last
  <2>10. n \in 1 .. n /\ Parent(n).diskSize = Top.diskSize
    BY <2>2 DEF ChainOk
  <2>11. Len(chain)' \in Nat /\ Len(chain)' > 0 /\ chain'[1] = image'
    BY <2>1, <2>2, <2>8 DEF ChainOk
  <2>12. ASSUME NEW i \in 1 .. (n + 1)
         PROVE  /\ SoundFile(Parent(i))' /\ Parent(i)'.diskSize = Top'.diskSize
                /\ i > 1 => Parent(i)'.format \in Layered /\ Parent(i - 1)'.differencing
    <3>1. CASE i = n + 1
      <4>1. Parent(i)' = volume[parent] /\ i - 1 = n /\ Parent(i - 1)' = volume[last]
        BY <2>2, <2>9, <2>10, <3>1
      <4>2. SoundFile(Parent(i))'
        BY <2>1, <2>7, <2>8, <3>1 DEF Parent
      <4> QED BY <2>4, <2>6, <2>9, <2>10, <4>1, <4>2
    <3>2. CASE i # n + 1
      <4>1. i \in 1 .. n
        BY <2>2, <3>2
      <4>2. /\ SoundFile(Parent(i)) /\ Parent(i).diskSize = Top.diskSize
            /\ i > 1 => Parent(i).format \in Layered /\ Parent(i - 1).differencing
        BY <2>2, <4>1 DEF ChainOk
      <4>3. SoundFile(Parent(i))'
        BY <2>1, <2>8, <4>1, <4>2 DEF Parent
      <4>4. ASSUME i > 1 PROVE i - 1 \in 1 .. n
        BY <2>2, <4>1, <4>4
      <4> QED BY <2>9, <4>1, <4>2, <4>3, <4>4
    <3> QED BY <3>1, <3>2
  <2>13. ChainOk'
    BY <2>8, <2>11, <2>12 DEF ChainOk
  <2> QED BY <2>1, <2>8, <2>13
<1>3. pc' \in {"parents", "map"} => Top'.format \in Layered
  <2>1. Top' = Top /\ (pc \in {"parents", "map"} => Top.format \in Layered)
    BY Frame DEF Top, Opened
  <2>2. pc' \in {"parents", "map"} => pc \in {"parents", "map"} \/ Top.format \in Layered
    BY Frame DEF RulesDone, MapPlain, OpenLayered, ParentsDone, MapDone, LoadIntoMemory,
                StayOnDisk, AddOverlays
  <2> QED BY <2>1, <2>2
<1> QED BY <1>1, <1>2, <1>3, Frame DEF Opened

---------------------------------------------------------------------------
(***************************************************************************)
(* The replacements.                                                       *)
(***************************************************************************)
RuleType == [record : Nat, descriptor : Int, length : Nat]

\* Rule n of the rules has, among the patches p, a record that leads to its
\* data.  Only a rule applied later patches the record once more, and no other
\* patch touches the data.
PatchedIn(p, done, rules, size, n) ==
  \E i, j \in DOMAIN p :
    /\ p[i] = [at |-> rules[n].record, data |-> <<Pointer(p[j].at \div IsoSector)>>]
    /\ p[j].data = Data(rules[n], n)
    /\ (p[j].at \div IsoSector) * IsoSector = p[j].at /\ p[j].at >= size
    /\ \A k \in DOMAIN p : k > i /\ Covers(p[k], rules[n].record) =>
         \E m \in done : m > n /\ rules[m].record = rules[n].record
    /\ \A k \in DOMAIN p : k # j => \A o \in Nat : ~(Covers(p[j], o) /\ Covers(p[k], o))

EndsBy(p, end) == \A i \in DOMAIN p : p[i].at + Len(p[i].data) <= end

Prepared ==
  /\ patches \in Overlays /\ append \in Nat /\ Top.diskSize <= append
  /\ (append \div IsoSector) * IsoSector = append
  /\ EndsBy(patches, append)
  /\ rule \in Nat /\ rule > 0
  /\ \A n \in applied : n \in Nat /\ n < rule /\ n \in DOMAIN plugin.rules
  /\ applied # {} => IsIso(Top)
  /\ \A n \in applied : PatchedIn(patches, applied, plugin.rules, Top.diskSize, n)

\* The data of a replacement: the file, padded to whole sectors.
LEMMA DataType ==
  ASSUME NEW r \in RuleType, NEW n \in Nat
  PROVE  /\ Data(r, n) \in Seq(Int) /\ Len(Data(r, n)) \in Nat
         /\ r.length <= Len(Data(r, n)) /\ Len(Data(r, n)) = DivUp(r.length, IsoSector) * IsoSector
         /\ \A k \in 1 .. r.length : Data(r, n)[k] = 1000 * n + k
         /\ DivUp(r.length, IsoSector) \in Nat
<1> DEFINE w == AlignUp(r.length, IsoSector)
<1>1. r.length \in Nat /\ IsoSector \in Nat /\ IsoSector > 0
  BY ConstantTypes DEF RuleType
<1>2. w \in Nat /\ r.length <= w /\ w = DivUp(r.length, IsoSector) * IsoSector
      /\ DivUp(r.length, IsoSector) \in Nat
  BY <1>1, DivUpFacts DEF AlignUp
<1> HIDE DEF w
<1>3. Data(r, n) = [k \in 1 .. w |-> IF k <= r.length THEN 1000 * n + k ELSE Zero]
  BY DEF Data, w
<1>4. \A k \in 1 .. w : 1000 * n + k \in Int /\ Zero \in Int
  BY <1>2 DEF Zero
<1>5. Data(r, n) \in Seq(Int) /\ Len(Data(r, n)) = w
  BY <1>2, <1>3, <1>4
<1>6. \A k \in 1 .. r.length : k \in 1 .. w /\ k <= r.length
  BY <1>1, <1>2
<1>7. \A k \in 1 .. r.length : Data(r, n)[k] = 1000 * n + k
  BY <1>3, <1>6
<1> QED BY <1>2, <1>5, <1>7

\* The size of the disk is a natural number.
LEMMA DiskSizeType ==
  ASSUME Settings
  PROVE  Top.diskSize \in Nat
<1>1. SoundFile(Top)
  BY VolumesAssumption DEF Settings, Top
<1> QED BY <1>1, FileTypes

\* What one more rule appends to the patches.
Appends(p, q, r, n, at) ==
  /\ Len(q) > Len(p) + 1
  /\ \A i \in 1 .. Len(p) : q[i] = p[i]
  /\ q[Len(p) + 1] = [at |-> r.record, data |-> <<Pointer(at \div IsoSector)>>]
  /\ q[Len(q)] = [at |-> at, data |-> Data(r, n)]
  /\ \A i \in Nat : Len(p) + 1 < i /\ i < Len(q) =>
       r.descriptor >= 0 /\ q[i] = [at |-> r.descriptor, data |-> <<Descriptor>>]

\* The overlays build_conf_replace_overlays appends for a rule.
LEMMA OneMoreRule ==
  ASSUME NEW p \in Overlays, NEW r \in RuleType, NEW n \in Nat, NEW at \in Nat, NEW udf
  PROVE  LET q == p \o <<[at |-> r.record, data |-> <<Pointer(at \div IsoSector)>>]>>
                    \o (IF udf /\ r.descriptor >= 0
                          THEN <<[at |-> r.descriptor, data |-> <<Descriptor>>]>> ELSE <<>>)
                    \o <<[at |-> at, data |-> Data(r, n)]>>
         IN q \in Overlays /\ Appends(p, q, r, n, at)
<1> DEFINE P1 == [at |-> r.record, data |-> <<Pointer(at \div IsoSector)>>]
           P2 == [at |-> r.descriptor, data |-> <<Descriptor>>]
           P3 == [at |-> at, data |-> Data(r, n)]
<1>1. r.record \in Nat /\ r.descriptor \in Int /\ r.length \in Nat
  BY DEF RuleType
<1>2. at \div IsoSector \in Nat
  BY ConstantTypes, DivFacts
<1>3. P1 \in Overlay
  <2>1. Pointer(at \div IsoSector) \in Int
    BY <1>2 DEF Pointer
  <2> HIDE DEF Pointer
  <2>2. <<Pointer(at \div IsoSector)>> \in Seq(Int)
    BY <2>1
  <2> QED BY <1>1, <2>2 DEF Overlay
<1>4. P3 \in Overlay
  BY DataType DEF Overlay
<1>5. r.descriptor >= 0 => P2 \in Overlay
  BY <1>1 DEF Overlay, Descriptor
<1> HIDE DEF P1, P2, P3
<1>6. p \in Seq(Overlay)
  BY DEF Overlays
<1>7. CASE udf /\ r.descriptor >= 0
  <2> DEFINE q == p \o <<P1>> \o <<P2>> \o <<P3>>
  <2>1. /\ q \in Seq(Overlay) /\ Len(q) = Len(p) + 3 /\ Len(p) \in Nat
        /\ \A i \in 1 .. Len(p) : q[i] = p[i]
        /\ q[Len(p) + 1] = P1 /\ q[Len(p) + 2] = P2 /\ q[Len(p) + 3] = P3
    BY <1>3, <1>4, <1>5, <1>6, <1>7
  <2> HIDE DEF q
  <2>2. Appends(p, q, r, n, at)
    <3>1. \A i \in Nat : Len(p) + 1 < i /\ i < Len(q) => i = Len(p) + 2
      BY <2>1
    <3>2. Len(q) > Len(p) + 1 /\ q[Len(q)] = P3
      BY <2>1
    <3> QED BY <1>7, <2>1, <3>1, <3>2 DEF Appends, P1, P2, P3
  <2> QED BY <1>7, <2>1, <2>2 DEF q, P1, P2, P3, Overlays
<1>8. CASE ~(udf /\ r.descriptor >= 0)
  <2> DEFINE q == p \o <<P1>> \o <<>> \o <<P3>>
  <2>1. /\ q \in Seq(Overlay) /\ Len(q) = Len(p) + 2 /\ Len(p) \in Nat
        /\ \A i \in 1 .. Len(p) : q[i] = p[i]
        /\ q[Len(p) + 1] = P1 /\ q[Len(p) + 2] = P3
    BY <1>3, <1>4, <1>6
  <2> HIDE DEF q
  <2>2. Appends(p, q, r, n, at)
    <3>1. \A i \in Nat : ~(Len(p) + 1 < i /\ i < Len(q))
      BY <2>1
    <3>2. Len(q) > Len(p) + 1 /\ q[Len(q)] = P3
      BY <2>1
    <3> QED BY <2>1, <3>1, <3>2 DEF Appends, P1, P3
  <2> QED BY <1>8, <2>1, <2>2 DEF q, P1, P2, P3, Overlays
<1> QED BY <1>7, <1>8

\* What the patches of one more rule cover.
LEMMA AppendedCover ==
  ASSUME NEW p \in Overlays, NEW q \in Overlays, NEW r \in RuleType, NEW n \in Nat, NEW at \in Nat,
         Appends(p, q, r, n, at), NEW k \in DOMAIN q, k > Len(p), NEW o \in Nat, Covers(q[k], o)
  PROVE  /\ k = Len(p) + 1 => o = r.record
         /\ k # Len(p) + 1 /\ k # Len(q) => o = r.descriptor
         /\ k = Len(q) => at <= o
<1>1. Len(p) \in Nat /\ Len(q) \in Nat /\ DOMAIN q = 1 .. Len(q)
  BY DEF Overlays
<1>1a. Len(q) > Len(p) + 1
  BY DEF Appends
<1>1b. q[Len(p) + 1] = [at |-> r.record, data |-> <<Pointer(at \div IsoSector)>>]
       /\ q[Len(q)] = [at |-> at, data |-> Data(r, n)]
  BY DEF Appends
<1>2. r.record \in Nat /\ r.descriptor \in Int
  BY DEF RuleType
<1>4. CASE k = Len(p) + 1
  <2>1. q[k].at = r.record /\ q[k].data = <<Pointer(at \div IsoSector)>>
    BY <1>1b, <1>4
  <2>2a. k < Len(q)
    BY <1>1, <1>1a, <1>4
  <2>2b. Len(<<Pointer(at \div IsoSector)>>) = 1
    OBVIOUS
  <2>2. Len(q[k].data) = 1 /\ k # Len(q)
    BY <1>1, <2>1, <2>2a, <2>2b
  <2>3. o = r.record
    BY <1>2, <2>1, <2>2 DEF Covers
  <2> QED BY <1>2, <1>4, <2>1, <2>2, <2>3
<1>5. CASE k # Len(p) + 1 /\ k # Len(q)
  <2>0. k \in Nat /\ Len(p) + 1 < k /\ k < Len(q)
    BY <1>1, <1>5
  <2>1. q[k].at = r.descriptor /\ q[k].data = <<Descriptor>>
    BY <2>0 DEF Appends
  <2>2. Len(q[k].data) = 1
    BY <2>1
  <2>3. o = r.descriptor
    BY <1>2, <2>1, <2>2 DEF Covers
  <2> QED BY <1>2, <1>5, <2>1, <2>2, <2>3
<1>6. CASE k = Len(q)
  <2>1a. k # Len(p) + 1
    <3> DEFINE x == Len(p)
               y == Len(q)
    <3>1. x \in Nat /\ y \in Nat /\ y > x + 1 /\ k = y
      BY <1>1, <1>1a, <1>6
    <3> HIDE DEF x, y
    <3>2. y # x + 1
      BY <3>1
    <3> QED BY <3>1, <3>2 DEF x
  <2>1. q[k].at = at /\ q[k].data = Data(r, n) /\ k # Len(p) + 1
    BY <1>1b, <1>6, <2>1a
  <2>2. at <= o
    BY <2>1 DEF Covers
  <2> QED BY <1>6, <2>1, <2>2
<1> QED BY <1>4, <1>5, <1>6

\* Another rule leaves the replacements before it intact and adds its own.
LEMMA RuleStep ==
  ASSUME NEW p \in Overlays, NEW q \in Overlays, NEW rules \in Seq(RuleType), NEW n \in DOMAIN rules,
         NEW done, \A m \in done : m \in Nat /\ m < n /\ m \in DOMAIN rules,
         NEW size \in Nat, NEW at \in Nat, size <= at, (at \div IsoSector) * IsoSector = at,
         EndsBy(p, at), Appends(p, q, rules[n], n, at),
         \A x, y \in ToSet(rules) : x.record # y.descriptor,
         \A x \in ToSet(rules) : x.record < size /\ x.descriptor < size,
         \A m \in done : PatchedIn(p, done, rules, size, m)
  PROVE  /\ EndsBy(q, at + Len(Data(rules[n], n)))
         /\ \A m \in done \cup {n} : PatchedIn(q, done \cup {n}, rules, size, m)
<1> DEFINE r == rules[n]
           L == Len(p)
           M == Len(q)
           all == done \cup {n}
<1>1. /\ L \in Nat /\ M \in Nat /\ DOMAIN q = 1 .. M /\ DOMAIN p = 1 .. L /\ L + 1 < M
  BY DEF Overlays, Appends
<1>2. n \in Nat /\ r \in RuleType /\ r \in ToSet(rules)
  BY DEF ToSet
<1>3. /\ r.record \in Nat /\ r.descriptor \in Int /\ r.record < size /\ r.descriptor < size
  BY <1>2 DEF RuleType
<1>4. Len(Data(r, n)) \in Nat
  BY <1>2, DataType
<1>5. \A i \in 1 .. L : q[i] = p[i]
  BY DEF Appends
<1>6. /\ q[L + 1] = [at |-> r.record, data |-> <<Pointer(at \div IsoSector)>>]
      /\ q[M] = [at |-> at, data |-> Data(r, n)]
      /\ \A i \in Nat : L + 1 < i /\ i < M =>
           r.descriptor >= 0 /\ q[i] = [at |-> r.descriptor, data |-> <<Descriptor>>]
  BY DEF Appends
<1>7. \A i \in DOMAIN q : q[i].at \in Nat /\ Len(q[i].data) \in Nat
  BY OverlayType
<1>8. EndsBy(q, at + Len(Data(r, n)))
  <2> SUFFICES ASSUME NEW i \in DOMAIN q
               PROVE  q[i].at + Len(q[i].data) <= at + Len(Data(r, n))
    BY DEF EndsBy
  <2>1. CASE i <= L
    <3>1. i \in DOMAIN p /\ q[i] = p[i]
      BY <1>1, <1>5, <2>1
    <3>2. q[i].at + Len(q[i].data) <= at
      BY <3>1 DEF EndsBy
    <3> QED BY <1>4, <1>7, <3>2
  <2>2. CASE i = L + 1
    <3>1. q[i].at = r.record /\ Len(q[i].data) = 1
      BY <1>6, <2>2
    <3> QED BY <1>3, <1>4, <3>1
  <2>3. CASE i = M
    BY <1>6, <2>3
  <2>4. CASE L + 1 < i /\ i < M
    <3>1. q[i].at = r.descriptor /\ Len(q[i].data) = 1
      BY <1>1, <1>6, <2>4
    <3> QED BY <1>3, <1>4, <3>1
  <2> QED BY <1>1, <2>1, <2>2, <2>3, <2>4
<1>9. ASSUME NEW k \in DOMAIN q, k > L, NEW o \in Nat, Covers(q[k], o)
      PROVE  /\ k = L + 1 => o = r.record
             /\ k # L + 1 /\ k # M => o = r.descriptor
             /\ k = M => at <= o
  <2>1. Appends(p, q, r, n, at)
    OBVIOUS
  <2> HIDE DEF r
  <2> QED BY <1>2, <1>9, <2>1, AppendedCover
<1> HIDE DEF L, M
<1>10. ASSUME NEW m \in done PROVE PatchedIn(q, all, rules, size, m)
  <2>1. PICK i \in DOMAIN p, j \in DOMAIN p :
          /\ p[i] = [at |-> rules[m].record, data |-> <<Pointer(p[j].at \div IsoSector)>>]
          /\ p[j].data = Data(rules[m], m)
          /\ (p[j].at \div IsoSector) * IsoSector = p[j].at /\ p[j].at >= size
          /\ \A k \in DOMAIN p : k > i /\ Covers(p[k], rules[m].record) =>
               \E l \in done : l > m /\ rules[l].record = rules[m].record
          /\ \A k \in DOMAIN p : k # j => \A o \in Nat : ~(Covers(p[j], o) /\ Covers(p[k], o))
    BY DEF PatchedIn
  <2>2. /\ i \in DOMAIN q /\ j \in DOMAIN q /\ q[i] = p[i] /\ q[j] = p[j] /\ i <= L /\ j <= L
        /\ i \in Nat /\ j \in Nat
    BY <1>1, <1>5
  <2>3. m \in Nat /\ m < n /\ rules[m] \in RuleType /\ rules[m] \in ToSet(rules)
    BY DEF ToSet
  <2>4. rules[m].record \in Nat /\ rules[m].record < size /\ rules[m].record # r.descriptor
    BY <1>2, <2>3 DEF RuleType
  <2>5. ASSUME NEW k \in DOMAIN q, k > i, Covers(q[k], rules[m].record)
        PROVE  \E l \in all : l > m /\ rules[l].record = rules[m].record
    <3>1. CASE k <= L
      <4>1. k \in DOMAIN p /\ q[k] = p[k]
        BY <1>1, <1>5, <3>1
      <4>2. \E l \in done : l > m /\ rules[l].record = rules[m].record
        BY <2>1, <2>5, <4>1
      <4> QED BY <4>2
    <3>2. CASE k > L
      <4>1. k = L + 1 => rules[m].record = r.record
        BY <1>9, <2>4, <2>5, <3>2
      <4>2. k # M
        BY <1>9, <2>4, <2>5, <3>2
      <4>3. k = L + 1
        BY <1>9, <2>4, <2>5, <3>2, <4>2
      <4> QED BY <2>3, <4>1, <4>3
    <3> QED BY <1>1, <3>1, <3>2
  <2>6. ASSUME NEW k \in DOMAIN q, k # j, NEW o \in Nat, Covers(q[j], o), Covers(q[k], o)
        PROVE  FALSE
    <3>1. CASE k <= L
      <4>1. k \in DOMAIN p /\ q[k] = p[k]
        BY <1>1, <1>5, <3>1
      <4> QED BY <2>1, <2>2, <2>6, <4>1
    <3>2. CASE k > L
      <4>1. size <= o /\ o < at
        <5>1. q[j].at \in Nat /\ Len(q[j].data) \in Nat /\ size <= q[j].at
          BY <1>7, <2>1, <2>2
        <5>2. q[j].at + Len(q[j].data) <= at
          BY <2>2 DEF EndsBy
        <5>3. q[j].at <= o /\ o < q[j].at + Len(q[j].data)
          BY <2>6 DEF Covers
        <5> QED BY <5>1, <5>2, <5>3
      <4>2. /\ k = L + 1 => o = r.record
            /\ k # L + 1 /\ k # M => o = r.descriptor
            /\ k = M => at <= o
        BY <1>9, <2>6, <3>2
      <4> QED BY <1>3, <4>1, <4>2
    <3> QED BY <1>1, <3>1, <3>2
  <2> HIDE DEF all
  <2>7. /\ q[i] = [at |-> rules[m].record, data |-> <<Pointer(q[j].at \div IsoSector)>>]
        /\ q[j].data = Data(rules[m], m)
        /\ (q[j].at \div IsoSector) * IsoSector = q[j].at /\ q[j].at >= size
    BY <2>1, <2>2
  <2> QED BY <2>2, <2>5, <2>6, <2>7 DEF PatchedIn
<1>11. PatchedIn(q, all, rules, size, n)
  <2>1. L + 1 \in DOMAIN q /\ M \in DOMAIN q
    BY <1>1
  <2>2. q[M].at = at /\ q[M].data = Data(r, n)
    BY <1>6
  <2>3. ASSUME NEW k \in DOMAIN q, k > L + 1, Covers(q[k], r.record) PROVE FALSE
    <3>1. k > L /\ k # L + 1
      BY <1>1, <2>3
    <3>2. /\ k # M => r.record = r.descriptor
          /\ k = M => at <= r.record
      BY <1>3, <1>9, <2>3, <3>1
    <3> QED BY <1>2, <1>3, <3>2
  <2>4. ASSUME NEW k \in DOMAIN q, k # M, NEW o \in Nat, Covers(q[M], o), Covers(q[k], o)
        PROVE  FALSE
    <3>1. at <= o
      BY <2>2, <2>4 DEF Covers
    <3>2. CASE k <= L
      <4>1. k \in DOMAIN p /\ q[k] = p[k]
        BY <1>1, <1>5, <3>2
      <4>2. q[k].at + Len(q[k].data) <= at
        BY <4>1 DEF EndsBy
      <4>3. o < q[k].at + Len(q[k].data) /\ q[k].at \in Nat /\ Len(q[k].data) \in Nat
        BY <1>7, <2>4 DEF Covers
      <4> QED BY <3>1, <4>2, <4>3
    <3>3. CASE k > L
      <4>1. /\ k = L + 1 => o = r.record
            /\ k # L + 1 => o = r.descriptor
        BY <1>9, <2>4, <3>3
      <4> QED BY <1>3, <3>1, <4>1
    <3> QED BY <1>1, <3>2, <3>3
  <2>5. q[L + 1] = [at |-> r.record, data |-> <<Pointer(q[M].at \div IsoSector)>>]
    BY <1>6, <2>2
  <2>6. (q[M].at \div IsoSector) * IsoSector = q[M].at /\ q[M].at >= size
    BY <2>2
  <2> HIDE DEF all
  <2> QED BY <2>1, <2>2, <2>3, <2>4, <2>5, <2>6 DEF PatchedIn
<1> QED BY <1>8, <1>10, <1>11

\* The replacements are in order to begin with.
LEMMA PreparedInit ==
  ASSUME Init
  PROVE  Prepared
<1>1. SoundFile(Top)
  BY VolumesAssumption DEF Init, Top
<1>2. Top.diskSize \in Nat /\ IsoSector \in Nat /\ IsoSector > 0
  BY <1>1, FileTypes, ConstantTypes
<1> DEFINE q == DivUp(Top.diskSize, IsoSector)
           x == q * IsoSector
<1>3. q \in Nat /\ x \in Nat /\ Top.diskSize <= x
  BY <1>2, DivUpFacts
<1>4. append = x
  BY DEF Init, AlignUp
<1> HIDE DEF q
<1>5. (q + 1) * IsoSector = x + IsoSector
  BY <1>2, <1>3
<1>6. x \div IsoSector = q
  <2> HIDE DEF x
  <2>1. q * IsoSector <= x /\ x < (q + 1) * IsoSector
    BY <1>2, <1>3, <1>5 DEF x
  <2> QED BY <1>2, <1>3, <2>1, DivRange
<1>7. patches = <<>> /\ applied = {} /\ rule = 1
  BY DEF Init
<1>8. patches \in Overlays /\ DOMAIN patches = {}
  BY <1>7 DEF Overlays
<1> HIDE DEF x
<1>9. (append \div IsoSector) * IsoSector = append
  BY <1>4, <1>6 DEF x
<1> QED BY <1>3, <1>4, <1>7, <1>8, <1>9 DEF Prepared, EndsBy

\* Every step keeps the replacements in order.
LEMMA PreparedStep ==
  ASSUME Settings, Prepared, [Next]_vars
  PROVE  Prepared'
<1>0. UNCHANGED <<volume, image, plugin>> /\ Top' = Top
  BY Frame DEF Top
<1>1. CASE ReplaceFile
  <2> DEFINE rules == plugin.rules
             r == rules[rule]
             q == patches'
             size == Top.diskSize
             d == Data(r, rule)
  <2>1. /\ IsIso(Top) /\ rule <= Len(rules) /\ append' = append + Len(d)
        /\ applied' = applied \cup {rule} /\ rule' = rule + 1
    BY <1>1 DEF ReplaceFile, NextAppend
  <2>2. rules \in Seq(RuleType) /\ \A x, y \in ToSet(rules) : x.record # y.descriptor
    BY PluginsAssumption DEF Settings, RuleType
  <2>3. \A x \in ToSet(rules) : {x.record, x.descriptor} \subseteq -1 .. (size - 1)
    BY <2>1, PluginsAssumption DEF Settings, Top
  <2>4. size \in Nat
    <3>1. SoundFile(Top)
      BY VolumesAssumption DEF Settings, Top
    <3> QED BY <3>1, FileTypes
  <2>5. /\ patches \in Overlays /\ append \in Nat /\ size <= append
        /\ (append \div IsoSector) * IsoSector = append /\ EndsBy(patches, append)
        /\ rule \in Nat /\ rule > 0
        /\ \A n \in applied : n \in Nat /\ n < rule /\ n \in DOMAIN rules
        /\ \A n \in applied : PatchedIn(patches, applied, rules, size, n)
    BY DEF Prepared
  <2>6. rule \in DOMAIN rules
    BY <2>1, <2>2, <2>5
  <2>7. r \in RuleType
    BY <2>2, <2>6
  <2>8. q \in Overlays /\ Appends(patches, q, r, rule, append)
    <3>1. q = patches \o <<[at |-> r.record, data |-> <<Pointer(append \div IsoSector)>>]>>
                    \o (IF Top.udf /\ r.descriptor >= 0
                          THEN <<[at |-> r.descriptor, data |-> <<Descriptor>>]>> ELSE <<>>)
                    \o <<[at |-> append, data |-> Data(r, rule)]>>
      BY <1>1, Zenon DEF ReplaceFile
    <3> HIDE DEF q, r
    <3> QED BY <2>5, <2>7, <3>1, OneMoreRule
  <2>9. \A x \in ToSet(rules) : x.record < size /\ x.descriptor < size
    BY <2>3, <2>4
  <2> HIDE DEF q, size, rules
  <2>10. /\ EndsBy(q, append + Len(Data(rules[rule], rule)))
         /\ \A m \in applied \cup {rule} : PatchedIn(q, applied \cup {rule}, rules, size, m)
    BY <2>2, <2>4, <2>5, <2>6, <2>8, <2>9, RuleStep
  <2>11. /\ append' \in Nat /\ size <= append' /\ (append' \div IsoSector) * IsoSector = append'
    <3> DEFINE k == IsoSector
               w == DivUp(r.length, k)
               a == append \div k
    <3>1. /\ Len(d) \in Nat /\ Len(d) = w * k /\ w \in Nat
      BY <2>5, <2>7, DataType
    <3>2. k \in Nat /\ k > 0 /\ a \in Nat /\ a * k = append
      BY <2>5, ConstantTypes, DivFacts
    <3> HIDE DEF w, a, d, k
    <3>3. (a + w) * k = append + Len(d) /\ (a + w + 1) * k = (append + Len(d)) + k
      BY <3>1, <3>2
    <3> DEFINE v == a + w
               y == append + Len(d)
    <3>4. v \in Nat /\ y \in Nat /\ v * k = y /\ (v + 1) * k = y + k
      BY <2>5, <3>1, <3>2, <3>3
    <3> HIDE DEF v, y
    <3>5. y \div k = v
      <4>1. v * k <= y /\ y < (v + 1) * k
        BY <3>2, <3>4
      <4> QED BY <3>2, <3>4, <4>1, DivRange
    <3>6. append' = y /\ size <= y
      BY <2>1, <2>4, <2>5, <3>1 DEF y
    <3> QED BY <3>4, <3>5, <3>6 DEF k
  <2>12. \A n \in applied \cup {rule} : n \in Nat /\ n < rule + 1 /\ n \in DOMAIN rules
    BY <2>5, <2>6
  <2>13. EndsBy(q, append')
    BY <2>1, <2>10
  <2>14. \A n \in applied' : PatchedIn(q, applied', rules, size, n)
    BY <2>1, <2>10
  <2>15. rules = plugin'.rules /\ size = Top'.diskSize /\ IsIso(Top')
    BY <1>0, <2>1 DEF rules, size
  <2>16. rule' \in Nat /\ rule' > 0 /\ \A n \in applied' : n \in Nat /\ n < rule' /\ n \in DOMAIN rules
    BY <2>1, <2>5, <2>12
  <2> QED BY <2>8, <2>11, <2>13, <2>14, <2>15, <2>16 DEF Prepared, q, IsIso
<1>2. CASE ~ReplaceFile
  <2>1. UNCHANGED <<patches, append, applied>>
    BY <1>2, Frame
  <2>2. rule' = rule \/ rule' = rule + 1
    BY <1>2, Frame DEF SkipRule
  <2>3. /\ patches \in Overlays /\ append \in Nat /\ Top.diskSize <= append
        /\ (append \div IsoSector) * IsoSector = append /\ EndsBy(patches, append)
        /\ rule \in Nat /\ rule > 0
        /\ \A n \in applied : n \in Nat /\ n < rule /\ n \in DOMAIN plugin.rules
        /\ applied # {} => IsIso(Top)
        /\ \A n \in applied : PatchedIn(patches, applied, plugin.rules, Top.diskSize, n)
    BY DEF Prepared
  <2>4. /\ rule' \in Nat /\ rule' > 0
        /\ \A n \in applied : n \in Nat /\ n < rule' /\ n \in DOMAIN plugin.rules
    BY <2>2, <2>3
  <2> QED BY <1>0, <2>1, <2>3, <2>4 DEF Prepared, IsIso
<1> QED BY <1>1, <1>2

---------------------------------------------------------------------------
(***************************************************************************)
(* The disk under construction.                                            *)
(***************************************************************************)
\* The shape of a VirtualBlockIo that holds the disk of the image.
Shape(disk) ==
  /\ disk = [table |-> disk.table, size |-> disk.size, block |-> disk.block,
             overlays |-> disk.overlays, blocks |-> disk.blocks]
  /\ TableOk(disk.table) /\ disk.size \in Nat /\ Top.diskSize <= disk.size
  /\ disk.block \in Nat /\ disk.block > 0

\* The table stays on the volume, leads to the image and leaves out no byte
\* of its first n.
Inside(table) == \A o \in Nat : \A a : Maps(table.segs, o, a) => a \in Nat /\ a < Device
Leads(table) ==
  \A o \in Nat : \A a : Maps(table.segs, o, a) /\ o < Top.diskSize => a = ImageByte(o)
Complete(table, n) ==
  \A o \in Nat : o < n /\ o < Top.diskSize =>
    ImageByte(o) = Zero \/ \E a : Maps(table.segs, o, a)

OnDisk(disk, n) ==
  /\ disk.blocks = DeviceBlocks /\ Inside(disk.table)
  /\ PlainParents => Leads(disk.table) /\ Complete(disk.table, n)

\* A first overlay with the bytes of the image.
Copy(m) ==
  /\ m \in Overlay /\ m.at = 0 /\ Top.diskSize <= Len(m.data)
  /\ PlainParents => \A o \in Nat : o < Top.diskSize => m.data[o + 1] = ImageByte(o)
InMemory(disk, extra) ==
  disk.blocks = NoDevice /\ \E m : Copy(m) /\ disk.overlays = <<m>> \o extra

Served(disk, extra) ==
  /\ disk.table.total \in Nat /\ disk.size <= disk.table.total
  /\ \/ OnDisk(disk, Top.diskSize) /\ disk.overlays = extra
     \/ InMemory(disk, extra)

Starting(disk) ==
  disk.table = Empty /\ disk.overlays = <<>> /\ disk.blocks = DeviceBlocks

Built ==
  /\ Shape(vbio)
  /\ pc \in {"replace", "source", "parents"} => Starting(vbio) /\ index = 0
  /\ pc = "map" => /\ index \in Nat /\ OnDisk(vbio, index * Top.block)
                   /\ vbio.overlays = <<>>
  /\ pc = "memory" => Served(vbio, <<>>) /\ OnDisk(vbio, Top.diskSize) /\ vbio.overlays = <<>>
  /\ pc = "attach" => Served(vbio, <<>>)
  /\ pc \in {"ready", "answered"} => Served(vbio, patches) /\ EndsBy(patches, vbio.size)

\* The byte of the image depends on the chain and the volume alone.
LEMMA SameByte ==
  ASSUME UNCHANGED <<chain, volume>>, NEW o
  PROVE  ImageByte(o)' = ImageByte(o)
  BY DEF ImageByte, Parent

\* So do all bytes of the image, and whether its parents are plain.
LEMMA SameImage ==
  ASSUME UNCHANGED <<chain, volume>>
  PROVE  (\A o : ImageByte(o)' = ImageByte(o)) /\ (PlainParents' <=> PlainParents)
<1>1. \A o : ImageByte(o)' = ImageByte(o)
  BY SameByte
<1>2. PlainParents' <=> PlainParents
  BY DEF PlainParents, Parent
<1> QED BY <1>1, <1>2

\* The predicates depend on the image alone.
LEMMA SameDisk ==
  ASSUME UNCHANGED <<chain, volume, image>>, NEW disk, NEW n, NEW extra
  PROVE  /\ Shape(disk)' <=> Shape(disk)
         /\ OnDisk(disk, n)' <=> OnDisk(disk, n)
         /\ Served(disk, extra)' <=> Served(disk, extra)
<1>0. Top' = Top
  BY DEF Top
<1>1. (\A o : ImageByte(o)' = ImageByte(o)) /\ (PlainParents' <=> PlainParents)
  BY SameImage
<1>2. Shape(disk)' <=> Shape(disk)
  BY <1>0 DEF Shape
<1>3. Leads(disk.table)' <=> Leads(disk.table)
  BY <1>0, <1>1 DEF Leads
<1>4. \A k : Complete(disk.table, k)' <=> Complete(disk.table, k)
  BY <1>0, <1>1 DEF Complete
<1>5. \A k : OnDisk(disk, k)' <=> OnDisk(disk, k)
  BY <1>1, <1>3, <1>4 DEF OnDisk
<1>6. \A m : Copy(m)' <=> Copy(m)
  BY <1>0, <1>1 DEF Copy
<1>7. InMemory(disk, extra)' <=> InMemory(disk, extra)
  BY <1>6 DEF InMemory
<1>8. OnDisk(disk, Top.diskSize)' <=> OnDisk(disk, Top.diskSize)
  BY <1>0, <1>1, <1>3 DEF OnDisk, Complete
<1>9. Served(disk, extra)' <=> Served(disk, extra)
  BY <1>7, <1>8 DEF Served
<1> QED BY <1>2, <1>5, <1>9

\* A disk not yet mapped maps nothing.
LEMMA StartingMaps ==
  ASSUME NEW disk, Starting(disk)
  PROVE  TableOk(disk.table) /\ \A o, a : ~Maps(disk.table.segs, o, a)
<1>1. disk.table = Empty
  BY DEF Starting
<1>2. Empty.segs \in Seq(Segment) /\ \A o, a : ~Maps(Empty.segs, o, a)
  BY EmptyMaps
<1>3. Empty = [segs |-> Empty.segs, total |-> Empty.total]
  BY DEF Empty
<1> QED BY <1>1, <1>2, <1>3 DEF TableOk

\* What makes Built true again after a step that opens no parent.
BuiltAs(x, i, y, phase) ==
  /\ Shape(x)
  /\ phase \in {"replace", "source", "parents"} => Starting(x) /\ i = 0
  /\ phase = "map" => i \in Nat /\ OnDisk(x, i * Top.block) /\ x.overlays = <<>>
  /\ phase = "memory" => Served(x, <<>>) /\ OnDisk(x, Top.diskSize) /\ x.overlays = <<>>
  /\ phase = "attach" => Served(x, <<>>)
  /\ phase \in {"ready", "answered"} => Served(x, y) /\ EndsBy(y, x.size)

\* A step that opens no parent keeps Built if the new disk fits the new phase.
LEMMA Rebuilt ==
  ASSUME UNCHANGED <<chain, volume, image>>, NEW x, x = vbio', NEW i, i = index',
         NEW y, y = patches', NEW phase, phase = pc', BuiltAs(x, i, y, phase)
  PROVE  Built'
<1>0. Top' = Top
  BY DEF Top
<1>1. Shape(x)'
  BY SameDisk DEF BuiltAs
<1>2. phase \in {"replace", "source", "parents"} => Starting(x) /\ i = 0
  BY DEF BuiltAs
<1>3. ASSUME phase = "map" PROVE i \in Nat /\ OnDisk(x, i * Top.block)' /\ x.overlays = <<>>
  <2>1. PICK k : k = i * Top.block
    OBVIOUS
  <2>2. OnDisk(x, k)
    BY <1>3, <2>1 DEF BuiltAs
  <2>3. OnDisk(x, k)'
    BY <2>2, SameDisk
  <2> QED BY <1>0, <1>3, <2>1, <2>3 DEF BuiltAs
<1>4. ASSUME phase = "memory"
      PROVE  Served(x, <<>>)' /\ OnDisk(x, Top.diskSize)' /\ x.overlays = <<>>
  <2>1. PICK k : k = Top.diskSize
    OBVIOUS
  <2>2. OnDisk(x, k) /\ Served(x, <<>>)
    BY <1>4, <2>1 DEF BuiltAs
  <2>3. OnDisk(x, k)' /\ Served(x, <<>>)'
    BY <2>2, SameDisk
  <2> QED BY <1>0, <1>4, <2>1, <2>3 DEF BuiltAs
<1>5. phase = "attach" => Served(x, <<>>)'
  BY SameDisk DEF BuiltAs
<1>6. phase \in {"ready", "answered"} => Served(x, y)' /\ EndsBy(y, x.size)
  BY SameDisk DEF BuiltAs
<1> QED BY <1>1, <1>2, <1>3, <1>4, <1>5, <1>6 DEF Built

\* Before the first block there is nothing to be complete about.
LEMMA FirstBlocks ==
  ASSUME Settings, NEW disk, Starting(disk)
  PROVE  OnDisk(disk, 0 * Top.block) /\ disk.overlays = <<>>
<1>1. SoundFile(Top)
  BY VolumesAssumption DEF Settings, Top
<1>2. Top.block \in Nat
  BY <1>1, FileTypes
<1>3. 0 * Top.block = 0
  BY <1>2
<1>4. \A o, a : ~Maps(disk.table.segs, o, a)
  BY StartingMaps
<1>5. Complete(disk.table, 0 * Top.block)
  BY <1>3 DEF Complete
<1> QED BY <1>4, <1>5 DEF OnDisk, Inside, Leads, Starting

\* A plain image's bytes lie where its extents lead.
LEMMA PlainImage ==
  ASSUME Opened, Top.format \notin Layered, NEW o
  PROVE  ImageByte(o) = StoredAt(Top, o)
<1>1. ChainOk
  BY DEF Opened
<1>2. Parent(1) = Top /\ Len(chain) \in Nat /\ ~(1 > Len(chain))
  BY <1>1 DEF ChainOk, Parent, Top
<1>3. LayerAt(1, o) = LayerStep(LayerAt(1 + 1, o), 1, o)
  BY <1>2, LayerEquation
<1>4. LayerStep(LayerAt(1 + 1, o), 1, o) = StoredAt(Top, o)
  BY <1>2, Zenon DEF LayerStep
<1> QED BY <1>3, <1>4, ImageIsLayer

\* MapPlain maps all of a plain image, and nothing else.
LEMMA MapPlainBuilt ==
  ASSUME Settings, Opened, Built, pc = "source", Top.format \notin Layered,
         NEW x, x = [vbio EXCEPT !.table = PlainTable(Top, vbio.size)]
  PROVE  Shape(x) /\ Served(x, <<>>) /\ OnDisk(x, Top.diskSize) /\ x.overlays = <<>>
<1> DEFINE table == PlainTable(Top, vbio.size)
<1>1. SoundFile(Top)
  BY VolumesAssumption DEF Settings, Top
<1>2. Shape(vbio) /\ Starting(vbio)
  BY DEF Built
<1>3. vbio.size \in Nat /\ Top.diskSize <= vbio.size /\ Top.diskSize \in Nat
  BY <1>1, <1>2, FileTypes DEF Shape
<1>4. /\ TableOk(table) /\ table.total = vbio.size
      /\ \A o \in Nat : \A a : Maps(table.segs, o, a) =>
           a = StoredAt(Top, o) /\ a \in Nat /\ a < Device
      /\ \A o \in Nat : o < Top.diskSize /\ o < vbio.size => \E a : Maps(table.segs, o, a)
  BY <1>1, <1>3, PlainTableMaps
<1>5. \A o : ImageByte(o) = StoredAt(Top, o)
  BY PlainImage
<1> HIDE DEF table
<1>6. /\ x = [table |-> table, size |-> vbio.size, block |-> vbio.block,
              overlays |-> vbio.overlays, blocks |-> vbio.blocks]
  BY <1>2 DEF Shape, table
<1>7. /\ x.table = table /\ x.size = vbio.size /\ x.block = vbio.block
      /\ x.overlays = vbio.overlays /\ x.blocks = vbio.blocks
  BY <1>6
<1>8. Shape(x)
  BY <1>2, <1>4, <1>6, <1>7 DEF Shape
<1>9. Inside(table) /\ Leads(table) /\ Complete(table, Top.diskSize)
  <2>1. Inside(table) /\ Leads(table)
    BY <1>4, <1>5 DEF Inside, Leads
  <2>2. Complete(table, Top.diskSize)
    BY <1>3, <1>4 DEF Complete
  <2> QED BY <2>1, <2>2
<1>10. OnDisk(x, Top.diskSize) /\ x.overlays = <<>>
  BY <1>2, <1>7, <1>9 DEF OnDisk, Starting
<1> QED BY <1>3, <1>4, <1>7, <1>8, <1>10 DEF Served

\* MapBlock maps one block more of the image, to the right bytes.
LEMMA MapBlockBuilt ==
  ASSUME Settings, Opened, Built, pc = "map", index < Blocks(Top), BlockPieces(Top, index).ok,
         NEW x, x = [vbio EXCEPT !.table = AddSegments(@, BlockPieces(Top, index).pieces)]
  PROVE  /\ Shape(x) /\ index + 1 \in Nat /\ OnDisk(x, (index + 1) * Top.block)
         /\ x.overlays = <<>>
<1> DEFINE pieces == BlockPieces(Top, index).pieces
           old == vbio.table
           table == AddSegments(old, pieces)
           R == BlockRange(Top, index)
<1>1. SoundFile(Top)
  BY VolumesAssumption DEF Settings, Top
<1>2. /\ Shape(vbio) /\ index \in Nat /\ OnDisk(vbio, index * Top.block) /\ vbio.overlays = <<>>
  BY DEF Built
<1>3. Fits(pieces, 1, R)
  BY <1>2, BlockFits DEF Opened
<1> HIDE DEF pieces
<1>4. pieces \in Seq(Piece) /\ old.segs \in Seq(Segment)
  BY <1>2, <1>3 DEF Fits, Shape, TableOk
<1>5. /\ TableOk(table)
      /\ \A o \in Nat : \A a : Maps(table.segs, o, a)
              <=> Maps(old.segs, o, a) \/ \E p \in ToSet(pieces) : PieceMaps(p, o, a)
  BY <1>4, AddSegmentsMaps, AddSegmentsOk
<1> HIDE DEF table
<1>6. /\ x = [table |-> table, size |-> vbio.size, block |-> vbio.block,
              overlays |-> vbio.overlays, blocks |-> vbio.blocks]
  BY <1>2 DEF Shape, table, pieces
<1>7. /\ x.table = table /\ x.size = vbio.size /\ x.block = vbio.block
      /\ x.overlays = vbio.overlays /\ x.blocks = vbio.blocks
  BY <1>6
<1>8. Shape(x)
  BY <1>2, <1>5, <1>6, <1>7 DEF Shape
<1>9. \A o : ImageByte(o) = LayerAt(1, o)
  BY ImageIsLayer
<1>10. \A p \in ToSet(pieces) : \A o \in Nat : \A a : PieceMaps(p, o, a) =>
         o \in R /\ a \in Nat /\ a < Device /\ (PlainParents => a = ImageByte(o))
  BY <1>3, <1>9 DEF Fits
<1>11. PlainParents => \A o \in R :
         ImageByte(o) = Zero \/ \E p \in ToSet(pieces) : \E a : PieceMaps(p, o, a)
  BY <1>3, <1>9 DEF Fits
<1>12. Inside(table)
  BY <1>2, <1>5, <1>10 DEF Inside, OnDisk
<1>13. ASSUME PlainParents PROVE Leads(table)
  <2>1. Leads(old)
    BY <1>2, <1>13 DEF OnDisk
  <2> QED BY <1>5, <1>10, <1>13, <2>1 DEF Leads
<1>14. ASSUME PlainParents PROVE Complete(table, (index + 1) * Top.block)
  <2> SUFFICES ASSUME NEW o \in Nat, o < (index + 1) * Top.block, o < Top.diskSize
               PROVE  ImageByte(o) = Zero \/ \E a : Maps(table.segs, o, a)
    BY DEF Complete
  <2>0. /\ BlockStart(Top, index) = index * Top.block /\ BlockStart(Top, index) \in Nat
        /\ BlockEnd(Top, index) = Top.diskSize \/ BlockEnd(Top, index) = (index + 1) * Top.block
    BY <1>1, <1>2, BlockFacts
  <2>1. CASE o < index * Top.block
    <3>1. Complete(old, index * Top.block)
      BY <1>2, <1>14 DEF OnDisk
    <3>2. ImageByte(o) = Zero \/ \E a : Maps(old.segs, o, a)
      BY <2>1, <3>1 DEF Complete
    <3> QED BY <1>5, <3>2
  <2>2. CASE ~(o < index * Top.block)
    <3>1. BlockStart(Top, index) <= o
      BY <2>0, <2>2
    <3>2. o < BlockEnd(Top, index)
      BY <2>0
    <3>3. o \in R
      BY <3>1, <3>2 DEF BlockRange
    <3>4. ImageByte(o) = Zero \/ \E p \in ToSet(pieces) : \E a : PieceMaps(p, o, a)
      BY <1>11, <1>14, <3>3
    <3> QED BY <1>5, <3>4
  <2> QED BY <2>1, <2>2
<1>15. OnDisk(x, (index + 1) * Top.block)
  BY <1>2, <1>7, <1>12, <1>13, <1>14 DEF OnDisk
<1> QED BY <1>2, <1>7, <1>8, <1>15

IsDisk(disk) ==
  disk = [table |-> disk.table, size |-> disk.size, block |-> disk.block,
          overlays |-> disk.overlays, blocks |-> disk.blocks]

IsResized(x, disk, t, n) == x = [disk EXCEPT !.table = t, !.size = n]

\* The fields of a disk with a new table and size.
LEMMA Resized ==
  ASSUME NEW disk, IsDisk(disk), NEW t, NEW n, NEW x, IsResized(x, disk, t, n)
  PROVE  /\ x.table = t /\ x.size = n /\ x.block = disk.block
         /\ x.overlays = disk.overlays /\ x.blocks = disk.blocks /\ IsDisk(x)
<1>1. disk = [table |-> disk.table, size |-> disk.size, block |-> disk.block,
              overlays |-> disk.overlays, blocks |-> disk.blocks]
  BY DEF IsDisk
<1>2. x = [table |-> t, size |-> n, block |-> disk.block,
           overlays |-> disk.overlays, blocks |-> disk.blocks]
  BY <1>1 DEF IsResized
<1> QED BY <1>2 DEF IsDisk

\* After MapDone all of the image is mapped.
LEMMA MapDoneBuilt ==
  ASSUME Settings, Opened, Built, pc = "map", index = Blocks(Top),
         NEW x, IsResized(x, vbio, Optimize(Truncate(vbio.table, Top.diskSize)), Top.diskSize)
  PROVE  Shape(x) /\ Served(x, <<>>) /\ OnDisk(x, Top.diskSize) /\ x.overlays = <<>>
<1> DEFINE old == vbio.table
           cut == Truncate(old, Top.diskSize)
           table == Optimize(cut)
<1>1. SoundFile(Top)
  BY VolumesAssumption DEF Settings, Top
<1>2. /\ Shape(vbio) /\ index \in Nat /\ OnDisk(vbio, index * Top.block) /\ vbio.overlays = <<>>
  BY DEF Built
<1>3. Top.diskSize \in Nat /\ Top.block \in Nat /\ Top.block > 0
  BY <1>1, FileTypes
<1>4. Top.diskSize <= index * Top.block /\ index * Top.block \in Nat
  BY <1>3, DivUpFacts DEF Blocks
<1>5. old.segs \in Seq(Segment)
  BY <1>2 DEF Shape, TableOk
<1>6. /\ TableOk(cut) /\ cut.total = Top.diskSize
      /\ \A o \in Nat : \A a : Maps(cut.segs, o, a) <=> Maps(old.segs, o, a) /\ o < Top.diskSize
  BY <1>3, <1>5, TruncateMaps, TruncateOk
<1> HIDE DEF cut
<1>7. /\ TableOk(table) /\ table.total = Top.diskSize
      /\ \A o \in Nat : \A a : Maps(table.segs, o, a) <=> Maps(cut.segs, o, a)
  <2>1. cut = [segs |-> cut.segs, total |-> cut.total] /\ cut.segs \in Seq(Segment)
    BY <1>6 DEF TableOk
  <2> QED BY <1>6, <2>1, OptimizeMaps, OptimizeOk
<1>8. \A o \in Nat : \A a : Maps(table.segs, o, a) <=> Maps(old.segs, o, a) /\ o < Top.diskSize
  BY <1>6, <1>7
<1> HIDE DEF table
<1>9. IsDisk(vbio)
  BY <1>2 DEF Shape, IsDisk
<1>10. /\ x.table = table /\ x.size = Top.diskSize /\ x.block = vbio.block
       /\ x.overlays = vbio.overlays /\ x.blocks = vbio.blocks /\ IsDisk(x)
  <2>1. IsResized(x, vbio, table, Top.diskSize)
    BY DEF table, cut
  <2> QED BY <1>9, <2>1, Resized
<1>11. Shape(x)
  <2>2. vbio.block \in Nat /\ vbio.block > 0
    BY <1>2 DEF Shape
  <2>3. x.size \in Nat /\ Top.diskSize <= x.size
    BY <1>3, <1>10
  <2> QED BY <1>7, <1>10, <2>2, <2>3 DEF Shape, IsDisk
<1>12. Inside(table)
  BY <1>2, <1>8 DEF Inside, OnDisk
<1>13. ASSUME PlainParents PROVE Leads(table)
  <2>1. Leads(old)
    BY <1>2, <1>13 DEF OnDisk
  <2> QED BY <1>8, <2>1 DEF Leads
<1>14. ASSUME PlainParents PROVE Complete(table, Top.diskSize)
  <2>1. Complete(old, index * Top.block)
    BY <1>2, <1>14 DEF OnDisk
  <2> SUFFICES ASSUME NEW o \in Nat, o < Top.diskSize
               PROVE  ImageByte(o) = Zero \/ \E a : Maps(table.segs, o, a)
    BY DEF Complete
  <2>2. o < index * Top.block
    <3> DEFINE y == index * Top.block
    <3>1. y \in Nat /\ Top.diskSize <= y
      BY <1>4
    <3> HIDE DEF y
    <3>2. o < y
      BY <1>3, <3>1
    <3> QED BY <3>2 DEF y
  <2>3. ImageByte(o) = Zero \/ \E a : Maps(old.segs, o, a)
    BY <2>1, <2>2 DEF Complete
  <2> QED BY <1>8, <2>3
<1>15. OnDisk(x, Top.diskSize)
  BY <1>2, <1>10, <1>12, <1>13, <1>14 DEF OnDisk
<1> QED BY <1>2, <1>3, <1>7, <1>10, <1>11, <1>15 DEF Served

\* A read of the image through its table.
LEMMA ReadImage ==
  ASSUME NEW x, Shape(x), Top.diskSize \in Nat, OnDisk(x, Top.diskSize), x.overlays = <<>>,
         NEW n \in Nat, ReadVirtualBytes(x, 0, n).status = "Success"
  PROVE  LET data == ReadVirtualBytes(x, 0, n).data
         IN /\ data \in Seq(Int) /\ Len(data) = n
            /\ PlainParents => \A o \in Nat : o < Top.diskSize /\ o < n => data[o + 1] = ImageByte(o)
<1> DEFINE data == ReadVirtualBytes(x, 0, n).data
<1>1. /\ x.table.segs \in Seq(Segment) /\ x.size \in Nat /\ Top.diskSize <= x.size
  BY DEF Shape, TableOk
<1>2. x.overlays \in Overlays
  BY DEF Overlays
<1>3. /\ data = [k \in 1 .. n |-> data[k]]
      /\ \A k \in 1 .. n : Shows(x, 0 + k - 1, data[k])
  <2>1. 0 \in Nat
    OBVIOUS
  <2> QED BY <1>1, <1>2, <2>1, ReadShows
<1> HIDE DEF data
<1>4. \A o \in Nat : OverlayAt(x.overlays, o) = 0
  <2> SUFFICES ASSUME NEW o \in Nat PROVE OverlayAt(x.overlays, o) = 0
    OBVIOUS
  <2>1. OverlayAt(x.overlays, o) \in Nat
        /\ (OverlayAt(x.overlays, o) > 0 => OverlayAt(x.overlays, o) \in DOMAIN x.overlays)
    BY <1>2, TopOverlay
  <2>2. DOMAIN x.overlays = {}
    OBVIOUS
  <2> QED BY <2>1, <2>2
<1>5. ASSUME NEW k \in 1 .. n
      PROVE  /\ data[k] = Zero \/ Maps(x.table.segs, k - 1, data[k])
             /\ k - 1 < x.size /\ data[k] = Zero => Maps(x.table.segs, k - 1, data[k])
                                                     \/ \A a : ~Maps(x.table.segs, k - 1, a)
  <2>1. PICK o \in Nat : o = k - 1 /\ o = 0 + k - 1
    OBVIOUS
  <2>2. Shows(x, o, data[k]) /\ ~(OverlayAt(x.overlays, o) > 0)
    BY <1>3, <1>4, <2>1
  <2>3. x.blocks # NoDevice
    BY ConstantTypes DEF OnDisk, NoDevice
  <2>4. CASE o >= x.size
    <3>1. data[k] = Zero
      BY <2>2, <2>4, Zenon DEF Shows
    <3> QED BY <1>1, <2>1, <2>4, <3>1
  <2>5. CASE ~(o >= x.size)
    <3>1. \/ Maps(x.table.segs, o, data[k])
          \/ data[k] = Zero /\ \A a : ~Maps(x.table.segs, o, a)
      BY <2>2, <2>3, <2>5, Zenon DEF Shows
    <3> QED BY <2>1, <3>1
  <2> QED BY <2>4, <2>5
<1>6. \A k \in 1 .. n : data[k] \in Int
  <2> SUFFICES ASSUME NEW k \in 1 .. n PROVE data[k] \in Int
    OBVIOUS
  <2>1. k - 1 \in Nat
    OBVIOUS
  <2>2. data[k] = Zero \/ Maps(x.table.segs, k - 1, data[k])
    BY <1>5
  <2>3. Maps(x.table.segs, k - 1, data[k]) => data[k] \in Nat
    BY <2>1 DEF OnDisk, Inside
  <2> QED BY <2>2, <2>3 DEF Zero
<1>7. data \in Seq(Int) /\ Len(data) = n
  BY <1>3, <1>6
<1>8. ASSUME PlainParents, NEW o \in Nat, o < Top.diskSize, o < n
      PROVE  data[o + 1] = ImageByte(o)
  <2>1. o + 1 \in 1 .. n /\ (o + 1) - 1 = o /\ o < x.size
    BY <1>1, <1>8
  <2>2. PICK k \in 1 .. n : k = o + 1 /\ k - 1 = o
    BY <2>1
  <2>3. /\ data[k] = Zero \/ Maps(x.table.segs, o, data[k])
        /\ data[k] = Zero => Maps(x.table.segs, o, data[k]) \/ \A a : ~Maps(x.table.segs, o, a)
    BY <1>5, <2>1, <2>2
  <2>4. Leads(x.table) /\ Complete(x.table, Top.diskSize)
    BY <1>8 DEF OnDisk
  <2>5. Maps(x.table.segs, o, data[k]) => data[k] = ImageByte(o)
    BY <1>8, <2>4 DEF Leads
  <2>6. ImageByte(o) = Zero \/ \E a : Maps(x.table.segs, o, a)
    BY <1>8, <2>4 DEF Complete
  <2> QED BY <2>2, <2>3, <2>5, <2>6
<1> QED BY <1>7, <1>8 DEF data

IsLoaded(x, disk, t, l) == x = [disk EXCEPT !.table = t, !.overlays = l, !.blocks = NoDevice]

\* The fields of a disk in memory.
LEMMA Loaded ==
  ASSUME NEW disk, IsDisk(disk), NEW t, NEW l, NEW x, IsLoaded(x, disk, t, l)
  PROVE  /\ x.table = t /\ x.size = disk.size /\ x.block = disk.block
         /\ x.overlays = l /\ x.blocks = NoDevice /\ IsDisk(x)
<1>1. disk = [table |-> disk.table, size |-> disk.size, block |-> disk.block,
              overlays |-> disk.overlays, blocks |-> disk.blocks]
  BY DEF IsDisk
<1>2. x = [table |-> t, size |-> disk.size, block |-> disk.block,
           overlays |-> l, blocks |-> NoDevice]
  BY <1>1 DEF IsLoaded
<1> QED BY <1>2 DEF IsDisk

\* LoadIntoMemory makes a disk that holds a copy of the image.
LEMMA LoadBuilt ==
  ASSUME Settings, Opened, Built, pc = "memory",
         ReadBytes(vbio, TRUE, 0, vbio.size).status = "Success",
         NEW x, IsLoaded(x, vbio, Contiguous(0, vbio.size, vbio.block),
                         <<[at |-> 0, data |-> ReadBytes(vbio, TRUE, 0, vbio.size).data]>>)
  PROVE  Shape(x) /\ Served(x, <<>>)
<1> DEFINE n == vbio.size
           answer == ReadBytes(vbio, TRUE, 0, n)
           m == [at |-> 0, data |-> answer.data]
           table == Contiguous(0, n, vbio.block)
<1>1. SoundFile(Top)
  BY VolumesAssumption DEF Settings, Top
<1>2. Shape(vbio) /\ OnDisk(vbio, Top.diskSize) /\ vbio.overlays = <<>>
  BY DEF Built
<1>3. Top.diskSize \in Nat /\ n \in Nat /\ Top.diskSize <= n /\ vbio.block \in Nat /\ vbio.block > 0
  BY <1>1, <1>2, FileTypes DEF Shape
<1>4. /\ TableOk(table) /\ table.total \in Nat /\ n <= table.total
  BY <1>3, ConstantTypes, ContiguousTotal DEF TableOk
<1>5. /\ answer.data \in Seq(Int) /\ Len(answer.data) = n
      /\ PlainParents => \A o \in Nat : o < Top.diskSize /\ o < n => answer.data[o + 1] = ImageByte(o)
  <2>1. CASE n = 0
    <3>1. answer = Refuse("Success")
      BY <2>1, Zenon DEF ReadBytes
    <3> HIDE DEF answer
    <3>2. answer.data = <<>>
      BY <3>1 DEF Refuse
    <3>3. \A o \in Nat : ~(o < n)
      BY <2>1
    <3>4. <<>> \in Seq(Int) /\ Len(<<>>) = 0
      OBVIOUS
    <3> QED BY <2>1, <3>2, <3>3, <3>4
  <2>2. CASE n # 0
    <3>1. ~(0 + n > n)
      BY <1>3
    <3>2. answer = ReadVirtualBytes(vbio, 0, n)
      BY <2>2, <3>1, Zenon DEF ReadBytes
    <3>3. ReadVirtualBytes(vbio, 0, n).status = "Success"
      BY <3>2
    <3> HIDE DEF n, answer
    <3>4. LET data == ReadVirtualBytes(vbio, 0, n).data
          IN /\ data \in Seq(Int) /\ Len(data) = n
             /\ PlainParents => \A o \in Nat : o < Top.diskSize /\ o < n => data[o + 1] = ImageByte(o)
      BY <1>2, <1>3, <3>3, ReadImage
    <3> QED BY <3>2, <3>4
  <2> QED BY <2>1, <2>2
<1>6. IsDisk(vbio)
  BY <1>2 DEF Shape, IsDisk
<1> HIDE DEF answer, table
<1>7. /\ x.table = table /\ x.size = n /\ x.block = vbio.block
      /\ x.overlays = <<m>> /\ x.blocks = NoDevice /\ IsDisk(x)
  BY <1>6, Loaded DEF table, answer
<1>8. Shape(x)
  BY <1>3, <1>4, <1>7 DEF Shape, IsDisk
<1>9. m \in Overlay /\ m.at = 0 /\ m.data = answer.data
  BY <1>5 DEF Overlay
<1> HIDE DEF m, n
<1>10. Copy(m)
  <2>1. Top.diskSize <= Len(m.data)
    BY <1>3, <1>5, <1>9
  <2>2. ASSUME PlainParents, NEW o \in Nat, o < Top.diskSize
        PROVE  m.data[o + 1] = ImageByte(o)
    <3>1. o < n
      BY <1>3, <2>2
    <3> QED BY <1>5, <1>9, <2>2, <3>1
  <2> QED BY <1>9, <2>1, <2>2 DEF Copy
<1>11. x.overlays = <<m>> \o <<>>
  BY <1>7
<1>12. InMemory(x, <<>>)
  BY <1>7, <1>10, <1>11 DEF InMemory
<1> QED BY <1>4, <1>7, <1>8, <1>12 DEF Served

\* The size of a disk that holds a set of overlays.
LEMMA Enlarged ==
  ASSUME NEW size \in Nat, NEW overlays \in Overlays, NEW bound \in Nat, EndsBy(overlays, bound)
  PROVE  LET end == Max({size} \cup {o.at + Len(o.data) : o \in ToSet(overlays)})
         IN end \in Nat /\ size <= end /\ EndsBy(overlays, end)
<1> DEFINE S == {size} \cup {o.at + Len(o.data) : o \in ToSet(overlays)}
<1>1. \A i \in DOMAIN overlays : overlays[i].at \in Nat /\ Len(overlays[i].data) \in Nat
  BY OverlayType
<1>2. \A o \in ToSet(overlays) : \E i \in DOMAIN overlays : o = overlays[i]
  BY DEF ToSet
<1>3. \A i \in DOMAIN overlays : overlays[i] \in ToSet(overlays)
  BY DEF ToSet
<1>4. \A o \in ToSet(overlays) : o.at + Len(o.data) \in Nat /\ o.at + Len(o.data) <= bound
  BY <1>1, <1>2 DEF EndsBy
<1>5. S \in SUBSET Nat /\ size \in S /\ \A y \in S : y <= size + bound
  BY <1>4
<1>6. \A i \in DOMAIN overlays : overlays[i].at + Len(overlays[i].data) \in S
  BY <1>3
<1> HIDE DEF S
<1>7. Max(S) \in S /\ \A y \in S : Max(S) >= y
  <2>1. S # {} /\ size + bound \in Nat
    BY <1>5
  <2> QED BY <1>5, <2>1, MaxOfNaturals
<1>8. Max(S) \in Nat /\ size <= Max(S)
  BY <1>5, <1>7
<1>9. EndsBy(overlays, Max(S))
  <2> SUFFICES ASSUME NEW i \in DOMAIN overlays
               PROVE  overlays[i].at + Len(overlays[i].data) <= Max(S)
    BY DEF EndsBy
  <2>1. overlays[i].at + Len(overlays[i].data) \in S
    BY <1>6
  <2>2. overlays[i].at + Len(overlays[i].data) \in Nat
    BY <1>1
  <2> QED BY <1>7, <1>8, <2>1, <2>2
<1> QED BY <1>8, <1>9 DEF S

\* The fields of a disk with more overlays.
LEMMA OverlaysAdded ==
  ASSUME NEW disk, IsDisk(disk), TableOk(disk.table), NEW overlays
  PROVE  LET end == Max({disk.size} \cup {o.at + Len(o.data) : o \in ToSet(overlays)})
             x == AddMemoryOverlays(disk, overlays)
         IN /\ IsDisk(x) /\ x.size = end /\ x.block = disk.block /\ x.blocks = disk.blocks
            /\ x.overlays = disk.overlays \o overlays
            /\ TableOk(x.table) /\ x.table.segs = disk.table.segs
            /\ x.table.total = IF end > disk.size THEN end ELSE disk.table.total
<1> DEFINE end == Max({disk.size} \cup {o.at + Len(o.data) : o \in ToSet(overlays)})
           total == IF end > disk.size THEN end ELSE disk.table.total
           l == disk.overlays \o overlays
           t == [disk.table EXCEPT !.total = total]
           x == AddMemoryOverlays(disk, overlays)
<1>1. disk = [table |-> disk.table, size |-> disk.size, block |-> disk.block,
              overlays |-> disk.overlays, blocks |-> disk.blocks]
  BY DEF IsDisk
<1>2. x = [disk EXCEPT !.size = end, !.overlays = l, !.table.total = total]
  BY Zenon DEF AddMemoryOverlays
<1> HIDE DEF x, end, l, total
<1>3. x = [table |-> t, size |-> end, block |-> disk.block, overlays |-> l, blocks |-> disk.blocks]
  BY <1>1, <1>2
<1> HIDE DEF t
<1>4. IsDisk(x) /\ x.size = end /\ x.block = disk.block /\ x.blocks = disk.blocks
      /\ x.overlays = l /\ x.table = t
  BY <1>3 DEF IsDisk
<1>5. t = [segs |-> disk.table.segs, total |-> total]
  BY DEF t, TableOk
<1>6. TableOk(t) /\ t.segs = disk.table.segs /\ t.total = total
  BY <1>5 DEF TableOk
<1> QED BY <1>4, <1>6 DEF x, end, l, total

\* AddOverlays keeps the image and makes room for every overlay.
LEMMA AttachBuilt ==
  ASSUME Settings, Prepared, Built, pc = "attach", NEW x, x = AddMemoryOverlays(vbio, patches)
  PROVE  Shape(x) /\ Served(x, patches) /\ EndsBy(patches, x.size)
<1> DEFINE end == Max({vbio.size} \cup {o.at + Len(o.data) : o \in ToSet(patches)})
<1>1. Shape(vbio) /\ Served(vbio, <<>>)
  BY DEF Built
<1>2. IsDisk(vbio) /\ TableOk(vbio.table) /\ vbio.size \in Nat /\ Top.diskSize <= vbio.size
      /\ vbio.block \in Nat /\ vbio.block > 0
  BY <1>1 DEF Shape, IsDisk
<1>3. end \in Nat /\ vbio.size <= end /\ EndsBy(patches, end)
  <2>1. patches \in Overlays /\ append \in Nat /\ EndsBy(patches, append)
    BY DEF Prepared
  <2> QED BY <1>2, <2>1, Enlarged
<1>4. /\ IsDisk(x) /\ x.size = end /\ x.block = vbio.block /\ x.blocks = vbio.blocks
      /\ x.overlays = vbio.overlays \o patches
      /\ TableOk(x.table) /\ x.table.segs = vbio.table.segs
      /\ x.table.total = IF end > vbio.size THEN end ELSE vbio.table.total
  BY <1>2, OverlaysAdded
<1> HIDE DEF end
<1>5. Shape(x)
  <2>1. Top.diskSize <= x.size
    <3>1. Top.diskSize \in Nat
      BY DiskSizeType
    <3> QED BY <1>2, <1>3, <1>4, <3>1
  <2> QED BY <1>2, <1>3, <1>4, <2>1 DEF Shape, IsDisk
<1>6. x.table.total \in Nat /\ x.size <= x.table.total
  <2>1. vbio.table.total \in Nat /\ vbio.size <= vbio.table.total
    BY <1>1 DEF Served
  <2> QED BY <1>2, <1>3, <1>4, <2>1
<1>7. CASE OnDisk(vbio, Top.diskSize) /\ vbio.overlays = <<>>
  <2>1. x.overlays = patches
    <3>1. patches \in Seq(Overlay)
      BY DEF Prepared, Overlays
    <3> QED BY <1>4, <1>7, <3>1
  <2>2. OnDisk(x, Top.diskSize)
    BY <1>4, <1>7 DEF OnDisk, Inside, Leads, Complete
  <2> QED BY <1>3, <1>4, <1>5, <1>6, <2>1, <2>2 DEF Served
<1>8. CASE InMemory(vbio, <<>>)
  <2>1. PICK m : Copy(m) /\ vbio.overlays = <<m>> \o <<>> /\ vbio.blocks = NoDevice
    BY <1>8 DEF InMemory
  <2>2. <<m>> \o <<>> = <<m>>
    OBVIOUS
  <2>3. x.overlays = <<m>> \o patches
    BY <1>4, <2>1, <2>2
  <2>4. InMemory(x, patches)
    BY <1>4, <2>1, <2>3 DEF InMemory
  <2> QED BY <1>3, <1>4, <1>5, <1>6, <2>4 DEF Served
<1> QED BY <1>1, <1>7, <1>8 DEF Served

\* The disk is in order to begin with.
LEMMA BuiltInit ==
  ASSUME Init
  PROVE  Built
<1>1. SoundFile(Top)
  BY VolumesAssumption DEF Init, Top
<1>2. Top.diskSize \in Nat /\ Top.sector \in Nat /\ Top.sector > 0
  BY <1>1, FileTypes
<1>3. /\ vbio = [table |-> Empty, size |-> Top.diskSize, block |-> Top.sector,
                 overlays |-> <<>>, blocks |-> DeviceBlocks]
      /\ pc = "replace" /\ index = 0
  BY DEF Init
<1>4. /\ vbio.table = Empty /\ vbio.size = Top.diskSize /\ vbio.block = Top.sector
      /\ vbio.overlays = <<>> /\ vbio.blocks = DeviceBlocks
  BY <1>3
<1>5. Starting(vbio)
  BY <1>4 DEF Starting
<1>6. TableOk(vbio.table)
  BY <1>5, StartingMaps
<1>7. Shape(vbio)
  BY <1>2, <1>3, <1>4, <1>6 DEF Shape
<1> QED BY <1>3, <1>5, <1>7 DEF Built

\* Every step keeps the disk under construction in order.
LEMMA BuiltStep ==
  ASSUME Settings, Opened, Prepared, Built, [Next]_vars
  PROVE  Built'
<1>0. UNCHANGED <<volume, image, plugin>> /\ Top' = Top /\ Top.diskSize \in Nat
  BY Frame, DiskSizeType DEF Top
<1>1. PICK x, i, y, phase : x = vbio' /\ i = index' /\ y = patches' /\ phase = pc'
  OBVIOUS
<1>2. CASE OpenParent
  <2>1. /\ vbio' = vbio /\ index' = index /\ pc = "parents" /\ pc' \in {"parents", "failed"}
    BY <1>2 DEF OpenParent
  <2>2. Shape(vbio) /\ Starting(vbio) /\ index = 0
    BY <2>1 DEF Built
  <2>3. Shape(vbio)'
    BY <1>0, <2>1, <2>2 DEF Shape
  <2> QED BY <2>1, <2>2, <2>3 DEF Built, Starting
<1>3. ASSUME ~OpenParent, BuiltAs(x, i, y, phase) PROVE Built'
  <2>1. UNCHANGED <<chain, volume, image>>
    BY <1>0, <1>3, Frame
  <2> QED BY <1>1, <1>3, <2>1, Rebuilt
<1>4. CASE RulesDone
  <2>1. /\ phase = "source" /\ pc = "replace" /\ i = index
        /\ x = [vbio EXCEPT !.size = IF patches = <<>> THEN vbio.size ELSE Max({vbio.size, append})]
    BY <1>1, <1>4 DEF RulesDone, build
  <2>2. Shape(vbio) /\ Starting(vbio) /\ index = 0
    BY <2>1 DEF Built
  <2>3. PICK s \in Nat : vbio.size <= s /\ x = [vbio EXCEPT !.size = s]
    <3>1. vbio.size \in Nat /\ append \in Nat
      BY <2>2 DEF Shape, Prepared
    <3>2. Max({vbio.size, append}) \in Nat /\ Max({vbio.size, append}) >= vbio.size
      BY <3>1, LargestOfTwo
    <3>3. CASE patches = <<>>
      BY <2>1, <3>1, <3>3
    <3>4. CASE patches # <<>>
      BY <2>1, <3>1, <3>2, <3>4
    <3> QED BY <3>3, <3>4
  <2>4. x = [table |-> vbio.table, size |-> s, block |-> vbio.block,
             overlays |-> vbio.overlays, blocks |-> vbio.blocks]
    BY <2>2, <2>3 DEF Shape
  <2>5. /\ x.table = vbio.table /\ x.size = s /\ x.block = vbio.block
        /\ x.overlays = vbio.overlays /\ x.blocks = vbio.blocks
    BY <2>4
  <2>6. Top.diskSize <= s
    BY <1>0, <2>2, <2>3 DEF Shape
  <2>7. Shape(x)
    BY <2>2, <2>4, <2>5, <2>6 DEF Shape
  <2>8. Starting(x)
    BY <2>2, <2>5 DEF Starting
  <2>9. BuiltAs(x, i, y, phase)
    BY <2>1, <2>2, <2>7, <2>8 DEF BuiltAs
  <2>10. ~OpenParent
    BY <2>1 DEF OpenParent
  <2> QED BY <1>3, <2>9, <2>10
<1>5. CASE MapPlain
  <2>1. /\ phase = "memory" /\ pc = "source" /\ Top.format \notin Layered
        /\ x = [vbio EXCEPT !.table = PlainTable(Top, vbio.size)]
    BY <1>1, <1>5 DEF MapPlain
  <2>2. Shape(x) /\ Served(x, <<>>) /\ OnDisk(x, Top.diskSize) /\ x.overlays = <<>>
    BY <2>1, MapPlainBuilt
  <2>3. BuiltAs(x, i, y, phase)
    BY <2>1, <2>2 DEF BuiltAs
  <2>4. ~OpenParent
    BY <2>1 DEF OpenParent
  <2> QED BY <1>3, <2>3, <2>4
<1>6. CASE OpenLayered \/ (ParentsDone /\ ~OpenParent)
  <2>1. /\ pc \in {"source", "parents"} /\ x = vbio /\ i = index
        /\ phase = "map" \/ phase = "parents"
    BY <1>1, <1>6 DEF OpenLayered, ParentsDone, build
  <2>2. Shape(x) /\ Starting(x) /\ i = 0
    BY <2>1 DEF Built
  <2>3. OnDisk(x, i * Top.block) /\ x.overlays = <<>>
    BY <2>2, FirstBlocks
  <2>4. BuiltAs(x, i, y, phase)
    BY <2>1, <2>2, <2>3 DEF BuiltAs
  <2>5. ~OpenParent
    BY <1>6 DEF OpenLayered, OpenParent
  <2> QED BY <1>3, <2>4, <2>5
<1>7. CASE MapBlock /\ BlockPieces(Top, index).ok
  <2>1. /\ pc = "map" /\ phase = "map" /\ index < Blocks(Top) /\ i = index + 1
        /\ x = [vbio EXCEPT !.table = AddSegments(@, BlockPieces(Top, index).pieces)]
    BY <1>1, <1>7 DEF MapBlock
  <2>2. Shape(x) /\ i \in Nat /\ OnDisk(x, i * Top.block) /\ x.overlays = <<>>
    BY <1>7, <2>1, MapBlockBuilt
  <2>3. BuiltAs(x, i, y, phase)
    BY <2>1, <2>2 DEF BuiltAs
  <2>4. ~OpenParent
    BY <2>1 DEF OpenParent
  <2> QED BY <1>3, <2>3, <2>4
<1>8. CASE MapDone
  <2>1. /\ pc = "map" /\ phase = "memory" /\ index = Blocks(Top)
    BY <1>1, <1>8 DEF MapDone
  <2>1a. IsResized(x, vbio, Optimize(Truncate(vbio.table, Top.diskSize)), Top.diskSize)
    BY <1>1, <1>8, Zenon DEF MapDone, IsResized
  <2>2. Shape(x) /\ Served(x, <<>>) /\ OnDisk(x, Top.diskSize) /\ x.overlays = <<>>
    BY <2>1, <2>1a, MapDoneBuilt
  <2>3. BuiltAs(x, i, y, phase)
    BY <2>1, <2>2 DEF BuiltAs
  <2>4. ~OpenParent
    BY <2>1 DEF OpenParent
  <2> QED BY <1>3, <2>3, <2>4
<1>9. CASE LoadIntoMemory /\ ReadBytes(vbio, TRUE, 0, vbio.size).status = "Success"
  <2>1. /\ pc = "memory" /\ phase = "attach"
    BY <1>1, <1>9 DEF LoadIntoMemory
  <2>1a. IsLoaded(x, vbio, Contiguous(0, vbio.size, vbio.block),
                  <<[at |-> 0, data |-> ReadBytes(vbio, TRUE, 0, vbio.size).data]>>)
    BY <1>1, <1>9, Zenon DEF LoadIntoMemory, IsLoaded
  <2>2. Shape(x) /\ Served(x, <<>>)
    BY <1>9, <2>1, <2>1a, LoadBuilt
  <2>3. BuiltAs(x, i, y, phase)
    BY <2>1, <2>2 DEF BuiltAs
  <2>4. ~OpenParent
    BY <2>1 DEF OpenParent
  <2> QED BY <1>3, <2>3, <2>4
<1>10. CASE StayOnDisk
  <2>1. pc = "memory" /\ phase = "attach" /\ x = vbio
    BY <1>1, <1>10 DEF StayOnDisk
  <2>2. Shape(x) /\ Served(x, <<>>)
    BY <2>1 DEF Built
  <2>3. BuiltAs(x, i, y, phase)
    BY <2>1, <2>2 DEF BuiltAs
  <2>4. ~OpenParent
    BY <2>1 DEF OpenParent
  <2> QED BY <1>3, <2>3, <2>4
<1>11. CASE AddOverlays
  <2>1. pc = "attach" /\ phase = "ready" /\ x = AddMemoryOverlays(vbio, patches) /\ y = patches
    BY <1>1, <1>11 DEF AddOverlays, build
  <2>2. Shape(x) /\ Served(x, y) /\ EndsBy(y, x.size)
    BY <2>1, AttachBuilt
  <2>3. BuiltAs(x, i, y, phase)
    BY <2>1, <2>2 DEF BuiltAs
  <2>4. ~OpenParent
    BY <2>1 DEF OpenParent
  <2> QED BY <1>3, <2>3, <2>4
<1>12. ASSUME ~OpenParent, x = vbio, i = index,
              phase = "failed" \/ phase = pc \/ (pc = "ready" /\ phase = "answered")
                \/ (pc = "answered" /\ phase = "ready"),
              pc \in {"ready", "answered"} => y = patches
       PROVE  Built'
  <2>1. BuiltAs(x, i, y, phase)
    BY <1>12 DEF BuiltAs, Built
  <2> QED BY <1>3, <1>12, <2>1
<1>13. pc \in {"ready", "answered"} => y = patches
  BY <1>1, Frame DEF ReplaceFile
<1>14. CASE MapBlock /\ ~BlockPieces(Top, index).ok
  <2>1. x = vbio /\ i = index /\ phase = "failed" /\ pc = "map"
    BY <1>1, <1>14 DEF MapBlock
  <2>2. ~OpenParent
    BY <2>1 DEF OpenParent
  <2> QED BY <1>12, <1>13, <2>1, <2>2
<1>15. CASE LoadIntoMemory /\ ReadBytes(vbio, TRUE, 0, vbio.size).status # "Success"
  <2>1. x = vbio /\ i = index /\ phase = "failed" /\ pc = "memory"
    BY <1>1, <1>15 DEF LoadIntoMemory, build
  <2>2. ~OpenParent
    BY <2>1 DEF OpenParent
  <2> QED BY <1>12, <1>13, <2>1, <2>2
<1>16. CASE /\ ~OpenParent /\ ~RulesDone /\ ~MapPlain /\ ~OpenLayered /\ ~ParentsDone /\ ~MapBlock
            /\ ~MapDone /\ ~LoadIntoMemory /\ ~StayOnDisk /\ ~AddOverlays
  <2>1. x = vbio /\ i = index
    BY <1>1, <1>16, Frame
  <2>2. phase = "failed" \/ phase = pc \/ (pc = "ready" /\ phase = "answered")
                \/ (pc = "answered" /\ phase = "ready")
    BY <1>1, <1>16, Frame
  <2> QED BY <1>12, <1>13, <1>16, <2>1, <2>2
<1> QED BY <1>2, <1>4, <1>5, <1>6, <1>7, <1>8, <1>9, <1>10, <1>11, <1>14, <1>15, <1>16

---------------------------------------------------------------------------
(***************************************************************************)
(* Reading the finished disk.                                              *)
(***************************************************************************)
\* The settings and the chain of one image are in order to begin with.
LEMMA SettingsInit ==
  ASSUME Init
  PROVE  Settings /\ Opened
<1>1. Settings
  BY DEF Init, Settings
<1>2. SoundFile(Top)
  BY <1>1, VolumesAssumption DEF Settings, Top
<1>3. chain = <<image>> /\ image \in DOMAIN volume /\ pc = "replace"
  BY DEF Init
<1>4. Len(chain) = 1 /\ chain[1] = image /\ chain \in Seq(DOMAIN volume)
  BY <1>3
<1>5. Parent(1) = Top
  BY <1>4 DEF Parent, Top
<1>6. \A i \in 1 .. Len(chain) : i = 1 /\ ~(i > 1)
  BY <1>4
<1>7. ChainOk
  BY <1>2, <1>4, <1>5, <1>6 DEF ChainOk
<1> QED BY <1>1, <1>3, <1>4, <1>7 DEF Opened

\* The patches that hold an offset, and the latest of them.
LEMMA CoveringFacts ==
  ASSUME patches \in Overlays, NEW o \in Nat
  PROVE  /\ \A i \in DOMAIN patches : i \in Covering(o) <=> Covers(patches[i], o)
         /\ Covering(o) \in SUBSET DOMAIN patches
         /\ Covering(o) # {} => /\ Max(Covering(o)) \in Covering(o)
                                /\ \A i \in Covering(o) : i <= Max(Covering(o))
<1>1. \A i \in DOMAIN patches : patches[i].at \in Nat /\ Len(patches[i].data) \in Nat
  BY OverlayType
<1>2. \A i \in DOMAIN patches : i \in Covering(o) <=> Covers(patches[i], o)
  BY <1>1 DEF Covering, Covers
<1>3. Covering(o) \in SUBSET DOMAIN patches
  BY DEF Covering
<1>4. DOMAIN patches = 1 .. Len(patches) /\ Len(patches) \in Nat
  BY DEF Overlays
<1>5. Covering(o) \in SUBSET Nat /\ \A i \in Covering(o) : i <= Len(patches)
  BY <1>3, <1>4
<1>6. Covering(o) # {} => /\ Max(Covering(o)) \in Covering(o)
                          /\ \A i \in Covering(o) : Max(Covering(o)) >= i
  BY <1>4, <1>5, MaxOfNaturals
<1>7. \A i, j \in Covering(o) : j >= i => i <= j
  BY <1>5
<1> QED BY <1>2, <1>3, <1>6, <1>7

\* What is read of the finished disk: zero behind its end, the latest patch,
\* or the image.
IsByte(o, x) ==
  /\ o >= vbio.size => x = Zero
  /\ Covering(o) # {} =>
       x = patches[Max(Covering(o))].data[o - patches[Max(Covering(o))].at + 1]
  /\ PlainParents /\ o < Top.diskSize /\ Covering(o) = {} => x = ImageByte(o)

\* What shows on a disk read from the volume.
LEMMA ShownOnDisk ==
  ASSUME Settings, Prepared, Shape(vbio), EndsBy(patches, vbio.size),
         OnDisk(vbio, Top.diskSize), vbio.overlays = patches,
         NEW o \in Nat, NEW x, Shows(vbio, o, x)
  PROVE  IsByte(o, x)
<1> DEFINE top == OverlayAt(patches, o)
           C == Covering(o)
<1>1. patches \in Overlays /\ vbio.size \in Nat /\ Top.diskSize <= vbio.size /\ Top.diskSize \in Nat
  BY DiskSizeType DEF Prepared, Shape
<1>2. /\ \A i \in DOMAIN patches : i \in C <=> Covers(patches[i], o)
      /\ C \in SUBSET DOMAIN patches
      /\ C # {} => Max(C) \in C /\ \A i \in C : i <= Max(C)
  BY <1>1, CoveringFacts
<1>3. /\ top \in Nat
      /\ top > 0 => top \in DOMAIN patches /\ Covers(patches[top], o)
      /\ \A i \in DOMAIN patches : Covers(patches[i], o) => i <= top
  BY <1>1, TopOverlay
<1>4. \A i \in DOMAIN patches : i \in Nat /\ i > 0
  BY <1>1, OverlayType
<1>5. vbio.blocks # NoDevice
  BY ConstantTypes DEF OnDisk, NoDevice
<1>6. C # {} => o < vbio.size
  <2> SUFFICES ASSUME C # {} PROVE o < vbio.size
    OBVIOUS
  <2>1. PICK i \in DOMAIN patches : Covers(patches[i], o)
    BY <1>2
  <2>2. patches[i].at + Len(patches[i].data) <= vbio.size
        /\ patches[i].at \in Nat /\ Len(patches[i].data) \in Nat
    BY <1>1, <2>1, OverlayType DEF EndsBy
  <2> QED BY <1>1, <2>1, <2>2 DEF Covers
<1>7. C # {} => top = Max(C) /\ top > 0
  BY <1>2, <1>3, <1>4
<1>8. C = {} => ~(top > 0)
  BY <1>2, <1>3
<1> HIDE DEF top, C
<1>9. o >= vbio.size => x = Zero
  BY Zenon DEF Shows
<1>10. ASSUME C # {} PROVE x = patches[top].data[o - patches[top].at + 1]
  <2>1. ~(o >= vbio.size) /\ top > 0
    BY <1>1, <1>6, <1>7, <1>10
  <2> QED BY <2>1, Zenon DEF Shows, top
<1>11. ASSUME PlainParents, o < Top.diskSize, C = {} PROVE x = ImageByte(o)
  <2>1. ~(o >= vbio.size) /\ ~(top > 0)
    BY <1>1, <1>8, <1>11
  <2>2. \/ Maps(vbio.table.segs, o, x)
        \/ x = Zero /\ \A a : ~Maps(vbio.table.segs, o, a)
    BY <1>5, <2>1, Zenon DEF Shows, top
  <2>3. Leads(vbio.table) /\ Complete(vbio.table, Top.diskSize)
    BY <1>11 DEF OnDisk
  <2>4. Maps(vbio.table.segs, o, x) => x = ImageByte(o)
    BY <1>11, <2>3 DEF Leads
  <2>5. ImageByte(o) = Zero \/ \E a : Maps(vbio.table.segs, o, a)
    BY <1>11, <2>3 DEF Complete
  <2> QED BY <2>2, <2>4, <2>5
<1> QED BY <1>7, <1>9, <1>10, <1>11 DEF IsByte, C

\* What shows on a disk in memory.
LEMMA ShownInMemory ==
  ASSUME Settings, Prepared, Shape(vbio), EndsBy(patches, vbio.size),
         InMemory(vbio, patches), NEW o \in Nat, NEW x, Shows(vbio, o, x)
  PROVE  IsByte(o, x)
<1>0. PICK m : Copy(m) /\ vbio.overlays = <<m>> \o patches
  BY DEF InMemory
<1> DEFINE l == <<m>> \o patches
           top == OverlayAt(l, o)
           C == Covering(o)
<1>1. patches \in Overlays /\ vbio.size \in Nat /\ Top.diskSize <= vbio.size /\ Top.diskSize \in Nat
  BY DiskSizeType DEF Prepared, Shape
<1>1a. Len(patches) \in Nat /\ DOMAIN patches = 1 .. Len(patches)
  BY <1>1 DEF Overlays
<1>1b. m \in Overlay /\ m.at = 0 /\ Top.diskSize <= Len(m.data) /\ Len(m.data) \in Nat
  BY <1>0 DEF Copy, Overlay
<1>1c. /\ l \in Overlays /\ DOMAIN l = 1 .. (Len(patches) + 1) /\ l[1] = m
       /\ \A i \in DOMAIN patches : l[i + 1] = patches[i]
  BY <1>1, <1>1b DEF Overlays
<1> HIDE DEF l
<1>2. /\ \A i \in DOMAIN patches : i \in C <=> Covers(patches[i], o)
      /\ C \in SUBSET DOMAIN patches
      /\ C # {} => Max(C) \in C /\ \A i \in C : i <= Max(C)
  BY <1>1, CoveringFacts
<1>3. /\ top \in Nat
      /\ top > 0 => top \in DOMAIN l /\ Covers(l[top], o)
      /\ \A i \in DOMAIN l : Covers(l[i], o) => i <= top
  BY <1>1c, TopOverlay
<1>6. C # {} => o < vbio.size
  <2> SUFFICES ASSUME C # {} PROVE o < vbio.size
    OBVIOUS
  <2>1. PICK i \in DOMAIN patches : Covers(patches[i], o)
    BY <1>2
  <2>2. patches[i].at + Len(patches[i].data) <= vbio.size
        /\ patches[i].at \in Nat /\ Len(patches[i].data) \in Nat
    BY <1>1, <2>1, OverlayType DEF EndsBy
  <2> QED BY <1>1, <2>1, <2>2 DEF Covers
<1> HIDE DEF C, top
<1>6a. top > 1 => top - 1 \in C
  <2> SUFFICES ASSUME top > 1 PROVE top - 1 \in C
    OBVIOUS
  <2>1. top \in Nat /\ top \in 1 .. (Len(patches) + 1) /\ Covers(l[top], o)
    BY <1>1c, <1>3
  <2>2. top - 1 \in DOMAIN patches /\ (top - 1) + 1 = top
    BY <1>1a, <2>1
  <2>3. l[top] = patches[top - 1]
    BY <1>1c, <2>2
  <2> QED BY <1>2, <2>1, <2>2, <2>3
<1>7. ASSUME C # {} PROVE top = Max(C) + 1 /\ top > 0 /\ l[top] = patches[Max(C)]
  <2>1. PICK k \in DOMAIN patches : k = Max(C) /\ k \in C /\ \A i \in C : i <= k
    BY <1>2, <1>7
  <2>2. k \in Nat /\ k > 0 /\ k + 1 \in DOMAIN l /\ l[k + 1] = patches[k]
    BY <1>1a, <1>1c
  <2>3. k + 1 <= top
    BY <1>2, <1>3, <2>1, <2>2
  <2>4. top - 1 <= k
    BY <1>3, <1>6a, <2>1, <2>2, <2>3
  <2>5. top = k + 1
    BY <1>3, <2>2, <2>3, <2>4
  <2> QED BY <2>1, <2>2, <2>5
<1>8. ASSUME C = {}, o < Top.diskSize PROVE top = 1
  <2>1. Covers(l[1], o) /\ 1 \in DOMAIN l
    BY <1>1, <1>1a, <1>1b, <1>1c, <1>8 DEF Covers
  <2>2. 1 <= top
    BY <1>3, <2>1
  <2> QED BY <1>3, <1>6a, <1>8, <2>2
<1>9. o >= vbio.size => x = Zero
  BY Zenon DEF Shows
<1>10. ASSUME C # {} PROVE x = patches[Max(C)].data[o - patches[Max(C)].at + 1]
  <2>1. ~(o >= vbio.size) /\ top > 0
    BY <1>1, <1>6, <1>7, <1>10
  <2>2. x = l[top].data[o - l[top].at + 1]
    BY <1>0, <2>1, Zenon DEF Shows, top, l
  <2> QED BY <1>7, <1>10, <2>2
<1>11. ASSUME PlainParents, o < Top.diskSize, C = {} PROVE x = ImageByte(o)
  <2>1. ~(o >= vbio.size) /\ top > 0
    BY <1>1, <1>8, <1>11
  <2>2. x = l[top].data[o - l[top].at + 1]
    BY <1>0, <2>1, Zenon DEF Shows, top, l
  <2>3. l[top] = m /\ o - m.at + 1 = o + 1
    BY <1>1b, <1>1c, <1>8, <1>11
  <2> QED BY <1>0, <1>11, <2>2, <2>3 DEF Copy
<1> QED BY <1>9, <1>10, <1>11 DEF IsByte, C

\* Every read of the finished disk succeeds, and returns its bytes.
LEMMA FinishedReads ==
  ASSUME Settings, Prepared, Built, pc \in {"ready", "answered"}, NEW at \in Nat, NEW count \in Nat
  PROVE  LET answer == ReadVirtualBytes(vbio, at, count)
         IN /\ answer.status = "Success"
            /\ answer.data = [k \in 1 .. count |-> answer.data[k]]
            /\ \A k \in 1 .. count : IsByte(at + k - 1, answer.data[k])
<1> DEFINE answer == ReadVirtualBytes(vbio, at, count)
<1>1. Shape(vbio) /\ Served(vbio, patches) /\ EndsBy(patches, vbio.size)
  BY DEF Built
<1>2. /\ vbio.table.segs \in Seq(Segment) /\ vbio.size \in Nat
      /\ vbio.table.total \in Nat /\ vbio.size <= vbio.table.total
  BY <1>1 DEF Shape, Served, TableOk
<1>3. PhysicalBlock \in Nat /\ PhysicalBlock > 0 /\ DeviceBlocks \in Nat
  BY ConstantTypes
<1>4. CASE OnDisk(vbio, Top.diskSize) /\ vbio.overlays = patches
  <2>1. /\ vbio.blocks \in Nat
        /\ \A o \in Nat, a \in Nat : Maps(vbio.table.segs, o, a) => a < vbio.blocks * PhysicalBlock
    BY <1>3, <1>4 DEF OnDisk, Inside, Device
  <2>2. answer.status = "Success"
    BY <1>2, <1>3, <2>1, ReadSucceeds
  <2>3. vbio.overlays \in Overlays
    BY <1>4 DEF Prepared
  <2>4. /\ answer.data = [k \in 1 .. count |-> answer.data[k]]
        /\ \A k \in 1 .. count : Shows(vbio, at + k - 1, answer.data[k])
    BY <1>2, <2>2, <2>3, ReadShows
  <2> HIDE DEF answer
  <2>5. ASSUME NEW k \in 1 .. count PROVE IsByte(at + k - 1, answer.data[k])
    <3>1. at + k - 1 \in Nat
      OBVIOUS
    <3>2. PICK o \in Nat : o = at + k - 1
      BY <3>1
    <3>3. Shows(vbio, o, answer.data[k])
      BY <2>4, <3>2
    <3>4. IsByte(o, answer.data[k])
      BY <1>1, <1>4, <3>3, ShownOnDisk
    <3> QED BY <3>2, <3>4
  <2> QED BY <2>2, <2>4, <2>5 DEF answer
<1>5. CASE InMemory(vbio, patches)
  <2>1. PICK m : Copy(m) /\ vbio.overlays = <<m>> \o patches /\ vbio.blocks = NoDevice
    BY <1>5 DEF InMemory
  <2>2. answer.status = "Success"
    BY <1>2, <1>3, <2>1, ReadSucceeds
  <2>3. vbio.overlays \in Overlays
    <3>1. m \in Overlay /\ patches \in Seq(Overlay)
      BY <2>1 DEF Copy, Prepared, Overlays
    <3> QED BY <2>1, <3>1 DEF Overlays
  <2>4. /\ answer.data = [k \in 1 .. count |-> answer.data[k]]
        /\ \A k \in 1 .. count : Shows(vbio, at + k - 1, answer.data[k])
    BY <1>2, <2>2, <2>3, ReadShows
  <2> HIDE DEF answer
  <2>5. ASSUME NEW k \in 1 .. count PROVE IsByte(at + k - 1, answer.data[k])
    <3>1. at + k - 1 \in Nat
      OBVIOUS
    <3>2. PICK o \in Nat : o = at + k - 1
      BY <3>1
    <3>3. Shows(vbio, o, answer.data[k])
      BY <2>4, <3>2
    <3>4. IsByte(o, answer.data[k])
      BY <1>1, <1>5, <3>3, ShownInMemory
    <3> QED BY <3>2, <3>4
  <2> QED BY <2>2, <2>4, <2>5 DEF answer
<1> QED BY <1>1, <1>4, <1>5 DEF Served

\* Where a request reads, and the answers it may get.
StartOf(op, at) == IF op = "blocks" THEN at * vbio.block ELSE at
Refusals == {"MediaChanged", "OutOfBounds", "BadBufferSize", "WriteProtected"}

\* A request is refused, asks for nothing, or reads from where it starts.
LEMMA AnswerForms ==
  ASSUME NEW op \in {"bytes", "blocks", "write"}, NEW media, NEW at, NEW count
  PROVE  \/ count = 0 /\ Answer(op, media, at, count) = Refuse("Success")
         \/ \E s \in Refusals : Answer(op, media, at, count) = Refuse(s)
         \/ /\ op # "write"
            /\ Answer(op, media, at, count) = ReadVirtualBytes(vbio, StartOf(op, at), count)
<1>1. CASE op = "bytes"
  <2>1. /\ Answer(op, media, at, count) = ReadBytes(vbio, media, at, count)
        /\ StartOf(op, at) = at
    BY <1>1 DEF Answer, StartOf
  <2>2. \/ count = 0 /\ ReadBytes(vbio, media, at, count) = Refuse("Success")
        \/ ReadBytes(vbio, media, at, count) \in {Refuse("MediaChanged"), Refuse("OutOfBounds")}
        \/ ReadBytes(vbio, media, at, count) = ReadVirtualBytes(vbio, at, count)
    BY Zenon DEF ReadBytes
  <2> QED BY <1>1, <2>1, <2>2 DEF Refusals
<1>2. CASE op = "blocks"
  <2>1. /\ Answer(op, media, at, count) = ReadBlocks(vbio, media, at, count)
        /\ StartOf(op, at) = at * vbio.block
    BY <1>2 DEF Answer, StartOf
  <2>2. \/ count = 0 /\ ReadBlocks(vbio, media, at, count) = Refuse("Success")
        \/ ReadBlocks(vbio, media, at, count)
             \in {Refuse("MediaChanged"), Refuse("OutOfBounds"), Refuse("BadBufferSize")}
        \/ ReadBlocks(vbio, media, at, count) = ReadVirtualBytes(vbio, at * vbio.block, count)
    BY Zenon DEF ReadBlocks
  <2> QED BY <1>2, <2>1, <2>2 DEF Refusals
<1>3. CASE op = "write"
  <2>1. Answer(op, media, at, count) = WriteBlocks(count)
    BY <1>3 DEF Answer
  <2>2. \/ count = 0 /\ WriteBlocks(count) = Refuse("Success")
        \/ WriteBlocks(count) = Refuse("WriteProtected")
    BY Zenon DEF WriteBlocks
  <2> QED BY <2>1, <2>2 DEF Refusals
<1> QED BY <1>1, <1>2, <1>3

IsAnswer(a) == \E s, d, t : a = [status |-> s, data |-> d, touched |-> t]

\* read_virtual_bytes always returns a status, data and the blocks it touched.
LEMMA ReadIsAnswer ==
  ASSUME NEW disk, NEW at, NEW count
  PROVE  IsAnswer(ReadVirtualBytes(disk, at, count))
<1> DEFINE readable == Least(disk.size - at, count)
           pieces == ToSet(TranslateRangeSparse(disk.table, at, readable))
           touched == UNION {BlocksOf(p) : p \in pieces}
           Stored(k) ==
             LET p == {q \in pieces : k \in q.dst .. (q.dst + q.count - 1)}
             IN IF p = {} \/ disk.blocks = NoDevice THEN Zero
                ELSE LET q == CHOOSE q \in p : TRUE IN q.physical + (k - q.dst)
           Byte(k) ==
             LET o == IF k < readable THEN OverlayAt(disk.overlays, at + k) ELSE 0
             IN IF o > 0 THEN disk.overlays[o].data[at + k - disk.overlays[o].at + 1]
                ELSE Stored(k)
           full == [k \in 1 .. count |-> Byte(k - 1)]
           none == [k \in 1 .. count |-> Zero]
           Reply(status, data, blocks) ==
             [status |-> status, data |-> data, touched |-> blocks]
<1>1. ReadVirtualBytes(disk, at, count)
        = IF at >= disk.size THEN Reply("Success", none, {})
          ELSE IF at + readable > disk.table.total THEN Reply("InvalidMapping", <<>>, {})
          ELSE IF disk.blocks = NoDevice THEN Reply("Success", full, {})
          ELSE IF \E b \in touched : b >= disk.blocks THEN Reply("OutOfBounds", <<>>, touched)
          ELSE Reply("Success", full, touched)
  BY Zenon DEF ReadVirtualBytes
<1>2. \A s, d, t : IsAnswer(Reply(s, d, t))
  BY Zenon DEF IsAnswer
<1> HIDE DEF Reply, full, none, touched, readable
<1>3. ReadVirtualBytes(disk, at, count)
        \in {Reply("Success", none, {}), Reply("InvalidMapping", <<>>, {}), Reply("Success", full, {}),
             Reply("OutOfBounds", <<>>, touched), Reply("Success", full, touched)}
  BY <1>1, Zenon
<1> QED BY <1>2, <1>3

\* A request whose device read failed does not report success.
LEMMA FailedAnswer ==
  ASSUME NEW op \in {"bytes", "blocks", "write"}, NEW media, NEW at, NEW count
  PROVE  [Answer(op, media, at, count) EXCEPT !.status = "ReadFailed", !.data = <<>>].status
           = "ReadFailed"
<1>1. \A s : IsAnswer(Refuse(s))
  BY Zenon DEF Refuse, IsAnswer
<1>2. IsAnswer(Answer(op, media, at, count))
  BY <1>1, AnswerForms, ReadIsAnswer
<1>3. PICK s, d, t : Answer(op, media, at, count) = [status |-> s, data |-> d, touched |-> t]
  BY <1>2 DEF IsAnswer
<1> QED BY <1>3

\* The last request and its answer.
IsAnswered(x) ==
  /\ x.op \in {"bytes", "blocks", "write"} /\ x.at \in Nat /\ x.count \in Nat
  /\ ~x.fault => x.answer = Answer(x.op, x.media, x.at, x.count)
  /\ x.fault => x.answer.status = "ReadFailed"

Answered == IF pc = "answered" THEN IsAnswered(io) ELSE io = Idle

\* The fields of a request.
LEMMA RequestType ==
  ASSUME Shape(vbio), NEW r \in Requests
  PROVE  r.op \in {"bytes", "blocks", "write"} /\ r.at \in Nat /\ r.count \in Nat
<1>1. /\ vbio.size \in Nat /\ vbio.block \in Nat /\ vbio.block > 0 /\ MaxRead \in Nat
      /\ DivUp(vbio.size, vbio.block) \in Nat
  BY DivUpFacts, DiskAssumption DEF Shape
<1>2. CASE r \in [op : {"bytes"}, at : 0 .. (vbio.size + 1), count : 0 .. MaxRead]
  BY <1>1, <1>2
<1>3. CASE r \in [op : {"blocks"}, at : 0 .. DivUp(vbio.size, vbio.block),
                  count : {n * vbio.block : n \in 0 .. MaxRead} \cup {vbio.block + 1}]
  <2>1. {n * vbio.block : n \in 0 .. MaxRead} \cup {vbio.block + 1} \subseteq Nat
    <3>1. \A n \in 0 .. MaxRead : n * vbio.block \in Nat
      BY <1>1
    <3> QED BY <1>1, <3>1
  <2>2. 0 .. DivUp(vbio.size, vbio.block) \subseteq Nat
    BY <1>1
  <2> QED BY <1>3, <2>1, <2>2
<1>4. CASE r \in [op : {"write"}, at : {0}, count : {0, vbio.block}]
  BY <1>1, <1>4
<1> QED BY <1>2, <1>3, <1>4 DEF Requests

\* The answer on hand is always the answer to the request on hand.
LEMMA AnsweredStep ==
  ASSUME Built, Answered, [Next]_vars
  PROVE  Answered'
<1>0. Shape(vbio)
  BY DEF Built
<1>1. ASSUME NEW r \in Requests, NEW sameMedia, Request(r, sameMedia)
      PROVE  Answered'
  <2>1. r.op \in {"bytes", "blocks", "write"} /\ r.at \in Nat /\ r.count \in Nat
    BY <1>0, <1>1, RequestType
  <2>2. /\ io' = [op |-> r.op, at |-> r.at, count |-> r.count, fault |-> FALSE,
                  media |-> sameMedia, answer |-> Answer(r.op, sameMedia, r.at, r.count)]
        /\ pc' = "answered" /\ vbio' = vbio
    BY <1>1 DEF Request
  <2>3. PICK a : a = Answer(r.op, sameMedia, r.at, r.count)
    OBVIOUS
  <2>4. /\ io'.op = r.op /\ io'.at = r.at /\ io'.count = r.count /\ io'.fault = FALSE
        /\ io'.media = sameMedia /\ io'.answer = a
    BY <2>2, <2>3
  <2>5. PICK op, at, count : op = r.op /\ at = r.at /\ count = r.count
    OBVIOUS
  <2>6. Answer(op, sameMedia, at, count)' = Answer(op, sameMedia, at, count)
    BY <2>2 DEF Answer
  <2>7. Answer(op, sameMedia, at, count)' = a
    BY <2>3, <2>5, <2>6
  <2>8. IsAnswered(io)'
    BY <2>1, <2>4, <2>5, <2>7 DEF IsAnswered
  <2> QED BY <2>2, <2>8 DEF Answered
<1>2. ASSUME NEW r \in Requests, RequestFails(r)
      PROVE  Answered'
  <2>1. r.op \in {"bytes", "blocks", "write"} /\ r.at \in Nat /\ r.count \in Nat
    BY <1>0, <1>2, RequestType
  <2>2. PICK a : a = [Answer(r.op, TRUE, r.at, r.count)
                        EXCEPT !.status = "ReadFailed", !.data = <<>>]
    OBVIOUS
  <2>3. a.status = "ReadFailed"
    BY <2>1, <2>2, FailedAnswer
  <2>4. /\ io' = [op |-> r.op, at |-> r.at, count |-> r.count, fault |-> TRUE,
                  media |-> TRUE, answer |-> a]
        /\ pc' = "answered"
    BY <1>2, <2>2, Zenon DEF RequestFails
  <2>5. /\ io'.op = r.op /\ io'.at = r.at /\ io'.count = r.count /\ io'.fault = TRUE
        /\ io'.answer = a
    BY <2>4
  <2>6. IsAnswered(io)'
    BY <2>1, <2>3, <2>5 DEF IsAnswered
  <2> QED BY <2>4, <2>6 DEF Answered
<1>3. CASE Return
  BY <1>3 DEF Return, Answered, Idle
<1>4. CASE UNCHANGED vars
  BY <1>4 DEF vars, Answered, IsAnswered, Answer, Idle
<1>5. ASSUME pc # "answered", pc' # "answered", UNCHANGED io PROVE Answered'
  BY <1>5 DEF Answered, Idle
<1>6. CASE ReplaceFile \/ SkipRule \/ RulesDone
  BY <1>5, <1>6 DEF ReplaceFile, SkipRule, RulesDone
<1>7. CASE MapPlain \/ OpenLayered \/ ParentsDone
  BY <1>5, <1>7 DEF MapPlain, OpenLayered, ParentsDone
<1>8. CASE OpenParent
  BY <1>5, <1>8 DEF OpenParent
<1>9. CASE MapBlock \/ MapDone
  BY <1>5, <1>9 DEF MapBlock, MapDone
<1>10. CASE LoadIntoMemory
  BY <1>5, <1>10 DEF LoadIntoMemory
<1>11. CASE StayOnDisk \/ AddOverlays \/ BuildFails
  BY <1>5, <1>11 DEF StayOnDisk, AddOverlays, BuildFails
<1> QED BY <1>1, <1>2, <1>3, <1>4, <1>6, <1>7, <1>8, <1>9, <1>10, <1>11 DEF Next

---------------------------------------------------------------------------
(***************************************************************************)
(* The invariant and the theorems.                                         *)
(***************************************************************************)
Inv == Settings /\ Opened /\ Prepared /\ Built /\ Answered

\* The invariant holds to begin with.
LEMMA InvInit ==
  ASSUME Init
  PROVE  Inv
<1>1. Answered
  BY DEF Init, Answered
<1> QED BY <1>1, SettingsInit, PreparedInit, BuiltInit DEF Inv

\* Every step keeps the invariant.
LEMMA InvStep ==
  ASSUME Inv, [Next]_vars
  PROVE  Inv'
<1>1. Settings /\ Opened /\ Prepared /\ Built /\ Answered
  BY DEF Inv
<1>2. Settings' /\ Opened'
  BY <1>1, SettingsStep, OpenedStep
<1>3. Prepared' /\ Built' /\ Answered'
  BY <1>1, PreparedStep, BuiltStep, AnsweredStep
<1> QED BY <1>2, <1>3 DEF Inv

\* The invariant holds throughout, for every volume, chain, rule list and request.
THEOREM DiskInvariant == Spec => []Inv
<1>1. Init => Inv
  BY InvInit
<1>2. Inv /\ [Next]_vars => Inv'
  BY InvStep
<1> QED BY <1>1, <1>2, PTL DEF Spec

\* A refusal is no success, but for a request for nothing.
LEMMA RefusedStatus ==
  /\ Refuse("Success").status = "Success" /\ Refuse("Success").data = <<>>
  /\ \A s \in Refusals : Refuse(s).status # "Success"
<1>1. \A s : Refuse(s).status = s /\ Refuse(s).data = <<>>
  BY DEF Refuse
<1> QED BY <1>1 DEF Refusals

\* On a finished disk a request inside it succeeds.
LEMMA InvReadable ==
  ASSUME Inv
  PROVE  ReadableEverywhere
<1> DEFINE inside == \/ io.op = "bytes" /\ io.at + io.count <= vbio.size
                     \/ io.op = "blocks" /\ io.count % vbio.block = 0
                        /\ io.at + io.count \div vbio.block <= DivUp(vbio.size, vbio.block)
<1> SUFFICES ASSUME pc = "answered", io.media, ~io.fault, inside
             PROVE  io.answer.status = "Success"
  BY Zenon DEF ReadableEverywhere
<1>1. IsAnswered(io)
  BY DEF Inv, Answered
<1>2. /\ io.at \in Nat /\ io.count \in Nat
      /\ io.answer = Answer(io.op, io.media, io.at, io.count)
  BY <1>1 DEF IsAnswered
<1>3. vbio.size \in Nat /\ vbio.block \in Nat /\ vbio.block > 0 /\ DivUp(vbio.size, vbio.block) \in Nat
  BY DivUpFacts DEF Inv, Built, Shape
<1>4. \A at \in Nat : ReadVirtualBytes(vbio, at, io.count).status = "Success"
  BY <1>2, FinishedReads DEF Inv
<1>5. CASE io.op = "bytes" /\ io.at + io.count <= vbio.size
  <2>1. Answer(io.op, io.media, io.at, io.count) = ReadBytes(vbio, io.media, io.at, io.count)
    BY <1>5 DEF Answer
  <2>2. ~(io.at + io.count > vbio.size)
    BY <1>2, <1>3, <1>5
  <2>3. \/ ReadBytes(vbio, io.media, io.at, io.count) = Refuse("Success")
        \/ ReadBytes(vbio, io.media, io.at, io.count) = ReadVirtualBytes(vbio, io.at, io.count)
    BY <2>2, Zenon DEF ReadBytes
  <2> QED BY <1>2, <1>4, <2>1, <2>3, RefusedStatus
<1>6. CASE io.op = "blocks" /\ io.count % vbio.block = 0
           /\ io.at + io.count \div vbio.block <= DivUp(vbio.size, vbio.block)
  <2> DEFINE n == io.count \div vbio.block
  <2>1. Answer(io.op, io.media, io.at, io.count) = ReadBlocks(vbio, io.media, io.at, io.count)
    BY <1>6 DEF Answer
  <2>2. n \in Nat /\ io.at + n <= DivUp(vbio.size, vbio.block)
    BY <1>2, <1>3, <1>6, DivFacts
  <2> HIDE DEF n
  <2>3. ~(io.at + n > DivUp(vbio.size, vbio.block))
    BY <1>2, <1>3, <2>2
  <2>4. \/ ReadBlocks(vbio, io.media, io.at, io.count) = Refuse("Success")
        \/ ReadBlocks(vbio, io.media, io.at, io.count)
             = ReadVirtualBytes(vbio, io.at * vbio.block, io.count)
    BY <1>6, <2>3, Zenon DEF ReadBlocks, n
  <2>5. io.at * vbio.block \in Nat
    BY <1>2, <1>3
  <2> QED BY <1>2, <1>4, <2>1, <2>4, <2>5, RefusedStatus
<1> QED BY <1>5, <1>6

\* On a finished disk every byte read is the expected one.
LEMMA InvImage ==
  ASSUME Inv, PlainParents
  PROVE  ReadsReturnTheImage
<1> SUFFICES ASSUME io.answer.status = "Success", io.op \in {"bytes", "blocks"},
                    NEW k \in 1 .. io.count
             PROVE  LET offset == Offset + k - 1
                    IN /\ offset >= vbio.size => io.answer.data[k] = Zero
                       /\ offset < Top.diskSize \/ Covering(offset) # {}
                            => io.answer.data[k] = ExpectedByte(offset)
  BY Zenon DEF ReadsReturnTheImage
<1>1. pc = "answered"
  <2>1. Idle.op = "none"
    BY DEF Idle
  <2> QED BY <2>1 DEF Inv, Answered
<1>2. IsAnswered(io)
  BY <1>1 DEF Inv, Answered
<1>3. /\ io.at \in Nat /\ io.count \in Nat
      /\ io.answer = Answer(io.op, io.media, io.at, io.count)
  BY <1>2 DEF IsAnswered
<1>4. vbio.block \in Nat
  BY DEF Inv, Built, Shape
<1>5. Offset = StartOf(io.op, io.at) /\ Offset \in Nat
  <2>1. Offset = StartOf(io.op, io.at)
    BY DEF Offset, StartOf
  <2>2. io.at * vbio.block \in Nat
    BY <1>3, <1>4
  <2> QED BY <1>3, <2>1, <2>2 DEF Offset
<1>6. io.count # 0
  BY <1>3
<1>7. io.answer = ReadVirtualBytes(vbio, Offset, io.count)
  BY <1>3, <1>5, <1>6, AnswerForms, RefusedStatus
<1>8. PICK o : o = Offset + k - 1
  OBVIOUS
<1>9. IsByte(o, io.answer.data[k])
  BY <1>1, <1>3, <1>5, <1>7, <1>8, FinishedReads DEF Inv
<1>10. /\ o >= vbio.size => io.answer.data[k] = Zero
       /\ o < Top.diskSize \/ Covering(o) # {} => io.answer.data[k] = ExpectedByte(o)
  <2>1. CASE Covering(o) # {}
    <3>1. ExpectedByte(o) = patches[Max(Covering(o))].data[o - patches[Max(Covering(o))].at + 1]
      BY <2>1, Zenon DEF ExpectedByte
    <3> QED BY <1>9, <2>1, <3>1 DEF IsByte
  <2>2. CASE Covering(o) = {}
    <3>1. ExpectedByte(o) = ImageByte(o)
      BY <2>2, Zenon DEF ExpectedByte
    <3> QED BY <1>9, <2>2, <3>1 DEF IsByte
  <2> QED BY <2>1, <2>2
<1> QED BY <1>8, <1>10

\* The byte of the only, or the latest, patch at an offset.
LEMMA PatchShows ==
  ASSUME patches \in Overlays, NEW o \in Nat, NEW i \in DOMAIN patches, Covers(patches[i], o),
         \A k \in DOMAIN patches : k > i => ~Covers(patches[k], o), NEW x, IsByte(o, x)
  PROVE  x = patches[i].data[o - patches[i].at + 1]
<1>1. /\ \A k \in DOMAIN patches : k \in Covering(o) <=> Covers(patches[k], o)
      /\ Covering(o) \in SUBSET DOMAIN patches
      /\ Covering(o) # {} => /\ Max(Covering(o)) \in Covering(o)
                             /\ \A k \in Covering(o) : k <= Max(Covering(o))
  BY CoveringFacts
<1>2. \A k \in DOMAIN patches : k \in Nat
  BY OverlayType
<1>3. Covering(o) # {} /\ Max(Covering(o)) = i
  BY <1>1, <1>2
<1> QED BY <1>3 DEF IsByte

\* On a finished disk the records lead to whole replacement files.
LEMMA InvReplacements ==
  ASSUME Inv
  PROVE  ReplacementsAreIntact
<1> DEFINE rules == plugin.rules
           Later(n) == {m \in applied : m > n /\ rules[m].record = rules[n].record}
           Sector(n) == ReadBytes(vbio, TRUE, rules[n].record, 1).data[1] - Pointer(0)
           File(n) == ReadBytes(vbio, TRUE, Sector(n) * IsoSector, rules[n].length)
<1> SUFFICES ASSUME pc = "ready", NEW n \in applied, Later(n) = {}
             PROVE  /\ File(n).status = "Success"
                    /\ File(n).data = SubSeq(Data(rules[n], n), 1, rules[n].length)
  BY Zenon DEF ReplacementsAreIntact
<1> DEFINE r == rules[n]
<1>1. Settings /\ Prepared /\ Built /\ pc \in {"ready", "answered"}
  BY DEF Inv
<1>2. /\ patches \in Overlays /\ n \in Nat /\ n \in DOMAIN rules /\ IsIso(Top)
      /\ PatchedIn(patches, applied, rules, Top.diskSize, n)
  BY <1>1 DEF Prepared
<1>3. Top.diskSize \in Nat /\ vbio.size \in Nat /\ Top.diskSize <= vbio.size
      /\ EndsBy(patches, vbio.size)
  BY <1>1, DiskSizeType DEF Built, Shape
<1>4. rules \in Seq(RuleType)
  BY <1>1, PluginsAssumption DEF Settings, RuleType
<1>5. r \in RuleType /\ r \in ToSet(rules)
  BY <1>2, <1>4 DEF ToSet
<1>6. r.record \in Nat /\ r.length \in Nat
  BY <1>5 DEF RuleType
<1>7. r.record < Top.diskSize
  <2>1. {r.record, r.descriptor} \subseteq -1 .. (Top.diskSize - 1)
    BY <1>1, <1>2, <1>5, PluginsAssumption DEF Settings, Top
  <2> QED BY <1>3, <1>6, <2>1
<1>8. PICK i, j \in DOMAIN patches :
        /\ patches[i] = [at |-> r.record, data |-> <<Pointer(patches[j].at \div IsoSector)>>]
        /\ patches[j].data = Data(r, n)
        /\ (patches[j].at \div IsoSector) * IsoSector = patches[j].at
        /\ \A k \in DOMAIN patches : k > i /\ Covers(patches[k], r.record) =>
             \E m \in applied : m > n /\ rules[m].record = r.record
        /\ \A k \in DOMAIN patches : k # j =>
             \A o \in Nat : ~(Covers(patches[j], o) /\ Covers(patches[k], o))
  BY <1>2 DEF PatchedIn
<1>9. Sector(n) * IsoSector = patches[j].at /\ patches[j].at \in Nat
  <2> DEFINE a == patches[j].at \div IsoSector
             answer == ReadVirtualBytes(vbio, r.record, 1)
  <2>1. a \in Nat /\ patches[j].at \in Nat
    BY <1>2, <1>8, OverlayType, ConstantTypes, DivFacts
  <2>2. a * IsoSector = patches[j].at
    BY <1>8
  <2> HIDE DEF a
  <2>3. patches[i].at = r.record /\ patches[i].data = <<Pointer(a)>> /\ Len(patches[i].data) = 1
        /\ patches[i].data[1] = Pointer(a)
    BY <1>8 DEF a
  <2>4. Covers(patches[i], r.record)
    BY <1>6, <2>3 DEF Covers
  <2>5. \A k \in DOMAIN patches : k > i => ~Covers(patches[k], r.record)
    BY <1>8
  <2>6. IsByte(r.record, answer.data[1])
    <3>1. IsByte(r.record + 1 - 1, answer.data[1])
      <4>1. 1 \in Nat /\ 1 \in 1 .. 1
        OBVIOUS
      <4> QED BY <1>1, <1>6, <4>1, FinishedReads
    <3>2. r.record + 1 - 1 = r.record
      BY <1>6
    <3> QED BY <3>1, <3>2
  <2>7. answer.data[1] = patches[i].data[r.record - r.record + 1]
    BY <1>2, <1>6, <2>3, <2>4, <2>5, <2>6, PatchShows
  <2>8. ReadBytes(vbio, TRUE, r.record, 1) = answer
    <3>1. ~(r.record + 1 > vbio.size) /\ 1 # 0
      BY <1>3, <1>6, <1>7
    <3> QED BY <3>1, Zenon DEF ReadBytes
  <2> HIDE DEF answer
  <2>9. r.record - r.record + 1 = 1
    BY <1>6
  <2>10. Sector(n) = Pointer(a) - Pointer(0)
    BY <2>3, <2>7, <2>8, <2>9
  <2>11. Pointer(a) - Pointer(0) = a
    BY <2>1 DEF Pointer
  <2>12. Sector(n) = a
    BY <2>10, <2>11
  <2> QED BY <2>1, <2>2, <2>12
<1> HIDE DEF Sector
<1>10. /\ Data(r, n) \in Seq(Int) /\ Len(Data(r, n)) \in Nat /\ r.length <= Len(Data(r, n))
  BY <1>2, <1>5, DataType
<1> DEFINE at == patches[j].at
<1>11. File(n) = ReadBytes(vbio, TRUE, at, r.length)
  BY <1>9
<1> HIDE DEF File
<1>12. CASE r.length = 0
  <2>1. File(n) = Refuse("Success")
    BY <1>11, <1>12, Zenon DEF ReadBytes
  <2>2. SubSeq(Data(r, n), 1, 0) = <<>>
    BY <1>10
  <2> QED BY <1>12, <2>1, <2>2, RefusedStatus
<1>13. CASE r.length # 0
  <2> DEFINE answer == ReadVirtualBytes(vbio, at, r.length)
  <2>1. at + Len(patches[j].data) <= vbio.size /\ Len(patches[j].data) = Len(Data(r, n))
    BY <1>3, <1>8 DEF EndsBy
  <2>2. ~(at + r.length > vbio.size)
    BY <1>3, <1>6, <1>9, <1>10, <2>1
  <2>3. File(n) = answer
    BY <1>11, <1>13, <2>2, Zenon DEF ReadBytes
  <2>4. /\ answer.status = "Success"
        /\ answer.data = [k \in 1 .. r.length |-> answer.data[k]]
        /\ \A k \in 1 .. r.length : IsByte(at + k - 1, answer.data[k])
    BY <1>1, <1>6, <1>9, FinishedReads
  <2> HIDE DEF answer
  <2>5. ASSUME NEW k \in 1 .. r.length PROVE answer.data[k] = Data(r, n)[k]
    <3>1. PICK o \in Nat : o = at + k - 1
      BY <1>6, <1>9
    <3>2. k \in Nat /\ k > 0 /\ k <= Len(patches[j].data) /\ Len(patches[j].data) \in Nat
      BY <1>6, <1>10, <2>1
    <3>3. Covers(patches[j], o) /\ o - at + 1 = k
      BY <1>9, <3>1, <3>2 DEF Covers
    <3>4. \A l \in DOMAIN patches : l > j => ~Covers(patches[l], o)
      <4>1. \A l \in DOMAIN patches : l \in Nat
        BY <1>2, OverlayType
      <4> QED BY <1>8, <3>3, <4>1
    <3>5. IsByte(o, answer.data[k])
      BY <2>4, <3>1
    <3>6. answer.data[k] = patches[j].data[o - at + 1]
      BY <1>2, <3>3, <3>4, <3>5, PatchShows
    <3> QED BY <1>8, <3>3, <3>6
  <2>6. SubSeq(Data(r, n), 1, r.length) = [k \in 1 .. r.length |-> Data(r, n)[k]]
    BY <1>6, <1>10
  <2>7. answer.data = [k \in 1 .. r.length |-> Data(r, n)[k]]
    BY <2>4, <2>5
  <2> QED BY <2>3, <2>4, <2>6, <2>7
<1> QED BY <1>12, <1>13

\* A disk that was registered has no unreadable spot: read_bytes and
\* read_blocks inside it fail only if the source volume does, whatever the
\* image's format, its parents, its replacements, and on disk or in memory.
THEOREM DiskReadable == Spec => []ReadableEverywhere
<1>1. Inv => ReadableEverywhere
  BY InvReadable
<1> QED BY <1>1, DiskInvariant, PTL

\* If no parent that has a parent itself has partial blocks, read_bytes and
\* read_blocks return at every offset the byte of the image, of its right
\* parent or of the latest replacement, or zero past the end.  The condition
\* is needed: plan_vhdx_spans ignores the sector bitmap of such a parent, and
\* the run of VirtualDiskLayers.cfg shows the wrong byte.
THEOREM DiskReturnsImage == Spec => [](PlainParents => ReadsReturnTheImage)
<1>1. Inv => (PlainParents => ReadsReturnTheImage)
  BY InvImage
<1> QED BY <1>1, DiskInvariant, PTL

\* After build_conf_replace_overlays and add_memory_overlay the patched
\* directory record of every rule that no later rule overrides leads to the
\* replacement file, and all of the file is there.
THEOREM DiskReplacements == Spec => []ReplacementsAreIntact
<1>1. Inv => ReplacementsAreIntact
  BY InvReplacements
<1> QED BY <1>1, DiskInvariant, PTL
=============================================================================
