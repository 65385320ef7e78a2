-------------------------- MODULE MediaGrowProofs --------------------------
(***************************************************************************)
(* Proofs about MediaGrow, for every set of starts, every medium size and  *)
(* any number of failures and copies: what the disk holds between two      *)
(* writes, what a report of success promises, and the refinement of        *)
(* GrowableVolume.                                                         *)
(***************************************************************************)
EXTENDS MediaGrow, SequenceTheorems, TLAPS

---------------------------------------------------------------------------
(***************************************************************************)
(* Arithmetic of the planner.                                              *)
(***************************************************************************)
\* Integer division by a positive unit is the floor (exFAT cluster counts).
LEMMA DivFloor ==
  ASSUME NEW a \in Int, NEW s \in Nat \ {0}
  PROVE  a \div s \in Int /\ s * (a \div s) <= a /\ a < s * (a \div s) + s
  BY SMT

\* More blocks never hold fewer clusters.
LEMMA DivMonotone ==
  ASSUME NEW a \in Int, NEW b \in Int, NEW s \in Nat \ {0}, a <= b
  PROVE  a \div s <= b \div s
<1> DEFINE q == a \div s
           r == b \div s
<1>1. q \in Int /\ r \in Int /\ s * q <= a /\ b < s * r + s
  BY DivFloor
<1>2. SUFFICES ASSUME q >= r + 1 PROVE FALSE
  BY <1>1
<1>3. s * q >= s * (r + 1)
  <2> HIDE DEF q, r
  <2> QED BY <1>1, <1>2, SMT
<1>4. s * (r + 1) = s * r + s
  <2> HIDE DEF q, r
  <2> QED BY <1>1, SMT
<1> HIDE DEF q, r
<1> QED BY <1>1, <1>3, <1>4, SMT

\* The entry array occupies a whole number of blocks.
LEMMA EntryBlocksNat ==
  ASSUME NEW m \in Medium, m.blockSize > 0
  PROVE  EntryBlocks(m) \in Nat
<1>1. m.blockSize \in Nat \ {0} /\ EntryBytes \in Nat \ {0}
  BY ParameterAssumption DEF Medium
<1>2. EntryBytes + m.blockSize - 1 \in Nat
  BY <1>1
<1>3. (EntryBytes + m.blockSize - 1) \div m.blockSize \in Nat
  BY <1>1, <1>2
<1> QED BY <1>3 DEF EntryBlocks, DivRoundUp

\* The geometry of a volume with a cluster heap is made of natural numbers.
LEMMA GeometryTyped ==
  ASSUME NEW v \in Nat, v > HeapOffset
  PROVE  /\ Geometry(v) \in GeometryType
         /\ Geometry(v).volume = v
         /\ Geometry(v).clusters = (v - HeapOffset) \div SectorsPerCluster
<1>1. HeapOffset \in Nat /\ SectorsPerCluster \in Nat \ {0}
  BY ParameterAssumption
<1>2. (v - HeapOffset) \div SectorsPerCluster \in Nat
  BY <1>1
<1> QED BY <1>2 DEF Geometry, GeometryType, ClustersIn

\* The bitmap the growth writes has a bit for every cluster.
LEMMA BitmapBytesCover ==
  ASSUME NEW c \in Nat
  PROVE  BitmapBytes(c) \in Nat /\ c <= 8 * BitmapBytes(c)
  BY SMT DEF BitmapBytes

\* plan_growth never shrinks a volume and never leaves what is available.
LEMMA GrownVolumeBounds ==
  ASSUME NEW old \in Nat, NEW available \in Int, old <= available,
         NEW fat \in Int
  PROVE  LET v == GrownVolume(old, available, HeapOffset, SectorsPerCluster, fat, U32Max)
         IN v \in Nat /\ old <= v /\ v <= available
<1>1. HeapOffset \in Nat /\ SectorsPerCluster \in Nat /\ U32Max \in Nat
  BY ParameterAssumption
<1>2. Capacity(fat, U32Max) \in Int
  BY <1>1 DEF Capacity, Least
<1>3. Capacity(fat, U32Max) * SectorsPerCluster + HeapOffset \in Int
  BY <1>1, <1>2
<1> QED BY <1>3 DEF GrownVolume, Least, Greatest

---------------------------------------------------------------------------
(***************************************************************************)
(* Type correctness.                                                       *)
(***************************************************************************)
\* What an accepted growth has computed for entry i of the primary array.
LEMMA AcceptedVolume ==
  ASSUME TypeOK, NEW i \in DOMAIN view.pent, GrowthAccepted(view.pent[i])
  PROVE  /\ view.pent[i] \in Entry
         /\ NewVolume(view.pent[i].start) \in Nat
         /\ HeapOffset < view.main.volume
         /\ view.main.volume <= NewVolume(view.pent[i].start)
<1> DEFINE entry == view.pent[i]
           available == NewLastUsable - entry.start + 1
<1>1. view \in Disk /\ medium \in Medium /\ medium.blockSize > 0 /\ total \in Nat \ {0}
  BY DEF TypeOK
<1>2. entry \in Entry
  BY <1>1 DEF Disk
<1>3. view.main.volume \in Nat /\ entry.start \in Nat
  BY <1>1, <1>2 DEF Disk, GeometryType, Entry
<1>4. EntryBlocks(medium) \in Nat
  BY <1>1, EntryBlocksNat
<1>5. available \in Int
  BY <1>1, <1>3, <1>4 DEF NewLastUsable, BackupEntriesLba, LastLba
<1>6. medium.blockSize \in Nat /\ FatLength \in Nat
  BY <1>1, ParameterAssumption DEF Medium
<1>7. FatClusters \in Int
  BY <1>6 DEF FatClusters, FatCapacity
<1>8. view.main.volume <= available /\ HeapOffset < view.main.volume
  BY DEF GrowthAccepted, PlanAccepts
<1> QED BY <1>2, <1>3, <1>5, <1>7, <1>8, GrownVolumeBounds DEF NewVolume

\* The entry array with the DATA entry extended.
Extended(entries, i, end) == [entries EXCEPT ![i].end = end]

\* update_gpt_entries keeps the array an array of entries.
LEMMA ExtendedTyped ==
  ASSUME NEW entries \in Seq(Entry), NEW i \in DOMAIN entries, NEW end \in Nat
  PROVE  Extended(entries, i, end) \in Seq(Entry)
<1> DEFINE new == [entries[i] EXCEPT !.end = end]
<1>1. entries[i] \in Entry
  OBVIOUS
<1>2. new \in Entry
  BY <1>1 DEF Entry
<1>3. Extended(entries, i, end) = [entries EXCEPT ![i] = new]
  BY DEF Extended
<1>4. i \in 1 .. Len(entries)
  OBVIOUS
<1> HIDE DEF new
<1>5. [entries EXCEPT ![i] = new] \in Seq(Entry)
  BY <1>2, <1>4, ExceptSeq
<1> QED BY <1>3, <1>5

\* Only the end of the DATA entry changes.
LEMMA ExtendedEntry ==
  ASSUME NEW entries \in Seq(Entry), NEW i \in DOMAIN entries, NEW end \in Nat
  PROVE  /\ DOMAIN Extended(entries, i, end) = DOMAIN entries
         /\ Extended(entries, i, end)[i].end = end
         /\ \A j \in DOMAIN entries :
              /\ Extended(entries, i, end)[j].name = entries[j].name
              /\ Extended(entries, i, end)[j].start = entries[j].start
              /\ j # i => Extended(entries, i, end)[j] = entries[j]
<1> DEFINE new == [entries[i] EXCEPT !.end = end]
<1>1. entries[i] \in Entry
  OBVIOUS
<1>2. new.name = entries[i].name /\ new.start = entries[i].start /\ new.end = end
  BY <1>1 DEF Entry
<1>3. Extended(entries, i, end) = [entries EXCEPT ![i] = new]
  BY DEF Extended
<1> HIDE DEF new
<1> QED BY <1>2, <1>3

\* A freshly written or copied medium is well typed.
LEMMA InitTyped == Init => TypeOK
<1> SUFFICES ASSUME Init PROVE TypeOK
  OBVIOUS
<1> PICK s \in Starts :
      /\ total = s.total
      /\ medium = s.medium
      /\ disk = Flashed(s.image, s.medium)
      /\ plan = [entries |-> s.image.entries, exfat |-> FALSE,
                 geometry |-> Geometry(s.image.volume)]
  BY DEF Init
<1> DEFINE im == s.image
           last == im.blocks - 1
           blocks == EntryBlocks(medium)
           geometry == Geometry(im.volume)
<1>1. s \in Start /\ s.medium.blockSize > 0 /\ WellFormed(im, s.medium)
  BY StartAssumption
<1>2. /\ total \in Nat \ {0} /\ medium \in Medium /\ medium.blockSize > 0
      /\ im \in Image
  BY <1>1 DEF Start
<1>3. /\ last \in Nat /\ im.entries \in Seq(Entry)
      /\ im.volume \in Nat /\ im.volume > HeapOffset
  BY <1>1, <1>2 DEF Image, WellFormed
<1>4. geometry \in GeometryType /\ geometry.clusters \in Nat
  BY <1>3, GeometryTyped DEF GeometryType
<1>5. BitmapBytes(geometry.clusters) \in Nat
  BY <1>4, BitmapBytesCover
<1>6. blocks \in Nat
  BY <1>2, EntryBlocksNat
<1>7. last - blocks \in Int /\ last - blocks - 1 \in Int
  BY <1>3, <1>6
<1>8. disk \in Disk
  <2> HIDE DEF geometry, blocks
  <2>1. disk = [mbr |-> last, pent |-> im.entries,
                bent |-> [at |-> last - blocks, entries |-> im.entries],
                phdr |-> [backup |-> last, lastUsable |-> last - blocks - 1,
                          entries |-> im.entries],
                bhdr |-> [at |-> last, entriesAt |-> last - blocks,
                          lastUsable |-> last - blocks - 1, entries |-> im.entries],
                bitmap |-> BitmapBytes(geometry.clusters),
                main |-> geometry, mainSum |-> geometry,
                bak |-> geometry, bakSum |-> geometry]
    BY DEF Flashed, geometry, blocks
  <2> HIDE DEF last, im
  <2> QED BY <2>1, <1>3, <1>4, <1>5, <1>7 DEF Disk
<1>9. plan \in Plan
  BY <1>3, <1>4 DEF Plan
<1>10. /\ view = disk /\ pc \in Steps /\ outcome \in Outcomes
       /\ faults \in 0 .. MaxFaults /\ clones \in 0 .. MaxClones
  BY ParameterAssumption DEF Init, Steps, Outcomes
<1> QED BY <1>2, <1>8, <1>9, <1>10 DEF TypeOK

\* Every region a write produces is of the type of the region it replaces.
LEMMA WritesTyped ==
  ASSUME TypeOK
  PROVE  /\ AfterMbr \in Disk /\ AfterPrimaryEntries \in Disk
         /\ AfterBackupEntries \in Disk /\ AfterPrimaryHeader \in Disk
         /\ AfterBackupHeader \in Disk /\ AfterBitmap \in Disk
         /\ AfterMainBoot \in Disk /\ AfterBackupBoot \in Disk
         /\ Partial \subseteq Disk
<1>1. /\ view \in Disk /\ plan \in Plan
      /\ medium \in Medium /\ medium.blockSize > 0 /\ total \in Nat \ {0}
  BY DEF TypeOK
<1>2. /\ plan.entries \in Seq(Entry) /\ plan.geometry \in GeometryType
      /\ plan.geometry.clusters \in Nat
  BY <1>1 DEF Plan, GeometryType
<1>3. LastLba \in Nat /\ U32Max \in Nat
  BY <1>1, ParameterAssumption DEF LastLba
<1>4. BackupEntriesLba \in Int /\ NewLastUsable \in Int
  BY <1>1, <1>3, EntryBlocksNat DEF BackupEntriesLba, NewLastUsable
<1>5. AfterMbr \in Disk
  BY <1>1, <1>3 DEF AfterMbr, Disk
<1>6. AfterPrimaryEntries \in Disk
  BY <1>1, <1>2 DEF AfterPrimaryEntries, Disk
<1>7. AfterBackupEntries \in Disk
  BY <1>1, <1>2, <1>4 DEF AfterBackupEntries, Disk
<1>8. AfterPrimaryHeader \in Disk
  BY <1>1, <1>2, <1>3, <1>4 DEF AfterPrimaryHeader, Disk
<1>9. AfterBackupHeader \in Disk
  BY <1>1, <1>2, <1>3, <1>4 DEF AfterBackupHeader, Disk
<1>10. AfterBitmap \in Disk
  <2>1. BitmapBytes(plan.geometry.clusters) \in Nat
    BY <1>2, BitmapBytesCover
  <2> QED BY <1>1, <2>1 DEF AfterBitmap, Disk
<1>11. AfterMainBoot \in Disk
  BY <1>1, <1>2 DEF AfterMainBoot, Disk
<1>12. AfterBackupBoot \in Disk
  BY <1>1, <1>2 DEF AfterBackupBoot, Disk
<1>13. Partial \subseteq Disk
  <2>1. [view EXCEPT !.main = plan.geometry] \in Disk
    BY <1>1, <1>2 DEF Disk
  <2>2. [view EXCEPT !.bak = plan.geometry] \in Disk
    BY <1>1, <1>2 DEF Disk
  <2> QED BY <1>1, <2>1, <2>2 DEF Partial
<1> QED BY <1>5, <1>6, <1>7, <1>8, <1>9, <1>10, <1>11, <1>12, <1>13

\* A write or a torn write keeps both images of the disk well typed.
LEMMA WriteTyped ==
  ASSUME TypeOK, NEW after \in Disk, Write(after)
  PROVE  disk' \in Disk /\ view' \in Disk
  BY DEF Write, TypeOK

\* So does the drive when it writes a cached region back.
LEMMA DestageTyped ==
  ASSUME TypeOK, NEW r \in Regions, Destage(r)
  PROVE  disk' \in Disk
<1>1. disk \in Disk /\ view \in Disk /\ disk' = [disk EXCEPT ![r] = view[r]]
  BY DEF TypeOK, Destage
<1> QED BY <1>1 DEF Regions, Disk

\* Every step of the growth, the drive and the user keeps the state well typed.
LEMMA NextTyped == TypeOK /\ [Next]_vars => TypeOK'
<1> SUFFICES ASSUME TypeOK, [Next]_vars PROVE TypeOK'
  OBVIOUS
<1>0. TypeOK /\ MaxFaults \in Nat /\ MaxClones \in Nat
  BY ParameterAssumption
<1>1. CASE PowerOn
  BY <1>0, <1>1 DEF PowerOn, TypeOK, Steps, Outcomes
<1>2. CASE ProbeNotRelease
  BY <1>0, <1>2 DEF ProbeNotRelease, Return, Untouched, TypeOK, Steps, Outcomes
<1>3. CASE ProbeRefused
  BY <1>0, <1>3 DEF ProbeRefused, Return, Untouched, TypeOK, Steps, Outcomes
<1>4. CASE ProbeAlreadyGrown
  BY <1>0, <1>4 DEF ProbeAlreadyGrown, Return, Untouched, TypeOK, Steps, Outcomes
<1>5. CASE ProbeGrow
  <2>1. PICK i \in DOMAIN view.pent :
          /\ GrowthAccepted(view.pent[i])
          /\ plan' = [entries |-> Extended(view.pent, i, view.pent[i].start
                                             + NewVolume(view.pent[i].start) - 1),
                      exfat |-> NeedsExfat(view.pent[i]),
                      geometry |-> Geometry(NewVolume(view.pent[i].start))]
          /\ pc' \in {"mbr", "bitmap"}
    BY <1>5 DEF ProbeGrow, Extended
  <2> DEFINE volume == NewVolume(view.pent[i].start)
             end == view.pent[i].start + volume - 1
  <2>2. /\ view.pent[i].start \in Nat /\ volume \in Nat /\ volume > HeapOffset
        /\ end \in Nat /\ HeapOffset \in Nat
    <3>1. /\ view.pent[i] \in Entry /\ volume \in Nat /\ HeapOffset < view.main.volume
          /\ view.main.volume <= volume
      BY <2>1, AcceptedVolume
    <3>2. HeapOffset \in Nat /\ view.main.volume \in Nat /\ view.pent[i].start \in Nat
      BY <1>0, <3>1, ParameterAssumption DEF TypeOK, Disk, GeometryType, Entry
    <3> HIDE DEF volume
    <3> QED BY <3>1, <3>2
  <2>3. view.pent \in Seq(Entry)
    BY <1>0 DEF TypeOK, Disk
  <2>4. Extended(view.pent, i, end) \in Seq(Entry)
    BY <2>2, <2>3, ExtendedTyped
  <2>5. Geometry(volume) \in GeometryType
    BY <2>2, GeometryTyped
  <2>6. NeedsExfat(view.pent[i]) \in BOOLEAN
    BY DEF NeedsExfat
  <2>7. plan' \in Plan
    BY <2>1, <2>4, <2>5, <2>6 DEF Plan
  <2>8. /\ total' = total /\ medium' = medium /\ disk' = disk /\ view' = view
        /\ outcome' = outcome /\ faults' = faults /\ clones' = clones
    BY <1>5 DEF ProbeGrow
  <2>9. pc' \in Steps
    BY <2>1 DEF Steps, WriteSteps, GptSteps, ExfatSteps
  <2> QED BY <1>0, <2>7, <2>8, <2>9 DEF TypeOK
<1>6. ASSUME NEW after \in Disk, NEW next \in Steps, Write(after), Proceed(next)
      PROVE  TypeOK'
  BY <1>0, <1>6, WriteTyped DEF Proceed, TypeOK
<1>7. CASE WriteMbr \/ WritePrimaryEntries \/ WriteBackupEntries \/ WritePrimaryHeader
  BY <1>6, <1>7, WritesTyped DEF WriteMbr, WritePrimaryEntries, WriteBackupEntries,
     WritePrimaryHeader, Steps, WriteSteps, GptSteps
<1>8. CASE WriteBackupHeader
  BY <1>6, <1>8, WritesTyped DEF WriteBackupHeader, Steps, WriteSteps, ExfatSteps
<1>9. CASE WriteBitmap \/ WriteMainBoot \/ WriteBackupBoot
  BY <1>6, <1>9, WritesTyped DEF WriteBitmap, WriteMainBoot, WriteBackupBoot,
     Steps, WriteSteps, ExfatSteps
<1>10. CASE BitmapRefused
  BY <1>0, <1>10 DEF BitmapRefused, Return, Untouched, TypeOK, Steps, Outcomes
<1>11. CASE FlushBlocks
  BY <1>0, <1>11 DEF FlushBlocks, Return, TypeOK, Steps, Outcomes
<1>12. ASSUME Fault PROVE faults' \in 0 .. MaxFaults
  BY <1>0, <1>12 DEF Fault, TypeOK
<1>13. CASE CallFails
  <2>1. disk' \in Disk /\ view' \in Disk
    BY <1>13, WritesTyped, WriteTyped DEF CallFails
  <2> QED BY <1>0, <1>12, <1>13, <2>1 DEF CallFails, Return, TypeOK, Steps, Outcomes
<1>14. CASE PowerCut
  <2>1. disk' \in Disk
    BY <1>0, <1>14, WritesTyped DEF PowerCut, TypeOK
  <2> QED BY <1>0, <1>12, <1>14, <2>1 DEF PowerCut, Lost, TypeOK, Steps
<1>15. CASE PowerOff
  BY <1>0, <1>15 DEF PowerOff, Lost, TypeOK, Steps
<1>16. CASE \E r \in Regions : Destage(r)
  BY <1>0, <1>16, DestageTyped DEF Destage, TypeOK
<1>17. CASE Clone
  <2>1. total' \in Nat \ {0}
    BY <1>17, StartAssumption DEF Clone
  <2>2. clones' \in 0 .. MaxClones
    BY <1>0, <1>17 DEF Clone, TypeOK
  <2> QED BY <1>0, <1>17, <2>1, <2>2 DEF Clone, TypeOK
<1>18. CASE UNCHANGED vars
  BY <1>0, <1>18 DEF vars, TypeOK
<1> QED BY <1>1, <1>2, <1>3, <1>4, <1>5, <1>7, <1>8, <1>9, <1>10, <1>11, <1>13, <1>14,
           <1>15, <1>16, <1>17, <1>18 DEF Next, Grow

\* Every reachable state of the growth is well typed: no sequence of boots,
\* failures and copies makes a size negative or an entry array malformed.
THEOREM TypeCorrect == Spec => []TypeOK
  BY InitTyped, NextTyped, PTL DEF Spec

---------------------------------------------------------------------------
(***************************************************************************)
(* The order of the writes on a write-through medium.  VolumeInsidePartition *)
(* and BitmapCoversClusters speak of the disk alone; what makes them hold is *)
(* how far the plan has been carried out, which GrowthInv records.           *)
(***************************************************************************)
Fits(entries, volume) ==
  \A i \in DOMAIN entries : IsData(entries, i) => volume <= Blocks(entries[i])

\* The geometry is one the release builder or the planner computed.
Sound(geometry) ==
  HeapOffset < geometry.volume /\ geometry = Geometry(geometry.volume)

DiskSound ==
  /\ disk = view
  /\ Sound(view.main)
  /\ Fits(view.pent, view.main.volume) /\ Fits(view.phdr.entries, view.main.volume)
  /\ view.main.clusters <= 8 * view.bitmap

PlanSound ==
  pc \in WriteSteps => Sound(plan.geometry) /\ view.main.volume <= plan.geometry.volume

\* The entry arrays have room for the planned volume before it is published.
GptBeforeVolume ==
  /\ pc \in GptSteps => Fits(plan.entries, plan.geometry.volume)
  /\ pc \in {"bentries", "pheader", "bheader"} => view.pent = plan.entries
  /\ pc = "bheader" => view.phdr.entries = plan.entries
  /\ pc \in ExfatSteps => /\ Fits(view.pent, plan.geometry.volume)
                          /\ Fits(view.phdr.entries, plan.geometry.volume)

BitmapBeforeClusters ==
  pc = "mainboot" => plan.geometry.clusters <= 8 * view.bitmap

GrowthInv ==
  WriteThrough => DiskSound /\ PlanSound /\ GptBeforeVolume /\ BitmapBeforeClusters

\* A partition with room for a volume has room for a smaller one.
LEMMA FitsSmaller ==
  ASSUME NEW entries \in Seq(Entry), NEW v \in Nat, NEW w \in Nat, v <= w, Fits(entries, w)
  PROVE  Fits(entries, v)
<1> SUFFICES ASSUME NEW i \in DOMAIN entries, IsData(entries, i)
             PROVE  v <= Blocks(entries[i])
  BY DEF Fits
<1>1. entries[i] \in Entry /\ w <= Blocks(entries[i])
  BY DEF Fits
<1>2. Blocks(entries[i]) \in Int
  BY <1>1 DEF Blocks, Entry
<1> QED BY <1>1, <1>2

\* Only one entry is the DATA entry.
LEMMA DataUnique ==
  ASSUME NEW entries \in Seq(Entry), NEW i \in DOMAIN entries, NEW j \in DOMAIN entries,
         IsData(entries, i), IsData(entries, j)
  PROVE  i = j
<1>1. i \in Nat /\ j \in Nat
  OBVIOUS
<1>2. ~(i > j) /\ ~(j > i)
  BY DEF IsData
<1> QED BY <1>1, <1>2

\* Extending the DATA entry to `volume` blocks makes room for that volume.
LEMMA ExtendedFits ==
  ASSUME NEW entries \in Seq(Entry), NEW i \in DOMAIN entries, IsData(entries, i),
         NEW volume \in Nat \ {0}
  PROVE  Fits(Extended(entries, i, entries[i].start + volume - 1), volume)
<1> DEFINE end == entries[i].start + volume - 1
           new == Extended(entries, i, end)
<1>0. entries[i] \in Entry
  OBVIOUS
<1>1. entries[i].start \in Nat
  BY <1>0 DEF Entry
<1>2. end \in Nat
  BY <1>1
<1> HIDE DEF end
<1>3. /\ DOMAIN new = DOMAIN entries /\ new[i].end = end
      /\ \A j \in DOMAIN entries : /\ new[j].name = entries[j].name
                                   /\ new[j].start = entries[j].start
  BY <1>2, ExtendedEntry
<1> HIDE DEF new
<1>4. SUFFICES ASSUME NEW j \in DOMAIN new, IsData(new, j)
               PROVE  volume <= Blocks(new[j])
  BY DEF Fits, new, end
<1>5. IsData(entries, j)
  BY <1>3, <1>4 DEF IsData
<1>6. j = i
  BY <1>3, <1>4, <1>5, DataUnique
<1>7. Blocks(new[j]) = volume
  BY <1>1, <1>3, <1>6 DEF Blocks, end
<1> QED BY <1>7

\* A larger volume has at least as many clusters.
LEMMA ClustersMonotone ==
  ASSUME NEW v \in Nat, NEW w \in Nat, HeapOffset < v, v <= w
  PROVE  Geometry(v).clusters <= Geometry(w).clusters
<1>1. HeapOffset \in Nat /\ SectorsPerCluster \in Nat \ {0}
  BY ParameterAssumption
<1>2. /\ v - HeapOffset \in Int /\ w - HeapOffset \in Int
      /\ v - HeapOffset <= w - HeapOffset /\ HeapOffset < w
  BY <1>1
<1>3. (v - HeapOffset) \div SectorsPerCluster <= (w - HeapOffset) \div SectorsPerCluster
  BY <1>1, <1>2, DivMonotone
<1> QED BY <1>2, <1>3, GeometryTyped

\* The growth invariant holds on every medium the first boot may meet.
LEMMA InitGrowth == Init => GrowthInv
<1> SUFFICES ASSUME Init PROVE DiskSound /\ pc = "off"
  BY DEF GrowthInv, PlanSound, GptBeforeVolume, BitmapBeforeClusters, WriteSteps, GptSteps,
         ExfatSteps
<1> PICK s \in Starts : medium = s.medium /\ disk = Flashed(s.image, s.medium)
  BY DEF Init
<1> DEFINE im == s.image
           geometry == Geometry(im.volume)
<1>1. s \in Start /\ WellFormed(im, s.medium)
  BY StartAssumption
<1>2. /\ im \in Image /\ im.volume \in Nat /\ im.volume > HeapOffset
      /\ Fits(im.entries, im.volume)
  BY <1>1 DEF Start, Image, WellFormed, Fits
<1>3. /\ geometry.volume = im.volume /\ geometry.clusters \in Nat
  BY <1>2, GeometryTyped DEF GeometryType
<1>4. geometry.clusters <= 8 * BitmapBytes(geometry.clusters)
  BY <1>3, BitmapBytesCover
<1>5. /\ disk.main = geometry /\ disk.pent = im.entries /\ disk.phdr.entries = im.entries
      /\ disk.bitmap = BitmapBytes(geometry.clusters)
  BY DEF Flashed
<1>6. view = disk /\ pc = "off"
  BY DEF Init
<1> QED BY <1>2, <1>3, <1>4, <1>5, <1>6 DEF DiskSound, Sound

\* The disk stays sound when a boot does not write, and when a torn or failed
\* write leaves the first sector of a boot region behind.
LEMMA InterruptedSound ==
  ASSUME TypeOK, GrowthInv, WriteThrough, disk' = view', view' \in Partial
  PROVE  DiskSound'
<1>1. view \in Disk /\ plan \in Plan /\ DiskSound
  BY DEF TypeOK, GrowthInv
<1>2. CASE view' = view
  BY <1>1, <1>2 DEF DiskSound
<1>3. CASE pc = "mainboot" /\ view' = [view EXCEPT !.main = plan.geometry]
  <2>1. /\ view'.main = plan.geometry /\ view'.pent = view.pent
        /\ view'.phdr = view.phdr /\ view'.bitmap = view.bitmap
    BY <1>1, <1>3 DEF Disk
  <2>2. /\ Sound(plan.geometry) /\ plan.geometry.clusters <= 8 * view.bitmap
        /\ Fits(view.pent, plan.geometry.volume)
        /\ Fits(view.phdr.entries, plan.geometry.volume)
    BY <1>3 DEF GrowthInv, PlanSound, GptBeforeVolume, BitmapBeforeClusters, WriteSteps,
                ExfatSteps
  <2> QED BY <2>1, <2>2 DEF DiskSound
<1>4. CASE pc = "backupboot" /\ view' = [view EXCEPT !.bak = plan.geometry]
  <2>1. /\ view'.main = view.main /\ view'.pent = view.pent
        /\ view'.phdr = view.phdr /\ view'.bitmap = view.bitmap
    BY <1>1, <1>4 DEF Disk
  <2> QED BY <1>1, <2>1 DEF DiskSound
<1> QED BY <1>2, <1>3, <1>4 DEF Partial

\* Whatever ends the growth of this boot leaves only DiskSound to show.
LEMMA EndedGrowth ==
  ASSUME DiskSound', pc' \in {"off", "probe", "flush", "menu"}
  PROVE  GrowthInv'
  BY DEF GrowthInv, PlanSound, GptBeforeVolume, BitmapBeforeClusters, WriteSteps, GptSteps,
         ExfatSteps

\* The checks of try_grow_boot_media establish what the writes rely on.
LEMMA ProbeGrowth ==
  ASSUME TypeOK, GrowthInv, WriteThrough, ProbeGrow
  PROVE  GrowthInv'
<1>1. PICK i \in DOMAIN view.pent :
        LET entry == view.pent[i]
            volume == NewVolume(entry.start)
        IN /\ Candidate(i)
           /\ GrowthAccepted(entry)
           /\ plan' = [entries |-> Extended(view.pent, i, entry.start + volume - 1),
                       exfat |-> NeedsExfat(entry),
                       geometry |-> Geometry(volume)]
           /\ pc' = IF NeedsGpt(entry) THEN "mbr" ELSE "bitmap"
  BY DEF ProbeGrow, Extended
<1>2. disk' = disk /\ view' = view /\ medium' = medium
  BY DEF ProbeGrow
<1> DEFINE volume == NewVolume(view.pent[i].start)
<1>3. view \in Disk /\ view.pent \in Seq(Entry) /\ DiskSound
  BY DEF TypeOK, Disk, GrowthInv
<1>4. /\ view.pent[i] \in Entry /\ volume \in Nat /\ HeapOffset < view.main.volume
      /\ view.main.volume <= volume
  BY <1>1, AcceptedVolume
<1>5. view.main.volume \in Nat /\ HeapOffset \in Nat /\ view.pent[i].start \in Nat
      /\ view.pent[i].end \in Nat
  BY <1>3, <1>4, ParameterAssumption DEF Disk, GeometryType, Entry
<1>6. IsData(view.pent, i) /\ view.phdr.entries = view.pent
  BY <1>1 DEF Candidate, IsReleaseData, PrimaryValid
<1> HIDE DEF volume
<1>7. volume \in Nat \ {0} /\ HeapOffset < volume
  BY <1>4, <1>5
<1>8. plan'.geometry.volume = volume /\ Sound(plan'.geometry)
  <2>1. plan'.geometry = Geometry(volume)
    BY <1>1 DEF volume
  <2>2. Geometry(volume).volume = volume
    BY <1>7, GeometryTyped
  <2> QED BY <1>7, <2>1, <2>2 DEF Sound
<1>9. Fits(plan'.entries, volume)
  <2>1. plan'.entries = Extended(view.pent, i, view.pent[i].start + volume - 1)
    BY <1>1 DEF volume
  <2> QED BY <1>3, <1>6, <1>7, <2>1, ExtendedFits
<1>10. pc' = "bitmap" => Fits(view.pent, volume)
  <2> SUFFICES ASSUME pc' = "bitmap", NEW j \in DOMAIN view.pent, IsData(view.pent, j)
               PROVE  volume <= Blocks(view.pent[j])
    BY DEF Fits
  <2>1. j = i
    BY <1>3, <1>6, DataUnique
  <2>2. view.pent[i].end = view.pent[i].start + volume - 1
    BY <1>1 DEF NeedsGpt, volume
  <2> QED BY <1>5, <1>7, <2>1, <2>2 DEF Blocks
<1>11. pc' \in {"mbr", "bitmap"}
  BY <1>1
<1>12. DiskSound'
  BY <1>2, <1>3 DEF DiskSound
<1>13. PlanSound'
  BY <1>2, <1>4, <1>8 DEF PlanSound
<1>14. GptBeforeVolume'
  <2>1. CASE pc' = "mbr"
    BY <1>8, <1>9, <2>1 DEF GptBeforeVolume, GptSteps, ExfatSteps
  <2>2. CASE pc' = "bitmap"
    BY <1>2, <1>6, <1>8, <1>10, <2>2 DEF GptBeforeVolume, GptSteps, ExfatSteps
  <2> QED BY <1>11, <2>1, <2>2
<1>15. BitmapBeforeClusters'
  BY <1>11 DEF BitmapBeforeClusters
<1> QED BY <1>12, <1>13, <1>14, <1>15 DEF GrowthInv

\* The GPT is written: the volume does not change, and every new entry array has
\* room for the present and for the planned volume.
LEMMA GptGrowth ==
  ASSUME TypeOK, GrowthInv, WriteThrough,
         WriteMbr \/ WritePrimaryEntries \/ WriteBackupEntries
           \/ WritePrimaryHeader \/ WriteBackupHeader
  PROVE  GrowthInv'
<1>1. /\ view \in Disk /\ plan \in Plan /\ pc \in GptSteps /\ pc \in WriteSteps
      /\ plan' = plan /\ disk' = view'
  BY DEF TypeOK, WriteMbr, WritePrimaryEntries, WriteBackupEntries, WritePrimaryHeader,
         WriteBackupHeader, Proceed, Write, WriteThrough, GptSteps, WriteSteps
<1>2. DiskSound /\ PlanSound /\ GptBeforeVolume
  BY DEF GrowthInv
<1>3. /\ plan.entries \in Seq(Entry) /\ plan.geometry.volume \in Nat
      /\ view.main.volume \in Nat
  BY <1>1 DEF Plan, Disk, GeometryType
<1>4. /\ Sound(plan.geometry) /\ view.main.volume <= plan.geometry.volume
      /\ Fits(plan.entries, plan.geometry.volume)
  BY <1>1, <1>2 DEF PlanSound, GptBeforeVolume
<1>5. Fits(plan.entries, view.main.volume)
  BY <1>3, <1>4, FitsSmaller
<1>6. ASSUME view'.main = view.main, view'.bitmap = view.bitmap,
             view'.pent \in {view.pent, plan.entries},
             view'.phdr.entries \in {view.phdr.entries, plan.entries}
      PROVE  DiskSound' /\ PlanSound'
  BY <1>1, <1>2, <1>4, <1>5, <1>6 DEF DiskSound, PlanSound
<1>7. CASE WriteMbr
  <2>1. /\ view'.main = view.main /\ view'.bitmap = view.bitmap
        /\ view'.pent = view.pent /\ view'.phdr = view.phdr /\ pc' = "pentries"
    BY <1>1, <1>7 DEF WriteMbr, Write, Proceed, AfterMbr, Disk
  <2> QED BY <1>1, <1>4, <1>6, <2>1
          DEF GrowthInv, GptBeforeVolume, BitmapBeforeClusters, ExfatSteps
<1>8. CASE WritePrimaryEntries
  <2>1. /\ view'.main = view.main /\ view'.bitmap = view.bitmap
        /\ view'.pent = plan.entries /\ view'.phdr = view.phdr /\ pc' = "bentries"
    BY <1>1, <1>8 DEF WritePrimaryEntries, Write, Proceed, AfterPrimaryEntries, Disk
  <2> QED BY <1>1, <1>4, <1>6, <2>1
          DEF GrowthInv, GptBeforeVolume, BitmapBeforeClusters, ExfatSteps
<1>9. CASE WriteBackupEntries
  <2>1. /\ view'.main = view.main /\ view'.bitmap = view.bitmap
        /\ view'.pent = view.pent /\ view'.phdr = view.phdr
        /\ pc = "bentries" /\ pc' = "pheader"
    BY <1>1, <1>9 DEF WriteBackupEntries, Write, Proceed, AfterBackupEntries, Disk
  <2>2. view.pent = plan.entries
    BY <1>2, <2>1 DEF GptBeforeVolume
  <2> QED BY <1>1, <1>4, <1>6, <2>1, <2>2
          DEF GrowthInv, GptBeforeVolume, BitmapBeforeClusters, ExfatSteps
<1>10. CASE WritePrimaryHeader
  <2>1. /\ view'.main = view.main /\ view'.bitmap = view.bitmap
        /\ view'.pent = view.pent /\ view'.phdr.entries = plan.entries
        /\ pc = "pheader" /\ pc' = "bheader"
    BY <1>1, <1>10 DEF WritePrimaryHeader, Write, Proceed, AfterPrimaryHeader, Disk
  <2>2. view.pent = plan.entries
    BY <1>2, <2>1 DEF GptBeforeVolume
  <2> QED BY <1>1, <1>4, <1>6, <2>1, <2>2
          DEF GrowthInv, GptBeforeVolume, BitmapBeforeClusters, ExfatSteps
<1>11. CASE WriteBackupHeader
  <2>1. /\ view'.main = view.main /\ view'.bitmap = view.bitmap
        /\ view'.pent = view.pent /\ view'.phdr = view.phdr
        /\ pc = "bheader" /\ pc' \in {"bitmap", "flush"}
    BY <1>1, <1>11 DEF WriteBackupHeader, Write, Proceed, AfterBackupHeader, Disk
  <2>2. view.pent = plan.entries /\ view.phdr.entries = plan.entries
    BY <1>2, <2>1 DEF GptBeforeVolume
  <2> QED BY <1>1, <1>4, <1>6, <2>1, <2>2
          DEF GrowthInv, GptBeforeVolume, BitmapBeforeClusters, GptSteps, ExfatSteps
<1> QED BY <1>7, <1>8, <1>9, <1>10, <1>11

\* The exFAT volume is written: the bitmap first, the geometry after it.
LEMMA ExfatGrowthStep ==
  ASSUME TypeOK, GrowthInv, WriteThrough, WriteBitmap \/ WriteMainBoot \/ WriteBackupBoot
  PROVE  GrowthInv'
<1>1. /\ view \in Disk /\ plan \in Plan /\ pc \in ExfatSteps /\ pc \in WriteSteps
      /\ plan' = plan /\ disk' = view'
  BY DEF TypeOK, WriteBitmap, WriteMainBoot, WriteBackupBoot, Proceed, Write, WriteThrough,
         ExfatSteps, WriteSteps
<1>2. DiskSound /\ PlanSound /\ GptBeforeVolume /\ BitmapBeforeClusters
  BY DEF GrowthInv
<1>3. /\ plan.geometry \in GeometryType /\ view.main \in GeometryType
      /\ plan.geometry.volume \in Nat /\ plan.geometry.clusters \in Nat
      /\ view.main.volume \in Nat /\ view.main.clusters \in Nat
  BY <1>1 DEF Plan, Disk, GeometryType
<1>4. /\ Sound(plan.geometry) /\ view.main.volume <= plan.geometry.volume
      /\ Fits(view.pent, plan.geometry.volume)
      /\ Fits(view.phdr.entries, plan.geometry.volume)
  BY <1>1, <1>2 DEF PlanSound, GptBeforeVolume
<1>5. CASE WriteBitmap
  <2>1. /\ view'.main = view.main /\ view'.pent = view.pent /\ view'.phdr = view.phdr
        /\ view'.bitmap = BitmapBytes(plan.geometry.clusters) /\ pc' = "mainboot"
    BY <1>1, <1>5 DEF WriteBitmap, Write, Proceed, AfterBitmap, Disk
  <2>2. /\ BitmapBytes(plan.geometry.clusters) \in Nat
        /\ plan.geometry.clusters <= 8 * BitmapBytes(plan.geometry.clusters)
    BY <1>3, BitmapBytesCover
  <2>3. view.main.clusters <= plan.geometry.clusters
    <3>1. /\ HeapOffset < view.main.volume /\ view.main = Geometry(view.main.volume)
          /\ plan.geometry = Geometry(plan.geometry.volume)
      BY <1>2, <1>4 DEF DiskSound, Sound
    <3>2. Geometry(view.main.volume).clusters <= Geometry(plan.geometry.volume).clusters
      BY <1>3, <1>4, <3>1, ClustersMonotone
    <3> QED BY <3>1, <3>2
  <2>4. view.main.clusters <= 8 * BitmapBytes(plan.geometry.clusters)
    BY <1>3, <2>2, <2>3
  <2>5. DiskSound'
    BY <1>1, <1>2, <2>1, <2>4 DEF DiskSound
  <2> QED BY <1>1, <1>4, <2>1, <2>2, <2>5
          DEF GrowthInv, PlanSound, GptBeforeVolume, BitmapBeforeClusters, GptSteps
<1>6. CASE WriteMainBoot
  <2>1. /\ view'.main = plan.geometry /\ view'.pent = view.pent /\ view'.phdr = view.phdr
        /\ view'.bitmap = view.bitmap /\ pc = "mainboot" /\ pc' = "backupboot"
    BY <1>1, <1>6 DEF WriteMainBoot, Write, Proceed, AfterMainBoot, Disk
  <2>2. DiskSound'
    BY <1>1, <1>2, <1>4, <2>1 DEF DiskSound, BitmapBeforeClusters
  <2> QED BY <1>1, <1>3, <1>4, <2>1, <2>2
          DEF GrowthInv, PlanSound, GptBeforeVolume, BitmapBeforeClusters, GptSteps
<1>7. CASE WriteBackupBoot
  <2>1. /\ view'.main = view.main /\ view'.pent = view.pent /\ view'.phdr = view.phdr
        /\ view'.bitmap = view.bitmap /\ pc' = "flush"
    BY <1>1, <1>7 DEF WriteBackupBoot, Write, Proceed, AfterBackupBoot, Disk
  <2>2. DiskSound'
    BY <1>1, <1>2, <2>1 DEF DiskSound
  <2> QED BY <2>1, <2>2, EndedGrowth
<1> QED BY <1>5, <1>6, <1>7

\* Every step of the growth, the drive and the user preserves the growth invariant.
LEMMA NextGrowth == TypeOK /\ GrowthInv /\ [Next]_vars => GrowthInv'
<1> SUFFICES ASSUME TypeOK, GrowthInv, [Next]_vars PROVE GrowthInv'
  OBVIOUS
<1>1. medium' = medium
  BY DEF Next, Grow, PowerOn, ProbeNotRelease, ProbeRefused, ProbeAlreadyGrown, ProbeGrow,
     WriteMbr, WritePrimaryEntries, WriteBackupEntries, WritePrimaryHeader,
     WriteBackupHeader, WriteBitmap, BitmapRefused, WriteMainBoot, WriteBackupBoot,
     FlushBlocks, CallFails, PowerCut, PowerOff, Destage, Clone, Return, Proceed, Lost, vars
<1>2. CASE ~WriteThrough
  BY <1>1, <1>2 DEF GrowthInv, WriteThrough
<1>3. CASE WriteThrough
  <2>0. DiskSound /\ view \in Partial
    BY <1>3 DEF GrowthInv, Partial
  <2>1. ASSUME disk' = view', view' \in Partial, pc' \in {"off", "probe", "flush", "menu"}
        PROVE  GrowthInv'
    BY <1>3, <2>1, InterruptedSound, EndedGrowth
  <2>2. CASE PowerOn \/ ProbeNotRelease \/ ProbeRefused \/ ProbeAlreadyGrown \/ BitmapRefused
             \/ FlushBlocks \/ PowerOff \/ Clone
    BY <2>0, <2>1, <2>2 DEF DiskSound, PowerOn, ProbeNotRelease, ProbeRefused,
       ProbeAlreadyGrown, BitmapRefused, FlushBlocks, PowerOff, Clone, Return, Untouched, Lost
  <2>3. CASE ProbeGrow
    BY <1>3, <2>3, ProbeGrowth
  <2>4. CASE WriteMbr \/ WritePrimaryEntries \/ WriteBackupEntries
             \/ WritePrimaryHeader \/ WriteBackupHeader
    BY <1>3, <2>4, GptGrowth
  <2>5. CASE WriteBitmap \/ WriteMainBoot \/ WriteBackupBoot
    BY <1>3, <2>5, ExfatGrowthStep
  <2>6. CASE CallFails \/ PowerCut
    BY <1>3, <2>1, <2>6 DEF WriteThrough, CallFails, PowerCut, Write, Return, Lost
  <2>7. CASE \E r \in Regions : Destage(r)
    BY <2>0, <2>7 DEF DiskSound, Destage
  <2>8. CASE UNCHANGED vars
    BY <1>3, <2>8 DEF vars, GrowthInv, DiskSound, PlanSound, GptBeforeVolume,
       BitmapBeforeClusters
  <2> QED BY <2>2, <2>3, <2>4, <2>5, <2>6, <2>7, <2>8 DEF Next, Grow
<1> QED BY <1>2, <1>3

\* Whatever is written, cached, torn or lost, the partition is extended before the
\* bitmap and the bitmap before the volume: the strengthening the two theorems
\* below rest on.
THEOREM GrowthOrdered == Spec => []GrowthInv
<1>1. Init => TypeOK /\ GrowthInv
  BY InitTyped, InitGrowth
<1>2. TypeOK /\ GrowthInv /\ [Next]_vars => (TypeOK /\ GrowthInv)'
  BY NextTyped, NextGrowth
<1> QED BY <1>1, <1>2, PTL DEF Spec

\* At every point where power can be lost on a write-through medium the exFAT
\* volume lies inside the DATA partition of both entry arrays.
THEOREM VolumeStaysInside == Spec => []VolumeInsidePartition
<1>1. GrowthInv => VolumeInsidePartition
  BY DEF GrowthInv, DiskSound, VolumeInsidePartition, Fits
<1> QED BY <1>1, GrowthOrdered, PTL

\* At every such point the Allocation Bitmap covers every declared cluster.
THEOREM BitmapStaysLong == Spec => []BitmapCoversClusters
<1>1. GrowthInv => BitmapCoversClusters
  BY DEF GrowthInv, DiskSound, BitmapCoversClusters
<1> QED BY <1>1, GrowthOrdered, PTL

---------------------------------------------------------------------------
(***************************************************************************)
(* Nothing ever shrinks, with or without a write cache: what is on the     *)
(* disk is at most what reads return, which is at most what is planned.    *)
(***************************************************************************)
Below(entries, others) ==
  /\ DOMAIN entries = DOMAIN others
  /\ \A i \in DOMAIN entries : entries[i].end <= others[i].end

ShrinkInv ==
  /\ disk.main.volume <= view.main.volume
  /\ Below(disk.phdr.entries, view.phdr.entries)
  /\ pc \in WriteSteps => view.main.volume <= plan.geometry.volume
  /\ pc \in GptSteps => Below(view.phdr.entries, plan.entries)

\* An entry array is no smaller than itself.
LEMMA BelowReflexive ==
  ASSUME NEW e \in Seq(Entry) PROVE Below(e, e)
<1> SUFFICES ASSUME NEW i \in DOMAIN e PROVE e[i].end <= e[i].end
  BY DEF Below
<1>1. e[i] \in Entry
  OBVIOUS
<1> QED BY <1>1 DEF Entry

\* Extending an extended array extends the first.
LEMMA BelowTransitive ==
  ASSUME NEW e \in Seq(Entry), NEW f \in Seq(Entry), NEW g \in Seq(Entry),
         Below(e, f), Below(f, g)
  PROVE  Below(e, g)
<1>1. DOMAIN e = DOMAIN f /\ DOMAIN f = DOMAIN g
  BY DEF Below
<1> SUFFICES ASSUME NEW i \in DOMAIN e PROVE e[i].end <= g[i].end
  BY <1>1 DEF Below
<1>2. e[i] \in Entry /\ f[i] \in Entry /\ g[i] \in Entry
  BY <1>1
<1>3. e[i].end <= f[i].end /\ f[i].end <= g[i].end
  BY <1>1 DEF Below
<1>4. e[i].end \in Nat /\ f[i].end \in Nat /\ g[i].end \in Nat
  BY <1>2 DEF Entry
<1> QED BY <1>3, <1>4

\* The part of a disk image that NeverShrinks speaks of.
Grew(d, e) ==
  d.main.volume <= e.main.volume /\ Below(d.phdr.entries, e.phdr.entries)

\* Growth of a whole disk is reflexive and transitive too.
LEMMA GrewOrder ==
  /\ \A d \in Disk : Grew(d, d)
  /\ \A d, e, f \in Disk : Grew(d, e) /\ Grew(e, f) => Grew(d, f)
<1>1. ASSUME NEW d \in Disk
      PROVE  d.main.volume \in Nat /\ d.phdr.entries \in Seq(Entry)
  BY DEF Disk, GeometryType
<1>2. ASSUME NEW d \in Disk PROVE Grew(d, d)
  BY <1>1, BelowReflexive DEF Grew
<1>3. ASSUME NEW d \in Disk, NEW e \in Disk, NEW f \in Disk, Grew(d, e), Grew(e, f)
      PROVE  Grew(d, f)
  <2>1. d.main.volume <= f.main.volume
    BY <1>1, <1>3 DEF Grew
  <2>2. Below(d.phdr.entries, f.phdr.entries)
    <3>1. d.phdr.entries \in Seq(Entry) /\ e.phdr.entries \in Seq(Entry)
          /\ f.phdr.entries \in Seq(Entry)
      BY <1>1
    <3> QED BY <1>3, <3>1, BelowTransitive DEF Grew
  <2> QED BY <2>1, <2>2 DEF Grew
<1> QED BY <1>2, <1>3

\* Every write, complete or torn, is a growth of what reads return.
LEMMA WritesGrow ==
  ASSUME TypeOK, ShrinkInv
  PROVE  /\ pc = "mbr" => Grew(view, AfterMbr)
         /\ pc = "pentries" => Grew(view, AfterPrimaryEntries)
         /\ pc = "bentries" => Grew(view, AfterBackupEntries)
         /\ pc = "pheader" => Grew(view, AfterPrimaryHeader)
         /\ pc = "bheader" => Grew(view, AfterBackupHeader)
         /\ pc = "bitmap" => Grew(view, AfterBitmap)
         /\ pc = "mainboot" => Grew(view, AfterMainBoot)
         /\ pc = "backupboot" => Grew(view, AfterBackupBoot)
         /\ \A after \in Partial : Grew(view, after)
<1>1. view \in Disk /\ Grew(view, view)
  BY GrewOrder DEF TypeOK
<1>2. ASSUME NEW d, d.main = view.main, d.phdr = view.phdr PROVE Grew(view, d)
  BY <1>1, <1>2 DEF Grew
<1>3. ASSUME NEW d, d.main = plan.geometry, d.phdr = view.phdr, pc \in WriteSteps
      PROVE  Grew(view, d)
  BY <1>1, <1>3 DEF Grew, ShrinkInv
<1>4. /\ AfterMbr.main = view.main /\ AfterMbr.phdr = view.phdr
      /\ AfterPrimaryEntries.main = view.main /\ AfterPrimaryEntries.phdr = view.phdr
  BY <1>1 DEF AfterMbr, AfterPrimaryEntries, Disk
<1>5. /\ AfterBackupEntries.main = view.main /\ AfterBackupEntries.phdr = view.phdr
      /\ AfterBackupHeader.main = view.main /\ AfterBackupHeader.phdr = view.phdr
  BY <1>1 DEF AfterBackupEntries, AfterBackupHeader, Disk
<1>6. /\ AfterBitmap.main = view.main /\ AfterBitmap.phdr = view.phdr
      /\ AfterBackupBoot.main = view.main /\ AfterBackupBoot.phdr = view.phdr
  BY <1>1 DEF AfterBitmap, AfterBackupBoot, Disk
<1>7. AfterMainBoot.main = plan.geometry /\ AfterMainBoot.phdr = view.phdr
  BY <1>1 DEF AfterMainBoot, Disk
<1>8. pc = "pheader" => Grew(view, AfterPrimaryHeader)
  <2>1. AfterPrimaryHeader.main = view.main /\ AfterPrimaryHeader.phdr.entries = plan.entries
    BY <1>1 DEF AfterPrimaryHeader, Disk
  <2> QED BY <1>1, <2>1 DEF Grew, ShrinkInv, GptSteps
<1>9. ASSUME NEW after \in Partial PROVE Grew(view, after)
  <2>1. CASE after = view
    BY <1>1, <2>1
  <2>2. CASE pc = "mainboot" /\ after = [view EXCEPT !.main = plan.geometry]
    <3>1. after.main = plan.geometry /\ after.phdr = view.phdr
      BY <1>1, <2>2 DEF Disk
    <3> QED BY <1>3, <2>2, <3>1 DEF WriteSteps, ExfatSteps
  <2>3. CASE pc = "backupboot" /\ after = [view EXCEPT !.bak = plan.geometry]
    <3>1. after.main = view.main /\ after.phdr = view.phdr
      BY <1>1, <2>3 DEF Disk
    <3> QED BY <1>2, <3>1
  <2> QED BY <1>9, <2>1, <2>2, <2>3 DEF Partial
<1>10. pc = "mainboot" => Grew(view, AfterMainBoot)
  BY <1>3, <1>7 DEF WriteSteps, ExfatSteps
<1> QED BY <1>2, <1>4, <1>5, <1>6, <1>8, <1>9, <1>10

\* Before anything is planned there is nothing to shrink.
LEMMA InitShrink == Init => ShrinkInv
<1> SUFFICES ASSUME Init PROVE ShrinkInv
  OBVIOUS
<1>1. disk \in Disk /\ view = disk /\ pc = "off"
  BY InitTyped DEF Init, TypeOK
<1>2. Grew(disk, view)
  BY <1>1, GrewOrder
<1> QED BY <1>1, <1>2 DEF Grew, ShrinkInv, WriteSteps, GptSteps, ExfatSteps

\* The plan of ProbeGrow is at least as large as what it read.
LEMMA PlanGrows ==
  ASSUME TypeOK, ProbeGrow
  PROVE  /\ view.main.volume <= plan'.geometry.volume
         /\ Below(view.phdr.entries, plan'.entries)
<1>1. PICK i \in DOMAIN view.pent :
        LET entry == view.pent[i]
            volume == NewVolume(entry.start)
        IN /\ Candidate(i)
           /\ GrowthAccepted(entry)
           /\ plan' = [entries |-> Extended(view.pent, i, entry.start + volume - 1),
                       exfat |-> NeedsExfat(entry),
                       geometry |-> Geometry(volume)]
  BY DEF ProbeGrow, Extended
<1> DEFINE volume == NewVolume(view.pent[i].start)
           end == view.pent[i].start + volume - 1
<1>2. /\ view.pent[i] \in Entry /\ volume \in Nat /\ HeapOffset < view.main.volume
      /\ view.main.volume <= volume
  BY <1>1, AcceptedVolume
<1>3. /\ view.pent \in Seq(Entry) /\ view.main.volume \in Nat /\ HeapOffset \in Nat
      /\ view.pent[i].start \in Nat /\ view.pent[i].end \in Nat
  BY <1>2, ParameterAssumption DEF TypeOK, Disk, GeometryType, Entry
<1>4. view.phdr.entries = view.pent /\ view.pent[i].end <= end
  BY <1>1, <1>2, <1>3 DEF Candidate, PrimaryValid, GrowthAccepted
<1>5. plan'.geometry = Geometry(volume) /\ plan'.entries = Extended(view.pent, i, end)
  BY <1>1
<1> HIDE DEF volume
<1>6. HeapOffset < volume /\ end \in Nat
  BY <1>2, <1>3
<1>7. view.main.volume <= plan'.geometry.volume
  BY <1>2, <1>5, <1>6, GeometryTyped
<1> HIDE DEF end
<1>8. /\ DOMAIN plan'.entries = DOMAIN view.pent /\ plan'.entries[i].end = end
      /\ \A j \in DOMAIN view.pent : j # i => plan'.entries[j] = view.pent[j]
  <2> DEFINE new == Extended(view.pent, i, end)
  <2>1. /\ DOMAIN new = DOMAIN view.pent /\ new[i].end = end
        /\ \A j \in DOMAIN view.pent : j # i => new[j] = view.pent[j]
    BY <1>3, <1>6, ExtendedEntry
  <2> QED BY <1>5, <2>1
<1>9. ASSUME NEW j \in DOMAIN view.pent
      PROVE  view.pent[j].end <= plan'.entries[j].end
  <2>1. CASE j = i
    BY <1>4, <1>8, <2>1
  <2>2. CASE j # i
    <3>1. view.pent[j] \in Entry
      BY <1>3
    <3> QED BY <1>8, <2>2, <3>1 DEF Entry
  <2> QED BY <2>1, <2>2
<1> QED BY <1>4, <1>7, <1>8, <1>9 DEF Below

\* One step: the disk grew, and the invariant holds again.
LEMMA NextShrink ==
  ASSUME TypeOK, TypeOK', ShrinkInv, [Next]_vars
  PROVE  ShrinkInv' /\ Grew(disk, disk')
<1>1. /\ disk \in Disk /\ view \in Disk /\ disk' \in Disk /\ view' \in Disk
      /\ Grew(disk, view)
  BY DEF TypeOK, ShrinkInv, Grew
<1>2. Grew(disk, disk) /\ Grew(view, view) /\ Grew(disk', disk')
  BY <1>1, GrewOrder
\* Steps after which nothing is planned any more.
<1>3. ASSUME Grew(disk, disk'), Grew(disk', view'), pc' \in {"off", "probe", "flush", "menu"}
      PROVE  ShrinkInv' /\ Grew(disk, disk')
  BY <1>3 DEF ShrinkInv, Grew, WriteSteps, GptSteps, ExfatSteps
\* A write of `after`.
<1>4. ASSUME NEW after \in Disk, Grew(view, after), Write(after)
      PROVE  Grew(disk, disk') /\ Grew(disk', view')
  <2>1. Grew(disk, after)
    BY <1>1, <1>4, GrewOrder
  <2> QED BY <1>2, <1>4, <2>1, GrewOrder DEF Write
<1>5. CASE PowerOn \/ ProbeNotRelease \/ ProbeRefused \/ ProbeAlreadyGrown \/ BitmapRefused \/ Clone
  BY <1>1, <1>2, <1>3, <1>5 DEF PowerOn, ProbeNotRelease, ProbeRefused, ProbeAlreadyGrown,
     BitmapRefused, Clone, Return, Untouched
<1>6. CASE ProbeGrow
  <2>1. disk' = disk /\ view' = view
    BY <1>6 DEF ProbeGrow
  <2>2. view.main.volume <= plan'.geometry.volume /\ Below(view.phdr.entries, plan'.entries)
    BY <1>6, PlanGrows
  <2> QED BY <1>1, <1>2, <2>1, <2>2 DEF ShrinkInv, Grew
<1>7. ASSUME NEW after \in Disk, Grew(view, after), Write(after), plan' = plan,
             after.main = view.main, pc \in WriteSteps,
             pc' \in GptSteps => pc \in GptSteps /\ Below(after.phdr.entries, plan.entries)
      PROVE  ShrinkInv' /\ Grew(disk, disk')
  <2>1. Grew(disk, disk') /\ Grew(disk', view') /\ view' = after
    BY <1>4, <1>7 DEF Write
  <2> QED BY <1>7, <2>1 DEF ShrinkInv, Grew
<1>8. view.phdr.entries \in Seq(Entry) /\ plan.entries \in Seq(Entry)
      /\ Below(plan.entries, plan.entries)
  BY BelowReflexive DEF TypeOK, Disk, Plan
<1>9. CASE WriteMbr \/ WritePrimaryEntries \/ WriteBackupEntries
  <2>1. PICK after \in {AfterMbr, AfterPrimaryEntries, AfterBackupEntries} :
          Write(after) /\ Grew(view, after) /\ plan' = plan /\ pc \in GptSteps
    BY <1>9, WritesGrow DEF WriteMbr, WritePrimaryEntries, WriteBackupEntries, Proceed, GptSteps
  <2>2. after \in Disk /\ after.main = view.main /\ after.phdr = view.phdr
    BY <1>1, <2>1, WritesTyped
       DEF AfterMbr, AfterPrimaryEntries, AfterBackupEntries, Disk
  <2> QED BY <1>7, <2>1, <2>2 DEF ShrinkInv, WriteSteps
<1>10. CASE WritePrimaryHeader
  <2>1. AfterPrimaryHeader.main = view.main /\ AfterPrimaryHeader.phdr.entries = plan.entries
    BY <1>1 DEF AfterPrimaryHeader, Disk
  <2> QED BY <1>7, <1>8, <1>10, <2>1, WritesGrow, WritesTyped
          DEF WritePrimaryHeader, Proceed, WriteSteps, GptSteps
<1>11. CASE WriteBackupHeader \/ WriteBitmap
  <2>1. PICK after \in {AfterBackupHeader, AfterBitmap} :
          /\ Write(after) /\ Grew(view, after) /\ plan' = plan
          /\ pc \in WriteSteps /\ pc' \notin GptSteps
    BY <1>11, WritesGrow
       DEF WriteBackupHeader, WriteBitmap, Proceed, WriteSteps, GptSteps, ExfatSteps
  <2>2. after \in Disk /\ after.main = view.main
    BY <1>1, <2>1, WritesTyped DEF AfterBackupHeader, AfterBitmap, Disk
  <2> QED BY <1>7, <2>1, <2>2
<1>12. CASE WriteMainBoot
  <2>1. AfterMainBoot.main = plan.geometry /\ plan.geometry.volume \in Nat
    BY <1>1 DEF AfterMainBoot, Disk, TypeOK, Plan, GeometryType
  <2>2. Grew(disk, disk') /\ Grew(disk', view') /\ view' = AfterMainBoot
    BY <1>4, <1>12, WritesGrow, WritesTyped DEF WriteMainBoot, Write
  <2>3. plan' = plan /\ pc' = "backupboot"
    BY <1>12 DEF WriteMainBoot, Proceed
  <2> QED BY <2>1, <2>2, <2>3 DEF ShrinkInv, Grew, GptSteps
<1>13. CASE WriteBackupBoot
  BY <1>3, <1>4, <1>13, WritesGrow, WritesTyped DEF WriteBackupBoot, Proceed
<1>14. CASE FlushBlocks
  BY <1>1, <1>2, <1>3, <1>14 DEF FlushBlocks, Return
<1>15. CASE CallFails
  <2>1. PICK after \in Partial : Write(after)
    BY <1>15 DEF CallFails
  <2>2. Grew(disk, disk') /\ Grew(disk', view')
    BY <1>4, <2>1, WritesGrow, WritesTyped
  <2> QED BY <1>3, <1>15, <2>2 DEF CallFails, Return
<1>16. CASE PowerCut
  <2>1. disk' = disk \/ disk' \in Partial
    BY <1>16 DEF PowerCut
  <2>2. Grew(disk, disk')
    BY <1>1, <1>2, <2>1, WritesGrow, WritesTyped, GrewOrder
  <2> QED BY <1>2, <1>3, <1>16, <2>2 DEF PowerCut, Lost
<1>17. CASE PowerOff
  BY <1>2, <1>3, <1>17 DEF PowerOff, Lost
<1>18. CASE \E r \in Regions : Destage(r)
  <2>1. PICK r \in Regions : Destage(r)
    BY <1>18
  <2>2. /\ disk'.main \in {disk.main, view.main} /\ disk'.phdr \in {disk.phdr, view.phdr}
        /\ view' = view /\ pc' = pc /\ plan' = plan
    BY <1>1, <2>1 DEF Destage, Regions, Disk
  <2> QED BY <1>1, <1>2, <2>2 DEF ShrinkInv, Grew
<1>19. CASE UNCHANGED vars
  BY <1>2, <1>19 DEF vars, ShrinkInv, Grew
<1> QED BY <1>5, <1>6, <1>9, <1>10, <1>11, <1>12, <1>13, <1>14, <1>15, <1>16, <1>17,
           <1>18, <1>19 DEF Next, Grow

\* The persisted volume and the persisted partitions only ever grow, over any
\* number of boots, failures, power losses and cache write-backs.
THEOREM NeverEverShrinks == Spec => NeverShrinks
<1>1. Init => TypeOK /\ ShrinkInv
  BY InitTyped, InitShrink
<1>2. TypeOK /\ ShrinkInv /\ [Next]_vars => (TypeOK /\ ShrinkInv)'
  BY NextTyped, NextShrink
<1>3. TypeOK /\ ShrinkInv /\ [Next]_vars =>
        [/\ disk.main.volume <= disk'.main.volume
         /\ \A i \in DOMAIN disk.phdr.entries :
              disk.phdr.entries[i].end <= disk'.phdr.entries[i].end]_vars
  BY NextTyped, NextShrink DEF Grew, Below
<1> QED BY <1>1, <1>2, <1>3, PTL DEF Spec, NeverShrinks

---------------------------------------------------------------------------
(***************************************************************************)
(* Durability and the boot regions.                                        *)
(***************************************************************************)
\* The regions of a boot sector and its checksum agree.
MainValid(d) == d.main = d.mainSum
BackupValid(d) == d.bak = d.bakSum

\* Every failure spoils at most one boot region, and the next growth repairs
\* the main one before it touches the other.
RegionsInv ==
  WriteThrough =>
    /\ disk = view
    /\ faults = 0 => MainValid(view) /\ BackupValid(view)
    /\ faults <= 1 => MainValid(view) \/ BackupValid(view)

\* Only flush_blocks makes a boot report Grown, and nothing is written after it.
LEMMA NextDurable == TypeOK /\ GrownIsDurable /\ [Next]_vars => GrownIsDurable'
<1> SUFFICES ASSUME TypeOK, GrownIsDurable, [Next]_vars, pc' = "menu", outcome' = "Grown"
             PROVE  disk' = view'
  BY DEF GrownIsDurable
<1>1. CASE FlushBlocks
  BY <1>1 DEF FlushBlocks
<1>2. CASE \E r \in Regions : Destage(r)
  BY <1>2 DEF Destage, GrownIsDurable
<1>3. CASE UNCHANGED vars
  BY <1>3 DEF vars, GrownIsDurable
<1>4. ~PowerOn /\ ~ProbeGrow /\ ~PowerCut /\ ~PowerOff /\ ~Clone
  BY DEF PowerOn, ProbeGrow, PowerCut, PowerOff, Clone, Lost
<1>5. /\ ~ProbeNotRelease /\ ~ProbeRefused /\ ~ProbeAlreadyGrown
      /\ ~BitmapRefused /\ ~CallFails
  BY DEF ProbeNotRelease, ProbeRefused, ProbeAlreadyGrown, BitmapRefused, CallFails, Return
<1>6. /\ ~WriteMbr /\ ~WritePrimaryEntries /\ ~WriteBackupEntries /\ ~WritePrimaryHeader
      /\ ~WriteBackupHeader /\ ~WriteBitmap /\ ~WriteMainBoot /\ ~WriteBackupBoot
  BY DEF WriteMbr, WritePrimaryEntries, WriteBackupEntries, WritePrimaryHeader,
         WriteBackupHeader, WriteBitmap, WriteMainBoot, WriteBackupBoot, Proceed
<1> QED BY <1>1, <1>2, <1>3, <1>4, <1>5, <1>6 DEF Next, Grow

\* What a boot reports as Grown is on the disk when it is reported and stays
\* there, whether or not the drive caches writes.
THEOREM GrownStaysDurable == Spec => []GrownIsDurable
<1>1. Init => GrownIsDurable
  BY DEF Init, GrownIsDurable
<1> QED BY <1>1, NextDurable, TypeCorrect, PTL DEF Spec

\* Nothing has failed on a medium that was just written.
LEMMA InitRegions == Init => RegionsInv
  BY DEF Init, Flashed, RegionsInv, MainValid, BackupValid

\* The writes that leave both boot regions alone.
LEMMA OtherRegions ==
  ASSUME TypeOK
  PROVE  \A after \in {AfterMbr, AfterPrimaryEntries, AfterBackupEntries,
                       AfterPrimaryHeader, AfterBackupHeader, AfterBitmap} :
           /\ after.main = view.main /\ after.mainSum = view.mainSum
           /\ after.bak = view.bak /\ after.bakSum = view.bakSum
<1>1. view \in Disk
  BY DEF TypeOK
<1>2. ASSUME NEW after \in {AfterMbr, AfterPrimaryEntries, AfterBackupEntries}
      PROVE  /\ after.main = view.main /\ after.mainSum = view.mainSum
             /\ after.bak = view.bak /\ after.bakSum = view.bakSum
  BY <1>1, <1>2 DEF AfterMbr, AfterPrimaryEntries, AfterBackupEntries, Disk
<1>3. ASSUME NEW after \in {AfterPrimaryHeader, AfterBackupHeader, AfterBitmap}
      PROVE  /\ after.main = view.main /\ after.mainSum = view.mainSum
             /\ after.bak = view.bak /\ after.bakSum = view.bakSum
  BY <1>1, <1>3 DEF AfterPrimaryHeader, AfterBackupHeader, AfterBitmap, Disk
<1> QED BY <1>2, <1>3

\* Every step keeps the count of spoiled boot regions below the count of failures.
LEMMA NextRegions == TypeOK /\ RegionsInv /\ [Next]_vars => RegionsInv'
<1> SUFFICES ASSUME TypeOK, RegionsInv, [Next]_vars, WriteThrough' PROVE RegionsInv'
  BY DEF RegionsInv
<1>1. medium' = medium
  BY DEF Next, Grow, PowerOn, ProbeNotRelease, ProbeRefused, ProbeAlreadyGrown, ProbeGrow,
     WriteMbr, WritePrimaryEntries, WriteBackupEntries, WritePrimaryHeader,
     WriteBackupHeader, WriteBitmap, BitmapRefused, WriteMainBoot, WriteBackupBoot,
     FlushBlocks, CallFails, PowerCut, PowerOff, Destage, Clone, Return, Proceed, Lost, vars
<1>2. /\ WriteThrough /\ ~medium.writeCaching /\ disk = view /\ view \in Disk
      /\ faults \in Nat /\ plan \in Plan
  BY <1>1, ParameterAssumption DEF WriteThrough, RegionsInv, TypeOK
<1>3. /\ faults = 0 => MainValid(view) /\ BackupValid(view)
      /\ faults <= 1 => MainValid(view) \/ BackupValid(view)
  BY <1>2 DEF RegionsInv
\* A step that leaves the regions of `view` alone and does not fail.
<1>4. ASSUME disk' = view', faults' = faults,
             view'.main = view.main, view'.mainSum = view.mainSum,
             view'.bak = view.bak, view'.bakSum = view.bakSum
      PROVE  RegionsInv'
  BY <1>3, <1>4 DEF RegionsInv, MainValid, BackupValid
<1>5. CASE PowerOn \/ ProbeNotRelease \/ ProbeRefused \/ ProbeAlreadyGrown \/ ProbeGrow
           \/ BitmapRefused \/ FlushBlocks \/ PowerOff \/ Clone
  <2>1. disk' = view' /\ faults' = faults /\ view' = view
    BY <1>2, <1>5 DEF PowerOn, ProbeNotRelease, ProbeRefused, ProbeAlreadyGrown, ProbeGrow,
       BitmapRefused, FlushBlocks, PowerOff, Clone, Return, Untouched, Lost
  <2> QED BY <1>4, <2>1
<1>6. CASE WriteMbr \/ WritePrimaryEntries \/ WriteBackupEntries
           \/ WritePrimaryHeader \/ WriteBackupHeader \/ WriteBitmap
  <2>1. PICK after \in {AfterMbr, AfterPrimaryEntries, AfterBackupEntries,
                        AfterPrimaryHeader, AfterBackupHeader, AfterBitmap} :
          Write(after) /\ faults' = faults
    BY <1>6 DEF WriteMbr, WritePrimaryEntries, WriteBackupEntries, WritePrimaryHeader,
       WriteBackupHeader, WriteBitmap, Proceed
  <2>2. disk' = view' /\ view' = after
    BY <1>2, <2>1 DEF Write
  <2> QED BY <1>4, <2>1, <2>2, OtherRegions
<1>7. CASE WriteMainBoot
  <2>1. disk' = view' /\ view' = AfterMainBoot /\ faults' = faults
    BY <1>2, <1>7 DEF WriteMainBoot, Write, Proceed
  <2>2. /\ view'.main = plan.geometry /\ view'.mainSum = plan.geometry
        /\ view'.bak = view.bak /\ view'.bakSum = view.bakSum
    BY <1>2, <2>1 DEF AfterMainBoot, Disk
  <2> QED BY <1>3, <2>1, <2>2 DEF RegionsInv, MainValid, BackupValid
<1>8. CASE WriteBackupBoot
  <2>1. disk' = view' /\ view' = AfterBackupBoot /\ faults' = faults
    BY <1>2, <1>8 DEF WriteBackupBoot, Write, Proceed
  <2>2. /\ view'.bak = plan.geometry /\ view'.bakSum = plan.geometry
        /\ view'.main = view.main /\ view'.mainSum = view.mainSum
    BY <1>2, <2>1 DEF AfterBackupBoot, Disk
  <2> QED BY <1>3, <2>1, <2>2 DEF RegionsInv, MainValid, BackupValid
<1>9. CASE CallFails \/ PowerCut
  <2>1. disk' = view' /\ view' \in Partial /\ faults' = faults + 1
    BY <1>2, <1>9 DEF CallFails, PowerCut, Fault, Write, Lost
  <2>2. \/ view'.main = view.main /\ view'.mainSum = view.mainSum
        \/ view'.bak = view.bak /\ view'.bakSum = view.bakSum
    BY <1>2, <2>1 DEF Partial, Disk
  <2>3. faults' <= 1 => MainValid(view) /\ BackupValid(view)
    BY <1>2, <1>3, <2>1
  <2>4. faults' # 0
    BY <1>2, <2>1
  <2> QED BY <2>1, <2>2, <2>3, <2>4 DEF RegionsInv, MainValid, BackupValid
<1>10. CASE \E r \in Regions : Destage(r)
  BY <1>2, <1>10 DEF Destage
<1>11. CASE UNCHANGED vars
  BY <1>2, <1>4, <1>11 DEF vars
<1> QED BY <1>5, <1>6, <1>7, <1>8, <1>9, <1>10, <1>11 DEF Next, Grow

\* After one failure, torn write or loss of power, on any number of boots, one of
\* the two boot regions of a write-through medium still has a valid checksum.
THEOREM OneRegionStaysValid == Spec => []OneBootRegionValid
<1>1. RegionsInv => OneBootRegionValid
  BY DEF RegionsInv, OneBootRegionValid, MainValid, BackupValid
<1> QED BY <1>1, InitRegions, NextRegions, TypeCorrect, PTL DEF Spec

---------------------------------------------------------------------------
(***************************************************************************)
(* The layout of the partition table never changes but for the ends.       *)
(***************************************************************************)
SameLayout(entries, others) ==
  /\ DOMAIN entries = DOMAIN others
  /\ \A i \in DOMAIN entries :
       entries[i].name = others[i].name /\ entries[i].start = others[i].start

LayoutInv ==
  /\ SameLayout(disk.phdr.entries, view.phdr.entries)
  /\ pc \in GptSteps => SameLayout(view.phdr.entries, plan.entries)

---------------------------------------------------------------------------
(***************************************************************************)
(* The plan and how much of it has been carried out, as reads return it.   *)
(***************************************************************************)
Available(start) == NewLastUsable - start + 1

\* The volume the planner computes for a medium that already has v blocks.
Replan(v, start) ==
  GrownVolume(v, Available(start), HeapOffset, SectorsPerCluster, FatClusters, U32Max)

\* An entry array in which entry i is a DATA partition filled by a volume of v
\* blocks that the planner would accept and keep.
Filled(entries, i, v) ==
  /\ IsReleaseMedium /\ medium.gpt /\ medium.exfat
  /\ BackupEntriesLba >= 1
  /\ IsReleaseData(entries, i)
  /\ FatLength > 0 /\ HeapOffset > 24 /\ HeapOffset < Available(entries[i].start)
  /\ Replan(v, entries[i].start) = v
  /\ PlanAccepts(v, Available(entries[i].start), HeapOffset, SectorsPerCluster,
                 FatClusters, U32Max)
  /\ entries[i].end = entries[i].start + v - 1

PlanFills ==
  pc \in WriteSteps \cup {"flush"} =>
    \E i \in DOMAIN plan.entries : Filled(plan.entries, i, plan.geometry.volume)

HeaderCurrent ==
  view.phdr = [backup |-> LastLba, lastUsable |-> NewLastUsable, entries |-> plan.entries]

\* What has been written at each step.
Progress ==
  /\ pc \in {"bentries", "pheader", "bheader", "flush"} \cup ExfatSteps
       => view.pent = plan.entries
  /\ pc \in {"bheader", "flush"} \cup ExfatSteps => HeaderCurrent
  /\ pc \in GptSteps /\ ~plan.exfat => view.main.volume = plan.geometry.volume
  /\ pc \in {"backupboot", "flush"} => view.main.volume = plan.geometry.volume

CapacityInv == PlanFills /\ Progress /\ ReportedAtCapacity

\* The planner is idempotent: given the volume it computed, plan_growth accepts
\* it and computes it again.
LEMMA PlannerFixpoint ==
  ASSUME NEW old \in Nat, NEW available \in Int, NEW fat \in Int,
         PlanAccepts(old, available, HeapOffset, SectorsPerCluster, fat, U32Max)
  PROVE  LET v == GrownVolume(old, available, HeapOffset, SectorsPerCluster, fat, U32Max)
         IN /\ GrownVolume(v, available, HeapOffset, SectorsPerCluster, fat, U32Max) = v
            /\ PlanAccepts(v, available, HeapOffset, SectorsPerCluster, fat, U32Max)
<1> DEFINE cap == Capacity(fat, U32Max)
           full == cap * SectorsPerCluster + HeapOffset
           v == GrownVolume(old, available, HeapOffset, SectorsPerCluster, fat, U32Max)
           again == GrownVolume(v, available, HeapOffset, SectorsPerCluster, fat, U32Max)
<1>1. /\ HeapOffset \in Nat /\ SectorsPerCluster \in Nat \ {0} /\ U32Max \in Nat
  BY ParameterAssumption
<1>2. cap \in Int
  BY <1>1 DEF Capacity, Least
<1>3. full \in Int
  BY <1>1, <1>2
<1>4. /\ old <= available /\ HeapOffset < old
      /\ ClustersIn(old, HeapOffset, SectorsPerCluster) <= cap
      /\ ClustersIn(v, HeapOffset, SectorsPerCluster) >= MinClusters
  BY DEF PlanAccepts
<1>5. v = Least(available, Greatest(full, old)) /\ again = Least(available, Greatest(full, v))
  BY DEF GrownVolume
<1>6. v \in Nat /\ old <= v /\ v <= available
  BY <1>4, GrownVolumeBounds
<1> HIDE DEF v, again, full
<1>7. again = v /\ (v <= full \/ v = old)
  BY <1>3, <1>4, <1>5, <1>6 DEF Least, Greatest
<1>8. ClustersIn(v, HeapOffset, SectorsPerCluster) <= cap
  <2>1. CASE v = old
    BY <1>4, <2>1
  <2>2. CASE v <= full
    <3> DEFINE q == (v - HeapOffset) \div SectorsPerCluster
    <3>1. v - HeapOffset \in Int
      BY <1>1, <1>6
    <3>2. q \in Int /\ SectorsPerCluster * q <= v - HeapOffset
      BY <1>1, <3>1, DivFloor
    <3> HIDE DEF q, cap
    <3>3. SUFFICES ASSUME q >= cap + 1 PROVE FALSE
      BY <1>2, <3>2 DEF ClustersIn, q
    <3>4. SectorsPerCluster * q >= SectorsPerCluster * (cap + 1)
      BY <1>1, <1>2, <3>2, <3>3, SMT
    <3>5. SectorsPerCluster * (cap + 1) = cap * SectorsPerCluster + SectorsPerCluster
      BY <1>1, <1>2, SMT
    <3>6. v - HeapOffset <= cap * SectorsPerCluster
      BY <1>1, <1>2, <1>3, <1>6, <2>2 DEF full
    <3>7. cap * SectorsPerCluster \in Int /\ SectorsPerCluster * q \in Int
      BY <1>1, <1>2, <3>2
    <3> HIDE DEF full
    <3> QED BY <1>1, <3>1, <3>2, <3>4, <3>5, <3>6, <3>7, SMT
  <2> QED BY <1>7, <2>1, <2>2
<1>9. PlanAccepts(v, available, HeapOffset, SectorsPerCluster, fat, U32Max)
  <2>1. HeapOffset < v
    BY <1>1, <1>4, <1>6
  <2>2. GrownVolume(v, available, HeapOffset, SectorsPerCluster, fat, U32Max) = v
    BY <1>7 DEF again
  <2> QED BY <1>4, <1>6, <1>8, <2>1, <2>2 DEF PlanAccepts
<1> QED BY <1>7, <1>9 DEF v, again

\* The sizes an accepted growth computes with.
LEMMA AcceptedNumbers ==
  ASSUME TypeOK, NEW i \in DOMAIN view.pent
  PROVE  /\ view.pent \in Seq(Entry) /\ view.pent[i] \in Entry
         /\ view.pent[i].start \in Nat /\ view.pent[i].end \in Nat
         /\ view.main.volume \in Nat
         /\ Available(view.pent[i].start) \in Int /\ FatClusters \in Int
<1>1. view \in Disk /\ medium \in Medium /\ medium.blockSize > 0 /\ total \in Nat \ {0}
  BY DEF TypeOK
<1>2. view.pent \in Seq(Entry) /\ view.main \in GeometryType
  BY <1>1 DEF Disk
<1>3. view.pent[i] \in Entry
  BY <1>2
<1>4. view.main.volume \in Nat /\ view.pent[i].start \in Nat /\ view.pent[i].end \in Nat
  BY <1>2, <1>3 DEF GeometryType, Entry
<1>5. EntryBlocks(medium) \in Nat
  BY <1>1, EntryBlocksNat
<1>6. Available(view.pent[i].start) \in Int
  BY <1>1, <1>4, <1>5 DEF Available, NewLastUsable, BackupEntriesLba, LastLba
<1>7. medium.blockSize \in Nat /\ FatLength \in Nat
  BY <1>1, ParameterAssumption DEF Medium
<1>8. FatClusters \in Int
  BY <1>7 DEF FatClusters, FatCapacity
<1> QED BY <1>2, <1>3, <1>4, <1>6, <1>8

\* Extending one entry changes neither names nor starts.
LEMMA ExtendedLayout ==
  ASSUME NEW entries \in Seq(Entry), NEW i \in DOMAIN entries, NEW end \in Nat
  PROVE  SameLayout(entries, Extended(entries, i, end))
  BY ExtendedEntry DEF SameLayout

\* Arrays of the same layout have the same release partition.
LEMMA LayoutData ==
  ASSUME NEW e, NEW f, SameLayout(e, f), NEW i \in DOMAIN e
  PROVE  /\ IsData(e, i) <=> IsData(f, i)
         /\ IsReleaseData(e, i) => IsReleaseData(f, i)
  BY DEF SameLayout, IsData, IsReleaseData

\* What ProbeGrow plans for the entry it found.
LEMMA PlannedEntry ==
  ASSUME TypeOK, ProbeGrow
  PROVE  \E i \in DOMAIN view.pent :
           LET volume == NewVolume(view.pent[i].start)
               end == view.pent[i].start + volume - 1
           IN /\ Candidate(i) /\ GrowthAccepted(view.pent[i])
              /\ volume \in Nat /\ end \in Nat
              /\ plan'.entries = Extended(view.pent, i, end)
              /\ plan'.entries[i].start = view.pent[i].start
              /\ plan'.entries[i].end = end
              /\ DOMAIN plan'.entries = DOMAIN view.pent
              /\ SameLayout(view.pent, plan'.entries)
              /\ plan'.geometry.volume = volume
              /\ plan'.exfat = NeedsExfat(view.pent[i])
              /\ NeedsGpt(view.pent[i]) \/ NeedsExfat(view.pent[i])
              /\ pc' = IF NeedsGpt(view.pent[i]) THEN "mbr" ELSE "bitmap"
<1>1. PICK i \in DOMAIN view.pent :
        LET entry == view.pent[i]
            volume == NewVolume(entry.start)
        IN /\ Candidate(i)
           /\ GrowthAccepted(entry)
           /\ NeedsGpt(entry) \/ NeedsExfat(entry)
           /\ plan' = [entries |-> Extended(view.pent, i, entry.start + volume - 1),
                       exfat |-> NeedsExfat(entry),
                       geometry |-> Geometry(volume)]
           /\ pc' = IF NeedsGpt(entry) THEN "mbr" ELSE "bitmap"
  BY DEF ProbeGrow, Extended
<1> DEFINE volume == NewVolume(view.pent[i].start)
           end == view.pent[i].start + volume - 1
<1>2. /\ view.pent \in Seq(Entry) /\ view.pent[i] \in Entry
      /\ view.pent[i].start \in Nat /\ view.main.volume \in Nat
  BY AcceptedNumbers
<1>3. volume \in Nat /\ HeapOffset < view.main.volume /\ view.main.volume <= volume
  BY <1>1, AcceptedVolume
<1>4. /\ plan'.entries = Extended(view.pent, i, end) /\ plan'.geometry = Geometry(volume)
      /\ plan'.exfat = NeedsExfat(view.pent[i])
  BY <1>1
<1> HIDE DEF volume
<1>5. HeapOffset < volume /\ end \in Nat
  <2>1. HeapOffset \in Nat
    BY ParameterAssumption
  <2>2. HeapOffset < volume
    BY <1>2, <1>3, <2>1
  <2> QED BY <1>2, <1>3, <2>1, <2>2
<1>6. plan'.geometry.volume = volume
  BY <1>3, <1>4, <1>5, GeometryTyped
<1> HIDE DEF end
<1>7. /\ SameLayout(view.pent, Extended(view.pent, i, end))
      /\ Extended(view.pent, i, end)[i].end = end
  BY <1>2, <1>5, ExtendedLayout, ExtendedEntry
<1>8. /\ SameLayout(view.pent, plan'.entries) /\ plan'.entries[i].end = end
      /\ DOMAIN plan'.entries = DOMAIN view.pent
      /\ plan'.entries[i].start = view.pent[i].start
  BY <1>4, <1>7 DEF SameLayout
<1> QED BY <1>1, <1>3, <1>4, <1>5, <1>6, <1>8 DEF volume, end

\* The plan fills the medium and is a fixed point of the planner.
LEMMA ProbeFills ==
  ASSUME TypeOK, ProbeGrow
  PROVE  PlanFills'
<1>1. PICK i \in DOMAIN view.pent :
        LET volume == NewVolume(view.pent[i].start)
            end == view.pent[i].start + volume - 1
        IN /\ Candidate(i) /\ GrowthAccepted(view.pent[i])
           /\ plan'.entries[i].start = view.pent[i].start
           /\ plan'.entries[i].end = end
           /\ DOMAIN plan'.entries = DOMAIN view.pent
           /\ SameLayout(view.pent, plan'.entries)
           /\ plan'.geometry.volume = volume
  BY PlannedEntry
<1> DEFINE start == view.pent[i].start
           volume == NewVolume(start)
<1>2. /\ view.main.volume \in Nat /\ Available(start) \in Int /\ FatClusters \in Int
  BY AcceptedNumbers
<1>3. PlanAccepts(view.main.volume, Available(start), HeapOffset, SectorsPerCluster,
                  FatClusters, U32Max)
  BY <1>1 DEF GrowthAccepted, Available
<1>4. volume = Replan(view.main.volume, start)
  BY DEF NewVolume, Replan, Available
<1>5. /\ Replan(volume, start) = volume
      /\ PlanAccepts(volume, Available(start), HeapOffset, SectorsPerCluster,
                     FatClusters, U32Max)
  BY <1>2, <1>3, <1>4, PlannerFixpoint DEF Replan
<1>6. /\ medium.exfat /\ FatLength > 0 /\ HeapOffset > 24
      /\ HeapOffset < Available(start)
  BY <1>1 DEF GrowthAccepted, Available
<1>7. /\ IsReleaseMedium /\ medium.gpt /\ BackupEntriesLba >= 1 /\ IsReleaseData(view.pent, i)
  BY <1>1 DEF Candidate, PrimaryValid
<1>8. IsReleaseData(plan'.entries, i)
  BY <1>1, <1>7, LayoutData
<1> HIDE DEF volume
<1>9. Filled(plan'.entries, i, volume)
  BY <1>1, <1>5, <1>6, <1>7, <1>8 DEF Filled, volume
<1>10. total' = total /\ medium' = medium
  BY DEF ProbeGrow
<1>11. i \in DOMAIN plan'.entries /\ plan'.geometry.volume = volume
  BY <1>1 DEF volume
<1>12. Filled(plan.entries, i, plan.geometry.volume)'
  BY <1>9, <1>10, <1>11 DEF Filled, Replan, Available, FatClusters, IsReleaseMedium,
     NewLastUsable, BackupEntriesLba, LastLba
<1> QED BY <1>11, <1>12 DEF PlanFills

\* A plan that has been carried out is what one more boot would find.
LEMMA CarriedOut ==
  ASSUME TypeOK, pc = "flush", PlanFills, Progress
  PROVE  AtCapacity
<1>1. PICK i \in DOMAIN plan.entries : Filled(plan.entries, i, plan.geometry.volume)
  BY DEF PlanFills
<1>2. /\ view.pent = plan.entries /\ HeaderCurrent
      /\ view.main.volume = plan.geometry.volume
  BY DEF Progress
<1>3. /\ view.phdr.backup = LastLba /\ view.phdr.lastUsable = NewLastUsable
      /\ view.phdr.entries = view.pent
  BY <1>2 DEF HeaderCurrent
<1>4. Filled(view.pent, i, view.main.volume)
  BY <1>1, <1>2
<1>5. NewVolume(view.pent[i].start) = view.main.volume
  BY <1>4 DEF Filled, NewVolume, Replan, Available
<1>6. Candidate(i)
  BY <1>3, <1>4 DEF Candidate, PrimaryValid, Filled
<1>7. /\ view.pent[i].end = view.pent[i].start + NewVolume(view.pent[i].start) - 1
  BY <1>4, <1>5 DEF Filled
<1>8. i \in DOMAIN view.pent
  BY <1>1, <1>2
<1>9. view.pent[i].end \in Nat
  BY <1>8, AcceptedNumbers
<1>10. GrowthAccepted(view.pent[i])
  <2>1. view.pent[i].start + NewVolume(view.pent[i].start) - 1 >= view.pent[i].end
    BY <1>7, <1>9
  <2> QED BY <1>4, <2>1 DEF GrowthAccepted, Filled, Available
<1>11. ~NeedsGpt(view.pent[i]) /\ ~NeedsExfat(view.pent[i])
  BY <1>3, <1>5, <1>7 DEF NeedsGpt, NeedsExfat
<1> QED BY <1>6, <1>8, <1>10, <1>11 DEF AtCapacity

\* What a boot finds depends on the medium and on what reads return only.
LEMMA StableCapacity ==
  ASSUME total' = total, medium' = medium, view' = view, AtCapacity
  PROVE  AtCapacity'
<1>1. /\ LastLba' = LastLba /\ BackupEntriesLba' = BackupEntriesLba
      /\ NewLastUsable' = NewLastUsable /\ FatClusters' = FatClusters
  BY DEF LastLba, BackupEntriesLba, NewLastUsable, FatClusters
<1>2. IsReleaseMedium' = IsReleaseMedium
  BY DEF IsReleaseMedium
<1>3. PICK i \in DOMAIN view.pent :
        /\ Candidate(i) /\ GrowthAccepted(view.pent[i])
        /\ ~NeedsGpt(view.pent[i]) /\ ~NeedsExfat(view.pent[i])
  BY DEF AtCapacity
<1>4. NewVolume(view.pent[i].start)' = NewVolume(view.pent[i].start)
  BY <1>1 DEF NewVolume
<1>5. Candidate(i)'
  BY <1>1, <1>2, <1>3 DEF Candidate, PrimaryValid, IsReleaseData, IsData
<1>6. GrowthAccepted(view.pent[i])'
  BY <1>1, <1>3, <1>4 DEF GrowthAccepted
<1>7. ~NeedsGpt(view.pent[i])' /\ ~NeedsExfat(view.pent[i])'
  BY <1>1, <1>3, <1>4 DEF NeedsGpt, NeedsExfat
<1> QED BY <1>3, <1>5, <1>6, <1>7 DEF AtCapacity

\* Neither does the plan's fit.
LEMMA StablePlan ==
  ASSUME total' = total, medium' = medium, plan' = plan, PlanFills,
         pc \in WriteSteps \cup {"flush"}
  PROVE  PlanFills'
<1>1. /\ BackupEntriesLba' = BackupEntriesLba
      /\ NewLastUsable' = NewLastUsable /\ FatClusters' = FatClusters
  BY DEF LastLba, BackupEntriesLba, NewLastUsable, FatClusters
<1>2. IsReleaseMedium' = IsReleaseMedium
  BY DEF IsReleaseMedium
<1>3. PICK i \in DOMAIN plan.entries : Filled(plan.entries, i, plan.geometry.volume)
  BY DEF PlanFills
<1>4. Filled(plan.entries, i, plan.geometry.volume)'
  BY <1>1, <1>2, <1>3 DEF Filled, Replan, Available
<1> QED BY <1>3, <1>4 DEF PlanFills

\* Nothing has been planned or reported yet.
LEMMA InitCapacity == Init => CapacityInv
  BY DEF Init, CapacityInv, PlanFills, Progress, ReportedAtCapacity, WriteSteps, GptSteps,
         ExfatSteps

\* ProbeGrow starts with what it read: what it leaves out is already in place.
LEMMA ProbeProgress ==
  ASSUME TypeOK, ProbeGrow
  PROVE  Progress'
<1>1. PICK i \in DOMAIN view.pent :
        LET volume == NewVolume(view.pent[i].start)
            end == view.pent[i].start + volume - 1
        IN /\ Candidate(i)
           /\ plan'.entries = Extended(view.pent, i, end)
           /\ plan'.geometry.volume = volume
           /\ plan'.exfat = NeedsExfat(view.pent[i])
           /\ pc' = IF NeedsGpt(view.pent[i]) THEN "mbr" ELSE "bitmap"
  BY PlannedEntry
<1>2. total' = total /\ medium' = medium /\ view' = view
  BY DEF ProbeGrow
<1>3. LastLba' = LastLba /\ NewLastUsable' = NewLastUsable
  BY <1>2 DEF LastLba, BackupEntriesLba, NewLastUsable
<1>4. ~plan'.exfat => view.main.volume = plan'.geometry.volume
  BY <1>1 DEF NeedsExfat
<1>5. CASE pc' = "mbr"
  BY <1>2, <1>4, <1>5 DEF Progress, GptSteps, ExfatSteps
<1>6. CASE pc' = "bitmap"
  <2>1. /\ view.phdr.backup = LastLba /\ view.phdr.lastUsable = NewLastUsable
        /\ view.pent[i].end = view.pent[i].start + NewVolume(view.pent[i].start) - 1
        /\ view.phdr.entries = view.pent
    BY <1>1, <1>6 DEF NeedsGpt, Candidate, PrimaryValid
  <2>2. view.pent \in Seq(Entry) /\ view.pent[i] \in Entry /\ view \in Disk
    BY AcceptedNumbers DEF TypeOK
  <2>3. Extended(view.pent, i, view.pent[i].end) = view.pent
    <3>1. [view.pent[i] EXCEPT !.end = view.pent[i].end] = view.pent[i]
      BY <2>2 DEF Entry
    <3>2. [view.pent EXCEPT ![i] = view.pent[i]] = view.pent
      BY <2>2
    <3> QED BY <3>1, <3>2 DEF Extended
  <2>4. plan'.entries = view.pent
    BY <1>1, <2>1, <2>3
  <2>5. view.phdr \in [backup : Nat, lastUsable : Int, entries : Seq(Entry)]
    BY <2>2 DEF Disk
  <2>6. view.phdr = [backup |-> LastLba, lastUsable |-> NewLastUsable, entries |-> plan'.entries]
    BY <2>1, <2>4, <2>5
  <2> QED BY <1>2, <1>3, <1>6, <2>4, <2>6 DEF Progress, HeaderCurrent, GptSteps, ExfatSteps
<1> QED BY <1>1, <1>5, <1>6

\* The writes carry the plan out in order.
LEMMA WriteProgress ==
  ASSUME TypeOK, Progress,
         \/ WriteMbr \/ WritePrimaryEntries \/ WriteBackupEntries \/ WritePrimaryHeader
         \/ WriteBackupHeader \/ WriteBitmap \/ WriteMainBoot \/ WriteBackupBoot
  PROVE  /\ Progress'
         /\ pc \in WriteSteps /\ pc' \in WriteSteps \cup {"flush"}
         /\ total' = total /\ medium' = medium /\ plan' = plan
<1>1. view \in Disk /\ plan \in Plan
  BY DEF TypeOK
<1>2. /\ total' = total /\ medium' = medium /\ plan' = plan
      /\ pc \in WriteSteps /\ pc' \in WriteSteps \cup {"flush"}
  BY DEF WriteMbr, WritePrimaryEntries, WriteBackupEntries, WritePrimaryHeader,
     WriteBackupHeader, WriteBitmap, WriteMainBoot, WriteBackupBoot, Proceed,
     WriteSteps, GptSteps, ExfatSteps
<1>3. LastLba' = LastLba /\ NewLastUsable' = NewLastUsable
  BY <1>2 DEF LastLba, BackupEntriesLba, NewLastUsable
<1>4. HeaderCurrent /\ view'.phdr = view.phdr => HeaderCurrent'
  BY <1>2, <1>3 DEF HeaderCurrent
<1>5. CASE WriteMbr
  <2>1. view'.pent = view.pent /\ view'.phdr = view.phdr /\ view'.main = view.main
        /\ pc = "mbr" /\ pc' = "pentries"
    BY <1>1, <1>5 DEF WriteMbr, Write, Proceed, AfterMbr, Disk
  <2> QED BY <1>2, <2>1 DEF Progress, GptSteps, ExfatSteps
<1>6. CASE WritePrimaryEntries
  <2>1. view'.pent = plan.entries /\ view'.phdr = view.phdr /\ view'.main = view.main
        /\ pc = "pentries" /\ pc' = "bentries"
    BY <1>1, <1>6 DEF WritePrimaryEntries, Write, Proceed, AfterPrimaryEntries, Disk
  <2> QED BY <1>2, <2>1 DEF Progress, GptSteps, ExfatSteps
<1>7. CASE WriteBackupEntries
  <2>1. view'.pent = view.pent /\ view'.phdr = view.phdr /\ view'.main = view.main
        /\ pc = "bentries" /\ pc' = "pheader"
    BY <1>1, <1>7 DEF WriteBackupEntries, Write, Proceed, AfterBackupEntries, Disk
  <2> QED BY <1>2, <2>1 DEF Progress, GptSteps, ExfatSteps
<1>8. CASE WritePrimaryHeader
  <2>1. /\ view'.pent = view.pent /\ view'.main = view.main
        /\ view'.phdr = [backup |-> LastLba, lastUsable |-> NewLastUsable,
                         entries |-> plan.entries]
        /\ pc = "pheader" /\ pc' = "bheader"
    BY <1>1, <1>8 DEF WritePrimaryHeader, Write, Proceed, AfterPrimaryHeader, Disk
  <2>2. HeaderCurrent'
    BY <1>2, <1>3, <2>1 DEF HeaderCurrent
  <2> QED BY <1>2, <2>1, <2>2 DEF Progress, GptSteps, ExfatSteps
<1>9. CASE WriteBackupHeader
  <2>1. /\ view'.pent = view.pent /\ view'.phdr = view.phdr /\ view'.main = view.main
        /\ pc = "bheader" /\ pc' = IF plan.exfat THEN "bitmap" ELSE "flush"
    BY <1>1, <1>9 DEF WriteBackupHeader, Write, Proceed, AfterBackupHeader, Disk
  <2>2. HeaderCurrent'
    BY <1>4, <2>1 DEF Progress
  <2> QED BY <1>2, <2>1, <2>2 DEF Progress, GptSteps, ExfatSteps
<1>10. CASE WriteBitmap
  <2>1. /\ view'.pent = view.pent /\ view'.phdr = view.phdr /\ view'.main = view.main
        /\ pc = "bitmap" /\ pc' = "mainboot"
    BY <1>1, <1>10 DEF WriteBitmap, Write, Proceed, AfterBitmap, Disk
  <2>2. HeaderCurrent'
    BY <1>4, <2>1 DEF Progress, ExfatSteps
  <2> QED BY <1>2, <2>1, <2>2 DEF Progress, GptSteps, ExfatSteps
<1>11. CASE WriteMainBoot
  <2>1. /\ view'.pent = view.pent /\ view'.phdr = view.phdr /\ view'.main = plan.geometry
        /\ pc = "mainboot" /\ pc' = "backupboot"
    BY <1>1, <1>11 DEF WriteMainBoot, Write, Proceed, AfterMainBoot, Disk
  <2>2. HeaderCurrent'
    BY <1>4, <2>1 DEF Progress, ExfatSteps
  <2> QED BY <1>2, <2>1, <2>2 DEF Progress, GptSteps, ExfatSteps
<1>12. CASE WriteBackupBoot
  <2>1. /\ view'.pent = view.pent /\ view'.phdr = view.phdr /\ view'.main = view.main
        /\ pc = "backupboot" /\ pc' = "flush"
    BY <1>1, <1>12 DEF WriteBackupBoot, Write, Proceed, AfterBackupBoot, Disk
  <2>2. HeaderCurrent'
    BY <1>4, <2>1 DEF Progress, ExfatSteps
  <2> QED BY <1>2, <2>1, <2>2 DEF Progress, GptSteps, ExfatSteps
<1> QED BY <1>2, <1>5, <1>6, <1>7, <1>8, <1>9, <1>10, <1>11, <1>12

\* Every step carries the plan further, ends it, or leaves it as it is.
LEMMA NextCapacity == TypeOK /\ CapacityInv /\ [Next]_vars => CapacityInv'
<1> SUFFICES ASSUME TypeOK, CapacityInv, [Next]_vars PROVE CapacityInv'
  OBVIOUS
<1>0. PlanFills /\ Progress /\ ReportedAtCapacity
  BY DEF CapacityInv
\* Whatever is not in the middle of a growth and reports no success.
<1>1. ASSUME \/ pc' \in {"off", "probe"}
             \/ pc' = "menu" /\ outcome' \in {"NotReleaseMedia", "Error"}
      PROVE  CapacityInv'
  BY <1>1 DEF CapacityInv, PlanFills, Progress, ReportedAtCapacity, WriteSteps, GptSteps,
              ExfatSteps
<1>2. CASE PowerOn \/ ProbeNotRelease \/ ProbeRefused \/ BitmapRefused \/ CallFails
           \/ PowerCut \/ PowerOff \/ Clone
  BY <1>1, <1>2 DEF PowerOn, ProbeNotRelease, ProbeRefused, BitmapRefused, CallFails,
     PowerCut, PowerOff, Clone, Return, Lost
\* A success: the growth has ended at capacity.
<1>3. ASSUME AtCapacity', pc' = "menu" PROVE CapacityInv'
  BY <1>3 DEF CapacityInv, PlanFills, Progress, ReportedAtCapacity, WriteSteps, GptSteps,
              ExfatSteps
<1>4. CASE ProbeAlreadyGrown
  <2>1. AtCapacity
    BY <1>4 DEF ProbeAlreadyGrown, AtCapacity
  <2>2. total' = total /\ medium' = medium /\ view' = view /\ pc' = "menu"
    BY <1>4 DEF ProbeAlreadyGrown, Return, Untouched
  <2> QED BY <1>3, <2>1, <2>2, StableCapacity
<1>5. CASE FlushBlocks
  <2>1. total' = total /\ medium' = medium /\ view' = view /\ pc' = "menu" /\ pc = "flush"
    BY <1>5 DEF FlushBlocks, Return
  <2>2. AtCapacity
    BY <1>0, <2>1, CarriedOut
  <2> QED BY <1>3, <2>1, <2>2, StableCapacity
\* A step inside a growth.
<1>6. ASSUME PlanFills', Progress', pc' # "menu" PROVE CapacityInv'
  BY <1>6 DEF CapacityInv, ReportedAtCapacity
<1>7. CASE ProbeGrow
  <2>1. pc' # "menu"
    BY <1>7 DEF ProbeGrow
  <2> QED BY <1>6, <1>7, <2>1, ProbeFills, ProbeProgress
<1>8. CASE WriteMbr \/ WritePrimaryEntries \/ WriteBackupEntries \/ WritePrimaryHeader
           \/ WriteBackupHeader \/ WriteBitmap \/ WriteMainBoot \/ WriteBackupBoot
  <2>1. /\ Progress' /\ pc \in WriteSteps /\ pc' \in WriteSteps \cup {"flush"}
        /\ total' = total /\ medium' = medium /\ plan' = plan
    BY <1>0, <1>8, WriteProgress
  <2>2. pc' # "menu"
    BY <2>1 DEF WriteSteps, GptSteps, ExfatSteps
  <2> QED BY <1>0, <1>6, <2>1, <2>2, StablePlan
<1>9. CASE (\E r \in Regions : Destage(r)) \/ UNCHANGED vars
  <2>1. /\ total' = total /\ medium' = medium /\ view' = view /\ plan' = plan
        /\ pc' = pc /\ outcome' = outcome
    BY <1>9 DEF Destage, vars
  <2>2. PlanFills'
    <3>1. CASE pc \in WriteSteps \cup {"flush"}
      BY <1>0, <2>1, <3>1, StablePlan
    <3>2. CASE pc \notin WriteSteps \cup {"flush"}
      BY <2>1, <3>2 DEF PlanFills
    <3> QED BY <3>1, <3>2
  <2>3. HeaderCurrent => HeaderCurrent'
    BY <2>1 DEF HeaderCurrent, LastLba, BackupEntriesLba, NewLastUsable
  <2>4. Progress'
    BY <1>0, <2>1, <2>3 DEF Progress
  <2>5. ReportedAtCapacity'
    BY <1>0, <2>1, StableCapacity DEF ReportedAtCapacity
  <2> QED BY <2>2, <2>4, <2>5 DEF CapacityInv
<1> QED BY <1>2, <1>4, <1>5, <1>7, <1>8, <1>9 DEF Next, Grow

\* The plan fits the medium and is carried out in order, whatever is interrupted:
\* the strengthening that the report of a boot rests on.
THEOREM PlanCarriedOut == Spec => []CapacityInv
<1> QED BY InitCapacity, NextCapacity, TypeCorrect, PTL DEF Spec

\* A boot that reports Grown or AlreadyGrown leaves a medium on which one more
\* boot finds nothing to do, for every geometry: plan_growth is idempotent and
\* every region it looks at has been written.
THEOREM ReportsAreFinal == Spec => []ReportedAtCapacity
<1>1. CapacityInv => ReportedAtCapacity
  BY DEF CapacityInv
<1> QED BY <1>1, PlanCarriedOut, PTL
---------------------------------------------------------------------------
(***************************************************************************)
(* The backup GPT.                                                         *)
(***************************************************************************)
\* Layout is an equivalence.
LEMMA LayoutOrder ==
  /\ \A e : SameLayout(e, e)
  /\ \A e, f, g : SameLayout(e, f) /\ SameLayout(f, g) => SameLayout(e, g)
  BY DEF SameLayout

\* A new header covers an array of the same layout.
LEMMA HeaderLayout ==
  ASSUME TypeOK, LayoutInv
  PROVE  /\ \A after \in {AfterMbr, AfterPrimaryEntries, AfterBackupEntries,
                           AfterBackupHeader, AfterBitmap, AfterMainBoot, AfterBackupBoot}
                 \cup Partial : after.phdr = view.phdr
         /\ AfterPrimaryHeader.phdr.entries = plan.entries
<1>1. view \in Disk
  BY DEF TypeOK
<1>2. ASSUME NEW after \in {AfterMbr, AfterPrimaryEntries, AfterBackupEntries}
      PROVE  after.phdr = view.phdr
  BY <1>1, <1>2 DEF AfterMbr, AfterPrimaryEntries, AfterBackupEntries, Disk
<1>3. ASSUME NEW after \in {AfterBackupHeader, AfterBitmap, AfterMainBoot, AfterBackupBoot}
      PROVE  after.phdr = view.phdr
  BY <1>1, <1>3 DEF AfterBackupHeader, AfterBitmap, AfterMainBoot, AfterBackupBoot, Disk
<1>4. ASSUME NEW after \in Partial PROVE after.phdr = view.phdr
  BY <1>1, <1>4 DEF Partial, Disk
<1>5. AfterPrimaryHeader.phdr.entries = plan.entries
  BY <1>1 DEF AfterPrimaryHeader, Disk
<1> QED BY <1>2, <1>3, <1>4, <1>5

\* No step changes the name or the start of a partition.
LEMMA NextLayout ==
  ASSUME TypeOK, LayoutInv, [Next]_vars
  PROVE  LayoutInv' /\ SameLayout(disk.phdr.entries, disk'.phdr.entries)
<1>1. /\ disk \in Disk /\ view \in Disk
      /\ SameLayout(disk.phdr.entries, view.phdr.entries)
      /\ SameLayout(disk.phdr.entries, disk.phdr.entries)
  BY LayoutOrder DEF TypeOK, LayoutInv
\* A step after which both images hold one of the two headers there are.
<1>2. ASSUME disk'.phdr \in {disk.phdr, view.phdr}, view'.phdr \in {view.phdr, disk'.phdr},
             pc' \in GptSteps =>
               pc \in GptSteps /\ plan' = plan /\ view'.phdr = view.phdr,
             disk'.phdr = view.phdr => view'.phdr = view.phdr
      PROVE  LayoutInv' /\ SameLayout(disk.phdr.entries, disk'.phdr.entries)
  <2>1. SameLayout(disk.phdr.entries, disk'.phdr.entries)
    BY <1>1, <1>2
  <2>2. SameLayout(disk'.phdr.entries, view'.phdr.entries)
    BY <1>1, <1>2, LayoutOrder
  <2>3. pc' \in GptSteps => SameLayout(view'.phdr.entries, plan'.entries)
    BY <1>2 DEF LayoutInv
  <2> QED BY <2>1, <2>2, <2>3 DEF LayoutInv
<1>3. CASE PowerOn \/ ProbeNotRelease \/ ProbeRefused \/ ProbeAlreadyGrown \/ BitmapRefused
           \/ FlushBlocks \/ PowerOff \/ Clone
  <2>1. /\ disk' \in {disk, view} /\ view' \in {view, disk'} /\ pc' \notin GptSteps
        /\ disk' = view => view' = view
    BY <1>3 DEF PowerOn, ProbeNotRelease, ProbeRefused, ProbeAlreadyGrown, BitmapRefused,
       FlushBlocks, PowerOff, Clone, Return, Untouched, Lost, GptSteps
  <2>2. disk'.phdr \in {disk.phdr, view.phdr} /\ view'.phdr \in {view.phdr, disk'.phdr}
    BY <2>1
  <2>3. disk'.phdr = view.phdr => view'.phdr = view.phdr
    BY <2>1, <2>2
  <2> QED BY <1>2, <2>1, <2>2, <2>3
<1>4. CASE ProbeGrow
  <2>1. disk' = disk /\ view' = view
    BY <1>4 DEF ProbeGrow
  <2>2. SameLayout(view.phdr.entries, plan'.entries)
    <3>1. PICK i \in DOMAIN view.pent : Candidate(i) /\ SameLayout(view.pent, plan'.entries)
      BY <1>4, PlannedEntry
    <3> QED BY <3>1 DEF Candidate, PrimaryValid
  <2> QED BY <1>1, <2>1, <2>2 DEF LayoutInv
<1>5. CASE \/ WriteMbr \/ WritePrimaryEntries \/ WriteBackupEntries
           \/ WriteBackupHeader \/ WriteBitmap \/ WriteMainBoot \/ WriteBackupBoot
  <2>1. PICK after \in {AfterMbr, AfterPrimaryEntries, AfterBackupEntries,
                        AfterBackupHeader, AfterBitmap, AfterMainBoot, AfterBackupBoot} :
          Write(after)
    BY <1>5 DEF WriteMbr, WritePrimaryEntries, WriteBackupEntries, WriteBackupHeader,
       WriteBitmap, WriteMainBoot, WriteBackupBoot
  <2>2. plan' = plan /\ (pc' \in GptSteps => pc \in GptSteps)
    BY <1>5 DEF WriteMbr, WritePrimaryEntries, WriteBackupEntries, WriteBackupHeader,
       WriteBitmap, WriteMainBoot, WriteBackupBoot, Proceed, GptSteps
  <2>3. view'.phdr = view.phdr /\ disk'.phdr \in {disk.phdr, view.phdr}
    BY <2>1, HeaderLayout DEF Write
  <2> QED BY <1>2, <2>2, <2>3
<1>6. CASE WritePrimaryHeader
  <2>1. view' = AfterPrimaryHeader /\ disk' \in {disk, view'} /\ plan' = plan
    BY <1>6 DEF WritePrimaryHeader, Write, Proceed
  <2>2. view'.phdr.entries = plan.entries /\ SameLayout(view.phdr.entries, plan.entries)
    BY <1>6, <2>1, HeaderLayout DEF WritePrimaryHeader, LayoutInv, GptSteps
  <2>3. SameLayout(disk.phdr.entries, plan.entries) /\ SameLayout(plan.entries, plan.entries)
    BY <1>1, <2>2, LayoutOrder
  <2> QED BY <1>1, <2>1, <2>2, <2>3 DEF LayoutInv
<1>7. CASE CallFails
  <2>1. PICK after \in Partial : Write(after)
    BY <1>7 DEF CallFails
  <2>2. view'.phdr = view.phdr /\ disk'.phdr \in {disk.phdr, view.phdr}
    BY <2>1, HeaderLayout DEF Write
  <2>3. pc' \notin GptSteps
    BY <1>7 DEF CallFails, Return, GptSteps
  <2> QED BY <1>2, <2>2, <2>3
<1>8. CASE PowerCut
  <2>1. disk' \in {disk} \cup Partial /\ view' = disk' /\ pc' \notin GptSteps
    BY <1>8 DEF PowerCut, Lost, GptSteps
  <2>2. disk'.phdr \in {disk.phdr, view.phdr} /\ view'.phdr = disk'.phdr
    BY <2>1, HeaderLayout
  <2> QED BY <1>2, <2>1, <2>2
<1>9. CASE \E r \in Regions : Destage(r)
  <2>1. PICK r \in Regions : Destage(r)
    BY <1>9
  <2>2. disk'.phdr \in {disk.phdr, view.phdr} /\ view' = view /\ pc' = pc /\ plan' = plan
    BY <1>1, <2>1 DEF Destage, Regions, Disk
  <2> QED BY <1>2, <2>2
<1>10. CASE UNCHANGED vars
  BY <1>2, <1>10 DEF vars
<1> QED BY <1>3, <1>4, <1>5, <1>6, <1>7, <1>8, <1>9, <1>10 DEF Next, Grow

\* A fresh medium has one layout.
LEMMA InitLayout == Init => LayoutInv
  BY LayoutOrder DEF Init, LayoutInv, GptSteps

\* Every partition the primary header vouches for keeps its name and its start
\* over any number of boots: only ends move.
THEOREM LayoutKept == Spec => []LayoutInv
<1>1. TypeOK /\ LayoutInv /\ [Next]_vars => LayoutInv'
  BY NextLayout
<1> QED BY <1>1, InitLayout, TypeCorrect, PTL DEF Spec

\* The planned partition ends below the place of the backup entry array, and so
\* does the live one.
LEMMA DataBelowBackup ==
  ASSUME TypeOK, ShrinkInv, LayoutInv, CapacityInv, pc \in GptSteps,
         NEW entries \in {disk.phdr.entries, plan.entries},
         NEW i \in DOMAIN entries, IsData(entries, i)
  PROVE  entries[i].end < BackupEntriesLba /\ entries[i].end < LastLba
<1>1. PICK j \in DOMAIN plan.entries : Filled(plan.entries, j, plan.geometry.volume)
  BY DEF CapacityInv, PlanFills, WriteSteps
<1>2. /\ disk \in Disk /\ view \in Disk /\ plan \in Plan /\ total \in Nat \ {0}
      /\ medium \in Medium /\ medium.blockSize > 0
  BY DEF TypeOK
<1>3. /\ disk.phdr.entries \in Seq(Entry) /\ view.phdr.entries \in Seq(Entry)
      /\ plan.entries \in Seq(Entry) /\ plan.geometry.volume \in Nat
  BY <1>2 DEF Disk, Plan, GeometryType
<1>4. SameLayout(disk.phdr.entries, plan.entries)
  BY LayoutOrder DEF LayoutInv
<1>5. Below(disk.phdr.entries, plan.entries)
  BY <1>3, BelowTransitive DEF ShrinkInv
<1>6. i \in DOMAIN plan.entries /\ IsData(plan.entries, i)
  BY <1>4, LayoutData DEF SameLayout
<1>7. i = j
  <2>1. IsData(plan.entries, j)
    BY <1>1 DEF Filled, IsReleaseData
  <2> QED BY <1>1, <1>3, <1>6, <2>1, DataUnique
<1>8. plan.entries[i] \in Entry /\ entries[i] \in Entry
  BY <1>3, <1>6
<1>9. EntryBlocks(medium) \in Nat
  BY <1>2, EntryBlocksNat
<1>10. /\ BackupEntriesLba \in Int /\ NewLastUsable = BackupEntriesLba - 1
       /\ BackupEntriesLba <= LastLba /\ LastLba \in Int
  BY <1>2, <1>9 DEF BackupEntriesLba, LastLba, NewLastUsable
<1>11. /\ plan.geometry.volume <= Available(plan.entries[i].start)
       /\ plan.entries[i].end = plan.entries[i].start + plan.geometry.volume - 1
  BY <1>1, <1>7 DEF Filled, PlanAccepts
<1>12. plan.entries[i].start \in Nat /\ plan.entries[i].end \in Nat /\ entries[i].end \in Nat
  BY <1>8 DEF Entry
<1>13. plan.entries[i].end <= NewLastUsable
  BY <1>3, <1>10, <1>11, <1>12 DEF Available
<1>14. entries[i].end <= plan.entries[i].end
  BY <1>5, <1>12 DEF Below
<1> QED BY <1>10, <1>12, <1>13, <1>14

\* The backup entry array and header never land on the DATA partition, neither on
\* the one the disk vouches for nor on the planned one, for every medium size.
THEOREM BackupNeverOnData == Spec => BackupGptMissesData
<1> DEFINE Step ==
      \A entries \in {disk.phdr.entries, plan.entries} : \A i \in DOMAIN entries :
        IsData(entries, i) /\ pc' # "off" =>
          /\ view'.bent # view.bent => entries[i].end < view'.bent.at
          /\ view'.bhdr # view.bhdr => entries[i].end < view'.bhdr.at
<1>1. TypeOK /\ ShrinkInv /\ LayoutInv /\ CapacityInv /\ [Next]_vars => [Step]_vars
  <2> SUFFICES ASSUME TypeOK, ShrinkInv, LayoutInv, CapacityInv, Next,
                      NEW entries \in {disk.phdr.entries, plan.entries},
                      NEW i \in DOMAIN entries, IsData(entries, i), pc' # "off"
               PROVE  /\ view'.bent # view.bent => entries[i].end < view'.bent.at
                      /\ view'.bhdr # view.bhdr => entries[i].end < view'.bhdr.at
    OBVIOUS
  <2>0. view \in Disk
    BY DEF TypeOK
  <2>1. CASE WriteBackupEntries
    <3>1. view'.bent.at = BackupEntriesLba /\ view'.bhdr = view.bhdr /\ pc \in GptSteps
      BY <2>0, <2>1 DEF WriteBackupEntries, Write, AfterBackupEntries, Disk, GptSteps
    <3> QED BY <3>1, DataBelowBackup
  <2>2. CASE WriteBackupHeader
    <3>1. view'.bhdr.at = LastLba /\ view'.bent = view.bent /\ pc \in GptSteps
      BY <2>0, <2>2 DEF WriteBackupHeader, Write, AfterBackupHeader, Disk, GptSteps
    <3> QED BY <3>1, DataBelowBackup
  <2>3. CASE WriteMbr \/ WritePrimaryEntries \/ WritePrimaryHeader \/ WriteBitmap
             \/ WriteMainBoot \/ WriteBackupBoot
    <3>1. PICK after \in {AfterMbr, AfterPrimaryEntries, AfterPrimaryHeader, AfterBitmap,
                          AfterMainBoot, AfterBackupBoot} : view' = after
      BY <2>3 DEF WriteMbr, WritePrimaryEntries, WritePrimaryHeader, WriteBitmap,
         WriteMainBoot, WriteBackupBoot, Write
    <3>2. view'.bent = view.bent /\ view'.bhdr = view.bhdr
      BY <2>0, <3>1 DEF AfterMbr, AfterPrimaryEntries, AfterPrimaryHeader, AfterBitmap,
         AfterMainBoot, AfterBackupBoot, Disk
    <3> QED BY <3>2
  <2>4. CASE CallFails
    <3>1. view' \in Partial
      BY <2>4 DEF CallFails, Write
    <3>2. view'.bent = view.bent /\ view'.bhdr = view.bhdr
      BY <2>0, <3>1 DEF Partial, Disk
    <3> QED BY <3>2
  <2>5. CASE \/ PowerOn \/ ProbeNotRelease \/ ProbeRefused \/ ProbeAlreadyGrown \/ ProbeGrow
             \/ BitmapRefused \/ FlushBlocks \/ Clone \/ \E r \in Regions : Destage(r)
    <3>1. view' = view
      BY <2>5 DEF PowerOn, ProbeNotRelease, ProbeRefused, ProbeAlreadyGrown, ProbeGrow,
         BitmapRefused, FlushBlocks, Clone, Destage, Untouched
    <3> QED BY <3>1
  <2>6. ~PowerCut /\ ~PowerOff
    BY DEF PowerCut, PowerOff, Lost
  <2> QED BY <2>1, <2>2, <2>3, <2>4, <2>5, <2>6 DEF Next, Grow
<1>2. Init => TypeOK /\ ShrinkInv
  BY InitTyped, InitShrink
<1>3. TypeOK /\ ShrinkInv /\ [Next]_vars => (TypeOK /\ ShrinkInv)'
  BY NextTyped, NextShrink
<1> QED BY <1>1, <1>2, <1>3, LayoutKept, PlanCarriedOut, PTL DEF Spec, BackupGptMissesData
---------------------------------------------------------------------------
(***************************************************************************)
(* The growth implements GrowableVolume.                                   *)
(***************************************************************************)
\* A write changes the primary header or the main boot sector, never both.
LEMMA OneCommitAtATime ==
  ASSUME TypeOK, GrowthInv, WriteThrough, [Next]_vars
  PROVE  disk'.phdr = disk.phdr \/ disk'.main = disk.main
<1>1. disk = view /\ view \in Disk /\ ~medium.writeCaching
  BY DEF GrowthInv, DiskSound, TypeOK, WriteThrough
<1>2. CASE \/ PowerOn \/ ProbeNotRelease \/ ProbeRefused \/ ProbeAlreadyGrown \/ ProbeGrow
           \/ BitmapRefused \/ FlushBlocks \/ PowerOff \/ Clone \/ UNCHANGED vars
  <2>1. disk' = disk
    BY <1>1, <1>2 DEF PowerOn, ProbeNotRelease, ProbeRefused, ProbeAlreadyGrown, ProbeGrow,
       BitmapRefused, FlushBlocks, PowerOff, Clone, Untouched, vars
  <2> QED BY <2>1
<1>3. CASE \/ WriteMbr \/ WritePrimaryEntries \/ WriteBackupEntries \/ WritePrimaryHeader
           \/ WriteBackupHeader \/ WriteBitmap \/ WriteMainBoot \/ WriteBackupBoot
  <2>1. PICK after \in {AfterMbr, AfterPrimaryEntries, AfterBackupEntries,
                        AfterPrimaryHeader, AfterBackupHeader, AfterBitmap,
                        AfterMainBoot, AfterBackupBoot} : disk' = after
    BY <1>1, <1>3 DEF WriteMbr, WritePrimaryEntries, WriteBackupEntries, WritePrimaryHeader,
       WriteBackupHeader, WriteBitmap, WriteMainBoot, WriteBackupBoot, Write
  <2>2. after.phdr = view.phdr \/ after.main = view.main
    BY <1>1, <2>1 DEF AfterMbr, AfterPrimaryEntries, AfterBackupEntries, AfterPrimaryHeader,
       AfterBackupHeader, AfterBitmap, AfterMainBoot, AfterBackupBoot, Disk
  <2> QED BY <1>1, <2>1, <2>2
<1>4. CASE CallFails \/ PowerCut
  <2>1. disk' \in Partial
    BY <1>1, <1>4 DEF CallFails, PowerCut, Write
  <2>2. disk'.phdr = view.phdr
    BY <1>1, <2>1 DEF Partial, Disk
  <2> QED BY <1>1, <2>2
<1>5. CASE \E r \in Regions : Destage(r)
  BY <1>1, <1>5 DEF Destage
<1> QED BY <1>2, <1>3, <1>4, <1>5 DEF Next, Grow

\* The partition a host sees is the one DATA entry of the primary header.
LEMMA CommittedEntry ==
  ASSUME NEW entries \in Seq(Entry), NEW i \in DOMAIN entries, IsData(entries, i)
  PROVE  (CHOOSE j \in DOMAIN entries : IsData(entries, j)) = i
<1> DEFINE j == CHOOSE k \in DOMAIN entries : IsData(entries, k)
<1>1. j \in DOMAIN entries /\ IsData(entries, j)
  OBVIOUS
<1> HIDE DEF j
<1>2. j = i
  BY <1>1, DataUnique
<1> QED BY <1>2 DEF j

\* What a host sees of a sound disk.
LEMMA CommittedSizes ==
  ASSUME TypeOK, GrowthInv, WriteThrough,
         NEW i \in DOMAIN disk.phdr.entries, IsData(disk.phdr.entries, i)
  PROVE  /\ CommittedBlocks = Blocks(disk.phdr.entries[i])
         /\ CommittedVolume = disk.main.volume
         /\ CommittedBlocks \in Nat /\ CommittedVolume \in Nat
         /\ CommittedVolume <= CommittedBlocks
<1>1. /\ disk \in Disk /\ disk.phdr.entries \in Seq(Entry) /\ disk.main.volume \in Nat
  BY DEF TypeOK, Disk, GeometryType
<1>2. disk.phdr.entries[i] \in Entry
  BY <1>1
<1>3. HasData(disk.phdr.entries)
  BY DEF HasData
<1>4. CommittedBlocks = Blocks(disk.phdr.entries[i])
  BY <1>1, <1>3, CommittedEntry DEF CommittedBlocks
<1>5. CommittedVolume = disk.main.volume
  BY <1>3 DEF CommittedVolume
<1>6. Blocks(disk.phdr.entries[i]) \in Int
  BY <1>2 DEF Blocks, Entry
<1>7. disk.main.volume <= Blocks(disk.phdr.entries[i])
  BY DEF GrowthInv, DiskSound, Fits
<1> QED BY <1>1, <1>4, <1>5, <1>6, <1>7

\* A medium that a host cannot use stays that way.
LEMMA CommittedNothing ==
  ASSUME ~WriteThrough \/ ~HasData(disk.phdr.entries)
  PROVE  CommittedBlocks = 0 /\ CommittedVolume = 0
  BY DEF CommittedBlocks, CommittedVolume

\* Initial states map to initial states.
LEMMA RefinesInit == Init => Volume!Init
<1> SUFFICES ASSUME Init
             PROVE  /\ CommittedBlocks \in Nat /\ CommittedVolume \in Nat
                    /\ CommittedVolume <= CommittedBlocks
  BY DEF Volume!Init
<1>1. TypeOK /\ GrowthInv
  BY InitTyped, InitGrowth
<1>2. CASE WriteThrough /\ HasData(disk.phdr.entries)
  <2>1. PICK i \in DOMAIN disk.phdr.entries : IsData(disk.phdr.entries, i)
    BY <1>2 DEF HasData
  <2> QED BY <1>1, <1>2, <2>1, CommittedSizes
<1>3. CASE ~(WriteThrough /\ HasData(disk.phdr.entries))
  BY <1>3, CommittedNothing
<1> QED BY <1>2, <1>3

\* Every step of a boot, a failure or the user extends the partition, extends the
\* volume inside it, or changes neither.
LEMMA RefinesNext ==
  ASSUME TypeOK, TypeOK', GrowthInv, GrowthInv', ShrinkInv, LayoutInv, [Next]_vars
  PROVE  [Volume!Next]_<<CommittedBlocks, CommittedVolume>>
<1>1. medium' = medium
  BY DEF Next, Grow, PowerOn, ProbeNotRelease, ProbeRefused, ProbeAlreadyGrown, ProbeGrow,
     WriteMbr, WritePrimaryEntries, WriteBackupEntries, WritePrimaryHeader,
     WriteBackupHeader, WriteBitmap, BitmapRefused, WriteMainBoot, WriteBackupBoot,
     FlushBlocks, CallFails, PowerCut, PowerOff, Destage, Clone, Return, Proceed, Lost, vars
<1>2. WriteThrough' = WriteThrough
  BY <1>1 DEF WriteThrough
<1>3. SameLayout(disk.phdr.entries, disk'.phdr.entries) /\ Grew(disk, disk')
  BY NextLayout, NextShrink
<1>4. HasData(disk'.phdr.entries) = HasData(disk.phdr.entries)
  BY <1>3, LayoutData DEF HasData, SameLayout
<1>5. CASE ~WriteThrough \/ ~HasData(disk.phdr.entries)
  <2>1. CommittedBlocks = 0 /\ CommittedVolume = 0
    BY <1>5, CommittedNothing
  <2>2. CommittedBlocks' = 0 /\ CommittedVolume' = 0
    BY <1>2, <1>4, <1>5 DEF CommittedBlocks, CommittedVolume
  <2> QED BY <2>1, <2>2
<1>6. CASE WriteThrough /\ HasData(disk.phdr.entries)
  <2>1. PICK i \in DOMAIN disk.phdr.entries : IsData(disk.phdr.entries, i)
    BY <1>6 DEF HasData
  <2>2. i \in DOMAIN disk'.phdr.entries /\ IsData(disk'.phdr.entries, i)
    BY <1>3, <2>1, LayoutData DEF SameLayout
  <2>3. /\ disk \in Disk /\ disk' \in Disk
        /\ disk.phdr.entries \in Seq(Entry) /\ disk'.phdr.entries \in Seq(Entry)
        /\ disk.main.volume \in Nat /\ disk'.main.volume \in Nat
    BY DEF TypeOK, Disk, GeometryType
  <2> DEFINE e == disk.phdr.entries[i]
             f == disk'.phdr.entries[i]
  <2>4. e \in Entry /\ f \in Entry
    BY <2>1, <2>2, <2>3
  <2>5. /\ e.start \in Nat /\ e.end \in Nat /\ f.end \in Nat
        /\ f.start = e.start /\ e.end <= f.end
    BY <1>3, <2>1, <2>4 DEF SameLayout, Grew, Below, Entry
  <2>6. /\ CommittedBlocks = Blocks(e) /\ CommittedVolume = disk.main.volume
        /\ CommittedBlocks \in Nat /\ CommittedVolume \in Nat
    BY <1>6, <2>1, CommittedSizes
  <2>7. /\ CommittedBlocks' = Blocks(f) /\ CommittedVolume' = disk'.main.volume
        /\ CommittedBlocks' \in Nat /\ CommittedVolume' \in Nat
        /\ CommittedVolume' <= CommittedBlocks'
    <3>1. HasData(disk'.phdr.entries) /\ WriteThrough'
      BY <1>2, <1>4, <1>6
    <3>2. /\ CommittedBlocks' = Blocks(f) /\ CommittedVolume' = disk'.main.volume
      <4>1. (CHOOSE j \in DOMAIN disk'.phdr.entries : IsData(disk'.phdr.entries, j)) = i
        BY <2>2, <2>3, CommittedEntry
      <4> QED BY <3>1, <4>1 DEF CommittedBlocks, CommittedVolume
    <3>3. disk'.main.volume <= Blocks(f)
      BY <2>2, <3>1 DEF GrowthInv, DiskSound, Fits
    <3>4. Blocks(f) \in Int
      <4> HIDE DEF f
      <4> QED BY <2>4 DEF Blocks, Entry
    <3> QED BY <2>3, <3>2, <3>3, <3>4
  <2>8. Blocks(e) <= Blocks(f)
    <3> HIDE DEF e, f
    <3> QED BY <2>5 DEF Blocks
  <2>9. disk.main.volume <= disk'.main.volume
    BY <1>3 DEF Grew
  <2>10. disk'.phdr = disk.phdr \/ disk'.main = disk.main
    BY <1>6, OneCommitAtATime
  <2>11. CASE disk'.main = disk.main
    <3>1. CommittedVolume' = CommittedVolume /\ CommittedBlocks <= CommittedBlocks'
      BY <2>6, <2>7, <2>8, <2>11
    <3> QED BY <2>6, <2>7, <3>1 DEF Volume!Next, Volume!ExtendPartition
  <2>12. CASE disk'.phdr = disk.phdr
    <3>1. CommittedBlocks' = CommittedBlocks /\ CommittedVolume <= CommittedVolume'
      BY <2>6, <2>7, <2>9, <2>12
    <3> QED BY <2>6, <2>7, <3>1 DEF Volume!Next, Volume!ExtendVolume
  <2> QED BY <2>10, <2>11, <2>12
<1> QED BY <1>5, <1>6

\* On every medium the growth implements GrowableVolume: what a host mounts after
\* any interruption only ever grew, one size at a time, inside its partition.
THEOREM GrowthRefinesVolume == Spec => ImplementsGrowableVolume
<1>1. Init => TypeOK /\ GrowthInv /\ ShrinkInv /\ LayoutInv
  BY InitTyped, InitGrowth, InitShrink, InitLayout
<1>2. TypeOK /\ GrowthInv /\ ShrinkInv /\ LayoutInv /\ [Next]_vars
        => (TypeOK /\ GrowthInv /\ ShrinkInv /\ LayoutInv)'
  BY NextTyped, NextGrowth, NextShrink, NextLayout
<1>3. TypeOK /\ GrowthInv /\ ShrinkInv /\ LayoutInv
        /\ (TypeOK /\ GrowthInv /\ ShrinkInv /\ LayoutInv)' /\ [Next]_vars
        => [Volume!Next]_<<CommittedBlocks, CommittedVolume>>
  BY RefinesNext
<1> QED BY <1>1, <1>2, <1>3, RefinesInit, PTL DEF Spec, ImplementsGrowableVolume, Volume!Spec
=============================================================================
