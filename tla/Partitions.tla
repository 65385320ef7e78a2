----------------------------- MODULE Partitions -----------------------------
(***************************************************************************)
(* The partition tables of a disk as the scanner reads them: GPT behind a   *)
(* protective MBR, the four primary MBR slots, and the chain of extended    *)
(* boot records (EBR) with its logical partitions.                          *)
(*                                                                          *)
(* A disk is a record: blocks is its size, bs its block size in units of    *)
(* 512 bytes, ident the 16 + 4 bytes of block 0 that serve as its identity, *)
(* boot its block 0, gpt its block 1 with the entry array, ebr the readable *)
(* blocks that may hold an EBR.  A boot record has its 55AA signature and   *)
(* its slots; a slot has a type, a first block and a length.                *)
(***************************************************************************)
EXTENDS Integers, Sequences, SequencesExt

CONSTANT MBR_MAX_LOGICAL_PARTITIONS   \* bound of the walk over the EBR chain

ASSUME LogicalBound == MBR_MAX_LOGICAL_PARTITIONS \in Nat \ {0}

(* Slot types: "none" is 0, "ee" is 0xEE, "ext" is 0x05, 0x0F or 0x85.      *)

(* What parse_mbr_partition keeps of a slot: nothing for an unsigned block  *)
(* or an unused slot.                                                       *)
Slots(block) ==
  IF block.sig THEN SelectSeq(block.slots, LAMBDA s : s.type # "none") ELSE <<>>

HasProtective(block) == \E i \in DOMAIN Slots(block) : Slots(block)[i].type = "ee"

Candidate(number, start, count, format) ==
  [number |-> number, start |-> start, count |-> count, format |-> format]

(***************************************************************************)
(* GPT.                                                                     *)
(***************************************************************************)
(* The header and its entry array pass every bounds check: signature,       *)
(* header size, entry size, array size, and the array lies on the disk.     *)
GptReadable(disk) == disk.boot.sig /\ HasProtective(disk.boot) /\ disk.gpt.ok

(* An entry of the array yields a candidate when its type GUID is not zero  *)
(* and its range is not empty; numbers are positions in the array.          *)
GptCandidates(disk) ==
  LET entries == disk.gpt.entries
      used == SelectSeq([i \in 1..Len(entries) |-> i],
                        LAMBDA i : /\ entries[i].used
                                   /\ entries[i].start # 0
                                   /\ entries[i].last >= entries[i].start)
  IN [k \in 1..Len(used) |->
        LET e == entries[used[k]]
        IN Candidate(used[k], e.start, e.last - e.start + 1, "gpt")]

(* The names the release builder gives its partitions: NEXBOOT alone, or    *)
(* NEXBOOT_EFI together with NEXBOOT_DATA.                                  *)
HasNextbootReleaseLayout(disk) ==
  /\ GptReadable(disk)
  /\ LET Named(n) == \E i \in DOMAIN disk.gpt.entries :
                        disk.gpt.entries[i].used /\ disk.gpt.entries[i].name = n
     IN Named("NEXBOOT") \/ (Named("NEXBOOT_EFI") /\ Named("NEXBOOT_DATA"))

(***************************************************************************)
(* MBR: the primary slots, then the logical partitions of every extended    *)
(* one.                                                                     *)
(***************************************************************************)
ContainsLba(x, lba) == lba >= x.start /\ lba - x.start < x.count

ContainsExtent(x, start, count) ==
  count # 0 /\ start >= x.start /\ start + count <= x.start + x.count

FitsDisk(start, count, disk) == count # 0 /\ start + count <= disk.blocks

UsableSlots(block) == SelectSeq(Slots(block), LAMBDA s : s.start # 0 /\ s.count # 0)

(* The first slot of an EBR that is a partition of its own; its start is    *)
(* relative to that EBR.                                                    *)
FindLogical(block) ==
  SelectSeq(UsableSlots(block), LAMBDA s : s.type \notin {"ee", "ext"})

\* Mutant: a link is taken as relative to its own EBR.
FindNextEbrFromHere(disk, x, at) ==
  LET links == SelectSeq(UsableSlots(disk.ebr[at]),
                 LAMBDA s : s.type = "ext" /\ at + s.start < disk.blocks)
  IN IF links = <<>> THEN {} ELSE {at + Head(links).start}

(* The links of an EBR to another one inside the extended partition; the    *)
(* start of a link is relative to the extended partition.  The first one is *)
(* followed.                                                                *)
FindNextEbr(disk, x, at) ==
  LET links == SelectSeq(UsableSlots(disk.ebr[at]),
                 LAMBDA s : /\ s.type = "ext"
                            /\ x.start + s.start # at
                            /\ x.start + s.start < disk.blocks
                            /\ ContainsLba(x, x.start + s.start))
  IN IF links = <<>> THEN {} ELSE {x.start + Head(links).start}

(* The EBRs the walk reads, in order.  It ends at a block that is off the   *)
(* disk, outside the extended partition, already visited, unreadable or     *)
(* unsigned, or after the bound.                                            *)
EbrWalk(disk, x) ==
  LET Enter(lba, seen) == /\ lba < disk.blocks
                          /\ ContainsLba(x, lba)
                          /\ lba \notin ToSet(seen)
                          /\ lba \in DOMAIN disk.ebr
                          /\ disk.ebr[lba].sig
      walk[n \in 0..MBR_MAX_LOGICAL_PARTITIONS] ==
        IF n = 0 THEN <<>>
        ELSE LET seen == walk[n - 1]
                 next == IF seen = <<>> THEN {x.start}
                         ELSE FindNextEbr(disk, x, Last(seen))
             IN IF Len(seen) < n - 1 \/ \A lba \in next : ~Enter(lba, seen) THEN seen
                ELSE Append(seen, CHOOSE lba \in next : TRUE)
  IN walk[MBR_MAX_LOGICAL_PARTITIONS]

(* The logical partitions of one extended partition, numbered from first.   *)
LogicalCandidates(disk, x, first) ==
  LET Logical(lba) == FindLogical(disk.ebr[lba])
      held == SelectSeq(EbrWalk(disk, x),
                LAMBDA lba : /\ Logical(lba) # <<>>
                             /\ ContainsExtent(x, lba + Head(Logical(lba)).start,
                                               Head(Logical(lba)).count)
                             /\ FitsDisk(lba + Head(Logical(lba)).start,
                                         Head(Logical(lba)).count, disk))
  IN [k \in 1..Len(held) |->
        Candidate(first + k - 1, held[k] + Head(Logical(held[k])).start,
                  Head(Logical(held[k])).count, "mbr")]

MbrCandidates(disk) ==
  LET slots == disk.boot.slots
      Usable(i) == /\ disk.boot.sig
                   /\ slots[i].type \notin {"none", "ee"}
                   /\ slots[i].start # 0
                   /\ slots[i].count # 0
      index == [i \in 1..Len(slots) |-> i]
      primary == SelectSeq(index, LAMBDA i : Usable(i) /\ slots[i].type # "ext")
      extended == SelectSeq(index, LAMBDA i : Usable(i) /\ slots[i].type = "ext")
      plain == [k \in 1..Len(primary) |->
                  Candidate(primary[k], slots[primary[k]].start,
                            slots[primary[k]].count, "mbr")]
      all[k \in 0..Len(extended)] ==
        IF k = 0 THEN <<>>
        ELSE all[k - 1] \o LogicalCandidates(disk, slots[extended[k]], 5 + Len(all[k - 1]))
  IN plain \o all[Len(extended)]

(* A readable GPT decides alone; a disk without one is read as MBR.         *)
DiscoverPartitionCandidates(disk) ==
  IF GptReadable(disk) THEN GptCandidates(disk) ELSE MbrCandidates(disk)

=============================================================================
