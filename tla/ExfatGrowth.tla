---------------------------- MODULE ExfatGrowth ----------------------------
(***************************************************************************)
(* The geometry planner of the growable exFAT volume: plan_growth of       *)
(* nextboot-fs, plus the sizes the two growth passes derive from it.  The  *)
(* planner is pure; MediaGrow calls it between reading the disk and        *)
(* writing it.  The u64 arithmetic of the code cannot overflow for block   *)
(* counts below 2^32, so plain integers are used; the u32 cluster ceiling  *)
(* is the parameter u32Max.                                                *)
(***************************************************************************)
EXTENDS Integers

\* The smallest cluster count the planner accepts.
MinClusters == 16

Least(a, b) == IF a <= b THEN a ELSE b
Greatest(a, b) == IF a >= b THEN a ELSE b

DivRoundUp(value, unit) == (value + unit - 1) \div unit

\* Clusters the FAT of fatLength sectors can describe: four bytes an entry,
\* the first two entries reserved.
FatCapacity(fatLength, blockSize) == (fatLength * blockSize) \div 4 - 2

\* Only whole clusters count; the tail sectors of the volume stay unused.
ClustersIn(volume, heap, spc) == (volume - heap) \div spc

Capacity(fatCapacity, u32Max) == Least(fatCapacity, u32Max - 2)

\* The grown volume fills what is available up to what the FAT can describe,
\* and a volume that already has tail sectors past that keeps them.
GrownVolume(old, available, heap, spc, fatCapacity, u32Max) ==
  Least(available, Greatest(Capacity(fatCapacity, u32Max) * spc + heap, old))

\* The checks of plan_growth, every one an Err of the code.
PlanAccepts(old, available, heap, spc, fatCapacity, u32Max) ==
  /\ old <= available
  /\ heap < old
  /\ ClustersIn(old, heap, spc) <= Capacity(fatCapacity, u32Max)
  /\ ClustersIn(GrownVolume(old, available, heap, spc, fatCapacity, u32Max), heap, spc)
       >= MinClusters

\* Allocation Bitmap: one bit per cluster, kept in a chain of clusters.
BitmapBytes(clusters) == (clusters + 7) \div 8

BitmapClusters(bytes, spc, blockSize) == DivRoundUp(bytes, spc * blockSize)
=============================================================================
