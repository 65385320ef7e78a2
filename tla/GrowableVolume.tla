--------------------------- MODULE GrowableVolume ---------------------------
(***************************************************************************)
(* What growing the release medium promises to whoever mounts NEXTDATA:    *)
(* the partition and the volume in it only ever get larger, one at a time, *)
(* and the volume never reaches past its partition, whatever fails.        *)
(***************************************************************************)
EXTENDS Integers

VARIABLES partition, volume    \* sizes in blocks

Init ==
  /\ partition \in Nat /\ volume \in Nat
  /\ volume <= partition

ExtendPartition ==
  /\ partition' \in Nat /\ partition' > partition
  /\ UNCHANGED volume

ExtendVolume ==
  /\ volume' \in Nat /\ volume < volume' /\ volume' <= partition
  /\ UNCHANGED partition

Next == ExtendPartition \/ ExtendVolume

Spec == Init /\ [][Next]_<<partition, volume>>
=============================================================================
