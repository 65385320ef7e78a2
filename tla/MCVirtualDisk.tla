--------------------------- MODULE MCVirtualDisk ---------------------------
(***************************************************************************)
(* Image files of a few bytes on a volume of two-byte blocks: sectors of   *)
(* one byte on disks and of four in ISO images, tables of two to four      *)
(* blocks, fragmented files.                                               *)
(***************************************************************************)
EXTENDS VirtualDisk

Run(file, lba, blocks) == [file |-> file, lba |-> lba, blocks |-> blocks]
Entry(state, at) == [state |-> state, at |-> at]

File(format, size, stored) ==
  [format |-> format, size |-> size, stored |-> stored, extents |-> stored,
   diskSize |-> size, sector |-> 1, block |-> 2, bat |-> <<>>, bitmaps |-> <<>>,
   data |-> 0, differencing |-> FALSE, parents |-> <<>>, id |-> 0, parentId |-> 0,
   udf |-> FALSE]

\* An ISO image in two runs, the second one first on the volume, whose size is
\* no multiple of its sector; a UDF image; a fixed VHD with its footer.
Iso == [File("iso", 7, <<Run(0, 6, 2), Run(2, 2, 2)>>) EXCEPT !.sector = 4]
Udf == [File("iso", 8, <<Run(0, 2, 1), Run(1, 3, 3)>>) EXCEPT !.sector = 4, !.udf = TRUE]
FixedVhd == [File("fixed", 6, <<Run(0, 9, 3)>>) EXCEPT !.diskSize = 5]

\* A dynamic VHD: a bitmap byte in front of every block.
DynamicVhd(states) ==
  [File("vhd", 12, <<Run(0, 1, 2), Run(2, 10, 4)>>) EXCEPT
     !.diskSize = 5, !.bat = [i \in 1 .. 3 |-> Entry(states[i], 3 * i - 1)]]

\* VHDX files of seven bytes: payload entries 1, 2, 4, 5, bitmap entries 3, 6.
VhdxBat(s, bitmap) ==
  <<Entry(s[1], 4), Entry(s[2], 2), Entry(bitmap, 0),
    Entry(s[3], 8), Entry(s[4], 6), Entry(bitmap, 0)>>

Vhdx(runs, states, bitmap, parents) ==
  [File("vhdx", 10, runs) EXCEPT
     !.diskSize = 7, !.bat = VhdxBat(states, bitmap), !.bitmaps = <<{0, 3}, {1}>>,
     !.differencing = parents # <<>>, !.parents = parents]

Child(states, bitmap, parents) ==
  Vhdx(<<Run(0, 14, 3), Run(3, 4, 2)>>, states, bitmap, parents)
Root(states, parents) == Vhdx(<<Run(0, 26, 5)>>, states, "present", parents)

\* A parent with larger blocks; the second chunk starts with its third block.
BaseAt(lba, states, parents) ==
  [File("vhdx", 8, <<Run(0, lba, 4)>>) EXCEPT
     !.diskSize = 7, !.block = 4, !.differencing = parents # <<>>, !.parents = parents,
     !.bat = <<Entry(states[1], 4), Entry(states[2], 0), Entry("present", 0)>>,
     !.bitmaps = <<{0, 1, 5}>>]
Base(states, parents) == BaseAt(20, states, parents)

Vdi(at, run, id, parentId) ==
  [File("vdi", 8, <<run>>) EXCEPT
     !.diskSize = 5, !.data = 2, !.id = id, !.parentId = parentId,
     !.differencing = parentId # 0,
     !.bat = [i \in 1 .. 3 |-> IF at[i] < 0 THEN Entry("absent", 0)
                               ELSE IF at[i] > 2 THEN Entry("invalid", at[i])
                               ELSE Entry("present", at[i])]]

PlainVolumes ==
  {("a" :> f) : f \in {Iso, Udf, FixedVhd}
                  \cup {DynamicVhd(s) : s \in [1 .. 3 -> {"present", "absent"}]}}

VhdxStates ==
  {<<a, b>> \o end : a \in {"present", "partial", "absent", "zero", "undefined"},
                    b \in {"present", "partial", "absent"},
                    end \in {<<"partial", "present">>, <<"absent", "absent">>}}

\* A child with a parent, next to a parent of another size, and without one.
ParentStates == {<<"present", "absent">>, <<"zero", "present">>, <<"partial", "present">>}

VhdxVolumes ==
  {"a" :> Child(s, "present", <<"gone", "small", "b">>)
     @@ "small" :> [BaseAt(10, <<"present", "present">>, <<>>) EXCEPT !.diskSize = 6]
     @@ "b" :> Base(p, <<>>)
     : s \in VhdxStates, p \in ParentStates}
  \cup {"a" :> Child(s, bitmap, <<>>) : s \in VhdxStates, bitmap \in {"present", "absent"}}
  \cup {"a" :> Child(s, "present", <<"c", "b">>) @@ "b" :> Base(<<"present", "present">>, <<>>)
          @@ "c" :> FixedVhd : s \in VhdxStates}

\* Two parents, and two files that name each other.
DeepVolumes ==
  {"a" :> Child(<<"absent", "partial", "absent", "present">>, "present", <<"a", "b">>)
     @@ "b" :> Base(p, <<"c">>) @@ "c" :> Root(<<"present", "absent", "zero", "present">>, up)
     : p \in ParentStates \ {<<"partial", "present">>}, up \in {<<>>, <<"b">>}}

VdiVolumes ==
  {"a" :> Vdi(at, Run(0, 2, 4), 3, 7) @@ "c" :> Vdi(<<1, -1, 0>>, Run(0, 10, 4), 7, up)
     @@ "b" :> Vdi(<<0, 1, 2>>, Run(0, 20, 4), 9, 0)
     : at \in {<<-1, 0, -1>>, <<0, -1, 1>>, <<3, 0, 1>>, <<2, 1, 0>>}, up \in {0, 9, 3, 5}}

MCVolumes == PlainVolumes \cup VhdxVolumes \cup DeepVolumes \cup VdiVolumes

\* A chain whose middle image has own sectors in a partial block.
LayerVolumes ==
  {"a" :> Child(<<"absent", "absent", "absent", "absent">>, "present", <<"b">>)
     @@ "b" :> Base(<<"partial", "present">>, <<"c">>)
     @@ "c" :> Root(<<"present", "present", "present", "present">>, <<>>)}

Rule(record, descriptor, length) ==
  [record |-> record, descriptor |-> descriptor, length |-> length]

MCPlugins ==
  {[memdisk |-> m, rules |-> r] : m \in BOOLEAN,
     r \in {<<>>, <<Rule(1, 3, 3), Rule(5, -1, 4)>>, <<Rule(2, -1, 5), Rule(2, 6, 1)>>}}
PlainPlugins == {[memdisk |-> FALSE, rules |-> <<>>]}

MCListing == <<"a", "b", "c">>
=============================================================================
