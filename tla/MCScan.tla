------------------------------- MODULE MCScan -------------------------------
(* Machines with a boot disk A (GPT, MBR with a looping EBR chain, or one   *)
(* volume without a table) and an internal disk B.  Firmware exposes and    *)
(* mounts some of their partitions.                                         *)
EXTENDS Scan

CONSTANT Blank      \* TRUE: block 0 of both disks holds the same identity fields (none
                    \* written, or both disks written from one image)

MCRoots == << <<>>, <<"ISO">>, <<"iso">> >>
MCFold(n) == CASE n = "ISO" -> "iso" [] OTHER -> n
MCNameOrder == <<"$RECYCLE.BIN", "BOOTX64.EFI", "ISO", "._a.iso", "a.iso", "b.vhd",
                 "iso", "l.vlnk.iso", "m.vlnk.iso", "n.vlnk.iso", "t.iso", "u", "ventoy">>

File(dir, name, kind, lba) ==
  [dir |-> dir, name |-> name, kind |-> kind, lba |-> lba, hidden |-> FALSE, mapped |-> TRUE,
   type |-> "iso", content |-> "linux"]
Link(name, lba, sig, offset, target) ==
  [dir |-> <<>>, name |-> name, kind |-> "link", lba |-> lba, hidden |-> FALSE, mapped |-> TRUE,
   type |-> "iso", content |-> None,
   link |-> [sig |-> sig, offset |-> offset, target |-> target, type |-> "iso",
            intact |-> TRUE]]

Plain == DefaultConfig
Configs == {Plain,
            [Plain EXCEPT !.level = 0, !.dot = TRUE],
            [Plain EXCEPT !.filters = {"vhd"}, !.roots = << <<"ISO">> >>, !.mode = "deny", !.list = {<<"iso", "b.vhd">>}]}

Volume(disk, start, sector, opens, config, bad, fs) ==
  [disk |-> disk, start |-> start, sector |-> sector, json |-> "ok", opens |-> opens, config |-> config,
   bad |-> bad, files |-> fs]

Esp == Volume("A", 4, "fat32", {"fat32"}, Plain, {},
              <<File(<<>>, "BOOTX64.EFI", "loader", 1), File(<<"ISO">>, "t.iso", "image", 2)>>)

DataFiles ==
  <<File(<<>>, "a.iso", "image", 2),
    [File(<<"ISO">>, "b.vhd", "image", 3) EXCEPT !.type = "vhd", !.content = "dynamic"],
    [File(<<>>, "._a.iso", "dot", 4) EXCEPT !.hidden = TRUE],
    File(<<"$RECYCLE.BIN">>, "a.iso", "image", 5),
    [File(<<"ventoy">>, "a.iso", "image", 6) EXCEPT !.content = "windows"],
    [File(<<>>, "t.iso", "image", 7) EXCEPT !.mapped = FALSE],
    [File(<<>>, "u", "image", 8) EXCEPT !.type = "unknown", !.content = "windows"],
    Link("n.vlnk.iso", 10, "s0", 16, <<"u">>),
    Link("l.vlnk.iso", 9, IF Blank THEN "s0" ELSE "s1", 16, <<"a.iso">>),
    [Link("m.vlnk.iso", 11, "s0", 4, <<"iso", "t.iso">>) EXCEPT !.link.intact = FALSE]>>

DataKinds == {<<"exfat", {"exfat"}>>, <<"exfat", {}>>, <<"unknown", {"ext4"}>>,
              <<"unknown", {"udf", "iso9660"}>>, <<"unknown", {"btrfs"}>>}

Internal == Volume("B", 16, "ntfs", {"ntfs"}, Plain, {},
                   <<File(<<>>, "a.iso", "image", 1),
                     Link("l.vlnk.iso", 9, "s0", 4, <<"iso", "t.iso">>)>>)

Slot(type, start, count) == [type |-> type, start |-> start, count |-> count]
Record(sig, slots) == [sig |-> sig, slots |-> slots]
GptEntry(start, last, name) == [used |-> TRUE, start |-> start, last |-> last, name |-> name]

Identities(d) ==
  IF Blank \/ d = "A" THEN [guid |-> "g0", sig |-> "s0"] ELSE [guid |-> "g1", sig |-> "s1"]

NoGpt == [ok |-> FALSE, entries |-> <<>>]
NoEbr == [lba \in {} |-> Record(FALSE, <<>>)]

DiskOf(d, boot, gpt, ebr) ==
  [blocks |-> 40, bs |-> 1, ident |-> Identities(d), boot |-> boot, gpt |-> gpt, ebr |-> ebr]

Protective == Record(TRUE, <<Slot("ee", 1, 39)>>)

GptDisk(d, names) ==
  DiskOf(d, Protective,
         [ok |-> TRUE,
          entries |-> IF d = "A" THEN <<GptEntry(4, 11, names[1]), GptEntry(16, 25, names[2])>>
                      ELSE <<GptEntry(16, 30, names[1])>>], NoEbr)

MbrDisk ==
  DiskOf("A", Record(TRUE, <<Slot("data", 4, 8), Slot("ext", 14, 24)>>), NoGpt,
         14 :> Record(TRUE, <<Slot("data", 2, 10), Slot("ext", 13, 10)>>)
         @@ 27 :> Record(TRUE, <<Slot("data", 1, 5), Slot("ext", 19, 1)>>)
         @@ 33 :> Record(TRUE, <<Slot("data", 1, 3), Slot("ext", 13, 10)>>))

FloppyDisk == DiskOf("A", Record(TRUE, <<>>), NoGpt, NoEbr)

Handle(d, start, count, whole, simple) ==
  [disk |-> d, start |-> start, count |-> count, whole |-> whole, simple |-> simple, path |-> TRUE]

(* How firmware shows a partition: not at all, as a raw handle, mounted.    *)
Shows == {"hidden", "raw", "mounted"}
Child(d, start, count, show) ==
  IF show = "hidden" THEN <<>> ELSE <<Handle(d, start, count, FALSE, show = "mounted")>>

HandlesOf(floppy, esp, data, internal) ==
  <<Handle("A", 0, 40, TRUE, floppy /\ esp = "mounted")>>
  \o (IF floppy THEN <<>> ELSE Child("A", 4, 8, esp) \o Child("A", 16, 10, data))
  \o <<Handle("B", 0, 40, TRUE, FALSE)>> \o Child("B", 16, 15, internal)

(* The boot device: the exposed ESP, else the disk; or none at all.         *)
BootOf(floppy, esp, known) ==
  IF ~known THEN 0 ELSE IF floppy \/ esp = "hidden" THEN 1 ELSE 2

MachineOf(table, esp, data, internal, known, kind, config, bad, names) ==
  LET floppy == table = "floppy"
      where == IF floppy THEN 0 ELSE 16
      volume == Volume("A", where, kind[1], kind[2], config, bad, DataFiles)
  IN [disks |-> "A" :> (CASE table = "gpt" -> GptDisk("A", names)
                          [] table = "mbr" -> MbrDisk
                          [] table = "floppy" -> FloppyDisk)
                @@ "B" :> GptDisk("B", <<names[2]>>),
      volumes |-> {volume, Internal}
                  \cup (IF floppy THEN {} ELSE {Esp})
                  \cup (IF table = "mbr" THEN {[Esp EXCEPT !.start = 28], [Esp EXCEPT !.start = 34]} ELSE {}),
      handles |-> HandlesOf(floppy, esp, data, internal),
      boot |-> BootOf(floppy, esp, known)]

ReleaseNames == <<"NEXBOOT_EFI", "NEXBOOT_DATA">>
OtherNames == <<"EFI", "DATA">>

MCMachines ==
  LET shown == {MachineOf(t, e, d, i, TRUE, k, c, {}, OtherNames) :
                  t \in {"gpt", "mbr", "floppy"}, e \in Shows, d \in Shows, i \in Shows,
                  k \in DataKinds, c \in Configs}
      damaged == {MachineOf(t, e, "raw", "hidden", b, <<"exfat", {"exfat"}>>, Plain, {<<"iso">>}, n) :
                    t \in {"gpt", "mbr"}, e \in Shows, b \in BOOLEAN,
                    n \in {ReleaseNames, OtherNames}}
      pathless == {[m EXCEPT !.handles[1].path = FALSE] : m \in damaged}
      broken == {[m EXCEPT !.volumes = {[v EXCEPT !.json = "bad"] : v \in @}] : m \in damaged}
  IN shown \cup damaged \cup pathless \cup broken
=============================================================================
