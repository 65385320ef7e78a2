------------------------------ MODULE VirtualFiles ------------------------------
(***************************************************************************)
(* The callers of the file systems.  The loader mounts a volume and calls   *)
(* read_dir, read_file and file_extents itself.  Of an ISO image it also    *)
(* installs a Simple File System, whose file handles the started system     *)
(* opens, positions and reads in pieces of its own choice, with some files  *)
(* replaced by bytes from memory.                                           *)
(***************************************************************************)
EXTENDS FileReaders

CONSTANTS
    Volumes,        \* the volumes that may be mounted
    Paths,          \* paths of the loader's calls, sequences of names
    Requests,       \* what is passed to Open: [absolute, parts]
    Lengths,        \* lengths of buffers
    Handles,        \* file handles
    Replaced        \* [path, size] of the replaced file, size 0 for none

VARIABLES
    vol,            \* the mounted volume
    call,           \* the loader's last call and its answer
    handle          \* the state of each handle

vars == <<vol, call, handle>>

NoCall == [op |-> "none", path |-> <<>>, off |-> 0, want |-> 0, answer |-> Fail]
Closed == [state |-> "closed"]
Replacement(k) == -100 - k

\* No call is being answered and no handle is open.
Idle == call = NoCall /\ \A h \in Handles : handle[h] = Closed

(***************************************************************************)
(* Calls of the loader                                                      *)
(***************************************************************************)
CallReadDir(p) ==
    /\ Idle
    /\ call' = [NoCall EXCEPT !.op = "dir", !.path = p, !.answer = ReadDir(vol, p)]
    /\ UNCHANGED <<vol, handle>>

CallReadFile(p, off, want) ==
    /\ Idle
    /\ call' = [op |-> "read", path |-> p, off |-> off, want |-> want,
                answer |-> ReadFile(vol, p, off, want)]
    /\ UNCHANGED <<vol, handle>>

CallFileExtents(p) ==
    /\ Idle
    /\ call' = [NoCall EXCEPT !.op = "extents", !.path = p,
                              !.answer = FileExtents(vol, p)]
    /\ UNCHANGED <<vol, handle>>

\* The caller has used the answer.
Return ==
    /\ call # NoCall
    /\ call' = NoCall
    /\ UNCHANGED <<vol, handle>>

(***************************************************************************)
(* The handles of the Simple File System                                    *)
(***************************************************************************)
\* normalize_path_segments: an upward step removes the last name, if any.
Normalize(parts) ==
    FoldLeft(LAMBDA acc, p : IF p # ".." THEN Append(acc, p)
                             ELSE IF acc = <<>> THEN acc ELSE Front(acc),
             <<>>, parts)

ResolveChildPath(base, request) ==
    Normalize(IF request.absolute THEN request.parts ELSE base \o request.parts)

\* find_index, asked for files only.
IsReplaced(path, isDir) == ~isDir /\ Replaced.size > 0 /\ path = Replaced.path

\* apply_to_directory: the sizes the listing shows.
ListedSize(dir, e) ==
    IF Append(dir, e.name) = Replaced.path /\ Replaced.size > 0
       /\ e.node \notin DOMAIN vol.dir
    THEN Replaced.size ELSE vol.size[e.node]

\* A new handle; start and got record what is read from it, for the properties.
NewHandle(path, isDir, size) ==
    [state |-> "open", path |-> path, isDir |-> isDir, size |-> size,
     replaced |-> IsReplaced(path, isDir),
     position |-> 0, entries |-> <<>>, listed |-> FALSE, index |-> 0,
     start |-> 0, got |-> <<>>]

OpenVolume(h) ==
    /\ vol.kind \in {"iso9660", "udf"} /\ Mounts(vol)
    /\ call = NoCall /\ handle[h] = Closed
    /\ handle' = [handle EXCEPT ![h] = NewHandle(<<>>, TRUE, 0)]
    /\ UNCHANGED <<vol, call>>

\* open_handler, for reading: a handle that is no directory opens nothing.
Open(p, h, request) ==
    /\ handle[p] # Closed /\ handle[h] = Closed
    /\ handle[p].isDir
    /\ \E path \in {ResolveChildPath(handle[p].path, request)} :
       \E node \in {Stat(vol, path)} :
          LET isDir == node.val \in DOMAIN vol.dir IN
          /\ node.ok
          /\ handle' = [handle EXCEPT ![h] =
                 NewHandle(path, isDir,
                           IF IsReplaced(path, isDir) THEN Replaced.size
                           ELSE vol.size[node.val])]
    /\ UNCHANGED <<vol, call>>

\* close_handler; delete_handler closes as well and reports a warning.
Close(h) ==
    /\ handle[h] # Closed
    /\ handle' = [handle EXCEPT ![h] = Closed]
    /\ UNCHANGED <<vol, call>>

ReadReplacement(f, want) ==
    Good([i \in 1..Max({0, Min({want, Replaced.size - f.position})}) |->
              Replacement(f.position + i - 1)])

FileAnswer(f, want) ==
    IF f.replaced THEN ReadReplacement(f, want) ELSE ReadFile(vol, f.path, f.position, want)

\* Mutant: the position moves by the size of the buffer.
ReadRegularFileByBuffer(h, want) ==
    /\ handle[h] # Closed /\ ~handle[h].isDir
    /\ \E answer \in {FileAnswer(handle[h], want)} :
           /\ answer.ok
           /\ handle' = [handle EXCEPT ![h].position = @ + want,
                                       ![h].got = @ \o answer.val]
    /\ UNCHANGED <<vol, call>>

\* read_regular_file: the position moves by what was read; errors move nothing.
ReadRegularFile(h, want) ==
    /\ handle[h] # Closed /\ ~handle[h].isDir
    /\ \E answer \in {FileAnswer(handle[h], want)} :
           /\ answer.ok
           /\ handle' = [handle EXCEPT ![h].position = @ + Len(answer.val),
                                       ![h].got = @ \o answer.val]
    /\ UNCHANGED <<vol, call>>

\* The listing of a directory handle, kept from the first call on.
HandleEntries(f) ==
    IF f.listed THEN Good(f.entries)
    ELSE Try(ReadDir(vol, f.path),
             LAMBDA list : Good([i \in DOMAIN list |->
                                    [name |-> list[i].name,
                                     size |-> ListedSize(f.path, list[i])]]))

\* read_directory_entry: the first call reads the whole directory, each call
\* delivers one entry; a buffer that is too small leaves the entry for the
\* next call, and behind the last entry nothing is delivered.
ReadDirectoryEntry(h, roomy) ==
    /\ handle[h] # Closed /\ handle[h].isDir
    /\ \E answer \in {HandleEntries(handle[h])} :
          LET index == handle[h].index
              delivered == roomy /\ index < Len(answer.val)
          IN /\ answer.ok
             /\ handle' = [handle EXCEPT
                    ![h].entries = answer.val, ![h].listed = TRUE,
                    ![h].index = IF delivered THEN index + 1 ELSE @,
                    ![h].position = IF delivered THEN index + 1 ELSE @,
                    ![h].got = IF delivered THEN Append(@, answer.val[index + 1]) ELSE @]
    /\ UNCHANGED <<vol, call>>

\* set_position_handler: a directory can only be rewound, a file not be
\* positioned behind its end.
SetPosition(h, target) ==
    LET f == handle[h] IN
    /\ f # Closed
    /\ IF f.isDir THEN target = 0 ELSE target <= f.size
    /\ handle' = [handle EXCEPT
           ![h].position = target, ![h].start = target, ![h].got = <<>>,
           ![h].index = IF f.isDir THEN 0 ELSE @]
    /\ UNCHANGED <<vol, call>>

Init ==
    /\ vol \in Volumes
    /\ call = NoCall
    /\ handle = [h \in Handles |-> Closed]

Next ==
    \/ \E p \in Paths : CallReadDir(p) \/ CallFileExtents(p)
    \/ \E p \in Paths, off \in 0..vol.size["f"], want \in Lengths :
           CallReadFile(p, off, want)
    \/ Return
    \/ \E h \in Handles : OpenVolume(h) \/ Close(h)
    \/ \E p, h \in Handles, r \in Requests : Open(p, h, r)
    \/ \E h \in Handles, want \in Lengths : ReadRegularFile(h, want)
    \/ \E h \in Handles, roomy \in BOOLEAN : ReadDirectoryEntry(h, roomy)
    \/ \E h \in Handles, target \in 0..(vol.size["f"] + 1) : SetPosition(h, target)

Spec == Init /\ [][Next]_vars

(***************************************************************************)
(* What the disk holds, from dir and layout alone                           *)
(***************************************************************************)
\* The live entries of a directory as the formats order them: NTFS lists by
\* name, all others as they lie in the directory.
TrueEntries(v, n) ==
    LET live == SelectSeq(v.inside[n] \o FlattenSeq(v.dir[n]), LAMBDA e : e.tag = "live")
        Rank(e) == CHOOSE i \in DOMAIN NameOrder : NameOrder[i] = e.name
    IN IF v.kind = "ntfs" THEN SortSeq(live, LAMBDA a, b : Rank(a) < Rank(b)) ELSE live

TrueNode(v, path) ==
    LET Child(n, name) ==
            IF n \notin DOMAIN v.dir THEN "none"
            ELSE LET at == SelectInSeq(TrueEntries(v, n), LAMBDA e : e.name = name)
                 IN IF at = 0 THEN "none" ELSE TrueEntries(v, n)[at].node
    IN FoldLeft(Child, "root", path)

\* A file without units is stored in its metadata.
TrueByte(v, n, p) ==
    LET unit == v.layout[n][p \div UnitBytes(v) + 1] IN
    IF v.layout[n] = <<>> THEN Inline(p)
    ELSE IF unit = Hole THEN Zero
    ELSE UnitLba(v, unit) * BlockSize + (p % UnitBytes(v))

Content(v, n, from, to) == [i \in 1..(to - from) |-> TrueByte(v, n, from + i - 1)]

(***************************************************************************)
(* Where the readers are known to differ from it                            *)
(***************************************************************************)
\* ext4 passes over extents of full length (and takes unwritten ones for data).
FullExtent(v, n, unit) ==
    /\ v.kind = "ext4" /\ ~v.meta[n].legacy
    /\ \E i \in DOMAIN v.meta[n].tree : LET e == v.meta[n].tree[i] IN
           e.len = ExtentLimit /\ unit \in e.at..(e.at + e.len - 1)

\* ext4, XFS and UDF copy nothing for a hole, so what follows moves forward.
PassedOver(v, n, p) ==
    /\ v.kind \in {"ext4", "xfs", "udf"} /\ v.layout[n] # <<>>
    /\ \/ v.layout[n][p \div UnitBytes(v) + 1] = Hole
       \/ FullExtent(v, n, p \div UnitBytes(v))

\* UDF begins at a block boundary when off lies inside a later block of an extent.
MidBlock(v, n, off) ==
    /\ v.kind = "udf" /\ off % BlockSize # 0 /\ off \div BlockSize > 0
    /\ LET unit == off \div BlockSize IN
       /\ unit < Len(v.layout[n])
       /\ ~\E i \in DOMAIN v.meta[n].ads : v.meta[n].ads[i].block = v.layout[n][unit + 1]

\* FAT32 skips from a chain's end mark into whatever lies behind the FAT.
BehindTheChain(v, off) ==
    v.kind = "fat32" /\ ~v.intact /\ v.wild # 0 /\ off >= 2 * UnitBytes(v)

\* Block maps a reader does not support, refused by an error.
Refused(v, n) ==
    CASE v.kind = "ext4" -> IF v.meta[n].legacy
                            THEN \E i \in DOMAIN v.layout[n] : v.layout[n][i] = Hole
                            ELSE v.meta[n].depth # 0
      [] v.kind = "xfs" -> ~XfsReadable(v.meta[n])
      [] OTHER -> FALSE

\* XFS takes the block numbers of a map, group and block in the group, for plain
\* ones: wrong in every group but the first, unless the groups leave no gap.
OtherGroup(v, n) ==
    /\ v.kind = "xfs" /\ v.geo.ag # v.geo.span
    /\ \E i \in DOMAIN v.layout[n] : v.layout[n][i] >= v.geo.ag

\* exFAT looks no further than the end of a cluster for the rest of an entry.  XFS
\* does not join the extents of one directory block, and overlooks the last entries
\* of a full block of version 5, whose table it takes for twice as long.
Overlooked(v, n, e) ==
    CASE v.kind = "exfat" -> e.here < 3
      [] v.kind = "xfs" ->
            \E i \in DOMAIN v.dir[n] : \E k \in DOMAIN v.dir[n][i] :
                LET used == SelectSeq(v.dir[n][i], LAMBDA d : d.tag # "deleted") IN
                /\ v.dir[n][i][k] = e
                /\ \/ \E j \in 2..Len(v.layout[n]) :
                         /\ (j - 1) % v.geo.dirUnits # 0
                         /\ v.layout[n][j] # v.layout[n][j - 1] + 1
                         /\ i >= j \/ RecordWords * k > v.geo.slots
                   \/ /\ v.meta[n].magic[i] = "block3"
                      /\ RecordWords * k + 2 * Len(used) > v.geo.slots
      [] OTHER -> FALSE

\* exFAT follows the FAT of directories that have none; XFS fails at an entry it
\* can see one half of.
UnreadableDirectory(v, n) ==
    \/ v.kind = "exfat" /\ v.meta[n].contiguous
    \/ OtherGroup(v, n)
    \/ v.kind = "xfs" /\ \E i \in DOMAIN v.dir[n] : \E e \in Range(v.dir[n][i]) :
                            e.tag # "deleted" /\ Overlooked(v, n, e)

\* read_dir of XFS refuses a directory of which it refuses one inode.
RefusedEntry(v, n) ==
    v.kind = "xfs" /\ \E e \in Range(TrueEntries(v, n)) : ~XfsReadable(v.meta[e.node])

\* Lookups ignore case: another entry stands before the one a path names.
Shadowed(v, path) ==
    \E k \in 1..Len(path) :
        LET n == TrueNode(v, SubSeq(path, 1, k - 1)) IN
        n \in DOMAIN v.dir /\ \E e \in Range(TrueEntries(v, n)) :
                                 e.name # path[k] /\ SameName(e.name, path[k])

\* The volume is whole and every entry on the way to a path can be seen.
Reachable(v, path) ==
    /\ v.intact /\ Mounts(v) /\ ~Shadowed(v, path)
    /\ \A k \in 1..Len(path) :
           LET n == TrueNode(v, SubSeq(path, 1, k - 1)) IN
           /\ n \in DOMAIN v.dir /\ ~UnreadableDirectory(v, n)
           /\ \A e \in Range(TrueEntries(v, n)) : e.name = path[k] => ~Overlooked(v, n, e)

(***************************************************************************)
(* Properties                                                               *)
(***************************************************************************)
\* A read from any offset answers with the bytes of the file at that offset, in
\* full when the block map is whole; from a damaged map it answers with an error
\* or stops early, never with bytes from elsewhere (read_file of all formats).
ReadsReturnTheFile ==
    LET n == TrueNode(vol, call.path)
        to == Min({call.off + call.want, vol.size[n]})
        truth == Content(vol, n, call.off, to)
        answer == call.answer
    IN call.op = "read" /\ n # "none" /\ n \notin DOMAIN vol.dir =>
       \/ MidBlock(vol, n, call.off) \/ BehindTheChain(vol, call.off)
       \/ OtherGroup(vol, n) \/ Shadowed(vol, call.path)
       \/ \E p \in call.off..(to - 1) : PassedOver(vol, n, p)
       \/ /\ answer.ok => IsPrefix(answer.val, truth)
          /\ Reachable(vol, call.path) /\ ~Refused(vol, n) => answer = Good(truth)

\* file_extents leads the virtual disk to every block of the file: each block is
\* covered once, where it really lies, and a hole is not covered; a map that does
\* not reach the end of the file is refused.
ExtentsLeadToTheFile ==
    LET n == TrueNode(vol, call.path)
        answer == call.answer
        exts == answer.val
        Covering(b) == {i \in DOMAIN exts : b \in exts[i].virt..(exts[i].virt + exts[i].count - 1)}
        Sparse == \E i \in DOMAIN vol.layout[n] : vol.layout[n][i] = Hole
        Agrees(b) ==
            LET byte == TrueByte(vol, n, b * BlockSize) IN
            IF byte < 0 THEN Covering(b) = {}
            ELSE /\ Cardinality(Covering(b)) = 1
                 /\ \A i \in Covering(b) :
                        (exts[i].phys + b - exts[i].virt) * BlockSize = byte
    IN (/\ call.op = "extents" /\ n # "none" /\ n \notin DOMAIN vol.dir
        /\ ~OtherGroup(vol, n) /\ ~Shadowed(vol, call.path)) =>
       /\ answer.ok =>
              \A b \in 0..(CeilDiv(vol.size[n], BlockSize) - 1) :
                  Agrees(b) \/ (vol.kind = "ext4" /\ PassedOver(vol, n, b * BlockSize))
       /\ Reachable(vol, call.path) /\ ~Refused(vol, n)
          /\ ~(vol.kind = "ntfs" /\ Sparse) => answer.ok

\* read_dir lists the live entries of a directory once and in the order of the
\* format, whichever unit or metadata block holds them, nothing that was deleted
\* or lies elsewhere, and of a whole directory all that it does not overlook; of
\* names that differ in case alone NTFS lists at least one.
ListingsComplete ==
    LET n == TrueNode(vol, call.path)
        list == call.answer.val
        live == SelectSeq(list, LAMBDA e : e.tag = "live" /\ e.name # "")
        truth == TrueEntries(vol, n)
        Twin(e) == vol.kind = "ntfs" /\ \E i \in DOMAIN live : SameName(live[i].name, e.name)
    IN call.op = "dir" /\ n \in DOMAIN vol.dir =>
       /\ call.answer.ok /\ ~OtherGroup(vol, n) =>
              /\ live = SelectSeq(truth, LAMBDA e : e \in Range(live))
              /\ \A e \in Range(list) : e.tag \in {"live", "hidden"}
              /\ vol.intact =>
                     \A e \in Range(truth) : e \in Range(live) \/ Overlooked(vol, n, e) \/ Twin(e)
       /\ Reachable(vol, call.path) /\ ~UnreadableDirectory(vol, n)
          /\ ~RefusedEntry(vol, n) => call.answer.ok

\* Whatever pieces a started system reads through a handle, and however often it
\* sets the position, it receives the file from there on without gap or
\* repetition, with replaced files read to the size the listing shows; a directory
\* is delivered entry by entry, none lost to a buffer that was too small.
HandlesDeliverTheFile ==
    \A h \in Handles : LET f == handle[h] IN
    f # Closed =>
      LET n == TrueNode(vol, f.path)
          end == f.start + Len(f.got)
          list == [i \in DOMAIN TrueEntries(vol, n) |->
                     LET e == TrueEntries(vol, n)[i] IN
                     [name |-> e.name, size |-> ListedSize(f.path, e)]]
      IN IF f.isDir
         THEN /\ f.position = Len(f.got)
              /\ LET live == SelectSeq(f.got, LAMBDA e : e \in Range(list)) IN
                 /\ IsPrefix(live, list)
                 /\ f.listed /\ f.position = Len(f.entries) => live = list
         ELSE /\ f.position = end /\ end <= f.size
              /\ f.size = IF IsReplaced(f.path, FALSE) THEN Replaced.size ELSE vol.size[n]
              /\ \/ f.got = IF IsReplaced(f.path, FALSE)
                            THEN [i \in 1..Len(f.got) |-> Replacement(f.start + i - 1)]
                            ELSE Content(vol, n, f.start, end)
                 \/ \E p \in 0..(vol.size[n] - 1) : MidBlock(vol, n, p) \/ PassedOver(vol, n, p)

\* "读取文件内容到缓冲区" (filesystem.rs): a read fills the buffer with the file's
\* content at the offset, for UDF files without holes as for any other.
UdfReadsAtAnyOffset ==
    LET n == TrueNode(vol, call.path)
        to == Min({call.off + call.want, vol.size[n]})
    IN (/\ call.op = "read" /\ call.path = <<"d", "f">> /\ vol.fits
        /\ \A i \in DOMAIN vol.layout[n] : vol.layout[n][i] # Hole)
       => call.answer = Good(Content(vol, n, call.off, to))
================================================================================
