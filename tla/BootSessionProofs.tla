------------------------- MODULE BootSessionProofs -------------------------
(***************************************************************************)
(* Proofs about BootSession, for every set of image kinds, any number of   *)
(* attempts and any length of the candidate lists.                         *)
(***************************************************************************)
EXTENDS BootSession, SequenceTheorems, TLAPS

---------------------------------------------------------------------------
(***************************************************************************)
(* The inductive invariant.  CleanMenu speaks of two places of the session *)
(* only; the invariant says for every place what is registered, who owns   *)
(* it, and what the attempt still knows about it.                          *)
(***************************************************************************)
InLoader == pc \in {"next", "initrd", "load", "child", "provider"}

AttemptCounted == pc \in Working \cup {"child"} => attempt # 0

\* The loader at the head of the route is the one the place is about; without
\* a virtual device the route is a single loader.
RouteInv ==
  /\ InLoader => route # << >>
  /\ pc \in {"initrd", "provider"} => Loader = "stub"
  /\ pc = "load" => Loader \in {"stub", "wimboot"}
  /\ InLoader => "block" \in owns \/ route \in {<<"efi">>, <<"wimboot">>}

\* What the attempt owns at each place.
OwnsInv ==
  /\ pc \in {"scan", "menu", "exit", "report", "reset", "prepare", "publish",
             "publishVentoy", "create", "release", "free"} => owns = {}
  /\ pc = "filesystem" => owns = {"block"}
  /\ pc = "files" => "block" \in owns /\ owns \subseteq {"block", "filesystem"}
  /\ pc = "route" => "block" \in owns
  /\ pc = "dropFiles" => "block" \in owns
  /\ pc = "dropFilesystem" => "block" \in owns /\ "files" \notin owns
  /\ pc = "dropBlock" => owns = {"block"}
  /\ "block" \notin owns => owns = {}
  /\ "provider" \in owns => pc \in {"load", "child", "provider", "os"}
  /\ "provider" \in owns /\ pc # "os" => Loader = "stub"

\* The registration an interface or an allocation belongs to.
Owner(x) ==
  CASE x \in Block \cup Storage(Block) -> "block"
    [] x \in Filesystem \cup Storage(Filesystem) -> "filesystem"
    [] x \in Files \cup Storage(Files) -> "files"
    [] OTHER -> "provider"

Owned(all) == {x \in all : Owner(x) \in owns}

\* The firmware and the attempt agree: exactly what is owned is registered and
\* allocated.
Accounted == iface = Owned(Interfaces) /\ live = Owned(Allocations)

\* An install that could not be rolled back is on its way to prepare_and_boot.
Reporting == pc \in {"drop", "release"} /\ result = "Compromised" /\ owns = {}

FirmwareInv ==
  /\ Owned(Interfaces) \subseteq iface
  /\ cleanupOk => Accounted \/ Reporting

\* A refusal is remembered, and while it is no loader is prepared or started.
RefusalInv ==
  /\ ~cleanupOk => pc \in {"route", "release", "report", "reset"} \cup Dropping
  /\ refused => ~cleanupOk \/ Reporting

AtRest == pc \in {"scan", "menu", "exit"} \/ (pc = "report" /\ cleanupOk)

ParamsInv ==
  /\ cleanupOk => pools = recorded
  /\ \A v \in Variables : variable[v] # 0 => published /\ variable[v] = attempt
  /\ variable["VentoyOsParam"] # 0 => "param" \in pools
  /\ pc = "free" \/ AtRest => \A v \in Variables : variable[v] = 0
  /\ AtRest => recorded = {}
  /\ pc = "publishVentoy" => published

WimbootInv ==
  /\ previous = 0
  /\ context # 0 => /\ context = attempt
                    /\ pc \in {"load", "child", "os"}
                    /\ pc # "os" => Loader = "wimboot"
  /\ contexts = IF context # 0 THEN {attempt} ELSE {}
  /\ pc \in {"load", "child"} /\ Loader = "wimboot" => context = attempt

SessionInv ==
  /\ TypeOK /\ AttemptCounted /\ RouteInv /\ OwnsInv
  /\ FirmwareInv /\ RefusalInv /\ ParamsInv /\ WimbootInv

USE DEF Session, Firmware, Params, Wimboot, Belief, Goto, Quiet, Aside, Kept, Untouched, Fail

---------------------------------------------------------------------------
(***************************************************************************)
(* Interfaces, their storage and their owners.                             *)
(***************************************************************************)
\* The Box that holds each interface (RegisteredVirtualBlockIo and the others).
LEMMA BackingOf ==
  /\ Backing("BlockIO") = "protocol" /\ Backing("BlockIO2") = "protocol"
  /\ Backing("DevicePath") = "path"
  /\ Backing("LoadFile") = "files" /\ Backing("LoadFile2") = "files"
  /\ Backing("SimpleFileSystem") = "filesystem"
  /\ Backing("InitrdLoadFile2") = "initrd" /\ Backing("InitrdDevicePath") = "initrdPath"
  BY DEF Backing, Files, Filesystem

\* The storage of each registration.
LEMMA StorageOf ==
  /\ Storage(Block) = {"protocol", "path"}
  /\ Storage(Files) = {"files"}
  /\ Storage(Filesystem) = {"filesystem"}
  /\ Storage(Initrd) = {"initrd", "initrdPath"}
  BY BackingOf DEF Storage, Block, Files, Filesystem, Initrd

\* All storage is the storage of one of the four registrations.
LEMMA AllocationsAre ==
  Allocations = Storage(Block) \cup Storage(Files) \cup Storage(Filesystem) \cup Storage(Initrd)
  BY DEF Allocations, Storage, Interfaces

\* An interface or an allocation belongs to the registration that made it, and
\* to no other.
LEMMA OwnerOf ==
  /\ \A i \in Interfaces :
       /\ i \in Block <=> Owner(i) = "block"
       /\ i \in Files <=> Owner(i) = "files"
       /\ i \in Filesystem <=> Owner(i) = "filesystem"
       /\ i \in Initrd <=> Owner(i) = "provider"
  /\ \A a \in Allocations :
       /\ a \in Storage(Block) <=> Owner(a) = "block"
       /\ a \in Storage(Files) <=> Owner(a) = "files"
       /\ a \in Storage(Filesystem) <=> Owner(a) = "filesystem"
       /\ a \in Storage(Initrd) <=> Owner(a) = "provider"
<1>1. \A i \in Interfaces : i \in {"BlockIO", "BlockIO2", "DevicePath", "LoadFile", "LoadFile2",
          "SimpleFileSystem", "InitrdLoadFile2", "InitrdDevicePath"}
  BY DEF Interfaces, Block, Files, Filesystem, Initrd
<1>2. \A a \in Allocations : a \in {"protocol", "path", "files", "filesystem", "initrd", "initrdPath"}
  BY AllocationsAre, StorageOf
<1> QED BY <1>1, <1>2, StorageOf DEF Owner, Block, Files, Filesystem, Initrd

\* Registrations keep their storage apart: an interface outside a group is not
\* backed by the group's storage, and two interfaces of an initrd provider do
\* not share theirs.
LEMMA BackingApart ==
  /\ \A i \in Interfaces : Backing(i) \in Allocations
  /\ \A group \in {Block, Files, Filesystem, Initrd}, i \in Interfaces :
        i \in group <=> Backing(i) \in Storage(group)
  /\ \A i, j \in Initrd : Backing(i) = Backing(j) => i = j
<1>1. \A i \in Interfaces : i \in {"BlockIO", "BlockIO2", "DevicePath", "LoadFile", "LoadFile2",
          "SimpleFileSystem", "InitrdLoadFile2", "InitrdDevicePath"}
  BY DEF Interfaces, Block, Files, Filesystem, Initrd
<1>2. \A i \in Interfaces : Backing(i) \in Allocations
  BY DEF Allocations, Storage
<1>3. \A i \in Interfaces :
        /\ i \in Block <=> Backing(i) \in Storage(Block)
        /\ i \in Files <=> Backing(i) \in Storage(Files)
        /\ i \in Filesystem <=> Backing(i) \in Storage(Filesystem)
        /\ i \in Initrd <=> Backing(i) \in Storage(Initrd)
  BY <1>1, BackingOf, StorageOf DEF Block, Files, Filesystem, Initrd
<1>4. \A i, j \in Initrd : Backing(i) = Backing(j) => i = j
  BY BackingOf DEF Initrd
<1> QED BY <1>2, <1>3, <1>4

---------------------------------------------------------------------------
(***************************************************************************)
(* Which steps leave a part of the state alone.                            *)
(***************************************************************************)
\* Only the installs and uninstalls, and the restart, touch the firmware's
\* protocol database.
LEMMA FirmwareFrame ==
  ASSUME Next,
         ~(CreateBlock \/ CreateBlockFails \/ InstallFilesystem \/ InstallFiles
           \/ InstallFilesFails \/ InstallInitrd \/ InstallInitrdFails
           \/ UninstallProvider \/ DropFiles \/ DropFilesystem \/ DropBlock \/ PowerCycle)
  PROVE  UNCHANGED Firmware
<1>1. CASE User \/ ChildReturns \/ TakesOver
  BY <1>1 DEF User, ScanEmpty, ScanFound, Select, MenuExit, ReportReturn, ReportRestart,
              ChildReturns, TakesOver
<1>2. CASE Prepare \/ PublishOsParam \/ PublishVentoyOsParam \/ CreateFails \/ Route
  BY <1>2 DEF Prepare, PublishOsParam, PublishVentoyOsParam, CreateFails, Route
<1>3. CASE StubFails \/ StubPrepared \/ WimbootFails \/ WimbootRegistered
  BY <1>3 DEF StubFails, StubPrepared, WimbootFails, WimbootRegistered
<1>4. CASE LoadImageFails \/ LoadOptionsFail \/ StartImage
  BY <1>4 DEF LoadImageFails, LoadOptionsFail, StartImage
<1>5. CASE DropNothing \/ Disconnect
  BY <1>5 DEF DropNothing, Disconnect
<1>6. CASE ReleaseSkipped \/ DeleteVariables \/ DeleteRefused \/ FreePools \/ FreePoolsFails
  BY <1>6 DEF ReleaseSkipped, DeleteVariables, DeleteRefused, FreePools, FreePoolsFails
<1> QED BY <1>1, <1>2, <1>3, <1>4, <1>5, <1>6 DEF Next, Program

\* Only these steps touch runtime variables, pools and what is known of them.
LEMMA ParamsFrame ==
  ASSUME Next,
         ~(Select \/ PublishOsParam \/ PublishVentoyOsParam \/ StubFails \/ StubPrepared
           \/ WimbootFails \/ WimbootRegistered \/ DeleteVariables \/ DeleteRefused
           \/ FreePools \/ FreePoolsFails \/ PowerCycle)
  PROVE  UNCHANGED Params
<1>1. CASE User \/ ChildReturns \/ TakesOver
  BY <1>1 DEF User, ScanEmpty, ScanFound, MenuExit, ReportReturn, ReportRestart,
              ChildReturns, TakesOver
<1>2. CASE Prepare \/ Route
  BY <1>2 DEF Prepare, Route
<1>3. CASE CreateFails \/ CreateBlock \/ CreateBlockFails \/ InstallFilesystem
           \/ InstallFiles \/ InstallFilesFails \/ InstallInitrd
  BY <1>3 DEF CreateFails, CreateBlock, CreateBlockFails, InstallFilesystem,
              InstallFiles, InstallFilesFails, InstallInitrd
<1>4. CASE InstallInitrdFails \/ LoadImageFails \/ LoadOptionsFail \/ StartImage
  BY <1>4 DEF InstallInitrdFails, LoadImageFails, LoadOptionsFail, StartImage
<1>5. CASE UninstallProvider \/ DropNothing \/ Disconnect \/ DropFiles \/ DropFilesystem
           \/ DropBlock \/ ReleaseSkipped
  BY <1>5 DEF UninstallProvider, DropNothing, Disconnect, DropFiles, DropFilesystem,
              DropBlock, ReleaseSkipped
<1> QED BY <1>1, <1>2, <1>3, <1>4, <1>5 DEF Next, Program

\* Only a WIMBOOT registration and the end of a loader touch the callback context.
LEMMA WimbootFrame ==
  ASSUME Next,
         ~(WimbootRegistered \/ LoadImageFails \/ LoadOptionsFail \/ ChildReturns \/ PowerCycle)
  PROVE  UNCHANGED Wimboot
<1>1. CASE User \/ TakesOver
  BY <1>1 DEF User, ScanEmpty, ScanFound, Select, MenuExit, ReportReturn, ReportRestart,
              TakesOver
<1>2. CASE Prepare \/ PublishOsParam \/ PublishVentoyOsParam \/ Route
  BY <1>2 DEF Prepare, PublishOsParam, PublishVentoyOsParam, Route
<1>3. CASE CreateFails \/ CreateBlock \/ CreateBlockFails \/ InstallFilesystem
           \/ InstallFiles \/ InstallFilesFails \/ InstallInitrd \/ InstallInitrdFails
  BY <1>3 DEF CreateFails, CreateBlock, CreateBlockFails, InstallFilesystem,
              InstallFiles, InstallFilesFails, InstallInitrd, InstallInitrdFails
<1>4. CASE StubFails \/ StubPrepared \/ WimbootFails \/ StartImage
  BY <1>4 DEF StubFails, StubPrepared, WimbootFails, StartImage
<1>5. CASE UninstallProvider \/ DropNothing \/ Disconnect \/ DropFiles \/ DropFilesystem
           \/ DropBlock
  BY <1>5 DEF UninstallProvider, DropNothing, Disconnect, DropFiles, DropFilesystem, DropBlock
<1>6. CASE ReleaseSkipped \/ DeleteVariables \/ DeleteRefused \/ FreePools \/ FreePoolsFails
  BY <1>6 DEF ReleaseSkipped, DeleteVariables, DeleteRefused, FreePools, FreePoolsFails
<1> QED BY <1>1, <1>2, <1>3, <1>4, <1>5, <1>6 DEF Next, Program

\* Only a selection and the restart change the image and the attempt.
LEMMA SessionFrame ==
  ASSUME Next, ~Select, ~PowerCycle
  PROVE  UNCHANGED Session
<1>1. CASE User \/ ChildReturns \/ TakesOver
  BY <1>1 DEF User, ScanEmpty, ScanFound, MenuExit, ReportReturn, ReportRestart,
              ChildReturns, TakesOver
<1>2. CASE Prepare \/ PublishOsParam \/ PublishVentoyOsParam \/ Route
  BY <1>2 DEF Prepare, PublishOsParam, PublishVentoyOsParam, Route
<1>3. CASE CreateFails \/ CreateBlock \/ CreateBlockFails \/ InstallFilesystem
           \/ InstallFiles \/ InstallFilesFails \/ InstallInitrd \/ InstallInitrdFails
  BY <1>3 DEF CreateFails, CreateBlock, CreateBlockFails, InstallFilesystem,
              InstallFiles, InstallFilesFails, InstallInitrd, InstallInitrdFails
<1>4. CASE StubFails \/ StubPrepared \/ WimbootFails \/ WimbootRegistered
           \/ LoadImageFails \/ LoadOptionsFail \/ StartImage
  BY <1>4 DEF StubFails, StubPrepared, WimbootFails, WimbootRegistered,
              LoadImageFails, LoadOptionsFail, StartImage
<1>5. CASE UninstallProvider \/ DropNothing \/ Disconnect \/ DropFiles \/ DropFilesystem
           \/ DropBlock
  BY <1>5 DEF UninstallProvider, DropNothing, Disconnect, DropFiles, DropFilesystem, DropBlock
<1>6. CASE ReleaseSkipped \/ DeleteVariables \/ DeleteRefused \/ FreePools \/ FreePoolsFails
  BY <1>6 DEF ReleaseSkipped, DeleteVariables, DeleteRefused, FreePools, FreePoolsFails
<1> QED BY <1>1, <1>2, <1>3, <1>4, <1>5, <1>6 DEF Next, Program

---------------------------------------------------------------------------
(***************************************************************************)
(* Interfaces stay backed.                                                 *)
(***************************************************************************)
\* An install adds a group and its storage.
LEMMA InstalledBacked ==
  ASSUME InterfacesBacked, iface \subseteq Interfaces,
         NEW group \in {Block, Files, Filesystem, Initrd}, NEW owner, Installed(group, owner)
  PROVE  InterfacesBacked' /\ iface' \subseteq Interfaces
  BY DEF Installed, InterfacesBacked, Storage, Interfaces

\* A rollback leaves what is stuck, and at least the storage of that.
LEMMA RolledBackBacked ==
  ASSUME InterfacesBacked, iface \subseteq Interfaces,
         NEW group \in {Block, Files, Filesystem, Initrd},
         NEW stuck \in SUBSET group, NEW storage, Storage(stuck) \subseteq storage,
         RolledBack(stuck, storage)
  PROVE  InterfacesBacked' /\ iface' \subseteq Interfaces
  BY DEF RolledBack, InterfacesBacked, Storage, Interfaces

\* An uninstall frees storage only when nothing registered is in it.
LEMMA UninstallBacked ==
  ASSUME InterfacesBacked, iface \subseteq Interfaces,
         NEW group \in {Block, Files, Filesystem, Initrd}, NEW owner,
         Taken(group, owner)
  PROVE  InterfacesBacked' /\ iface' \subseteq Interfaces
<1>1. CASE UNCHANGED <<iface, live>>
  BY <1>1 DEF InterfacesBacked
<1>2. CASE UninstallGroup(group, owner)
  BY <1>2, BackingApart DEF UninstallGroup, InterfacesBacked
<1> QED BY <1>1, <1>2 DEF Taken

\* The initrd provider frees its two interfaces one by one.
LEMMA ProviderBacked ==
  ASSUME InterfacesBacked, iface \subseteq Interfaces, UninstallProvider
  PROVE  InterfacesBacked' /\ iface' \subseteq Interfaces
<1>1. CASE UNCHANGED <<iface, live>>
  BY <1>1 DEF InterfacesBacked
<1>2. ASSUME NEW stuck \in SUBSET Initrd,
             iface' = iface \ (Initrd \ stuck), live' = live \ Storage(Initrd \ stuck)
      PROVE  InterfacesBacked' /\ iface' \subseteq Interfaces
  <2> SUFFICES ASSUME NEW i \in iface' PROVE Backing(i) \in live'
    BY <1>2 DEF InterfacesBacked
  <2>1. i \in iface /\ i \in Interfaces /\ Backing(i) \in live
    BY <1>2 DEF InterfacesBacked
  <2>2. ASSUME NEW j \in Initrd \ stuck PROVE Backing(i) # Backing(j)
    <3>1. i # j
      BY <1>2
    <3>2. CASE i \in Initrd
      BY <3>1, <3>2, BackingApart
    <3>3. CASE i \notin Initrd
      BY <2>1, <3>3, BackingApart DEF Interfaces
    <3> QED BY <3>2, <3>3
  <2> QED BY <1>2, <2>1, <2>2 DEF Storage
<1> QED BY <1>1, <1>2 DEF UninstallProvider

\* Every step keeps every registered interface backed.
LEMMA NextBacked ==
  ASSUME InterfacesBacked, iface \subseteq Interfaces, [Next]_vars
  PROVE  InterfacesBacked' /\ iface' \subseteq Interfaces
<1>0. CASE UNCHANGED vars
  BY <1>0 DEF vars, InterfacesBacked
<1>1. CASE CreateBlock
  BY <1>1, InstalledBacked DEF CreateBlock
<1>2. CASE CreateBlockFails
  <2>1. PICK stuck \in Stuck(Block, "DevicePath") : RolledBack(stuck, Storage(Block))
    BY <1>2 DEF CreateBlockFails
  <2>2. stuck \in SUBSET Block /\ Storage(stuck) \subseteq Storage(Block)
    BY <2>1 DEF Stuck, Storage
  <2> QED BY <2>1, <2>2, RolledBackBacked
<1>3. CASE InstallFilesystem
  BY <1>3, InstalledBacked DEF InstallFilesystem, InterfacesBacked
<1>4. CASE InstallFiles
  BY <1>4, InstalledBacked DEF InstallFiles, InterfacesBacked
<1>5. CASE InstallFilesFails
  <2>1. PICK stuck \in Stuck(Files, "LoadFile2") : RolledBack(stuck, Storage(Files))
    BY <1>5 DEF InstallFilesFails
  <2>2. stuck \in SUBSET Files /\ Storage(stuck) \subseteq Storage(Files)
    BY <2>1 DEF Stuck, Storage
  <2> QED BY <2>1, <2>2, RolledBackBacked
<1>6. CASE InstallInitrd
  BY <1>6, InstalledBacked DEF InstallInitrd
<1>7. CASE InstallInitrdFails
  <2>1. PICK stuck \in Stuck(Initrd, "InitrdDevicePath") : RolledBack(stuck, Storage(stuck))
    BY <1>7 DEF InstallInitrdFails
  <2>2. stuck \in SUBSET Initrd
    BY <2>1 DEF Stuck
  <2> QED BY <2>1, <2>2, RolledBackBacked
<1>8. CASE UninstallProvider
  BY <1>8, ProviderBacked
<1>9. CASE DropFiles \/ DropFilesystem \/ DropBlock
  BY <1>9, UninstallBacked DEF DropFiles, DropFilesystem, DropBlock
<1>10. CASE PowerCycle
  BY <1>10 DEF PowerCycle, InterfacesBacked
<1>11. CASE UNCHANGED Firmware
  BY <1>11 DEF InterfacesBacked
<1> QED BY <1>0, <1>1, <1>2, <1>3, <1>4, <1>5, <1>6, <1>7, <1>8, <1>9, <1>10, <1>11, FirmwareFrame

\* The firmware never holds an interface whose memory was freed, whatever the
\* installs, rollbacks and uninstalls meet (RegisteredVirtualBlockIo, the
\* LoadFile protocols, the SimpleFileSystem protocol, the initrd provider).
THEOREM InterfacesStayBacked == Spec => []InterfacesBacked
<1> DEFINE Inv == InterfacesBacked /\ iface \subseteq Interfaces
<1>1. Init => Inv
  BY DEF Init, InterfacesBacked
<1>2. Inv /\ [Next]_vars => Inv'
  BY NextBacked
<1> QED BY <1>1, <1>2, PTL DEF Spec

---------------------------------------------------------------------------
(***************************************************************************)
(* The routes.                                                             *)
(***************************************************************************)
\* A candidate list is a sequence of its loader, and never empty.
LEMMA PathsTyped ==
  ASSUME NEW loader \in Loaders
  PROVE  Paths(loader) \in Seq(Loaders) /\ Len(Paths(loader)) > 0
<1>1. PathsPerList \in Nat \ {0}
  BY SessionAssumption
<1>2. Paths(loader) \in Seq(Loaders)
  BY <1>1 DEF Paths
<1>3. Len(Paths(loader)) = PathsPerList
  BY <1>1, <1>2 DEF Paths
<1> QED BY <1>1, <1>2, <1>3

\* Every image kind has a loader to try.
LEMMA RouteTyped ==
  ASSUME NEW k
  PROVE  RouteOf(k) \in Seq(Loaders) /\ RouteOf(k) # << >>
<1>1. \A s, t \in Seq(Loaders) : s \o t \in Seq(Loaders) /\ Len(s \o t) = Len(s) + Len(t)
  BY ConcatProperties
<1>2. \A s \in Seq(Loaders) : Len(s) \in Nat /\ (Len(s) > 0 => s # << >>)
  OBVIOUS
<1>3. \A loader \in {"stub", "bootmgfw", "wimboot"} : <<loader>> \in Seq(Loaders) /\ Len(<<loader>>) = 1
  BY DEF Loaders
<1>4. \A loader \in {"device", "generic"} : Paths(loader) \in Seq(Loaders) /\ Len(Paths(loader)) > 0
  BY PathsTyped DEF Loaders
<1>5. CASE k = "linux"
  BY <1>1, <1>2, <1>3, <1>4, <1>5 DEF RouteOf
<1>6. CASE k = "windows"
  <2>1. Paths("device") \o <<"bootmgfw">> \in Seq(Loaders)
        /\ Len(Paths("device") \o <<"bootmgfw">>) > 0
    BY <1>1, <1>2, <1>3, <1>4
  <2>2. Paths("device") \o <<"bootmgfw">> \o Paths("generic") \in Seq(Loaders)
        /\ Len(Paths("device") \o <<"bootmgfw">> \o Paths("generic")) > 0
    BY <1>1, <1>2, <1>4, <2>1
  <2>3. Paths("device") \o <<"bootmgfw">> \o Paths("generic") \o <<"wimboot">> \in Seq(Loaders)
        /\ Len(Paths("device") \o <<"bootmgfw">> \o Paths("generic") \o <<"wimboot">>) > 0
    BY <1>1, <1>2, <1>3, <2>2
  <2> QED BY <1>2, <1>6, <2>3 DEF RouteOf
<1>7. CASE k \notin {"linux", "windows"}
  BY <1>1, <1>2, <1>4, <1>7 DEF RouteOf
<1> QED BY <1>5, <1>6, <1>7

\* The loader at the head of a route, and the routes left after it.
LEMMA RouteStep ==
  ASSUME NEW r \in Seq(Loaders), r # << >>
  PROVE  Head(r) \in Loaders /\ Tail(r) \in Seq(Loaders)
  OBVIOUS

\* A loader that ends passes to the next one of the route, which exists only with
\* a virtual device, or the attempt is taken down.
LEMMA AdvanceStep ==
  ASSUME TypeOK, RouteInv, InLoader, NEW status \in Statuses, Advance(status)
  PROVE  /\ route' \in Seq(Loaders) /\ result' \in Statuses
         /\ pc' \in {"drop", "next"}
         /\ pc' = "next" => route' # << >> /\ "block" \in owns
<1>1. route \in Seq(Loaders) /\ route # << >> /\ result \in Statuses
  BY DEF TypeOK, RouteInv
<1>2. Tail(route) \in Seq(Loaders)
  BY <1>1, RouteStep
<1>3. route' \in Seq(Loaders) /\ result' \in Statuses /\ pc' \in {"drop", "next"}
  BY <1>1, <1>2 DEF Advance
<1>4. ASSUME pc' = "next" PROVE route' # << >> /\ route' = Tail(route)
  BY <1>4 DEF Advance
<1>5. Tail(<<"efi">>) = << >> /\ Tail(<<"wimboot">>) = << >>
  OBVIOUS
<1>6. ASSUME pc' = "next" PROVE "block" \in owns
  BY <1>4, <1>5, <1>6 DEF RouteInv
<1> QED BY <1>3, <1>4, <1>6

\* A loader that could not be loaded or came back: the direct Linux boot still
\* has its initrd provider to remove, the others pass on.
LEMMA EndLoaderStep ==
  ASSUME TypeOK, RouteInv, InLoader, NEW status \in Statuses, EndLoader(status)
  PROVE  /\ route' \in Seq(Loaders) /\ result' \in Statuses
         /\ pc' \in {"drop", "next", "provider"}
         /\ pc' = "provider" => Loader = "stub" /\ route' = route /\ UNCHANGED Wimboot
         /\ pc' = "next" => Loader # "stub" /\ route' # << >> /\ "block" \in owns
         /\ pc' = "drop" => Loader # "stub"
         /\ Loader = "wimboot" => DropContext
         /\ Loader # "wimboot" => UNCHANGED Wimboot
<1>1. CASE Loader = "stub"
  BY <1>1 DEF EndLoader, TypeOK
<1>2. CASE Loader # "stub"
  <2>1. Advance(status)
    BY <1>2 DEF EndLoader
  <2> QED BY <1>2, <2>1, AdvanceStep DEF EndLoader
<1> QED BY <1>1, <1>2

\* CanLoad, in the words of the invariant.
LEMMA CanLoadPlaces ==
  ASSUME CanLoad
  PROVE  InLoader /\ pc \in {"load", "next"} /\ (pc = "next" => Loader \notin {"stub", "wimboot"})
  BY DEF CanLoad, InLoader

---------------------------------------------------------------------------
(***************************************************************************)
(* Every part of the invariant is preserved.                               *)
(***************************************************************************)
\* A step of the program is a step of an attempt.
LEMMA ProgramPlaces ==
  ASSUME Program
  PROVE  pc \in Working
<1> USE DEF Working, Preparing, Loading, Dropping, Releasing
<1>1. CASE Prepare \/ PublishOsParam \/ PublishVentoyOsParam \/ Route
  BY <1>1 DEF Prepare, PublishOsParam, PublishVentoyOsParam, Route
<1>2. CASE CreateFails \/ CreateBlock \/ CreateBlockFails \/ InstallFilesystem
           \/ InstallFiles \/ InstallFilesFails \/ InstallInitrd \/ InstallInitrdFails
  BY <1>2 DEF CreateFails, CreateBlock, CreateBlockFails, InstallFilesystem,
              InstallFiles, InstallFilesFails, InstallInitrd, InstallInitrdFails
<1>3. CASE StubFails \/ StubPrepared \/ WimbootFails \/ WimbootRegistered
           \/ LoadImageFails \/ LoadOptionsFail \/ StartImage
  BY <1>3 DEF StubFails, StubPrepared, WimbootFails, WimbootRegistered,
              LoadImageFails, LoadOptionsFail, StartImage, CanLoad
<1>4. CASE UninstallProvider \/ DropNothing \/ Disconnect \/ DropFiles \/ DropFilesystem
           \/ DropBlock
  BY <1>4 DEF UninstallProvider, DropNothing, Disconnect, DropFiles, DropFilesystem, DropBlock
<1>5. CASE ReleaseSkipped \/ DeleteVariables \/ DeleteRefused \/ FreePools \/ FreePoolsFails
  BY <1>5 DEF ReleaseSkipped, DeleteVariables, DeleteRefused, FreePools, FreePoolsFails, Releasable
<1> QED BY <1>1, <1>2, <1>3, <1>4, <1>5 DEF Program

\* An attempt is counted before it works.
LEMMA NextAttemptCounted ==
  ASSUME SessionInv, [Next]_vars
  PROVE  AttemptCounted'
<1>0. CASE UNCHANGED vars
  BY <1>0 DEF vars, SessionInv, AttemptCounted
<1>1. CASE Select
  BY <1>1 DEF Select, SessionInv, AttemptCounted, TypeOK, Attempts
<1> USE DEF Working, Preparing, Loading, Dropping, Releasing
<1>2. CASE PowerCycle \/ TakesOver
  BY <1>2 DEF PowerCycle, TakesOver, AttemptCounted
<1>3. CASE ScanEmpty \/ ScanFound \/ MenuExit \/ ReportReturn \/ ReportRestart
  BY <1>3 DEF ScanEmpty, ScanFound, MenuExit, ReportReturn, ReportRestart, AttemptCounted
<1>4. CASE Program \/ ChildReturns
  <2>1. pc \in Working \cup {"child"}
    BY <1>4, ProgramPlaces DEF ChildReturns
  <2>2. ~Select /\ ~PowerCycle
    BY <2>1 DEF Select, PowerCycle, Stopped
  <2>3. attempt' = attempt
    BY <1>4, <2>2, SessionFrame DEF Next
  <2> QED BY <2>1, <2>3 DEF SessionInv, AttemptCounted
<1> QED BY <1>0, <1>1, <1>2, <1>3, <1>4 DEF Next, User

\* The steps that lead to a loader, or from one loader to the next.
LEMMA LoaderFrame ==
  ASSUME Next,
         ~(Prepare \/ Route \/ StubFails \/ StubPrepared \/ InstallInitrd \/ InstallInitrdFails
           \/ WimbootFails \/ WimbootRegistered \/ LoadImageFails \/ LoadOptionsFail
           \/ StartImage \/ ChildReturns \/ UninstallProvider)
  PROVE  ~InLoader'
<1> USE DEF InLoader
<1>1. CASE User \/ TakesOver \/ PowerCycle
  BY <1>1 DEF User, ScanEmpty, ScanFound, Select, MenuExit, ReportReturn, ReportRestart,
              TakesOver, PowerCycle
<1>2. CASE PublishOsParam \/ PublishVentoyOsParam \/ CreateFails \/ CreateBlock
           \/ CreateBlockFails \/ InstallFilesystem \/ InstallFiles \/ InstallFilesFails
  BY <1>2 DEF PublishOsParam, PublishVentoyOsParam, CreateFails, CreateBlock,
              CreateBlockFails, InstallFilesystem, InstallFiles, InstallFilesFails
<1>3. CASE DropNothing \/ Disconnect \/ DropFiles \/ DropFilesystem \/ DropBlock
  BY <1>3 DEF DropNothing, Disconnect, DropFiles, DropFilesystem, DropBlock
<1>4. CASE ReleaseSkipped \/ DeleteVariables \/ DeleteRefused \/ FreePools \/ FreePoolsFails
  BY <1>4 DEF ReleaseSkipped, DeleteVariables, DeleteRefused, FreePools, FreePoolsFails
<1> QED BY <1>1, <1>2, <1>3, <1>4 DEF Next, Program

\* Inside the loaders the route names the loader the place is about.
LEMMA NextRoute ==
  ASSUME SessionInv, [Next]_vars
  PROVE  RouteInv'
<1> USE DEF InLoader, RouteInv, Loader
<1>a. TypeOK /\ RouteInv /\ OwnsInv
  BY DEF SessionInv
<1>b. "Error" \in Statuses
  BY DEF Statuses
<1>0. CASE UNCHANGED vars
  BY <1>0, <1>a DEF vars
<1>1. CASE ~InLoader'
  BY <1>1
<1>2. CASE Prepare
  BY <1>2 DEF Prepare
<1>3. CASE Route
  BY <1>3, <1>a, RouteTyped DEF Route, OwnsInv
<1>4. CASE StubFails \/ WimbootFails
  <2>1. InLoader /\ Advance("Error") /\ owns' = owns
    BY <1>4 DEF StubFails, WimbootFails
  <2> QED BY <2>1, <1>a, <1>b, AdvanceStep
<1>5. CASE StubPrepared \/ InstallInitrd \/ WimbootRegistered
  BY <1>5, <1>a DEF StubPrepared, InstallInitrd, WimbootRegistered, Installed
<1>6. CASE InstallInitrdFails
  BY <1>6, <1>a DEF InstallInitrdFails, RolledBack
<1>7. CASE LoadImageFails \/ LoadOptionsFail
  <2>1. InLoader /\ EndLoader("Error") /\ owns' = owns
    BY <1>7, CanLoadPlaces DEF LoadImageFails, LoadOptionsFail
  <2> QED BY <2>1, <1>a, <1>b, EndLoaderStep
<1>8. CASE StartImage
  BY <1>8, <1>a, CanLoadPlaces DEF StartImage
<1>9. CASE ChildReturns
  <2>1. PICK status \in Statuses : EndLoader(status)
    BY <1>9 DEF ChildReturns
  <2>2. InLoader /\ owns' = owns
    BY <1>9 DEF ChildReturns
  <2> QED BY <2>1, <2>2, <1>a, EndLoaderStep
<1>10. CASE UninstallProvider
  <2>1. InLoader /\ result \in Statuses
    BY <1>10, <1>a DEF UninstallProvider, TypeOK
  <2>2. CASE pc' = "drop"
    BY <2>2
  <2>3. CASE pc' # "drop"
    <3>1. Advance(result) /\ ("block" \in owns => "block" \in owns')
      BY <1>10, <2>3 DEF UninstallProvider
    <3> QED BY <2>1, <3>1, <1>a, AdvanceStep
  <2> QED BY <2>2, <2>3
<1> QED BY <1>0, <1>1, <1>2, <1>3, <1>4, <1>5, <1>6, <1>7, <1>8, <1>9, <1>10, LoaderFrame

\* A registration taken down is no longer owned, and no other is lost.
LEMMA TakenOwns ==
  ASSUME NEW group, NEW owner, Taken(group, owner)
  PROVE  owns' = owns \ {owner}
  BY DEF Taken, UninstallGroup

\* What the attempt owns at each place.
LEMMA NextOwns ==
  ASSUME SessionInv, [Next]_vars
  PROVE  OwnsInv'
<1> USE DEF OwnsInv
<1>a. TypeOK /\ RouteInv /\ OwnsInv /\ owns \subseteq Registrations
  BY DEF SessionInv, TypeOK
<1>b. "Error" \in Statuses
  BY DEF Statuses
<1>0. CASE UNCHANGED vars
  BY <1>0, <1>a DEF vars, Loader
<1>1. CASE User
  BY <1>1, <1>a DEF User, ScanEmpty, ScanFound, Select, MenuExit, ReportReturn, ReportRestart
<1>2. CASE TakesOver \/ PowerCycle
  BY <1>2, <1>a DEF TakesOver, PowerCycle
<1>3. CASE Prepare \/ PublishOsParam \/ PublishVentoyOsParam \/ CreateFails
  BY <1>3, <1>a DEF Prepare, PublishOsParam, PublishVentoyOsParam, CreateFails
<1>4. CASE CreateBlock \/ CreateBlockFails
  BY <1>4, <1>a DEF CreateBlock, CreateBlockFails, Installed, RolledBack
<1>5. CASE InstallFilesystem \/ InstallFiles \/ InstallFilesFails \/ Route
  BY <1>5, <1>a DEF InstallFilesystem, InstallFiles, InstallFilesFails, Route,
                    Installed, RolledBack
<1>6. CASE StubFails \/ WimbootFails
  <2>1. InLoader /\ Advance("Error") /\ owns' = owns /\ pc = "next"
    BY <1>6 DEF StubFails, WimbootFails, InLoader
  <2>2. pc' \in {"drop", "next"}
    BY <2>1, <1>a, <1>b, AdvanceStep
  <2> QED BY <2>1, <2>2, <1>a
<1>7. CASE StubPrepared \/ WimbootRegistered
  BY <1>7, <1>a DEF StubPrepared, WimbootRegistered
<1>8. CASE InstallInitrd
  <2>1. Loader = "stub" /\ "block" \in owns
    BY <1>8, <1>a DEF InstallInitrd, RouteInv, InLoader, Loader
  <2> QED BY <2>1, <1>8, <1>a DEF InstallInitrd, Installed, Loader
<1>9. CASE InstallInitrdFails
  BY <1>9, <1>a DEF InstallInitrdFails, RolledBack
<1>10. CASE LoadImageFails \/ LoadOptionsFail \/ ChildReturns
  <2>1. PICK status \in Statuses : EndLoader(status)
    BY <1>10, <1>b DEF LoadImageFails, LoadOptionsFail, ChildReturns
  <2>2. InLoader /\ owns' = owns /\ pc \in {"load", "next", "child"}
    BY <1>10, CanLoadPlaces DEF LoadImageFails, LoadOptionsFail, ChildReturns, InLoader
  <2>3. /\ pc' \in {"drop", "next", "provider"}
        /\ pc' # "provider" => Loader # "stub"
        /\ pc' = "provider" => Loader = "stub" /\ Loader' = Loader
    BY <2>1, <2>2, <1>a, EndLoaderStep DEF Loader
  <2> QED BY <2>2, <2>3, <1>a
<1>11. CASE StartImage
  BY <1>11, <1>a, CanLoadPlaces DEF StartImage, Loader
<1>12. CASE UninstallProvider
  <2>1. pc = "provider" /\ InLoader /\ result \in Statuses /\ owns' = owns \ {"provider"}
    BY <1>12, <1>a DEF UninstallProvider, TypeOK, InLoader
  <2>2. pc' \in {"drop", "next"}
    BY <1>12, <2>1, <1>a, AdvanceStep DEF UninstallProvider
  <2> QED BY <2>1, <2>2, <1>a
<1>13. CASE DropNothing \/ Disconnect
  BY <1>13, <1>a DEF DropNothing, Disconnect
<1>14. CASE DropFiles
  <2>1. pc = "dropFiles" /\ pc' = "dropFilesystem" /\ owns' = owns \ {"files"}
    BY <1>14, TakenOwns DEF DropFiles
  <2> QED BY <2>1, <1>a
<1>15. CASE DropFilesystem
  <2>1. pc = "dropFilesystem" /\ pc' = "dropBlock" /\ owns' = owns \ {"filesystem"}
    BY <1>15, TakenOwns DEF DropFilesystem
  <2>2. owns' = {"block"}
    BY <2>1, <1>a DEF Registrations
  <2> QED BY <2>1, <2>2
<1>16. CASE DropBlock
  <2>1. pc = "dropBlock" /\ pc' = "release" /\ owns' = owns \ {"block"}
    BY <1>16, TakenOwns DEF DropBlock
  <2> QED BY <2>1, <1>a
<1>17. CASE ReleaseSkipped \/ DeleteVariables \/ DeleteRefused \/ FreePools \/ FreePoolsFails
  BY <1>17, <1>a DEF ReleaseSkipped, DeleteVariables, DeleteRefused, FreePools, FreePoolsFails,
                     Releasable
<1> QED BY <1>0, <1>1, <1>2, <1>3, <1>4, <1>5, <1>6, <1>7, <1>8, <1>9, <1>10, <1>11, <1>12,
           <1>13, <1>14, <1>15, <1>16, <1>17 DEF Next, Program

\* The places from which a started or prepared loader is reached.
LEMMA ServedFrame ==
  ASSUME Next,
         ~(InstallInitrd \/ InstallInitrdFails \/ WimbootRegistered \/ StartImage)
  PROVE  pc' \notin {"load", "child"}
<1>1. CASE ~InLoader'
  BY <1>1 DEF InLoader
<1>2. CASE Prepare \/ Route \/ StubFails \/ StubPrepared \/ WimbootFails
  BY <1>2 DEF Prepare, Route, StubFails, StubPrepared, WimbootFails, Advance
<1>3. CASE LoadImageFails \/ LoadOptionsFail \/ ChildReturns
  BY <1>3 DEF LoadImageFails, LoadOptionsFail, ChildReturns, EndLoader, Advance
<1>4. CASE UninstallProvider
  BY <1>4 DEF UninstallProvider, Advance
<1> QED BY <1>1, <1>2, <1>3, <1>4, LoaderFrame

\* The steps that leave a prepared or running loader, or the system it started.
LEMMA ServingFrame ==
  ASSUME Next, pc \in {"load", "child", "os"}
  PROVE  LoadImageFails \/ LoadOptionsFail \/ StartImage \/ ChildReturns \/ TakesOver \/ PowerCycle
<1>1. ~User
  BY DEF User, ScanEmpty, ScanFound, Select, MenuExit, ReportReturn, ReportRestart
<1>2. ~(Prepare \/ PublishOsParam \/ PublishVentoyOsParam \/ Route)
  BY DEF Prepare, PublishOsParam, PublishVentoyOsParam, Route
<1>3. ~(CreateFails \/ CreateBlock \/ CreateBlockFails \/ InstallFilesystem
        \/ InstallFiles \/ InstallFilesFails \/ InstallInitrd \/ InstallInitrdFails)
  BY DEF CreateFails, CreateBlock, CreateBlockFails, InstallFilesystem,
         InstallFiles, InstallFilesFails, InstallInitrd, InstallInitrdFails
<1>4. ~(StubFails \/ StubPrepared \/ WimbootFails \/ WimbootRegistered)
  BY DEF StubFails, StubPrepared, WimbootFails, WimbootRegistered
<1>5. ~(UninstallProvider \/ DropNothing \/ Disconnect \/ DropFiles \/ DropFilesystem
        \/ DropBlock)
  BY DEF UninstallProvider, DropNothing, Disconnect, DropFiles, DropFilesystem, DropBlock
<1>6. ~(ReleaseSkipped \/ DeleteVariables \/ DeleteRefused \/ FreePools \/ FreePoolsFails)
  BY DEF ReleaseSkipped, DeleteVariables, DeleteRefused, FreePools, FreePoolsFails, Releasable
<1> QED BY <1>1, <1>2, <1>3, <1>4, <1>5, <1>6 DEF Next, Program

\* The callback context is the attempt's own, allocated, and there exactly while
\* a WIMBOOT loader is prepared or runs.
LEMMA NextWimboot ==
  ASSUME SessionInv, [Next]_vars
  PROVE  WimbootInv'
<1>a. TypeOK /\ RouteInv /\ WimbootInv /\ AttemptCounted
  BY DEF SessionInv
<1>b. "Error" \in Statuses
  BY DEF Statuses
<1>0. CASE UNCHANGED vars
  BY <1>0, <1>a DEF vars, WimbootInv, Loader
<1>1. CASE WimbootRegistered
  <2>1. /\ pc = "next" /\ pc' = "load" /\ Loader = "wimboot" /\ Loader' = Loader
        /\ attempt' = attempt /\ previous' = context /\ context' = attempt
        /\ contexts' = contexts \cup {attempt}
    BY <1>1 DEF WimbootRegistered, Loader
  <2>2. attempt # 0
    BY <2>1, <1>a DEF AttemptCounted, Working, Loading
  <2> QED BY <2>1, <2>2, <1>a DEF WimbootInv
<1>2. CASE LoadImageFails \/ LoadOptionsFail \/ ChildReturns
  <2>1. PICK status \in Statuses : EndLoader(status)
    BY <1>2, <1>b DEF LoadImageFails, LoadOptionsFail, ChildReturns
  <2>2. InLoader /\ attempt' = attempt
    BY <1>2, CanLoadPlaces DEF LoadImageFails, LoadOptionsFail, ChildReturns, InLoader
  <2>3. /\ pc' \in {"drop", "next", "provider"}
        /\ Loader = "wimboot" => DropContext
        /\ Loader # "wimboot" => UNCHANGED Wimboot
    BY <2>1, <2>2, <1>a, EndLoaderStep
  <2>4. pc \in {"load", "next", "child"}
    BY <1>2, CanLoadPlaces DEF LoadImageFails, LoadOptionsFail, ChildReturns
  <2> QED BY <2>2, <2>3, <2>4, <1>a DEF WimbootInv, DropContext
<1>3. CASE PowerCycle
  BY <1>3 DEF PowerCycle, WimbootInv
<1>4. CASE StartImage
  <2>1. /\ pc \in {"load", "next"} /\ (pc = "next" => Loader # "wimboot") /\ pc' = "child"
        /\ Loader' = Loader /\ attempt' = attempt /\ UNCHANGED Wimboot
    BY <1>4, CanLoadPlaces DEF StartImage, Loader
  <2> QED BY <2>1, <1>a DEF WimbootInv
<1>5. CASE TakesOver
  BY <1>5, <1>a DEF TakesOver, WimbootInv
<1>6. CASE InstallInitrd \/ InstallInitrdFails
  <2>1. /\ pc = "initrd" /\ pc' \in {"load", "drop"} /\ attempt' = attempt /\ UNCHANGED Wimboot
        /\ pc' = "load" => Loader' = Loader
    BY <1>6 DEF InstallInitrd, InstallInitrdFails, Loader
  <2>2. Loader = "stub"
    BY <2>1, <1>a DEF RouteInv
  <2> QED BY <2>1, <2>2, <1>a DEF WimbootInv
<1>7. ASSUME Next,
             ~(WimbootRegistered \/ LoadImageFails \/ LoadOptionsFail \/ ChildReturns \/ PowerCycle),
             ~(StartImage \/ TakesOver \/ InstallInitrd \/ InstallInitrdFails)
      PROVE  WimbootInv'
  <2>1. UNCHANGED Wimboot
    BY <1>7, WimbootFrame
  <2>2. pc' \notin {"load", "child"}
    BY <1>7, ServedFrame
  <2>3. pc \notin {"load", "child", "os"}
    BY <1>7, ServingFrame
  <2>4. context = 0
    BY <2>3, <1>a DEF WimbootInv
  <2> QED BY <2>1, <2>2, <2>4, <1>a DEF WimbootInv
<1> QED BY <1>0, <1>1, <1>2, <1>3, <1>4, <1>5, <1>6, <1>7

\* A refused removal keeps cleanup_ok false until the restart prompt.
LEMMA NextRefusal ==
  ASSUME SessionInv, [Next]_vars
  PROVE  RefusalInv'
<1> USE DEF RefusalInv, Reporting, Dropping
<1>a. TypeOK /\ RouteInv /\ OwnsInv /\ RefusalInv
  BY DEF SessionInv
<1>0. CASE UNCHANGED vars
  BY <1>0, <1>a DEF vars
<1>1. CASE User
  BY <1>1, <1>a DEF User, ScanEmpty, ScanFound, Select, MenuExit, ReportReturn, ReportRestart
<1>2. CASE TakesOver \/ PowerCycle
  BY <1>2, <1>a DEF TakesOver, PowerCycle
<1>3. CASE Prepare \/ PublishOsParam \/ PublishVentoyOsParam \/ CreateFails
  BY <1>3, <1>a DEF Prepare, PublishOsParam, PublishVentoyOsParam, CreateFails
<1>4. CASE CreateBlock \/ CreateBlockFails
  <2>1. cleanupOk /\ ~refused /\ owns = {}
    BY <1>4, <1>a DEF CreateBlock, CreateBlockFails, OwnsInv
  <2>2. CASE CreateBlock
    <3>1. refused' = refused /\ cleanupOk' = cleanupOk
      BY <2>2 DEF CreateBlock, Installed
    <3> QED BY <2>1, <3>1
  <2>3. CASE CreateBlockFails
    <3>1. PICK stuck \in Stuck(Block, "DevicePath") :
            /\ refused' = (refused \/ stuck # {})
            /\ result' = IF stuck = {} THEN "Error" ELSE "Compromised"
      BY <2>3 DEF CreateBlockFails, RolledBack
    <3>2. cleanupOk' = cleanupOk /\ owns' = owns /\ pc' = "drop"
      BY <2>3 DEF CreateBlockFails, RolledBack
    <3> QED BY <2>1, <3>1, <3>2
  <2> QED BY <1>4, <2>2, <2>3
<1>5. CASE InstallFilesystem \/ InstallFiles \/ InstallFilesFails
  <2>1. cleanupOk /\ ~refused
    BY <1>5, <1>a DEF InstallFilesystem, InstallFiles, InstallFilesFails
  <2>2. CASE InstallFilesystem \/ InstallFiles
    <3>1. refused' = refused /\ cleanupOk' = cleanupOk
      BY <2>2 DEF InstallFilesystem, InstallFiles, Installed
    <3> QED BY <2>1, <3>1
  <2>3. CASE InstallFilesFails
    <3>1. PICK stuck \in Stuck(Files, "LoadFile2") :
            /\ refused' = (refused \/ stuck # {})
            /\ cleanupOk' = (stuck = {})
            /\ pc' = "route"
      BY <2>3 DEF InstallFilesFails, RolledBack
    <3> QED BY <2>1, <3>1
  <2> QED BY <1>5, <2>2, <2>3
<1>13. CASE Route
  BY <1>13, <1>a DEF Route
<1>6. CASE StubFails \/ WimbootFails \/ StubPrepared \/ WimbootRegistered
  BY <1>6, <1>a DEF StubFails, WimbootFails, StubPrepared, WimbootRegistered
<1>7. CASE InstallInitrd \/ InstallInitrdFails
  <2>1. cleanupOk /\ ~refused
    BY <1>7, <1>a DEF InstallInitrd, InstallInitrdFails
  <2>2. CASE InstallInitrd
    <3>1. refused' = refused /\ cleanupOk' = cleanupOk
      BY <2>2 DEF InstallInitrd, Installed
    <3> QED BY <2>1, <3>1
  <2>3. CASE InstallInitrdFails
    <3>1. PICK stuck \in Stuck(Initrd, "InitrdDevicePath") :
            /\ refused' = (refused \/ stuck # {})
            /\ cleanupOk' = (stuck = {})
            /\ pc' = IF stuck = {} THEN "load" ELSE "drop"
      BY <2>3 DEF InstallInitrdFails, RolledBack
    <3>2. CASE stuck = {}
      BY <2>1, <3>1, <3>2
    <3>3. CASE stuck # {}
      BY <2>1, <3>1, <3>3
    <3> QED BY <3>2, <3>3
  <2> QED BY <1>7, <2>2, <2>3
<1>8. CASE LoadImageFails \/ LoadOptionsFail \/ StartImage \/ ChildReturns
  BY <1>8, <1>a DEF LoadImageFails, LoadOptionsFail, StartImage, CanLoad, ChildReturns
<1>9. CASE UninstallProvider
  BY <1>9, <1>a DEF UninstallProvider, Refusing
<1>10. CASE DropNothing \/ Disconnect
  BY <1>10, <1>a DEF DropNothing, Disconnect
<1>11. CASE DropFiles \/ DropFilesystem \/ DropBlock
  BY <1>11, <1>a DEF DropFiles, DropFilesystem, DropBlock, Taken, UninstallGroup, Refusing
<1>12. CASE ReleaseSkipped \/ DeleteVariables \/ DeleteRefused \/ FreePools \/ FreePoolsFails
  BY <1>12, <1>a DEF ReleaseSkipped, DeleteVariables, DeleteRefused, FreePools, FreePoolsFails,
                     Releasable
<1> QED BY <1>0, <1>1, <1>2, <1>3, <1>4, <1>5, <1>6, <1>7, <1>8, <1>9, <1>10, <1>11, <1>12,
           <1>13 DEF Next, Program

\* Steps that find nothing to release.
LEMMA RestFrame ==
  ASSUME SessionInv, Next,
         ~(Select \/ PublishOsParam \/ PublishVentoyOsParam \/ StubFails \/ StubPrepared
           \/ WimbootFails \/ WimbootRegistered \/ DeleteVariables \/ DeleteRefused
           \/ FreePools \/ FreePoolsFails \/ PowerCycle)
  PROVE  /\ cleanupOk' => cleanupOk
         /\ pc' \notin {"free", "publishVentoy"}
         /\ AtRest' => AtRest
<1> USE DEF AtRest
<1>a. RefusalInv
  BY DEF SessionInv
<1>1. CASE User \/ TakesOver
  BY <1>1 DEF User, ScanEmpty, ScanFound, MenuExit, ReportReturn, ReportRestart, TakesOver
<1>2. CASE Prepare \/ CreateFails \/ CreateBlock \/ CreateBlockFails
  BY <1>2 DEF Prepare, CreateFails, CreateBlock, CreateBlockFails, Installed, RolledBack
<1>3. CASE InstallFilesystem \/ InstallFiles \/ InstallFilesFails \/ Route
  BY <1>3, <1>a DEF InstallFilesystem, InstallFiles, InstallFilesFails, Route,
                    Installed, RolledBack, RefusalInv, Dropping
<1>4. CASE InstallInitrd \/ InstallInitrdFails
  BY <1>4, <1>a DEF InstallInitrd, InstallInitrdFails, Installed, RolledBack, RefusalInv, Dropping
<1>5. CASE LoadImageFails \/ LoadOptionsFail \/ StartImage \/ ChildReturns
  BY <1>5 DEF LoadImageFails, LoadOptionsFail, StartImage, CanLoad, ChildReturns,
              EndLoader, Advance
<1>6. CASE UninstallProvider
  BY <1>6 DEF UninstallProvider, Advance
<1>7. CASE DropNothing \/ Disconnect
  BY <1>7 DEF DropNothing, Disconnect
<1>8. CASE DropFiles \/ DropFilesystem \/ DropBlock
  BY <1>8 DEF DropFiles, DropFilesystem, DropBlock, Taken, UninstallGroup
<1>9. CASE ReleaseSkipped
  BY <1>9 DEF ReleaseSkipped
<1> QED BY <1>1, <1>2, <1>3, <1>4, <1>5, <1>6, <1>7, <1>8, <1>9 DEF Next, Program

\* Variables are the attempt's own and refer to live pools; at rest there are none.
LEMMA NextParams ==
  ASSUME SessionInv, [Next]_vars
  PROVE  ParamsInv'
<1> USE DEF ParamsInv
<1>a. TypeOK /\ ParamsInv /\ RefusalInv /\ AttemptCounted
  BY DEF SessionInv
<1>b. variable \in [Variables -> Attempts] /\ Variables = {"NextBootOsParam", "VentoyOsParam"}
  BY <1>a DEF TypeOK, Variables
<1>0. CASE UNCHANGED vars
  BY <1>0, <1>a DEF vars, AtRest
<1>1. CASE Select
  BY <1>1, <1>a DEF Select, AtRest, RefusalInv, Dropping
<1>2. CASE PublishOsParam
  <2>1. /\ pc' \in {"create", "publishVentoy"} /\ published' = TRUE
        /\ UNCHANGED <<attempt, pools, recorded, cleanupOk>>
        /\ variable' \in {variable, [variable EXCEPT !["NextBootOsParam"] = attempt]}
    BY <1>2 DEF PublishOsParam
  <2> QED BY <2>1, <1>a, <1>b DEF AtRest
<1>3. CASE PublishVentoyOsParam
  <2>1. /\ pc = "publishVentoy" /\ pc' = "create" /\ UNCHANGED <<attempt, published, cleanupOk>>
    BY <1>3 DEF PublishVentoyOsParam
  <2>2. CASE UNCHANGED <<variable, pools, recorded>>
    BY <2>1, <2>2, <1>a DEF AtRest
  <2>3. CASE AllocatePool("param") /\ variable' = variable
    BY <2>1, <2>3, <1>a DEF AtRest, AllocatePool
  <2>4. CASE AllocatePool("param") /\ variable' = [variable EXCEPT !["VentoyOsParam"] = attempt]
    BY <2>1, <2>4, <1>a, <1>b DEF AtRest, AllocatePool
  <2> QED BY <1>3, <2>2, <2>3, <2>4 DEF PublishVentoyOsParam
<1>4. CASE StubFails \/ StubPrepared \/ WimbootFails \/ WimbootRegistered
  <2>1. /\ UNCHANGED <<variable, attempt, published, cleanupOk>>
        /\ pc' \in {"drop", "next", "initrd", "load"}
    BY <1>4 DEF StubFails, StubPrepared, WimbootFails, WimbootRegistered, Advance
  <2>2. \/ UNCHANGED <<pools, recorded>>
        \/ \E p \in Pools : AllocatePool(p)
    BY <1>4 DEF StubFails, StubPrepared, WimbootFails, WimbootRegistered, MaybePool,
                WimbootPool, Pools
  <2> QED BY <2>1, <2>2, <1>a DEF AtRest, AllocatePool
<1>5. CASE DeleteVariables
  BY <1>5, <1>a, <1>b DEF DeleteVariables, Releasable, AtRest
<1>6. CASE DeleteRefused
  BY <1>6, <1>a, <1>b DEF DeleteRefused, Releasable, AtRest
<1>7. CASE FreePools
  BY <1>7, <1>a, <1>b DEF FreePools, AtRest, RefusalInv, Dropping
<1>8. CASE FreePoolsFails
  BY <1>8, <1>a, <1>b DEF FreePoolsFails, AtRest
<1>9. CASE PowerCycle
  BY <1>9, <1>b DEF PowerCycle, AtRest
<1>10. ASSUME Next,
              ~(Select \/ PublishOsParam \/ PublishVentoyOsParam \/ StubFails \/ StubPrepared
                \/ WimbootFails \/ WimbootRegistered \/ DeleteVariables \/ DeleteRefused
                \/ FreePools \/ FreePoolsFails \/ PowerCycle)
       PROVE  ParamsInv'
  <2>1. UNCHANGED Params /\ UNCHANGED Session
    BY <1>10, ParamsFrame, SessionFrame
  <2>2. (cleanupOk' => cleanupOk) /\ pc' \notin {"free", "publishVentoy"} /\ (AtRest' => AtRest)
    BY <1>10, RestFrame
  <2> QED BY <2>1, <2>2, <1>a
<1> QED BY <1>0, <1>1, <1>2, <1>3, <1>4, <1>5, <1>6, <1>7, <1>8, <1>9, <1>10

\* Within a session cleanup_ok is never set again: only BootManager::new sets it,
\* and there the last attempt left it set.
LEMMA CleanupFrame ==
  ASSUME SessionInv, Next, ~PowerCycle
  PROVE  cleanupOk' => cleanupOk
<1>1. CASE Select
  BY <1>1 DEF Select, SessionInv, RefusalInv, Dropping
<1>2. CASE PublishOsParam \/ PublishVentoyOsParam
  BY <1>2 DEF PublishOsParam, PublishVentoyOsParam
<1>3. CASE StubFails \/ StubPrepared \/ WimbootFails \/ WimbootRegistered
  BY <1>3 DEF StubFails, StubPrepared, WimbootFails, WimbootRegistered
<1>4. CASE DeleteVariables \/ DeleteRefused \/ FreePools \/ FreePoolsFails
  BY <1>4 DEF DeleteVariables, DeleteRefused, FreePools, FreePoolsFails
<1> QED BY <1>1, <1>2, <1>3, <1>4, RestFrame

\* An attempt that reports a stuck install goes straight to prepare_and_boot.
LEMMA ReportingStep ==
  ASSUME SessionInv, Reporting, Next
  PROVE  Reporting' \/ ~cleanupOk'
<1>1. DropNothing \/ ReleaseSkipped
  <2>1. pc \in {"drop", "release"} /\ result = "Compromised" /\ owns = {}
    BY DEF Reporting
  <2>2. ~(User \/ ChildReturns \/ TakesOver \/ PowerCycle)
    BY <2>1 DEF User, ScanEmpty, ScanFound, Select, MenuExit, ReportReturn, ReportRestart,
                ChildReturns, TakesOver, PowerCycle, Stopped
  <2>3. ~(Prepare \/ PublishOsParam \/ PublishVentoyOsParam \/ Route)
    BY <2>1 DEF Prepare, PublishOsParam, PublishVentoyOsParam, Route
  <2>4. ~(CreateFails \/ CreateBlock \/ CreateBlockFails \/ InstallFilesystem
          \/ InstallFiles \/ InstallFilesFails \/ InstallInitrd \/ InstallInitrdFails)
    BY <2>1 DEF CreateFails, CreateBlock, CreateBlockFails, InstallFilesystem,
                InstallFiles, InstallFilesFails, InstallInitrd, InstallInitrdFails
  <2>5. ~(StubFails \/ StubPrepared \/ WimbootFails \/ WimbootRegistered
          \/ LoadImageFails \/ LoadOptionsFail \/ StartImage)
    BY <2>1 DEF StubFails, StubPrepared, WimbootFails, WimbootRegistered,
                LoadImageFails, LoadOptionsFail, StartImage, CanLoad
  <2>6. ~(UninstallProvider \/ Disconnect \/ DropFiles \/ DropFilesystem \/ DropBlock)
    BY <2>1 DEF UninstallProvider, Disconnect, DropFiles, DropFilesystem, DropBlock
  <2>7. ~(DeleteVariables \/ DeleteRefused \/ FreePools \/ FreePoolsFails)
    BY <2>1 DEF DeleteVariables, DeleteRefused, FreePools, FreePoolsFails, Releasable
  <2> QED BY <2>2, <2>3, <2>4, <2>5, <2>6, <2>7 DEF Next, Program
<1>2. CASE DropNothing
  BY <1>2 DEF DropNothing, Reporting
<1>3. CASE ReleaseSkipped
  BY <1>3 DEF ReleaseSkipped
<1> QED BY <1>1, <1>2, <1>3

\* A group is exactly what its registration owns.
Held(group, owner) ==
  /\ group \subseteq Interfaces
  /\ Storage(group) \subseteq Allocations
  /\ \A i \in Interfaces : i \in group <=> Owner(i) = owner
  /\ \A a \in Allocations : a \in Storage(group) <=> Owner(a) = owner

\* The four groups of interfaces are what the four registrations own.
LEMMA HeldGroups ==
  /\ Held(Block, "block") /\ Held(Files, "files")
  /\ Held(Filesystem, "filesystem") /\ Held(Initrd, "provider")
  BY OwnerOf, AllocationsAre DEF Held, Interfaces

\* An install keeps firmware and attempt in agreement.
LEMMA InstalledAccounted ==
  ASSUME TypeOK, FirmwareInv, NEW group, NEW owner, Held(group, owner), Installed(group, owner)
  PROVE  Owned(Interfaces)' \subseteq iface' /\ (Accounted => Accounted')
<1>1. Owned(Interfaces)' \subseteq iface'
  BY DEF FirmwareInv, Owned, Held, Installed
<1>2. ASSUME Accounted PROVE iface' = Owned(Interfaces)'
  BY <1>2 DEF Accounted, Owned, Held, Installed
<1>3. ASSUME Accounted PROVE live' = Owned(Allocations)'
  BY <1>3 DEF Accounted, Owned, Held, Installed
<1> QED BY <1>1, <1>2, <1>3 DEF Accounted

\* So does a complete rollback, and a stuck one loses nothing.
LEMMA RolledBackAccounted ==
  ASSUME FirmwareInv, NEW stuck, NEW storage, RolledBack(stuck, storage)
  PROVE  Owned(Interfaces)' \subseteq iface' /\ (Accounted /\ stuck = {} => Accounted')
  BY DEF FirmwareInv, Accounted, Owned, RolledBack

\* So does an uninstall nobody refuses.
LEMMA TakenAccounted ==
  ASSUME TypeOK, FirmwareInv, NEW group, NEW owner, Held(group, owner), Taken(group, owner)
  PROVE  /\ Owned(Interfaces)' \subseteq iface'
         /\ Accounted /\ cleanupOk' => Accounted'
<1>1. CASE UNCHANGED <<Firmware, Belief>>
  BY <1>1 DEF FirmwareInv, Owned, Accounted
<1>2. CASE UninstallGroup(group, owner)
  <2>1. PICK stuck \in SUBSET group :
          /\ iface' = iface \ (group \ stuck)
          /\ live' = IF stuck = {} THEN live \ Storage(group) ELSE live
          /\ owns' = owns \ {owner}
          /\ cleanupOk' = (cleanupOk /\ stuck = {})
    BY <1>2 DEF UninstallGroup
  <2>2. Owned(Interfaces)' \subseteq iface'
    BY <2>1 DEF FirmwareInv, Owned, Held
  <2>3. ASSUME Accounted, stuck = {} PROVE iface' = Owned(Interfaces)'
    BY <2>1, <2>3 DEF Accounted, Owned, Held
  <2>4. ASSUME Accounted, stuck = {} PROVE live' = Owned(Allocations)'
    BY <2>1, <2>4 DEF Accounted, Owned, Held
  <2>5. cleanupOk' => stuck = {}
    BY <2>1
  <2> QED BY <2>2, <2>3, <2>4, <2>5 DEF Accounted
<1> QED BY <1>1, <1>2 DEF Taken

\* The initrd provider goes the same way, interface by interface.
LEMMA ProviderAccounted ==
  ASSUME TypeOK, FirmwareInv, UninstallProvider
  PROVE  /\ Owned(Interfaces)' \subseteq iface'
         /\ Accounted /\ cleanupOk' => Accounted'
<1>1. CASE UNCHANGED <<Firmware, Belief>>
  BY <1>1 DEF FirmwareInv, Owned, Accounted
<1>2. CASE "provider" \in owns
  <2>1. PICK stuck \in SUBSET Initrd :
          /\ iface' = iface \ (Initrd \ stuck)
          /\ live' = live \ Storage(Initrd \ stuck)
          /\ owns' = owns \ {"provider"}
          /\ cleanupOk' = (cleanupOk /\ stuck = {})
    BY <1>2 DEF UninstallProvider
  <2>2. Owned(Interfaces)' \subseteq iface'
    BY <2>1, HeldGroups DEF FirmwareInv, Owned, Held
  <2>3. ASSUME Accounted, stuck = {} PROVE iface' = Owned(Interfaces)'
    BY <2>1, <2>3, HeldGroups DEF Accounted, Owned, Held
  <2>4. ASSUME Accounted, stuck = {} PROVE live' = Owned(Allocations)'
    <3>1. Initrd \ stuck = Initrd
      BY <2>4
    <3> QED BY <2>1, <2>4, <3>1, HeldGroups DEF Accounted, Owned, Held
  <2>5. cleanupOk' => stuck = {}
    BY <2>1
  <2> QED BY <2>2, <2>3, <2>4, <2>5 DEF Accounted
<1> QED BY <1>1, <1>2 DEF UninstallProvider

\* The firmware holds what the attempt owns and, as long as cleanup_ok stands,
\* nothing else, except while a stuck install is being reported.
LEMMA NextFirmware ==
  ASSUME SessionInv, [Next]_vars
  PROVE  FirmwareInv'
<1>a. TypeOK /\ FirmwareInv /\ RefusalInv /\ OwnsInv
  BY DEF SessionInv
<1>b. cleanupOk /\ pc \notin {"drop", "release"} => Accounted
  BY <1>a DEF FirmwareInv, Reporting
<1>0. CASE UNCHANGED vars
  BY <1>0, <1>a DEF vars, FirmwareInv, Accounted, Owned, Reporting
<1>1. CASE CreateBlock
  BY <1>1, <1>a, <1>b, HeldGroups, InstalledAccounted DEF CreateBlock, FirmwareInv, Installed
<1>2. CASE CreateBlockFails
  <2>1. PICK stuck \in Stuck(Block, "DevicePath") :
          /\ RolledBack(stuck, Storage(Block))
          /\ result' = IF stuck = {} THEN "Error" ELSE "Compromised"
    BY <1>2 DEF CreateBlockFails
  <2>2. pc = "create" /\ pc' = "drop" /\ cleanupOk' = cleanupOk /\ owns' = owns /\ owns = {}
    BY <1>2, <1>a DEF CreateBlockFails, RolledBack, OwnsInv
  <2> QED BY <2>1, <2>2, <1>a, <1>b, RolledBackAccounted DEF FirmwareInv, Reporting
<1>3. CASE InstallFilesystem
  <2>1. pc = "filesystem" /\ cleanupOk' = cleanupOk
    BY <1>3 DEF InstallFilesystem, Installed
  <2>2. CASE Installed(Filesystem, "filesystem")
    BY <2>1, <2>2, <1>a, <1>b, HeldGroups, InstalledAccounted DEF FirmwareInv
  <2>3. CASE UNCHANGED Firmware
    BY <2>1, <2>3, <1>a, <1>b DEF FirmwareInv, Accounted, Owned
  <2> QED BY <1>3, <2>2, <2>3 DEF InstallFilesystem
<1>4. CASE InstallFiles
  <2>1. pc = "files" /\ cleanupOk' = cleanupOk
    BY <1>4 DEF InstallFiles, Installed
  <2>2. CASE Installed(Files, "files")
    BY <2>1, <2>2, <1>a, <1>b, HeldGroups, InstalledAccounted DEF FirmwareInv
  <2>3. CASE UNCHANGED Firmware
    BY <2>1, <2>3, <1>a, <1>b DEF FirmwareInv, Accounted, Owned
  <2> QED BY <1>4, <2>2, <2>3 DEF InstallFiles
<1>5. CASE InstallFilesFails
  <2>1. PICK stuck \in Stuck(Files, "LoadFile2") :
          RolledBack(stuck, Storage(Files)) /\ cleanupOk' = (stuck = {})
    BY <1>5 DEF InstallFilesFails
  <2>2. pc = "files" /\ cleanupOk
    BY <1>5, <1>a DEF InstallFilesFails, RefusalInv, Dropping
  <2> QED BY <2>1, <2>2, <1>a, <1>b, RolledBackAccounted DEF FirmwareInv
<1>6. CASE InstallInitrd
  BY <1>6, <1>a, <1>b, HeldGroups, InstalledAccounted DEF InstallInitrd, FirmwareInv, Installed
<1>7. CASE InstallInitrdFails
  <2>1. PICK stuck \in Stuck(Initrd, "InitrdDevicePath") :
          RolledBack(stuck, Storage(stuck)) /\ cleanupOk' = (stuck = {})
    BY <1>7 DEF InstallInitrdFails
  <2>2. pc = "initrd" /\ cleanupOk
    BY <1>7, <1>a DEF InstallInitrdFails, RefusalInv, Dropping
  <2> QED BY <2>1, <2>2, <1>a, <1>b, RolledBackAccounted DEF FirmwareInv
<1>8. CASE UninstallProvider
  <2>1. pc = "provider" /\ cleanupOk
    BY <1>8, <1>a DEF UninstallProvider, RefusalInv, Dropping
  <2> QED BY <1>8, <2>1, <1>a, <1>b, ProviderAccounted DEF FirmwareInv
<1>9. CASE DropFiles \/ DropFilesystem \/ DropBlock
  <2>1. pc \in {"dropFiles", "dropFilesystem", "dropBlock"}
    BY <1>9 DEF DropFiles, DropFilesystem, DropBlock
  <2>2. Taken(Files, "files") \/ Taken(Filesystem, "filesystem") \/ Taken(Block, "block")
    BY <1>9 DEF DropFiles, DropFilesystem, DropBlock
  <2>3. cleanupOk' => cleanupOk
    BY <2>2 DEF Taken, UninstallGroup
  <2> QED BY <2>1, <2>2, <2>3, <1>a, <1>b, HeldGroups, TakenAccounted DEF FirmwareInv
<1>10. CASE PowerCycle
  BY <1>10 DEF PowerCycle, FirmwareInv, Accounted, Owned
<1>11. ASSUME Next, ~PowerCycle, UNCHANGED Firmware PROVE FirmwareInv'
  <2>1. cleanupOk' => cleanupOk
    BY <1>11, CleanupFrame
  <2>2. Owned(Interfaces)' \subseteq iface' /\ (Accounted => Accounted')
    BY <1>11, <1>a DEF FirmwareInv, Owned, Accounted
  <2>3. Reporting => Reporting' \/ ~cleanupOk'
    BY <1>11, ReportingStep
  <2> QED BY <2>1, <2>2, <2>3, <1>a DEF FirmwareInv
<1> QED BY <1>0, <1>1, <1>2, <1>3, <1>4, <1>5, <1>6, <1>7, <1>8, <1>9, <1>10, <1>11, FirmwareFrame

---------------------------------------------------------------------------
(***************************************************************************)
(* Type correctness, part by part.                                         *)
(***************************************************************************)
ControlOK == pc \in Steps /\ route \in Seq(Loaders) /\ result \in Statuses
SessionOK == kind \in AllKinds /\ attempt \in Attempts /\ images \subseteq Attempts \X Loaders
FirmwareOK == iface \subseteq Interfaces /\ live \subseteq Allocations /\ owns \subseteq Registrations
ParamsOK ==
  /\ variable \in [Variables -> Attempts]
  /\ pools \subseteq Pools /\ recorded \subseteq pools /\ published \in BOOLEAN
WimbootOK == context \in Attempts /\ previous \in Attempts /\ contexts \subseteq {attempt}
BeliefOK == cleanupOk \in BOOLEAN /\ refused \in BOOLEAN

\* The parts together are the type invariant.
LEMMA TypeParts ==
  TypeOK <=> ControlOK /\ SessionOK /\ FirmwareOK /\ ParamsOK /\ WimbootOK /\ BeliefOK
  BY DEF TypeOK, ControlOK, SessionOK, FirmwareOK, ParamsOK, WimbootOK, BeliefOK

\* Control stays among the places, and a route a sequence of loaders.
LEMMA NextControl ==
  ASSUME SessionInv, [Next]_vars
  PROVE  ControlOK'
<1> USE DEF ControlOK, Steps, Working, Preparing, Loading, Dropping, Releasing, Stopped
<1>a. TypeOK /\ RouteInv /\ ControlOK
  BY TypeParts DEF SessionInv
<1>b. "Ok" \in Statuses /\ "Error" \in Statuses /\ "Compromised" \in Statuses
  BY DEF Statuses
<1>c. << >> \in Seq(Loaders) /\ <<"efi">> \in Seq(Loaders) /\ <<"wimboot">> \in Seq(Loaders)
  BY DEF Loaders
<1>0. CASE UNCHANGED vars
  BY <1>0, <1>a DEF vars
<1>1. CASE User \/ TakesOver \/ PowerCycle
  BY <1>1, <1>a, <1>b, <1>c DEF User, ScanEmpty, ScanFound, Select, MenuExit, ReportReturn,
                                ReportRestart, TakesOver, PowerCycle
<1>2. CASE Prepare
  BY <1>2, <1>a, <1>b, <1>c DEF Prepare
<1>3. CASE PublishOsParam \/ PublishVentoyOsParam \/ CreateFails \/ CreateBlock \/ CreateBlockFails
  BY <1>3, <1>a, <1>b DEF PublishOsParam, PublishVentoyOsParam, CreateFails, CreateBlock,
                          CreateBlockFails
<1>4. CASE InstallFilesystem \/ InstallFiles \/ InstallFilesFails \/ InstallInitrd
           \/ StubPrepared \/ WimbootRegistered \/ StartImage
  BY <1>4, <1>a DEF InstallFilesystem, InstallFiles, InstallFilesFails, InstallInitrd,
                    StubPrepared, WimbootRegistered, StartImage
<1>5. CASE Route
  BY <1>5, <1>a, <1>b, RouteTyped DEF Route
<1>6. CASE StubFails \/ WimbootFails
  <2>1. InLoader /\ Advance("Error")
    BY <1>6 DEF StubFails, WimbootFails, InLoader
  <2> QED BY <2>1, <1>a, <1>b, AdvanceStep
<1>7. CASE InstallInitrdFails
  BY <1>7, <1>a, <1>b, <1>c DEF InstallInitrdFails
<1>8. CASE LoadImageFails \/ LoadOptionsFail \/ ChildReturns
  <2>1. PICK status \in Statuses : EndLoader(status)
    BY <1>8, <1>b DEF LoadImageFails, LoadOptionsFail, ChildReturns
  <2>2. InLoader
    BY <1>8, CanLoadPlaces DEF LoadImageFails, LoadOptionsFail, ChildReturns, InLoader
  <2> QED BY <2>1, <2>2, <1>a, EndLoaderStep
<1>9. CASE UninstallProvider
  <2>1. InLoader
    BY <1>9 DEF UninstallProvider, InLoader
  <2>2. Advance(result) \/ (result' = "Error" /\ route' = << >> /\ pc' = "drop")
    BY <1>9 DEF UninstallProvider
  <2> QED BY <2>1, <2>2, <1>a, <1>b, <1>c, AdvanceStep
<1>10. CASE DropNothing \/ Disconnect \/ DropFiles \/ DropFilesystem \/ DropBlock
  BY <1>10, <1>a DEF DropNothing, Disconnect, DropFiles, DropFilesystem, DropBlock
<1>11. CASE ReleaseSkipped \/ DeleteVariables \/ DeleteRefused \/ FreePools \/ FreePoolsFails
  BY <1>11, <1>a, <1>b DEF ReleaseSkipped, DeleteVariables, DeleteRefused, FreePools, FreePoolsFails
<1> QED BY <1>0, <1>1, <1>2, <1>3, <1>4, <1>5, <1>6, <1>7, <1>8, <1>9, <1>10, <1>11
        DEF Next, Program

\* The image, the attempt, and the child images.
LEMMA NextSession ==
  ASSUME SessionInv, [Next]_vars
  PROVE  SessionOK'
<1> USE DEF SessionOK
<1>a. SessionOK /\ TypeOK /\ RouteInv
  BY TypeParts DEF SessionInv
<1>0. CASE UNCHANGED vars
  BY <1>0, <1>a DEF vars
<1>1. CASE Select
  BY <1>1, <1>a, SessionAssumption DEF Select, Attempts
<1>2. CASE PowerCycle
  BY <1>2, SessionAssumption DEF PowerCycle, Attempts, AllKinds
<1>3. ASSUME Next, ~Select, ~PowerCycle PROVE kind' = kind /\ attempt' = attempt
  BY <1>3, SessionFrame
<1>4. CASE LoadOptionsFail \/ StartImage
  <2>1. Image \in Attempts \X Loaders
    <3>1. Loader \in Loaders
      BY <1>4, <1>a, CanLoadPlaces, RouteStep
         DEF LoadOptionsFail, StartImage, TypeOK, RouteInv, Loader
    <3> QED BY <3>1, <1>a DEF Image
  <2>2. images' = images \cup {Image}
    BY <1>4 DEF LoadOptionsFail, StartImage
  <2>3. ~Select /\ ~PowerCycle /\ Next
    BY <1>4 DEF LoadOptionsFail, StartImage, CanLoad, Select, PowerCycle, Stopped, Next, Program
  <2> QED BY <2>1, <2>2, <2>3, <1>3, <1>a
<1>5. ASSUME Next, ~Select, ~PowerCycle, ~LoadOptionsFail, ~StartImage
      PROVE  images' \subseteq images
  <2>1. CASE User \/ ChildReturns \/ TakesOver
    BY <1>5, <2>1 DEF User, ScanEmpty, ScanFound, MenuExit, ReportReturn, ReportRestart,
                ChildReturns, TakesOver
  <2>2. CASE Prepare \/ PublishOsParam \/ PublishVentoyOsParam \/ Route
    BY <2>2 DEF Prepare, PublishOsParam, PublishVentoyOsParam, Route
  <2>3. CASE CreateFails \/ CreateBlock \/ CreateBlockFails \/ InstallFilesystem
             \/ InstallFiles \/ InstallFilesFails \/ InstallInitrd \/ InstallInitrdFails
    BY <2>3 DEF CreateFails, CreateBlock, CreateBlockFails, InstallFilesystem,
                InstallFiles, InstallFilesFails, InstallInitrd, InstallInitrdFails
  <2>4. CASE StubFails \/ StubPrepared \/ WimbootFails \/ WimbootRegistered \/ LoadImageFails
    BY <2>4 DEF StubFails, StubPrepared, WimbootFails, WimbootRegistered, LoadImageFails
  <2>5. CASE UninstallProvider \/ DropNothing \/ Disconnect \/ DropFiles \/ DropFilesystem
             \/ DropBlock
    BY <2>5 DEF UninstallProvider, DropNothing, Disconnect, DropFiles, DropFilesystem, DropBlock
  <2>6. CASE ReleaseSkipped \/ DeleteVariables \/ DeleteRefused \/ FreePools \/ FreePoolsFails
    BY <2>6 DEF ReleaseSkipped, DeleteVariables, DeleteRefused, FreePools, FreePoolsFails
  <2> QED BY <1>5, <2>1, <2>2, <2>3, <2>4, <2>5, <2>6 DEF Next, Program
<1> QED BY <1>0, <1>1, <1>2, <1>3, <1>4, <1>5, <1>a

\* Interfaces, allocations and registrations are the modelled ones.
LEMMA NextFirmwareTyped ==
  ASSUME SessionInv, [Next]_vars
  PROVE  FirmwareOK'
<1> USE DEF FirmwareOK
<1>a. FirmwareOK
  BY TypeParts DEF SessionInv
<1>b. /\ \A group \in {Block, Files, Filesystem, Initrd} :
           group \subseteq Interfaces /\ Storage(group) \subseteq Allocations
      /\ {"block", "files", "filesystem", "provider"} = Registrations
  BY AllocationsAre DEF Interfaces, Registrations
<1>0. CASE UNCHANGED vars
  BY <1>0, <1>a DEF vars
<1>1. CASE CreateBlock \/ InstallFilesystem \/ InstallFiles \/ InstallInitrd
  BY <1>1, <1>a, <1>b DEF CreateBlock, InstallFilesystem, InstallFiles, InstallInitrd, Installed
<1>2. CASE CreateBlockFails \/ InstallFilesFails
  BY <1>2, <1>a, <1>b DEF CreateBlockFails, InstallFilesFails, RolledBack, Stuck
<1>3. CASE InstallInitrdFails
  <2>1. PICK stuck \in SUBSET Initrd : RolledBack(stuck, Storage(stuck))
    BY <1>3 DEF InstallInitrdFails, Stuck
  <2>2. Storage(stuck) \subseteq Storage(Initrd)
    BY <2>1 DEF Storage
  <2> QED BY <2>1, <2>2, <1>a, <1>b DEF RolledBack
<1>4. CASE UninstallProvider
  BY <1>4, <1>a DEF UninstallProvider
<1>5. CASE DropFiles \/ DropFilesystem \/ DropBlock
  BY <1>5, <1>a DEF DropFiles, DropFilesystem, DropBlock, Taken, UninstallGroup
<1>6. CASE PowerCycle
  BY <1>6 DEF PowerCycle
<1>7. CASE UNCHANGED Firmware
  BY <1>7, <1>a
<1> QED BY <1>0, <1>1, <1>2, <1>3, <1>4, <1>5, <1>6, <1>7, FirmwareFrame

\* Variables hold attempts; every recorded pool is a live one.
LEMMA NextParamsTyped ==
  ASSUME SessionInv, [Next]_vars
  PROVE  ParamsOK'
<1> USE DEF ParamsOK
<1>a. ParamsOK /\ attempt \in Attempts
  BY TypeParts DEF SessionInv, SessionOK
<1>b. 0 \in Attempts
  BY SessionAssumption DEF Attempts
<1>c. {"param", "overlay", "wimboot"} = Pools /\ "NextBootOsParam" \in Variables
      /\ "VentoyOsParam" \in Variables
  BY DEF Pools, Variables
<1>0. CASE UNCHANGED vars
  BY <1>0, <1>a DEF vars
<1>1. CASE Select
  BY <1>1, <1>a DEF Select
<1>2. CASE PublishOsParam
  BY <1>2, <1>a, <1>c DEF PublishOsParam
<1>3. CASE PublishVentoyOsParam
  BY <1>3, <1>a, <1>c DEF PublishVentoyOsParam, AllocatePool
<1>4. CASE StubFails \/ StubPrepared \/ WimbootFails \/ WimbootRegistered
  <2>1. UNCHANGED <<variable, published>>
    BY <1>4 DEF StubFails, StubPrepared, WimbootFails, WimbootRegistered
  <2>2. UNCHANGED <<pools, recorded>> \/ \E p \in Pools : AllocatePool(p)
    BY <1>4, <1>c DEF StubFails, StubPrepared, WimbootFails, WimbootRegistered, MaybePool, WimbootPool
  <2> QED BY <2>1, <2>2, <1>a DEF AllocatePool
<1>5. CASE DeleteVariables \/ DeleteRefused
  BY <1>5, <1>a, <1>b, <1>c DEF DeleteVariables, DeleteRefused
<1>6. CASE FreePools \/ FreePoolsFails
  BY <1>6, <1>a DEF FreePools, FreePoolsFails
<1>7. CASE PowerCycle
  BY <1>7, <1>b DEF PowerCycle
<1>8. CASE UNCHANGED Params
  BY <1>8, <1>a
<1> QED BY <1>0, <1>1, <1>2, <1>3, <1>4, <1>5, <1>6, <1>7, <1>8, ParamsFrame

\* cleanup_ok and the history flag are Boolean.
LEMMA NextBeliefTyped ==
  ASSUME SessionInv, [Next]_vars
  PROVE  BeliefOK'
<1> USE DEF BeliefOK
<1>a. BeliefOK
  BY TypeParts DEF SessionInv
<1>0. CASE UNCHANGED vars
  BY <1>0, <1>a DEF vars
<1>1. CASE User \/ ChildReturns \/ TakesOver \/ PowerCycle
  BY <1>1, <1>a DEF User, ScanEmpty, ScanFound, Select, MenuExit, ReportReturn, ReportRestart,
                    ChildReturns, TakesOver, PowerCycle
<1>2. CASE Prepare \/ PublishOsParam \/ PublishVentoyOsParam \/ Route \/ CreateFails
  BY <1>2, <1>a DEF Prepare, PublishOsParam, PublishVentoyOsParam, Route, CreateFails
<1>3. CASE CreateBlock \/ InstallFilesystem \/ InstallFiles \/ InstallInitrd
  BY <1>3, <1>a DEF CreateBlock, InstallFilesystem, InstallFiles, InstallInitrd, Installed
<1>4. CASE CreateBlockFails \/ InstallFilesFails \/ InstallInitrdFails
  BY <1>4, <1>a DEF CreateBlockFails, InstallFilesFails, InstallInitrdFails, RolledBack
<1>5. CASE StubFails \/ StubPrepared \/ WimbootFails \/ WimbootRegistered
           \/ LoadImageFails \/ LoadOptionsFail \/ StartImage
  BY <1>5, <1>a DEF StubFails, StubPrepared, WimbootFails, WimbootRegistered,
                    LoadImageFails, LoadOptionsFail, StartImage
<1>6. CASE UninstallProvider
  BY <1>6, <1>a DEF UninstallProvider, Refusing
<1>7. CASE DropNothing \/ Disconnect
  BY <1>7, <1>a DEF DropNothing, Disconnect
<1>8. CASE DropFiles \/ DropFilesystem \/ DropBlock
  BY <1>8, <1>a DEF DropFiles, DropFilesystem, DropBlock, Taken, UninstallGroup, Refusing
<1>9. CASE ReleaseSkipped \/ DeleteVariables \/ DeleteRefused \/ FreePools \/ FreePoolsFails
  BY <1>9, <1>a DEF ReleaseSkipped, DeleteVariables, DeleteRefused, FreePools, FreePoolsFails
<1> QED BY <1>0, <1>1, <1>2, <1>3, <1>4, <1>5, <1>6, <1>7, <1>8, <1>9 DEF Next, Program

---------------------------------------------------------------------------
(***************************************************************************)
(* The theorems.                                                           *)
(***************************************************************************)
\* The session invariant holds when the application starts.
LEMMA InitSession == Init => SessionInv
<1> SUFFICES ASSUME Init PROVE SessionInv
  OBVIOUS
<1>1. 0 \in Attempts
  BY SessionAssumption DEF Attempts
<1>2. << >> \in Seq(Loaders)
  OBVIOUS
<1>3. TypeOK
  BY <1>1, <1>2 DEF Init, TypeOK, Steps, AllKinds, Statuses
<1>4. AttemptCounted /\ RouteInv /\ OwnsInv /\ RefusalInv
  BY DEF Init, AttemptCounted, RouteInv, OwnsInv, RefusalInv, InLoader, Working, Preparing,
         Loading, Dropping, Releasing
<1>5. FirmwareInv
  BY DEF Init, FirmwareInv, Accounted, Owned
<1>6. ParamsInv /\ WimbootInv
  BY DEF Init, ParamsInv, WimbootInv, AtRest, Variables
<1> QED BY <1>3, <1>4, <1>5, <1>6 DEF SessionInv

\* Every step preserves it.
LEMMA NextSessionInv == SessionInv /\ [Next]_vars => SessionInv'
<1> SUFFICES ASSUME SessionInv, [Next]_vars PROVE SessionInv'
  OBVIOUS
<1>1. AttemptCounted' /\ RouteInv' /\ OwnsInv'
  BY NextAttemptCounted, NextRoute, NextOwns
<1>2. FirmwareInv' /\ RefusalInv' /\ ParamsInv' /\ WimbootInv'
  BY NextFirmware, NextRefusal, NextParams, NextWimboot
<1>3. ControlOK' /\ SessionOK' /\ FirmwareOK' /\ ParamsOK' /\ BeliefOK'
  BY NextControl, NextSession, NextFirmwareTyped, NextParamsTyped, NextBeliefTyped
<1>4. WimbootOK'
  <2>1. 0 \in Attempts /\ attempt' \in Attempts
    BY <1>3, SessionAssumption DEF SessionOK, Attempts
  <2> QED BY <1>2, <2>1 DEF WimbootInv, WimbootOK
<1>5. TypeOK'
  BY <1>3, <1>4 DEF TypeOK, ControlOK, SessionOK, FirmwareOK, ParamsOK, WimbootOK, BeliefOK
<1> QED BY <1>1, <1>2, <1>5 DEF SessionInv

\* At every place of a session, firmware, attempt and memory agree as SessionInv
\* says: the inductive strengthening of the theorems below.
THEOREM SessionAgrees == Spec => []SessionInv
  BY InitSession, NextSessionInv, PTL DEF Spec

\* The session's state is well typed for every set of kinds and every bound.
THEOREM SessionTyped == Spec => []TypeOK
<1>1. SessionInv => TypeOK
  BY DEF SessionInv
<1> QED BY <1>1, SessionAgrees, PTL

\* The Ventoy variable never refers to a freed pool, and WIMBOOT_RUNTIME_CONTEXT
\* is never a freed context.
THEOREM PointersStayLive == Spec => []RuntimePointersLive
<1>1. SessionInv => RuntimePointersLive
  BY DEF SessionInv, ParamsInv, WimbootInv, RuntimePointersLive
<1> QED BY <1>1, SessionAgrees, PTL

\* The menu, and the return to the firmware, come only after nothing of any
\* attempt is left behind.
THEOREM MenuIsClean == Spec => []CleanMenu
<1>1. SessionInv => CleanMenu
  <2> SUFFICES ASSUME SessionInv, pc \in {"menu", "exit"}
               PROVE  /\ iface = {} /\ live = {} /\ owns = {}
                      /\ \A v \in Variables : variable[v] = 0
                      /\ pools = {} /\ context = 0 /\ contexts = {}
    BY DEF CleanMenu
  <2>1. owns = {} /\ cleanupOk
    BY DEF SessionInv, OwnsInv, RefusalInv, Dropping
  <2>2. Accounted
    BY <2>1 DEF SessionInv, FirmwareInv, Reporting
  <2>3. iface = {} /\ live = {}
    BY <2>1, <2>2 DEF Accounted, Owned
  <2>4. (\A v \in Variables : variable[v] = 0) /\ pools = {}
    BY <2>1 DEF SessionInv, ParamsInv, AtRest
  <2>5. context = 0 /\ contexts = {}
    BY DEF SessionInv, WimbootInv
  <2> QED BY <2>1, <2>3, <2>4, <2>5
<1> QED BY <1>1, SessionAgrees, PTL

\* While a loader runs, the virtual device, the initrd provider and the callback
\* context it was promised are there.
THEOREM ChildIsServed == Spec => []ChildServed
<1>1. SessionInv => ChildServed
  <2> SUFFICES ASSUME SessionInv, pc = "child"
               PROVE  /\ Loader \in {"device", "bootmgfw", "generic", "stub"} => Block \subseteq iface
                      /\ "provider" \in owns => Loader = "stub" /\ Initrd \subseteq iface
                      /\ Loader = "wimboot" => context = attempt
    BY DEF ChildServed
  <2>1. \A o \in owns, i \in Interfaces : Owner(i) = o => i \in iface
    BY DEF SessionInv, FirmwareInv, Owned
  <2>2. ASSUME Loader \in {"device", "bootmgfw", "generic", "stub"} PROVE Block \subseteq iface
    <3>1. "block" \in owns
      <4>1. Head(<<"efi">>) = "efi" /\ Head(<<"wimboot">>) = "wimboot"
        OBVIOUS
      <4> QED BY <2>2, <4>1 DEF SessionInv, RouteInv, InLoader, Loader
    <3> QED BY <2>1, <3>1, HeldGroups DEF Held
  <2>3. ASSUME "provider" \in owns PROVE Loader = "stub" /\ Initrd \subseteq iface
    <3>1. Loader = "stub"
      BY <2>3 DEF SessionInv, OwnsInv
    <3> QED BY <2>1, <2>3, <3>1, HeldGroups DEF Held
  <2>4. Loader = "wimboot" => context = attempt
    BY DEF SessionInv, WimbootInv
  <2> QED BY <2>2, <2>3, <2>4
<1> QED BY <1>1, SessionAgrees, PTL

\* A loader never sees the OS parameters of an earlier attempt.
THEOREM ParametersAreOwn == Spec => []OwnParametersOnly
<1>1. SessionInv => OwnParametersOnly
  BY DEF SessionInv, ParamsInv, OwnParametersOnly
<1> QED BY <1>1, SessionAgrees, PTL

\* After a refused removal no loader is started, no menu is shown and the
\* application does not return: the safety half of RefusalRestarts.
THEOREM RefusalIsRemembered == Spec => [](refused => pc \notin {"menu", "exit", "child"})
<1>1. SessionInv => (refused => pc \notin {"menu", "exit", "child"})
  BY DEF SessionInv, RefusalInv, Reporting, Dropping
<1> QED BY <1>1, SessionAgrees, PTL
=============================================================================
