---------------------------- MODULE BootSession ----------------------------
(***************************************************************************)
(* One session of the boot application, from the scan to the firmware's    *)
(* next restart: the menu loop of main_flow and, for every selected image, *)
(* one boot attempt of BootManager.  An attempt publishes runtime          *)
(* variables, registers protocol interfaces with the firmware, starts      *)
(* loaders one after the other and takes everything down again when the    *)
(* last one returns.  Any firmware call may refuse, and a refused removal  *)
(* leaves the firmware with a pointer into the application's memory.       *)
(*                                                                         *)
(* The firmware's side is what it still knows (iface, variable, context);  *)
(* the application's side is what is still allocated (live, pools,         *)
(* contexts) and what it believes (owns, recorded, published, cleanupOk).  *)
(***************************************************************************)
EXTENDS Integers, Sequences

CONSTANTS
  Kinds,          \* the kinds of image the scan may find
  PathsPerList,   \* candidate loader paths tried in each list
  MaxAttempts     \* bound: attempts in one session

AllKinds == {"efi", "wim", "unsupported", "disk", "linux", "windows", "other"}

ASSUME SessionAssumption ==
  /\ Kinds \subseteq AllKinds
  /\ PathsPerList \in Nat \ {0}
  /\ MaxAttempts \in Nat

VARIABLES
  pc, kind, attempt,
  iface,      \* interfaces registered with the firmware
  live,       \* allocations behind interfaces, owned or leaked
  owns,       \* registrations the attempt still has to take down
  variable,   \* runtime variables: the attempt that wrote them, 0 if absent
  pools,      \* live runtime pools
  recorded,   \* runtime_allocations
  published,  \* os_param_published
  context,    \* WIMBOOT_RUNTIME_CONTEXT, 0 is null
  previous,   \* the pointer the live registration has to restore
  contexts,   \* live wimboot contexts
  images,     \* loaded child images
  route,      \* loaders still to try
  result,     \* what prepare_boot_inner is about to return
  cleanupOk,  \* cleanup_ok
  refused     \* history: the firmware refused to release something

vars == <<pc, kind, attempt, iface, live, owns, variable, pools, recorded, published,
          context, previous, contexts, images, route, result, cleanupOk, refused>>

\* The interfaces of each registration, and the Box that holds each interface.
Block == {"BlockIO", "BlockIO2", "DevicePath"}
Files == {"LoadFile", "LoadFile2"}
Filesystem == {"SimpleFileSystem"}
Initrd == {"InitrdLoadFile2", "InitrdDevicePath"}

Interfaces == Block \cup Files \cup Filesystem \cup Initrd

Backing(i) ==
  CASE i \in {"BlockIO", "BlockIO2"} -> "protocol"
    [] i = "DevicePath" -> "path"
    [] i \in Files -> "files"
    [] i \in Filesystem -> "filesystem"
    [] i = "InitrdLoadFile2" -> "initrd"
    [] OTHER -> "initrdPath"

Storage(group) == {Backing(i) : i \in group}
Allocations == Storage(Interfaces)

Registrations == {"block", "filesystem", "files", "provider"}
Variables == {"NextBootOsParam", "VentoyOsParam"}
Pools == {"param", "overlay", "wimboot"}
Loaders == {"efi", "device", "bootmgfw", "generic", "stub", "wimboot"}
Statuses == {"Ok", "Error", "Compromised"}

Preparing == {"prepare", "publish", "publishVentoy", "create", "filesystem", "files"}
Loading == {"route", "next", "initrd", "load", "provider"}
Dropping == {"drop", "dropFiles", "dropFilesystem", "dropBlock"}
Releasing == {"release", "free"}
Working == Preparing \cup Loading \cup Dropping \cup Releasing
Stopped == {"exit", "reset", "os"}
Steps == {"scan", "menu", "child", "report"} \cup Working \cup Stopped

Attempts == 0 .. MaxAttempts

TypeOK ==
  /\ pc \in Steps /\ kind \in AllKinds /\ attempt \in Attempts
  /\ iface \subseteq Interfaces /\ live \subseteq Allocations
  /\ owns \subseteq Registrations
  /\ variable \in [Variables -> Attempts]
  /\ pools \subseteq Pools /\ recorded \subseteq pools
  /\ published \in BOOLEAN
  /\ context \in Attempts /\ previous \in Attempts /\ contexts \subseteq {attempt}
  /\ images \subseteq Attempts \X Loaders
  /\ route \in Seq(Loaders)
  /\ result \in Statuses
  /\ cleanupOk \in BOOLEAN /\ refused \in BOOLEAN

Init ==
  /\ pc = "scan" /\ kind = "efi" /\ attempt = 0
  /\ iface = {} /\ live = {} /\ owns = {}
  /\ variable = [v \in Variables |-> 0]
  /\ pools = {} /\ recorded = {} /\ published = FALSE
  /\ context = 0 /\ previous = 0 /\ contexts = {}
  /\ images = {} /\ route = << >> /\ result = "Ok"
  /\ cleanupOk = TRUE /\ refused = FALSE

Session == <<kind, attempt>>
Firmware == <<iface, live, owns>>
Params == <<variable, pools, recorded, published>>
Wimboot == <<context, previous, contexts>>
Belief == <<cleanupOk, refused>>

Goto(next) == pc' = next

---------------------------------------------------------------------------
(***************************************************************************)
(* main_flow: scan, menu, and what follows an attempt.                     *)
(***************************************************************************)
Quiet == UNCHANGED <<Firmware, Params, Wimboot, images, route, Belief>>

\* No image, or the scan failed: a message, and the application returns.
ScanEmpty ==
  /\ pc = "scan" /\ Goto("exit")
  /\ UNCHANGED <<Session, result>> /\ Quiet

ScanFound ==
  /\ pc = "scan" /\ Kinds # {} /\ Goto("menu")
  /\ UNCHANGED <<Session, result>> /\ Quiet

\* show_menu returns an image and BootManager::new starts an attempt.
Select ==
  /\ pc = "menu" /\ attempt < MaxAttempts
  /\ kind' \in Kinds
  /\ attempt' = attempt + 1
  /\ cleanupOk' = TRUE /\ published' = FALSE /\ recorded' = {}
  /\ route' = << >> /\ result' = "Ok"
  /\ Goto("prepare")
  /\ UNCHANGED <<Firmware, variable, pools, Wimboot, images, refused>>

\* show_menu returns nothing, or fails.
MenuExit ==
  /\ pc = "menu" /\ Goto("exit")
  /\ UNCHANGED <<Session, result>> /\ Quiet

\* Mutant: can_retry is not consulted.
ReportReturnUnchecked ==
  /\ pc = "report"
  /\ \/ Goto("menu") \/ Goto("exit")
  /\ UNCHANGED <<Session, result>> /\ Quiet

\* "Press any key to return to the menu, or Esc to exit."
ReportReturn ==
  /\ pc = "report" /\ cleanupOk
  /\ \/ Goto("menu") \/ Goto("exit")
  /\ UNCHANGED <<Session, result>> /\ Quiet

\* "Press any key to restart the computer safely."
ReportRestart ==
  /\ pc = "report" /\ ~cleanupOk /\ Goto("reset")
  /\ UNCHANGED <<Session, result>> /\ Quiet

\* The machine comes up again: memory and volatile variables are gone.
PowerCycle ==
  /\ pc \in Stopped
  /\ pc' = "scan" /\ kind' = "efi" /\ attempt' = 0
  /\ iface' = {} /\ live' = {} /\ owns' = {}
  /\ variable' = [v \in Variables |-> 0]
  /\ pools' = {} /\ recorded' = {} /\ published' = FALSE
  /\ context' = 0 /\ previous' = 0 /\ contexts' = {}
  /\ images' = {} /\ route' = << >> /\ result' = "Ok"
  /\ cleanupOk' = TRUE /\ refused' = FALSE

---------------------------------------------------------------------------
(***************************************************************************)
(* prepare_boot_inner up to the first loader.                              *)
(***************************************************************************)
IsIso == kind \in {"linux", "windows", "other"}

Fail == result' = "Error" /\ Goto("drop")

Prepare ==
  /\ pc = "prepare"
  /\ \/ kind \in {"unsupported", "efi", "wim"} /\ Fail /\ UNCHANGED route
     \/ kind = "efi" /\ route' = <<"efi">> /\ Goto("next") /\ UNCHANGED result
     \/ kind = "wim" /\ route' = <<"wimboot">> /\ Goto("next") /\ UNCHANGED result
     \/ kind \in {"disk", "linux", "windows", "other"} /\ Goto("publish")
          /\ UNCHANGED <<route, result>>
  /\ UNCHANGED <<Session, Firmware, Params, Wimboot, images, Belief>>

\* publish_os_param; a failure is only logged by the caller.
PublishOsParam ==
  /\ pc = "publish"
  /\ published' = TRUE
  /\ \/ UNCHANGED variable /\ Goto("create")
     \/ variable' = [variable EXCEPT !["NextBootOsParam"] = attempt] /\ Goto("publishVentoy")
  /\ UNCHANGED <<Session, Firmware, pools, recorded, Wimboot, images, route, result, Belief>>

\* build_ventoy_os_param_payload: the image location goes to a runtime pool,
\* recorded before anything else can fail.
AllocatePool(p) == pools' = pools \cup {p} /\ recorded' = recorded \cup {p}

\* publish_ventoy_os_param: the payload or the pool fails, the variable is
\* refused, or it is written and refers to the pool.
PublishVentoyOsParam ==
  /\ pc = "publishVentoy" /\ Goto("create")
  /\ \/ UNCHANGED <<variable, pools, recorded>>
     \/ AllocatePool("param") /\ UNCHANGED variable
     \/ AllocatePool("param") /\ variable' = [variable EXCEPT !["VentoyOsParam"] = attempt]
  /\ UNCHANGED <<Session, Firmware, published, Wimboot, images, route, result, Belief>>

\* An install sequence succeeds: the caller owns the registration.
Installed(group, owner) ==
  /\ iface' = iface \cup group
  /\ live' = live \cup Storage(group)
  /\ owns' = owns \cup {owner}
  /\ UNCHANGED Belief

\* An install call fails, at the `last` interface or before it, and the firmware
\* refuses to take the interfaces `stuck` out again: their storage is leaked.
Stuck(group, last) == SUBSET (group \ {last})

RolledBack(stuck, storage) ==
  /\ iface' = iface \cup stuck
  /\ live' = IF stuck = {} THEN live ELSE live \cup storage
  /\ refused' = (refused \/ stuck # {})
  /\ UNCHANGED owns

Aside == UNCHANGED <<Session, Params, Wimboot, images, route>>

\* create_virtual_block_io up to the registration of the block device.
CreateFails ==
  /\ pc = "create" /\ Fail
  /\ UNCHANGED <<Firmware, Belief>> /\ Aside

CreateBlock ==
  /\ pc = "create" /\ Goto(IF IsIso THEN "filesystem" ELSE "files")
  /\ Installed(Block, "block")
  /\ UNCHANGED result /\ Aside

CreateBlockFails ==
  /\ pc = "create" /\ Goto("drop")
  /\ \E stuck \in Stuck(Block, "DevicePath") :
       /\ RolledBack(stuck, Storage(Block))
       /\ result' = IF stuck = {} THEN "Error" ELSE "Compromised"
  /\ UNCHANGED cleanupOk /\ Aside

\* install_iso_simple_file_system; without it the boot goes on.
InstallFilesystem ==
  /\ pc = "filesystem" /\ Goto("files")
  /\ \/ Installed(Filesystem, "filesystem")
     \/ UNCHANGED <<Firmware, Belief>>
  /\ UNCHANGED result /\ Aside

\* Nothing was preloaded, as for every image that is no ISO, or
\* PreloadedLoadFileProtocol::install succeeds.
InstallFiles ==
  /\ pc = "files" /\ Goto("route")
  /\ \/ IsIso /\ Installed(Files, "files")
     \/ UNCHANGED <<Firmware, Belief>>
  /\ UNCHANGED result /\ Aside

\* Mutant: the caller forgets what COMPROMISED_DATA means here.
InstallFilesFailsIgnored ==
  /\ pc = "files" /\ IsIso /\ Goto("route")
  /\ \E stuck \in Stuck(Files, "LoadFile2") : RolledBack(stuck, Storage(Files))
  /\ UNCHANGED <<cleanupOk, result>> /\ Aside

InstallFilesFails ==
  /\ pc = "files" /\ IsIso /\ Goto("route")
  /\ \E stuck \in Stuck(Files, "LoadFile2") :
       /\ RolledBack(stuck, Storage(Files))
       /\ cleanupOk' = (stuck = {})
  /\ UNCHANGED result /\ Aside

---------------------------------------------------------------------------
(***************************************************************************)
(* The loaders.                                                            *)
(***************************************************************************)
\* A candidate list is tried path by path.
Paths(loader) == [k \in 1 .. PathsPerList |-> loader]

RouteOf(k) ==
  CASE k = "linux" -> <<"stub">> \o Paths("generic")
    [] k = "windows" -> Paths("device") \o <<"bootmgfw">> \o Paths("generic") \o <<"wimboot">>
    [] k = "other" -> Paths("device") \o Paths("generic")
    [] OTHER -> Paths("device") \o Paths("device")    \* partitions, then the disk

Loader == Head(route)

\* The device is registered; an incomplete registration ends the attempt.
Route ==
  /\ pc = "route"
  /\ \/ ~cleanupOk /\ Fail /\ UNCHANGED route
     \/ cleanupOk /\ route' = RouteOf(kind) /\ Goto("next") /\ UNCHANGED result
  /\ UNCHANGED <<Session, Firmware, Params, Wimboot, images, Belief>>

\* Mutant: a loader that failed is tried again.
AdvanceStuck(status) ==
  /\ UNCHANGED <<route, result>>
  /\ Goto(IF status = "Ok" THEN "drop" ELSE "next")

\* A loader ended: the first Ok ends the attempt, an error passes to the next
\* one.  The error of the Windows WIMBOOT fallback is dropped for the one the
\* candidate paths ended with.
Advance(status) ==
  /\ route' = IF status = "Ok" THEN << >> ELSE Tail(route)
  /\ result' = IF kind = "windows" /\ Loader = "wimboot" /\ status # "Ok"
                 THEN result ELSE status
  /\ Goto(IF route' = << >> THEN "drop" ELSE "next")

\* Mutant: the context is not freed.
DropContextKept ==
  /\ context' = IF context = attempt THEN previous ELSE context
  /\ previous' = 0 /\ UNCHANGED contexts

\* Mutant: the context is freed and the pointer left alone.
DropContextDangling ==
  /\ contexts' = contexts \ {attempt}
  /\ previous' = 0 /\ UNCHANGED context

\* WimbootRuntimeRegistration goes out of scope.
DropContext ==
  /\ context' = IF context = attempt THEN previous ELSE context
  /\ contexts' = contexts \ {attempt}
  /\ previous' = 0

EndLoader(status) ==
  IF Loader = "stub" THEN result' = status /\ Goto("provider") /\ UNCHANGED <<route, Wimboot>>
  ELSE /\ Advance(status)
       /\ IF Loader = "wimboot" THEN DropContext ELSE UNCHANGED Wimboot

\* append_ventoy_linux_initrd_overlay and the Windows WIMBOOT inputs build the
\* payload once more, each with a pool of its own.
MaybePool(p) == AllocatePool(p) \/ UNCHANGED <<pools, recorded>>

\* try_direct_linux_efi_stub finds no kernel or initrd it can load.
StubFails ==
  /\ pc = "next" /\ Loader = "stub"
  /\ MaybePool("overlay") /\ Advance("Error")
  /\ UNCHANGED <<Session, Firmware, variable, published, Wimboot, images, Belief>>

StubPrepared ==
  /\ pc = "next" /\ Loader = "stub"
  /\ MaybePool("overlay") /\ Goto("initrd")
  /\ UNCHANGED <<Session, Firmware, variable, published, Wimboot, images, route, result, Belief>>

InstallInitrd ==
  /\ pc = "initrd" /\ Goto("load")
  /\ Installed(Initrd, "provider")
  /\ UNCHANGED result /\ Aside

\* Without the provider the kernel is started with an initrd= path, unless the
\* firmware kept half of it.
InstallInitrdFails ==
  /\ pc = "initrd"
  /\ \E stuck \in Stuck(Initrd, "InitrdDevicePath") :
       /\ RolledBack(stuck, Storage(stuck))
       /\ cleanupOk' = (stuck = {})
       /\ result' = IF stuck = {} THEN result ELSE "Compromised"
       /\ route' = IF stuck = {} THEN route ELSE << >>
       /\ Goto(IF stuck = {} THEN "load" ELSE "drop")
  /\ UNCHANGED <<Session, Params, Wimboot, images>>

\* prepare_wimboot and prepare_windows_iso_wimboot before the callbacks exist.
WimbootPool == IF kind = "windows" THEN MaybePool("wimboot") ELSE UNCHANGED <<pools, recorded>>

WimbootFails ==
  /\ pc = "next" /\ Loader = "wimboot"
  /\ WimbootPool /\ Advance("Error")
  /\ UNCHANGED <<Session, Firmware, variable, published, Wimboot, images, Belief>>

\* Mutant: the registration is not bound to a name and dropped at once.
WimbootRegisteredDropped ==
  /\ pc = "next" /\ Loader = "wimboot"
  /\ WimbootPool /\ Goto("load")
  /\ UNCHANGED <<Session, Firmware, variable, published, Wimboot, images, route, result, Belief>>

WimbootRegistered ==
  /\ pc = "next" /\ Loader = "wimboot"
  /\ WimbootPool /\ Goto("load")
  /\ previous' = context /\ context' = attempt /\ contexts' = contexts \cup {attempt}
  /\ UNCHANGED <<Session, Firmware, variable, published, images, route, result, Belief>>

CanLoad == pc = "load" \/ (pc = "next" /\ Loader \notin {"stub", "wimboot"})
Image == <<attempt, Loader>>

\* The file is not found, LoadImage rejects it, or there is no device path.
LoadImageFails ==
  /\ CanLoad /\ EndLoader("Error")
  /\ UNCHANGED <<Session, Firmware, Params, images, Belief>>

\* LoadOptionsBuffer::new fails after LoadImage: the image stays loaded.
LoadOptionsFail ==
  /\ CanLoad /\ Loader \in {"stub", "wimboot"}
  /\ images' = images \cup {Image}
  /\ EndLoader("Error")
  /\ UNCHANGED <<Session, Firmware, Params, Belief>>

\* LoadImage, the patch of the LoadedImage and StartImage.
StartImage ==
  /\ CanLoad /\ Goto("child")
  /\ images' = images \cup {Image}
  /\ UNCHANGED <<Session, Firmware, Params, Wimboot, route, result, Belief>>

\* The loader comes back; the firmware or unload_image removes it.
ChildReturns ==
  /\ pc = "child"
  /\ images' = images \ {Image}
  /\ \E status \in Statuses : EndLoader(status)
  /\ UNCHANGED <<Session, Firmware, Params, Belief>>

\* ExitBootServices: the operating system owns the machine.
TakesOver ==
  /\ pc = "child" /\ Goto("os")
  /\ UNCHANGED <<Session, result>> /\ Quiet

---------------------------------------------------------------------------
(***************************************************************************)
(* Taking the attempt down.                                                *)
(***************************************************************************)
\* The firmware takes out every interface of the group but `stuck`.
Refusing(stuck) == refused' = (refused \/ stuck # {})

\* RegisteredLinuxInitrdLoadFile2::uninstall leaks only the refused parts; a
\* failure ends boot_linux.
UninstallProvider ==
  /\ pc = "provider"
  /\ IF "provider" \notin owns THEN Advance(result) /\ UNCHANGED <<Firmware, Belief>>
     ELSE \E stuck \in SUBSET Initrd :
            /\ iface' = iface \ (Initrd \ stuck)
            /\ live' = live \ Storage(Initrd \ stuck)
            /\ owns' = owns \ {"provider"}
            /\ Refusing(stuck)
            /\ cleanupOk' = (cleanupOk /\ stuck = {})
            /\ IF stuck = {} THEN Advance(result)
               ELSE result' = "Error" /\ route' = << >> /\ Goto("drop")
  /\ UNCHANGED <<Session, Params, Wimboot, images>>

\* Mutant: the storage is freed although an interface is still registered.
UninstallGroupFrees(group, owner) ==
  \E stuck \in SUBSET group :
    /\ iface' = iface \ (group \ stuck)
    /\ live' = live \ Storage(group)
    /\ owns' = owns \ {owner}
    /\ Refusing(stuck)
    /\ cleanupOk' = (cleanupOk /\ stuck = {})

\* The other uninstalls: one refusal keeps the storage of the whole group.
UninstallGroup(group, owner) ==
  \E stuck \in SUBSET group :
    /\ iface' = iface \ (group \ stuck)
    /\ live' = IF stuck = {} THEN live \ Storage(group) ELSE live
    /\ owns' = owns \ {owner}
    /\ Refusing(stuck)
    /\ cleanupOk' = (cleanupOk /\ stuck = {})

Taken(group, owner) ==
  IF owner \in owns THEN UninstallGroup(group, owner) ELSE UNCHANGED <<Firmware, Belief>>

Kept == UNCHANGED <<Session, Params, Wimboot, images, route, result>>

\* Drop of VirtualRegistration: disconnect_controller, which may be refused,
\* then the interfaces from the last to the first.  Without a device there is
\* nothing to drop.
DropNothing ==
  /\ pc = "drop" /\ "block" \notin owns /\ Goto("release")
  /\ UNCHANGED <<Firmware, Belief>> /\ Kept

Disconnect ==
  /\ pc = "drop" /\ "block" \in owns /\ Goto("dropFiles")
  /\ \/ UNCHANGED Belief
     \/ cleanupOk' = FALSE /\ refused' = TRUE
  /\ UNCHANGED Firmware /\ Kept

DropFiles ==
  /\ pc = "dropFiles" /\ Goto("dropFilesystem")
  /\ Taken(Files, "files") /\ Kept

DropFilesystem ==
  /\ pc = "dropFilesystem" /\ Goto("dropBlock")
  /\ Taken(Filesystem, "filesystem") /\ Kept

DropBlock ==
  /\ pc = "dropBlock" /\ Goto("release")
  /\ Taken(Block, "block") /\ Kept

Untouched == UNCHANGED <<Session, Firmware, Wimboot, images, route>>

\* prepare_and_boot: a compromised or refused attempt keeps its parameters.
ReleaseSkipped ==
  /\ pc = "release" /\ (result = "Compromised" \/ ~cleanupOk)
  /\ cleanupOk' = FALSE /\ result' = "Error"
  /\ Goto("report")
  /\ UNCHANGED <<Params, refused>> /\ Untouched

Releasable == pc = "release" /\ result # "Compromised" /\ cleanupOk

\* release_os_parameters deletes both variables, or finds them absent.
DeleteVariables ==
  /\ Releasable /\ Goto("free")
  /\ variable' = IF published THEN [v \in Variables |-> 0] ELSE variable
  /\ UNCHANGED <<pools, recorded, published, result, Belief>> /\ Untouched

\* Mutant: every error of the deletion is taken for NOT_FOUND.
DeleteRefusedIgnored ==
  /\ Releasable /\ published /\ Goto("free")
  /\ \E v \in {variable, [variable EXCEPT !["NextBootOsParam"] = 0]} : variable' = v
  /\ UNCHANGED <<pools, recorded, published, result, cleanupOk>>
  /\ refused' = TRUE /\ Untouched

\* Deleting the first or the second variable fails: the pools stay allocated.
DeleteRefused ==
  /\ Releasable /\ published /\ Goto("report")
  /\ \E v \in {variable, [variable EXCEPT !["NextBootOsParam"] = 0]} : variable' = v
  /\ cleanupOk' = FALSE /\ refused' = TRUE /\ result' = "Error"
  /\ UNCHANGED <<pools, recorded, published>> /\ Untouched

FreePools ==
  /\ pc = "free" /\ Goto("report")
  /\ pools' = pools \ recorded /\ recorded' = {} /\ published' = FALSE
  /\ UNCHANGED <<variable, result, Belief>> /\ Untouched

\* One free_pool fails and the drain forgets the pools after it.
FreePoolsFails ==
  /\ pc = "free" /\ Goto("report")
  /\ \E freed \in SUBSET recorded :
       freed # recorded /\ pools' = pools \ freed
  /\ recorded' = {}
  /\ cleanupOk' = FALSE /\ refused' = TRUE /\ result' = "Error"
  /\ UNCHANGED <<variable, published>> /\ Untouched

---------------------------------------------------------------------------
Program ==
  \/ Prepare \/ PublishOsParam \/ PublishVentoyOsParam
  \/ CreateFails \/ CreateBlock \/ CreateBlockFails
  \/ InstallFilesystem \/ InstallFiles \/ InstallFilesFails \/ Route
  \/ StubFails \/ StubPrepared \/ InstallInitrd \/ InstallInitrdFails
  \/ WimbootFails \/ WimbootRegistered
  \/ LoadImageFails \/ LoadOptionsFail \/ StartImage
  \/ UninstallProvider \/ DropNothing \/ Disconnect
  \/ DropFiles \/ DropFilesystem \/ DropBlock
  \/ ReleaseSkipped \/ DeleteVariables \/ DeleteRefused \/ FreePools \/ FreePoolsFails

User == ScanEmpty \/ ScanFound \/ Select \/ MenuExit \/ ReportReturn \/ ReportRestart

Next == Program \/ User \/ ChildReturns \/ TakesOver \/ PowerCycle

\* The attempt is one synchronous call chain, so it always takes its next
\* step.  Nothing makes a started loader return or the user press a key.
Spec == Init /\ [][Next]_vars /\ WF_vars(Program)

---------------------------------------------------------------------------
(***************************************************************************)
(* Properties.                                                             *)
(***************************************************************************)
\* The firmware never holds an interface whose memory was freed, however the
\* installs, rollbacks and uninstalls of an attempt were refused.
InterfacesBacked == \A i \in iface : Backing(i) \in live

\* The Ventoy variable never refers to a freed runtime pool, and the callback
\* context the WIMBOOT helper reads is never a freed one: variables go before
\* pools, and the registration restores the pointer before it frees.
RuntimePointersLive ==
  /\ variable["VentoyOsParam"] # 0 => "param" \in pools
  /\ context # 0 => context \in contexts

\* The menu is offered, and the application returns to the firmware, only when
\* nothing of any attempt is registered, published or allocated any more.
CleanMenu ==
  pc \in {"menu", "exit"} =>
    /\ iface = {} /\ live = {} /\ owns = {}
    /\ \A v \in Variables : variable[v] = 0
    /\ pools = {} /\ context = 0 /\ contexts = {}

\* While a loader runs, what it was promised is there: the virtual device it
\* was loaded from, the initrd provider, the WIMBOOT callback context.
ChildServed ==
  pc = "child" =>
    /\ Loader \in {"device", "bootmgfw", "generic", "stub"} => Block \subseteq iface
    /\ "provider" \in owns => Loader = "stub" /\ Initrd \subseteq iface
    /\ Loader = "wimboot" => context = attempt

\* A loader never sees the OS parameters of an earlier attempt.
OwnParametersOnly ==
  pc = "child" => \A v \in Variables : variable[v] \in {0, attempt}

\* Once the firmware refused to release something, no further loader is started,
\* the menu is not shown and the application does not return: the attempt ends
\* at the restart prompt.  A refusal is never lost on the way through the error
\* paths of prepare_and_boot.
RefusalRestarts ==
  /\ [](refused => pc \notin {"menu", "exit", "child"})
  /\ refused ~> (pc \in {"report", "reset"} /\ ~cleanupOk)

\* Every attempt comes to an end: a loader runs, or the user is asked.
AttemptSettles == (pc \in Working) ~> (pc \in {"child", "report"})

=============================================================================
