---------------------------- MODULE MediaUpdate ----------------------------
(***************************************************************************)
(* The host-side updater of an existing medium: apply and rollback of      *)
(* scripts/media_update.py, run by processes that share the ESP and may be *)
(* killed at any step, while users edit the files the updater owns.        *)
(*                                                                         *)
(* A file is represented by its content and a digest by the content it was *)
(* taken of.  Every file the updater writes goes through durable_write or  *)
(* os.replace, so one write is one step.                                   *)
(***************************************************************************)
EXTENDS Integers, Sequences, FiniteSets

CONSTANTS
  Procs,          \* updater processes
  Ids,            \* transaction identifiers (uuid4: never reused)
  EspTargets, DataTargets,    \* owned paths of the two areas
  Volumes,        \* NEXTDATA volumes a user may mount next to the ESP
  Contents,       \* file contents
  Initial,        \* the owned files of a medium before its first update
  Absent,         \* the file does not exist
  Foreign,        \* a content the updater never installs
  None,           \* no process, no transaction, no volume
  Payloads,       \* sequences of [target, new]
  MaxFaults,      \* bound: failed calls and killed processes
  MaxEdits        \* bound: edits, deletions and damaged backups

Esp == "esp"

Targets == EspTargets \cup DataTargets

ASSUME NameAssumption ==
  /\ EspTargets \cap DataTargets = {}
  /\ Absent \notin Contents /\ Foreign \in Contents
  /\ None \notin Procs \cup Ids \cup Volumes
  /\ Esp \notin Volumes
  /\ MaxFaults \in Nat /\ MaxEdits \in Nat

\* One owned file and the content a frontend wants it to have.
PayloadItem == [target : Targets, new : Contents \ {Foreign}]

ASSUME PayloadAssumption == Payloads \subseteq Seq(PayloadItem)

\* A place is a path on a volume; NEXTDATA paths exist on every volume.
Places == ({Esp} \X EspTargets) \cup (Volumes \X DataTargets)

Place(volume, target) == IF target \in EspTargets THEN <<Esp, target>> ELSE <<volume, target>>

ASSUME InitialAssumption == Initial \subseteq [Places -> Contents \cup {Absent}]

VARIABLES
  file,      \* contents of the owned files
  tx,        \* the .nextboot-update/<id> directories
  pending,   \* the transaction of pending.json
  lock,      \* who holds update.lock
  proc,      \* the processes
  faults, edits

vars == <<file, tx, pending, lock, proc, faults, edits>>

Entry == [target : Targets, old : Contents \cup {Absent}, new : Contents \ {Foreign}]

\* manifest.json's status ("none": not written), the volume the markers name,
\* the journal's entries and the backups old/<k>.
NoTransaction == [status |-> "none", volume |-> None, entries |-> <<>>, backup |-> <<>>]

Idle == [pc |-> "idle", id |-> None, volume |-> None, payload |-> <<>>, k |-> 0, raced |-> FALSE]

Statuses == {"none", "prepared", "committed", "rolled_back"}

ApplySteps == {"plan", "stage", "manifest", "pending", "check", "replace", "commit", "unlink"}
RestoreSteps == {"load", "restore", "rolledback", "clear"}

Transaction == [status : Statuses, volume : Volumes \cup {None},
                entries : Seq(Entry), backup : Seq(Contents \cup {Absent})]

Process == [pc : {"idle"} \cup ApplySteps \cup RestoreSteps, id : Ids \cup {None},
            volume : Volumes \cup {None}, payload : Seq(PayloadItem), k : Nat, raced : BOOLEAN]

TypeOK ==
  /\ file \in [Places -> Contents \cup {Absent}]
  /\ tx \in [Ids -> Transaction]
  /\ pending \in Ids \cup {None}
  /\ lock \in Procs \cup {None}
  /\ proc \in [Procs -> Process]
  /\ faults \in 0 .. MaxFaults /\ edits \in 0 .. MaxEdits

Init ==
  /\ file \in Initial
  /\ tx = [id \in Ids |-> NoTransaction]
  /\ pending = None
  /\ lock = None
  /\ proc = [p \in Procs |-> Idle]
  /\ faults = 0 /\ edits = 0

---------------------------------------------------------------------------
Journal(p) == tx[proc[p].id].entries
EntryPlace(p, k) == Place(proc[p].volume, Journal(p)[k].target)

\* The process ends: it returns, raises or is killed; the lock goes with it.
Exit(p) ==
  /\ proc' = [proc EXCEPT ![p] = Idle]
  /\ lock' = None

Goto(p, step) == proc' = [proc EXCEPT ![p].pc = step] /\ UNCHANGED lock

Fault == faults < MaxFaults /\ faults' = faults + 1

\* A call that took effect and then succeeded, or failed inside apply's try.
Try(p, step) ==
  \/ Goto(p, step) /\ UNCHANGED faults
  \/ Goto(p, "load") /\ Fault

---------------------------------------------------------------------------
(***************************************************************************)
(* apply                                                                   *)
(***************************************************************************)
\* roots_for and plan accept the arguments: NEXTDATA paths need NEXTDATA.
Applicable(payload, volume) ==
  /\ \A k \in DOMAIN payload : payload[k].target \in DataTargets => volume # None
  /\ \A j, k \in DOMAIN payload : payload[j].target = payload[k].target => j = k

\* update_lock refuses a second updater without blocking.
StartApply(p) ==
  /\ proc[p].pc = "idle" /\ lock = None
  /\ \E payload \in Payloads, volume \in Volumes \cup {None} :
       /\ Applicable(payload, volume)
       /\ proc' = [proc EXCEPT ![p] =
                     [Idle EXCEPT !.pc = "plan", !.volume = volume, !.payload = payload]]
  /\ lock' = p
  /\ UNCHANGED <<file, tx, pending, faults, edits>>

AsEntry(item, volume) ==
  [target |-> item.target, old |-> file[Place(volume, item.target)], new |-> item.new]

Changed(payload, volume) ==
  {i \in DOMAIN payload : file[Place(volume, payload[i].target)] # payload[i].new}

\* Dependencies before boot entry points, otherwise the frontend's order.
Before(payload, i, j) ==
  LET late(k) == payload[k].target \in EspTargets
  IN ((late(i) <=> late(j)) /\ i < j) \/ (~late(i) /\ late(j))

\* Mutant: the frontend's order is kept.
ChangesUnsorted(payload, volume) ==
  LET changed == Changed(payload, volume)
      Orders == {f \in [1 .. Cardinality(changed) -> changed] :
                   \A a, b \in DOMAIN f : a < b => f[a] < f[b]}
  IN {[k \in DOMAIN f |-> AsEntry(payload[f[k]], volume)] : f \in Orders}

\* The files whose content differs, sorted: a set of exactly one sequence.
Changes(payload, volume) ==
  LET changed == Changed(payload, volume)
      Orders == {f \in [1 .. Cardinality(changed) -> changed] :
                   \A a, b \in DOMAIN f : a < b => Before(payload, f[a], f[b])}
  IN {[k \in DOMAIN f |-> AsEntry(payload[f[k]], volume)] : f \in Orders}

\* Nothing to do, an unfinished update, or not enough room: no change at all.
PlanNothing(p) ==
  /\ proc[p].pc = "plan"
  /\ Exit(p)
  /\ UNCHANGED <<file, tx, pending, faults, edits>>

\* uuid4: an identifier no transaction has, which one does not matter.
Fresh ==
  LET Unused(id) == tx[id] = NoTransaction /\ \A q \in Procs : proc[q].id # id
  IN IF \E id \in Ids : Unused(id) THEN {CHOOSE id \in Ids : Unused(id)} ELSE {}

\* Mutant: an unfinished update does not block a new one.
PlanChangesOverPending(p) ==
  /\ proc[p].pc = "plan"
  /\ \E id \in Fresh, entries \in Changes(proc[p].payload, proc[p].volume) :
       /\ entries # <<>>
       /\ proc' = [proc EXCEPT ![p].pc = "stage", ![p].id = id]
       /\ tx' = [tx EXCEPT ![id].entries = entries, ![id].volume = proc[p].volume]
  /\ UNCHANGED <<file, pending, lock, faults, edits>>

PlanChanges(p) ==
  /\ proc[p].pc = "plan"
  /\ pending = None
  /\ \E id \in Fresh, entries \in Changes(proc[p].payload, proc[p].volume) :
       /\ entries # <<>>
       /\ proc' = [proc EXCEPT ![p].pc = "stage", ![p].id = id]
       /\ tx' = [tx EXCEPT ![id].entries = entries, ![id].volume = proc[p].volume]
  /\ UNCHANGED <<file, pending, lock, faults, edits>>

\* Mutant: only the new files are staged.
StageNoBackup(p) ==
  /\ proc[p].pc = "stage"
  /\ tx' = [tx EXCEPT ![proc[p].id].backup = [k \in DOMAIN Journal(p) |-> Absent]]
  /\ Goto(p, "manifest")
  /\ UNCHANGED <<file, pending, faults, edits>>

\* Volume markers, staged files and backups; nothing refers to them yet.
Stage(p) ==
  /\ proc[p].pc = "stage"
  /\ tx' = [tx EXCEPT ![proc[p].id].backup = [k \in DOMAIN Journal(p) |-> Journal(p)[k].old]]
  /\ Goto(p, "manifest")
  /\ UNCHANGED <<file, pending, faults, edits>>

WriteManifest(p) ==
  /\ proc[p].pc = "manifest"
  /\ tx' = [tx EXCEPT ![proc[p].id].status = "prepared"]
  /\ Goto(p, "pending")
  /\ UNCHANGED <<file, pending, faults, edits>>

WritePending(p) ==
  /\ proc[p].pc = "pending"
  /\ pending' = proc[p].id
  /\ proc' = [proc EXCEPT ![p].pc = "check", ![p].k = 1]
  /\ UNCHANGED <<file, tx, lock, faults, edits>>

\* Mutant: the last entry is left out.
CheckTargetOffByOne(p) ==
  /\ proc[p].pc = "check"
  /\ IF proc[p].k >= Len(Journal(p)) THEN Goto(p, "commit")
     ELSE IF file[EntryPlace(p, proc[p].k)] = Journal(p)[proc[p].k].old
     THEN Goto(p, "replace")
     ELSE Goto(p, "load")
  /\ UNCHANGED <<file, tx, pending, faults, edits>>

\* The target still has the content it was backed up with.
CheckTarget(p) ==
  /\ proc[p].pc = "check"
  /\ IF proc[p].k > Len(Journal(p)) THEN Goto(p, "commit")
     ELSE IF file[EntryPlace(p, proc[p].k)] = Journal(p)[proc[p].k].old
     THEN Goto(p, "replace")
     ELSE Goto(p, "load")
  /\ UNCHANGED <<file, tx, pending, faults, edits>>

ReplaceTarget(p) ==
  /\ proc[p].pc = "replace"
  /\ file' = [file EXCEPT ![EntryPlace(p, proc[p].k)] = Journal(p)[proc[p].k].new]
  /\ \/ /\ proc' = [proc EXCEPT ![p].pc = "check", ![p].k = @ + 1]
        /\ UNCHANGED <<lock, faults>>
     \/ Goto(p, "load") /\ Fault
  /\ UNCHANGED <<tx, pending, edits>>

CommitManifest(p) ==
  /\ proc[p].pc = "commit"
  /\ tx' = [tx EXCEPT ![proc[p].id].status = "committed"]
  /\ Try(p, "unlink")
  /\ UNCHANGED <<file, pending, edits>>

CommitUnlink(p) ==
  /\ proc[p].pc = "unlink"
  /\ pending' = None
  /\ \/ Exit(p) /\ UNCHANGED faults
     \/ Goto(p, "load") /\ Fault
  /\ UNCHANGED <<file, tx, edits>>

\* A call in apply's try fails before it takes effect.
Caught(p) ==
  /\ proc[p].pc \in {"check", "replace", "commit", "unlink"}
  /\ Goto(p, "load") /\ Fault
  /\ UNCHANGED <<file, tx, pending, edits>>

---------------------------------------------------------------------------
(***************************************************************************)
(* rollback, and the automatic recovery of a failed apply                  *)
(***************************************************************************)
\* None as the identifier: recover whatever is pending.
StartRollback(p) ==
  /\ proc[p].pc = "idle" /\ lock = None
  /\ \E id \in Ids \cup {None}, volume \in Volumes \cup {None} :
       proc' = [proc EXCEPT ![p] = [Idle EXCEPT !.pc = "load", !.id = id, !.volume = volume]]
  /\ lock' = p
  /\ UNCHANGED <<file, tx, pending, faults, edits>>

\* apply's recovery and `rollback pending` read pending.json; `rollback ID` reads
\* the manifest.
Wanted(p) == IF proc[p].payload # <<>> \/ proc[p].id = None THEN pending ELSE proc[p].id

\* load_journal: the record exists, and the markers of the areas involved are
\* on the mounted volumes.
Loadable(p, id) ==
  /\ id # None /\ tx[id].status # "none"
  /\ \A k \in DOMAIN tx[id].entries :
       tx[id].entries[k].target \in DataTargets => proc[p].volume = tx[id].volume
  /\ pending \in {None, id}

\* Mutant: targets are not compared with the journal.
RestorableBackupsOnly(p, id) ==
  \A k \in DOMAIN tx[id].entries :
    tx[id].entries[k].old # Absent => tx[id].backup[k] = tx[id].entries[k].old

\* The first loop of restore: every target and every backup, before any write.
Restorable(p, id) ==
  \A k \in DOMAIN tx[id].entries :
    LET entry == tx[id].entries[k]
    IN /\ file[Place(proc[p].volume, entry.target)] \in {Absent, entry.old, entry.new}
       /\ entry.old # Absent => tx[id].backup[k] = entry.old

LoadJournal(p) ==
  /\ proc[p].pc = "load"
  /\ Loadable(p, Wanted(p)) /\ Restorable(p, Wanted(p))
  /\ proc' = [proc EXCEPT ![p].pc = "restore", ![p].id = Wanted(p), ![p].k = 1]
  /\ UNCHANGED <<file, tx, pending, lock, faults, edits>>

RefuseRollback(p) ==
  /\ proc[p].pc = "load"
  /\ ~(Loadable(p, Wanted(p)) /\ Restorable(p, Wanted(p)))
  /\ Exit(p)
  /\ UNCHANGED <<file, tx, pending, faults, edits>>

\* Mutant: the loop does not advance past a file that was already restored.
RestoreTargetStuck(p) ==
  /\ proc[p].pc = "restore"
  /\ IF proc[p].k > Len(Journal(p))
     THEN Goto(p, "rolledback") /\ UNCHANGED file
     ELSE /\ file' = [file EXCEPT ![EntryPlace(p, proc[p].k)] = Journal(p)[proc[p].k].old]
          /\ proc' = [proc EXCEPT ![p].k = IF file' = file THEN @ ELSE @ + 1]
          /\ UNCHANGED lock
  /\ UNCHANGED <<tx, pending, faults, edits>>

\* A target that already has its old content is left alone.
RestoreTarget(p) ==
  /\ proc[p].pc = "restore"
  /\ IF proc[p].k > Len(Journal(p))
     THEN Goto(p, "rolledback") /\ UNCHANGED file
     ELSE /\ file' = [file EXCEPT ![EntryPlace(p, proc[p].k)] = Journal(p)[proc[p].k].old]
          /\ proc' = [proc EXCEPT ![p].k = @ + 1]
          /\ UNCHANGED lock
  /\ UNCHANGED <<tx, pending, faults, edits>>

FinishManifest(p) ==
  /\ proc[p].pc = "rolledback"
  /\ tx' = [tx EXCEPT ![proc[p].id].status = "rolled_back"]
  /\ Goto(p, "clear")
  /\ UNCHANGED <<file, pending, faults, edits>>

\* Mutant: the pending record is kept.
FinishUnlinkKept(p) ==
  /\ proc[p].pc = "clear"
  /\ Exit(p)
  /\ UNCHANGED <<file, tx, pending, faults, edits>>

FinishUnlink(p) ==
  /\ proc[p].pc = "clear"
  /\ pending' = None
  /\ Exit(p)
  /\ UNCHANGED <<file, tx, faults, edits>>

---------------------------------------------------------------------------
\* The process is killed, the power goes, or an exception outside the try ends
\* it; whatever was written stays.
Die(p) ==
  /\ proc[p].pc # "idle"
  /\ Exit(p) /\ Fault
  /\ UNCHANGED <<file, tx, pending, edits>>

Disturbs(place) ==
  [p \in Procs |->
     IF /\ proc[p].pc \in {"check", "replace", "commit", "unlink",
                        "restore", "rolledback"}
        /\ \E k \in DOMAIN Journal(p) : EntryPlace(p, k) = place
     THEN [proc[p] EXCEPT !.raced = TRUE] ELSE proc[p]]

\* A user replaces or deletes an owned file.
Edit(place) ==
  /\ edits < MaxEdits /\ edits' = edits + 1
  /\ file[place] # Foreign
  /\ file' \in {[file EXCEPT ![place] = Foreign], [file EXCEPT ![place] = Absent]}
  /\ proc' = Disturbs(place)
  /\ UNCHANGED <<tx, pending, lock, faults>>

\* A backup on the medium is damaged.
Damage(id) ==
  /\ edits < MaxEdits /\ edits' = edits + 1
  /\ \E k \in DOMAIN tx[id].backup : tx' = [tx EXCEPT ![id].backup[k] = Foreign]
  /\ UNCHANGED <<file, pending, lock, proc, faults>>

Work(p) ==
  \/ PlanNothing(p) \/ PlanChanges(p) \/ Stage(p) \/ WriteManifest(p) \/ WritePending(p)
  \/ CheckTarget(p) \/ ReplaceTarget(p) \/ CommitManifest(p) \/ CommitUnlink(p)
  \/ LoadJournal(p) \/ RefuseRollback(p) \/ RestoreTarget(p)
  \/ FinishManifest(p) \/ FinishUnlink(p)

Next ==
  \/ \E p \in Procs : StartApply(p) \/ StartRollback(p) \/ Work(p) \/ Caught(p) \/ Die(p)
  \/ \E place \in Places : Edit(place)
  \/ \E id \in Ids : Damage(id)

\* A running process keeps running; nobody has to start one.
Spec == Init /\ [][Next]_vars /\ \A p \in Procs : WF_vars(Work(p))

---------------------------------------------------------------------------
(***************************************************************************)
(* Properties.                                                             *)
(***************************************************************************)
\* The pending record always names a transaction that can be recovered: its
\* manifest is on the ESP and every replaced file has its backup, unless the
\* backup was damaged afterwards.  apply stages before it publishes.
PendingIsRecoverable ==
  pending # None =>
    LET t == tx[pending]
    IN /\ t.status # "none"
       /\ \A k \in DOMAIN t.entries :
            t.entries[k].old # Absent => t.backup[k] \in {t.entries[k].old, Foreign}

\* Neither apply nor rollback destroys a content that no transaction holds, as
\* installed file or as backup (or that was deleted), unless a user wrote it
\* after the check that precedes the write.
Held(place, content) ==
  \E id \in Ids : \E k \in DOMAIN tx[id].entries :
    /\ tx[id].status # "none"
    /\ Place(tx[id].volume, tx[id].entries[k].target) = place
    /\ content \in {tx[id].entries[k].new, tx[id].entries[k].old}

NoContentLost ==
  [][\A place \in Places :
       /\ file'[place] # file[place] /\ edits' = edits
       /\ file[place] # Absent
       /\ \A p \in Procs : ~proc[p].raced
       => Held(place, file[place])]_vars

\* A transaction left unfinished by any process stays the only pending one until
\* it is recovered: no update starts over it, and the lock admits one process.
OneUnfinished ==
  [][pending # None /\ pending' # None => pending' = pending]_vars

\* While an update is being applied, a new boot loader is never on the ESP
\* without the new runtime files it consumes.
RuntimeBeforeLoader ==
  \A p \in Procs :
    proc[p].pc \in {"check", "replace", "commit", "unlink"} /\ ~proc[p].raced =>
      \A j, k \in DOMAIN Journal(p) :
        /\ Journal(p)[j].target \in DataTargets /\ Journal(p)[k].target \in EspTargets
        /\ file[EntryPlace(p, k)] = Journal(p)[k].new
        => file[EntryPlace(p, j)] = Journal(p)[j].new

\* The manifest says committed only of an update whose every file is installed,
\* and rolled_back only of one whose every file has its old content again.
FinishedIsUniform ==
  [][\A p \in Procs :
       ~proc[p].raced /\ proc[p].id # None =>
         LET id == proc[p].id
             status == tx'[id].status
         IN status # tx[id].status /\ status # "prepared" =>
              \A k \in DOMAIN Journal(p) :
                file[EntryPlace(p, k)] = IF status = "committed"
                                         THEN Journal(p)[k].new ELSE Journal(p)[k].old]_vars

\* Every started update or rollback ends and gives the lock back.
UpdaterFinishes == (lock # None) ~> (lock = None)

\* Recovery of an interrupted update succeeds when it is started with the right
\* volume, nothing it needs was altered, and nothing fails any more.
RecoveryClears ==
  \A p \in Procs :
    (/\ proc[p].pc = "load" /\ Wanted(p) = pending
     /\ Loadable(p, pending) /\ Restorable(p, pending)
     /\ faults = MaxFaults /\ edits = MaxEdits) ~> (pending = None)

\* docs/update-and-rollback.md: recovery after process interruption is
\* `--rollback pending`, so whenever no updater runs, the files of a transaction
\* are all old or all new, or that transaction is pending.
Mixed(id) ==
  /\ tx[id].status # "none"
  /\ \E j, k \in DOMAIN tx[id].entries :
       LET At(i) == file[Place(tx[id].volume, tx[id].entries[i].target)]
       IN At(j) = tx[id].entries[j].old /\ At(k) = tx[id].entries[k].new

InterruptionIsPending ==
  lock = None => \A id \in Ids : Mixed(id) => pending = id
=============================================================================
