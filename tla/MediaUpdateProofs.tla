------------------------- MODULE MediaUpdateProofs -------------------------
(***************************************************************************)
(* Proofs about MediaUpdate, for every set of processes, volumes, owned    *)
(* files and payloads, and any number of failures, edits and damages.      *)
(***************************************************************************)
EXTENDS MediaUpdate, FiniteSetTheorems, TLAPS

---------------------------------------------------------------------------
(***************************************************************************)
(* Places and journals.                                                    *)
(***************************************************************************)
\* Every owned path of a mounted volume is a place.
LEMMA PlaceTyped ==
  ASSUME NEW v, NEW t \in Targets, t \in DataTargets => v \in Volumes
  PROVE  Place(v, t) \in Places
  BY DEF Place, Places, Targets

\* Two owned paths never share a place on the volumes of one process.
LEMMA PlaceInjective ==
  ASSUME NEW v, NEW t, NEW u, Place(v, t) = Place(v, u)
  PROVE  t = u
  BY DEF Place

\* What the sorted journal of an update has to satisfy: no file twice, and
\* every runtime file before every loader.
Ordered(entries) ==
  \A j, k \in DOMAIN entries :
    /\ entries[j].target = entries[k].target => j = k
    /\ entries[j].target \in DataTargets /\ entries[k].target \in EspTargets => j < k

\* NEXTDATA entries exist only when NEXTDATA was mounted.
Mounted(entries, volume) ==
  \A k \in DOMAIN entries : entries[k].target \in DataTargets => volume \in Volumes

\* The content of entry k's file on the given volume.
At(entries, volume, k) == file[Place(volume, entries[k].target)]

\* plan and the sort: the journal of an accepted payload is ordered, names
\* mounted files only, and records for each the content it has, which is not
\* the new one.
LEMMA ChangesSound ==
  ASSUME file \in [Places -> Contents \cup {Absent}],
         NEW payload \in Seq(PayloadItem), NEW volume \in Volumes \cup {None},
         Applicable(payload, volume),
         NEW entries \in Changes(payload, volume)
  PROVE  /\ entries \in Seq(Entry)
         /\ Ordered(entries) /\ Mounted(entries, volume)
         /\ \A k \in DOMAIN entries :
              /\ At(entries, volume, k) = entries[k].old
              /\ At(entries, volume, k) # entries[k].new
<1> DEFINE changed == Changed(payload, volume)
           n == Cardinality(changed)
<1>1. PICK f \in [1 .. n -> changed] :
        /\ \A a, b \in 1 .. n : a < b => Before(payload, f[a], f[b])
        /\ entries = [k \in 1 .. n |-> AsEntry(payload[f[k]], volume)]
  BY DEF Changes
<1>2. n \in Nat
  <2>1. changed \subseteq 1 .. Len(payload)
    BY DEF Changed
  <2>2. IsFiniteSet(1 .. Len(payload))
    BY FS_Interval
  <2> HIDE DEF changed
  <2> QED BY <2>1, <2>2, FS_Subset, FS_CardinalityType
<1>3. \A i \in changed :
        /\ i \in DOMAIN payload /\ payload[i] \in PayloadItem
        /\ i \in Int
        /\ file[Place(volume, payload[i].target)] # payload[i].new
  BY DEF Changed
<1>4. \A i \in changed : payload[i].target \in DataTargets => volume \in Volumes
  BY <1>3 DEF Applicable
<1>5. \A i \in changed : AsEntry(payload[i], volume) \in Entry
  <2> SUFFICES ASSUME NEW i \in changed PROVE AsEntry(payload[i], volume) \in Entry
    OBVIOUS
  <2> HIDE DEF changed
  <2>1. payload[i].target \in Targets /\ payload[i].new \in Contents \ {Foreign}
    BY <1>3 DEF PayloadItem
  <2>2. file[Place(volume, payload[i].target)] \in Contents \cup {Absent}
    BY <1>4, <2>1, PlaceTyped
  <2> QED BY <2>1, <2>2 DEF AsEntry, Entry
<1> HIDE DEF changed, n
<1>6. entries \in Seq(Entry) /\ DOMAIN entries = 1 .. n
  BY <1>1, <1>2, <1>5
<1>7. \A k \in 1 .. n :
        /\ f[k] \in changed
        /\ entries[k].target = payload[f[k]].target
        /\ entries[k].new = payload[f[k]].new
        /\ entries[k].old = file[Place(volume, payload[f[k]].target)]
  BY <1>1 DEF AsEntry
<1>8. Mounted(entries, volume)
  BY <1>4, <1>6, <1>7 DEF Mounted
<1>9. ASSUME NEW j \in 1 .. n, NEW k \in 1 .. n,
             entries[j].target = entries[k].target
      PROVE  j = k
  <2>1. f[j] = f[k]
    BY <1>3, <1>7, <1>9 DEF Applicable
  <2>2. ~Before(payload, f[j], f[k]) /\ ~Before(payload, f[k], f[j])
    BY <1>3, <1>7, <2>1 DEF Before
  <2> QED BY <1>1, <1>2, <2>2
<1>10. ASSUME NEW j \in 1 .. n, NEW k \in 1 .. n,
              entries[j].target \in DataTargets, entries[k].target \in EspTargets
       PROVE  j < k
  <2>1. payload[f[j]].target \notin EspTargets /\ payload[f[k]].target \in EspTargets
    BY <1>7, <1>10, NameAssumption
  <2>2. ~Before(payload, f[k], f[j]) /\ j # k
    BY <2>1 DEF Before
  <2> QED BY <1>1, <1>2, <2>2
<1>11. Ordered(entries)
  BY <1>6, <1>9, <1>10 DEF Ordered
<1>12. \A k \in 1 .. n : /\ At(entries, volume, k) = entries[k].old
                         /\ At(entries, volume, k) # entries[k].new
  BY <1>3, <1>7 DEF At
<1> QED BY <1>6, <1>8, <1>11, <1>12

---------------------------------------------------------------------------
(***************************************************************************)
(* The inductive invariant.                                                *)
(***************************************************************************)
\* update_lock: the one process that is not idle holds the lock.
Mutex == \A p \in Procs : IF lock = p THEN proc[p].pc # "idle" ELSE proc[p] = Idle

\* Every old content is in the backup, unless the backup was damaged.
BackedUp(t) ==
  /\ DOMAIN t.backup = DOMAIN t.entries
  /\ \A k \in DOMAIN t.entries : t.backup[k] \in {t.entries[k].old, Foreign}

TransactionSound(t) ==
  /\ Ordered(t.entries) /\ Mounted(t.entries, t.volume)
  /\ t.status # "none" => BackedUp(t)

PendingSound == pending # None => tx[pending].status # "none"

PreparingSteps == {"stage", "manifest", "pending"}
InstallSteps == {"check", "replace", "commit", "unlink"}
UndoSteps == {"restore", "rolledback", "clear"}

\* Between plan and the first replacement nothing of the update is installed:
\* user edits never produce the new content.
Preparing(p) ==
  LET t == tx[proc[p].id]
  IN proc[p].pc \in PreparingSteps =>
       /\ proc[p].id \in Ids
       /\ pending = None
       /\ proc[p].volume = t.volume
       /\ IF proc[p].pc = "pending" THEN t.status # "none" ELSE t.status = "none"
       /\ proc[p].pc = "manifest" => BackedUp(t)
       /\ \A k \in DOMAIN t.entries : At(t.entries, t.volume, k) # t.entries[k].new

\* While files are replaced exactly the entries before k are installed.
Installing(p) ==
  LET t == tx[proc[p].id]
  IN proc[p].pc \in InstallSteps =>
       /\ proc[p].id \in Ids
       /\ proc[p].volume = t.volume
       /\ t.status # "none"
       /\ proc[p].pc \in {"check", "replace"} => proc[p].k >= 1
       /\ proc[p].pc = "replace" => proc[p].k \in DOMAIN t.entries
       /\ ~proc[p].raced =>
            /\ \A k \in DOMAIN t.entries :
                 At(t.entries, t.volume, k) = t.entries[k].new
                   <=> (proc[p].pc \in {"commit", "unlink"} \/ k < proc[p].k)
            /\ proc[p].pc = "replace" =>
                 At(t.entries, t.volume, proc[p].k) = t.entries[proc[p].k].old

\* While files are restored those before k are old again and the others are
\* contents this transaction knows.
Restoring(p) ==
  LET t == tx[proc[p].id]
  IN proc[p].pc \in UndoSteps =>
       /\ proc[p].id \in Ids
       /\ t.status # "none"
       /\ \A k \in DOMAIN t.entries :
            Place(proc[p].volume, t.entries[k].target) = Place(t.volume, t.entries[k].target)
       /\ proc[p].k >= 1
       /\ ~proc[p].raced /\ proc[p].pc # "clear" =>
            \A k \in DOMAIN t.entries :
              IF proc[p].pc = "rolledback" \/ k < proc[p].k
              THEN At(t.entries, t.volume, k) = t.entries[k].old
              ELSE At(t.entries, t.volume, k) \in {Absent, t.entries[k].old, t.entries[k].new}

ProcessSound(p) ==
  /\ proc[p].pc = "plan" => Applicable(proc[p].payload, proc[p].volume)
  /\ Preparing(p) /\ Installing(p) /\ Restoring(p)

UpdateInv ==
  /\ TypeOK
  /\ Mutex
  /\ \A id \in Ids : TransactionSound(tx[id])
  /\ PendingSound
  /\ \A p \in Procs : ProcessSound(p)

---------------------------------------------------------------------------
(***************************************************************************)
(* Frame lemmas: what a step of one process leaves to be shown.            *)
(***************************************************************************)
\* The fields of a process are typed.
LEMMA ProcessFields ==
  ASSUME TypeOK, NEW p \in Procs
  PROVE  /\ proc[p] \in Process
         /\ proc[p].id \in Ids \cup {None}
         /\ proc[p].volume \in Volumes \cup {None}
         /\ proc[p].payload \in Seq(PayloadItem)
         /\ proc[p].k \in Nat
         /\ proc[p].raced \in BOOLEAN
  BY DEF TypeOK, Process

\* So are those of a transaction.
LEMMA TransactionFields ==
  ASSUME TypeOK, NEW id \in Ids
  PROVE  /\ tx[id] \in Transaction
         /\ tx[id].status \in Statuses
         /\ tx[id].volume \in Volumes \cup {None}
         /\ tx[id].entries \in Seq(Entry)
         /\ tx[id].backup \in Seq(Contents \cup {Absent})
  BY DEF TypeOK, Transaction

\* A process that is not idle is the only one.
LEMMA OnlyOne ==
  ASSUME UpdateInv, NEW p \in Procs, proc[p].pc # "idle"
  PROVE  lock = p /\ \A q \in Procs \ {p} : proc[q] = Idle
<1>1. Idle.pc = "idle"
  BY DEF Idle
<1> QED BY <1>1 DEF UpdateInv, Mutex

\* Goto changes the step of one process and nothing else of the processes.
LEMMA GotoMoves ==
  ASSUME TypeOK, NEW p \in Procs, NEW step, Goto(p, step),
         step \in ApplySteps \cup RestoreSteps
  PROVE  /\ proc' \in [Procs -> Process] /\ lock' = lock
         /\ \A q \in Procs \ {p} : proc'[q] = proc[q]
         /\ proc'[p].pc = step /\ proc'[p].id = proc[p].id
         /\ proc'[p].volume = proc[p].volume /\ proc'[p].payload = proc[p].payload
         /\ proc'[p].k = proc[p].k /\ proc'[p].raced = proc[p].raced
<1>1. proc \in [Procs -> Process] /\ proc[p] \in Process
  BY DEF TypeOK
<1>2. proc' = [proc EXCEPT ![p].pc = step] /\ lock' = lock
  BY DEF Goto
<1> QED BY <1>1, <1>2 DEF Process

\* A process that ended is as if it had never run.
LEMMA ExitIdles ==
  ASSUME TypeOK, NEW p \in Procs, Exit(p)
  PROVE  /\ proc' \in [Procs -> Process] /\ lock' = None
         /\ \A q \in Procs \ {p} : proc'[q] = proc[q]
         /\ proc'[p] = Idle
<1>1. Idle \in Process
  BY DEF Idle, Process, ApplySteps, RestoreSteps
<1> QED BY <1>1 DEF Exit, TypeOK

\* Nothing is required of an idle process.
LEMMA IdleIsSound ==
  ASSUME NEW p \in Procs, proc[p] = Idle
  PROVE  ProcessSound(p)
  BY DEF ProcessSound, Preparing, Installing, Restoring, Idle,
         PreparingSteps, InstallSteps, UndoSteps

\* The same in the state after a step.
LEMMA IdleStaysSound ==
  ASSUME NEW p \in Procs, proc'[p] = Idle
  PROVE  ProcessSound(p)'
  BY DEF ProcessSound, Preparing, Installing, Restoring, Idle,
         PreparingSteps, InstallSteps, UndoSteps

\* What remains to be shown of a step of process p: the lock admits no other.
LEMMA OneProcessStep ==
  ASSUME UpdateInv, NEW p \in Procs,
         proc[p].pc # "idle" \/ lock = None,
         TypeOK',
         \A q \in Procs \ {p} : proc'[q] = proc[q],
         \/ lock' = p /\ proc'[p].pc # "idle"
         \/ lock' = None /\ proc'[p] = Idle,
         \A id \in Ids : TransactionSound(tx'[id]),
         PendingSound',
         ProcessSound(p)'
  PROVE  UpdateInv'
<1>1. \A q \in Procs \ {p} : proc'[q] = Idle
  BY OnlyOne, NameAssumption DEF UpdateInv, Mutex
<1>2. Mutex'
  BY <1>1, NameAssumption DEF Mutex
<1>3. \A q \in Procs : ProcessSound(q)'
  BY <1>1, IdleStaysSound
<1> QED BY <1>2, <1>3 DEF UpdateInv

\* A process that ends without touching a transaction: nothing to show.
LEMMA ExitStep ==
  ASSUME UpdateInv, NEW p \in Procs, proc[p].pc # "idle", Exit(p),
         UNCHANGED <<file, tx, edits>>,
         pending' \in {None, pending},
         faults' \in 0 .. MaxFaults
  PROVE  UpdateInv'
<1>1. TypeOK
  BY DEF UpdateInv
<1>2. /\ proc' \in [Procs -> Process] /\ lock' = None
      /\ \A q \in Procs \ {p} : proc'[q] = proc[q]
      /\ proc'[p] = Idle
  BY <1>1, ExitIdles
<1>3. TypeOK'
  BY <1>1, <1>2 DEF TypeOK
<1>4. PendingSound' /\ \A id \in Ids : TransactionSound(tx'[id])
  BY DEF UpdateInv, PendingSound
<1>5. ProcessSound(p)'
  BY <1>2, IdleStaysSound
<1> QED BY <1>2, <1>3, <1>4, <1>5, OneProcessStep

\* A failed call inside apply's try, whatever it wrote before it failed.
LEMMA LoadStep ==
  ASSUME UpdateInv, NEW p \in Procs, proc[p].pc # "idle", Goto(p, "load"),
         file' \in [Places -> Contents \cup {Absent}],
         tx' \in [Ids -> Transaction], \A id \in Ids : TransactionSound(tx'[id]),
         \A id \in Ids : tx[id].status # "none" => tx'[id].status # "none",
         pending' \in {None, pending},
         faults' \in 0 .. MaxFaults, UNCHANGED edits
  PROVE  UpdateInv'
<1>1. TypeOK
  BY DEF UpdateInv
<1>2. /\ proc' \in [Procs -> Process] /\ lock' = lock
      /\ \A q \in Procs \ {p} : proc'[q] = proc[q]
      /\ proc'[p].pc = "load"
  BY <1>1, GotoMoves DEF RestoreSteps
<1>3. TypeOK'
  BY <1>1, <1>2 DEF TypeOK
<1>4. PendingSound'
  BY <1>1 DEF UpdateInv, PendingSound, TypeOK
<1>5. ProcessSound(p)'
  BY <1>2 DEF ProcessSound, Preparing, Installing, Restoring,
              PreparingSteps, InstallSteps, UndoSteps
<1>6. lock' = p
  BY <1>2, OnlyOne
<1> QED BY <1>2, <1>3, <1>4, <1>5, <1>6, OneProcessStep

\* Fault stays within its bound.
LEMMA FaultTyped ==
  ASSUME TypeOK, Fault
  PROVE  faults' \in 0 .. MaxFaults
  BY NameAssumption DEF TypeOK, Fault

---------------------------------------------------------------------------
(***************************************************************************)
(* The steps of apply.                                                     *)
(***************************************************************************)
LEMMA StartApplyStep ==
  ASSUME UpdateInv, NEW p \in Procs, StartApply(p)
  PROVE  UpdateInv'
<1>1. TypeOK /\ lock = None
  BY DEF UpdateInv, StartApply
<1>2. PICK payload \in Payloads, volume \in Volumes \cup {None} :
        /\ Applicable(payload, volume)
        /\ proc' = [proc EXCEPT ![p] =
                      [Idle EXCEPT !.pc = "plan", !.volume = volume, !.payload = payload]]
  BY DEF StartApply
<1> DEFINE new == [Idle EXCEPT !.pc = "plan", !.volume = volume, !.payload = payload]
<1>3. /\ new \in Process
      /\ new.pc = "plan" /\ new.volume = volume /\ new.payload = payload
  <2>1. payload \in Seq(PayloadItem)
    BY PayloadAssumption
  <2> QED BY <2>1 DEF Idle, Process, ApplySteps
<1> HIDE DEF new
<1>4. proc' = [proc EXCEPT ![p] = new]
  BY <1>2 DEF new
<1>5. /\ proc' \in [Procs -> Process] /\ proc'[p] = new
      /\ \A q \in Procs \ {p} : proc'[q] = proc[q]
  BY <1>1, <1>3, <1>4 DEF TypeOK
<1>6. TypeOK'
  BY <1>1, <1>5 DEF TypeOK, StartApply
<1>7. ProcessSound(p)'
  <2>1. Applicable(proc'[p].payload, proc'[p].volume)
    BY <1>2, <1>3, <1>5
  <2>2. Preparing(p)' /\ Installing(p)' /\ Restoring(p)'
    BY <1>3, <1>5 DEF Preparing, Installing, Restoring,
                      PreparingSteps, InstallSteps, UndoSteps
  <2> QED BY <2>1, <2>2 DEF ProcessSound, Applicable
<1>8. PendingSound' /\ \A id \in Ids : TransactionSound(tx'[id])
  BY DEF UpdateInv, PendingSound, StartApply
<1>9. lock' = p /\ proc'[p].pc # "idle"
  BY <1>3, <1>5 DEF StartApply
<1> QED BY <1>1, <1>5, <1>6, <1>7, <1>8, <1>9, OneProcessStep

\* Planning an update keeps the invariant.
LEMMA PlanChangesStep ==
  ASSUME UpdateInv, NEW p \in Procs, PlanChanges(p)
  PROVE  UpdateInv'
<1>1. TypeOK /\ proc[p].pc = "plan" /\ pending = None
  BY DEF UpdateInv, PlanChanges
<1>2. PICK id \in Fresh, entries \in Changes(proc[p].payload, proc[p].volume) :
        /\ proc' = [proc EXCEPT ![p].pc = "stage", ![p].id = id]
        /\ tx' = [tx EXCEPT ![id].entries = entries, ![id].volume = proc[p].volume]
  BY DEF PlanChanges
<1>3. UNCHANGED <<file, pending, lock, faults, edits>>
  BY DEF PlanChanges
<1>4. id \in Ids /\ tx[id] = NoTransaction
  <2> DEFINE Unused(i) == tx[i] = NoTransaction /\ \A q \in Procs : proc[q].id # i
  <2>1. \E i \in Ids : Unused(i)
    BY <1>2 DEF Fresh
  <2>2. id = CHOOSE i \in Ids : Unused(i)
    BY <1>2, <2>1 DEF Fresh
  <2> QED BY <2>1, <2>2
<1>5. /\ proc[p].payload \in Seq(PayloadItem) /\ proc[p].volume \in Volumes \cup {None}
      /\ proc[p] \in Process
  BY <1>1, ProcessFields
<1>6. Applicable(proc[p].payload, proc[p].volume)
  BY <1>1 DEF UpdateInv, ProcessSound
<1>7. /\ entries \in Seq(Entry)
      /\ Ordered(entries) /\ Mounted(entries, proc[p].volume)
      /\ \A k \in DOMAIN entries : At(entries, proc[p].volume, k) # entries[k].new
  BY <1>1, <1>2, <1>5, <1>6, ChangesSound DEF TypeOK
<1>8. /\ tx' \in [Ids -> Transaction]
      /\ tx'[id].entries = entries /\ tx'[id].volume = proc[p].volume
      /\ tx'[id].status = "none"
      /\ \A i \in Ids \ {id} : tx'[i] = tx[i]
  <2>1. tx \in [Ids -> Transaction] /\ tx[id] \in Transaction /\ tx[id].status = "none"
    BY <1>1, <1>4 DEF TypeOK, NoTransaction
  <2> QED BY <1>2, <1>4, <1>5, <1>7, <2>1 DEF Transaction
<1>9. /\ proc' \in [Procs -> Process]
      /\ proc'[p].pc = "stage" /\ proc'[p].id = id /\ proc'[p].volume = proc[p].volume
      /\ \A q \in Procs \ {p} : proc'[q] = proc[q]
  BY <1>1, <1>2, <1>4, <1>5 DEF TypeOK, Process, ApplySteps
<1>10. TypeOK'
  BY <1>1, <1>3, <1>8, <1>9 DEF TypeOK
<1>11. \A i \in Ids : TransactionSound(tx'[i])
  <2>1. TransactionSound(tx'[id])
    BY <1>7, <1>8 DEF TransactionSound
  <2> QED BY <1>8, <2>1 DEF UpdateInv
<1>12. PendingSound'
  BY <1>1, <1>3 DEF PendingSound
<1>13. ProcessSound(p)'
  <2>1. Preparing(p)'
    BY <1>1, <1>3, <1>4, <1>7, <1>8, <1>9 DEF Preparing, PreparingSteps, At
  <2>2. Installing(p)' /\ Restoring(p)' /\ proc'[p].pc # "plan"
    BY <1>9 DEF Installing, Restoring, InstallSteps, UndoSteps
  <2> QED BY <2>1, <2>2 DEF ProcessSound
<1>14. lock' = p
  BY <1>1, <1>3, OnlyOne
<1> QED BY <1>1, <1>9, <1>10, <1>11, <1>12, <1>13, <1>14, OneProcessStep

\* Rewriting a manifest changes the status of one transaction.
LEMMA StatusWritten ==
  ASSUME TypeOK, NEW id \in Ids, NEW status \in Statuses,
         tx' = [tx EXCEPT ![id].status = status]
  PROVE  /\ tx' \in [Ids -> Transaction]
         /\ tx'[id].status = status /\ tx'[id].volume = tx[id].volume
         /\ tx'[id].entries = tx[id].entries /\ tx'[id].backup = tx[id].backup
         /\ \A i \in Ids \ {id} : tx'[i] = tx[i]
<1>1. tx \in [Ids -> Transaction] /\ tx[id] \in Transaction
  BY DEF TypeOK
<1> QED BY <1>1 DEF Transaction

\* A backed-up transaction stays sound under any status.
LEMMA StatusSound ==
  ASSUME UpdateInv, NEW id \in Ids, NEW status \in Statuses,
         tx' = [tx EXCEPT ![id].status = status],
         BackedUp(tx[id])
  PROVE  \A i \in Ids : TransactionSound(tx'[i])
<1>1. TypeOK /\ \A i \in Ids : TransactionSound(tx[i])
  BY DEF UpdateInv
<1>2. /\ tx'[id].volume = tx[id].volume
      /\ tx'[id].entries = tx[id].entries /\ tx'[id].backup = tx[id].backup
      /\ \A i \in Ids \ {id} : tx'[i] = tx[i]
  BY <1>1, StatusWritten
<1>3. TransactionSound(tx'[id])
  BY <1>1, <1>2 DEF TransactionSound, BackedUp
<1> QED BY <1>1, <1>2, <1>3

\* Staging files and backups keeps the invariant.
LEMMA StageStep ==
  ASSUME UpdateInv, NEW p \in Procs, Stage(p)
  PROVE  UpdateInv'
<1> DEFINE id == proc[p].id
           copies == [k \in DOMAIN tx[id].entries |-> tx[id].entries[k].old]
<1>1. TypeOK /\ proc[p].pc = "stage"
  BY DEF UpdateInv, Stage
<1>2. UNCHANGED <<file, pending, faults, edits>> /\ Goto(p, "manifest")
  BY DEF Stage
<1>3. /\ id \in Ids /\ pending = None
      /\ proc[p].volume = tx[id].volume /\ tx[id].status = "none"
      /\ \A k \in DOMAIN tx[id].entries :
           At(tx[id].entries, tx[id].volume, k) # tx[id].entries[k].new
  BY <1>1 DEF UpdateInv, ProcessSound, Preparing, PreparingSteps
<1>4. tx[id].entries \in Seq(Entry)
  BY <1>1, <1>3, TransactionFields
<1>5. copies \in Seq(Contents \cup {Absent})
  <2> HIDE DEF id
  <2>1. \A k \in DOMAIN tx[id].entries : tx[id].entries[k].old \in Contents \cup {Absent}
    <3>1. \A k \in DOMAIN tx[id].entries : tx[id].entries[k] \in Entry
      BY <1>4
    <3> QED BY <3>1 DEF Entry
  <2>2. DOMAIN tx[id].entries = 1 .. Len(tx[id].entries) /\ Len(tx[id].entries) \in Nat
    BY <1>4
  <2> QED BY <2>1, <2>2
<1>6. tx' = [tx EXCEPT ![id].backup = copies]
  BY DEF Stage, Journal
<1>7. /\ proc' \in [Procs -> Process] /\ lock' = lock
      /\ \A q \in Procs \ {p} : proc'[q] = proc[q]
      /\ proc'[p].pc = "manifest" /\ proc'[p].id = id /\ proc'[p].volume = proc[p].volume
  BY <1>1, <1>2, GotoMoves DEF ApplySteps
<1>8. /\ tx' \in [Ids -> Transaction]
      /\ tx'[id].status = "none" /\ tx'[id].volume = tx[id].volume
      /\ tx'[id].entries = tx[id].entries /\ tx'[id].backup = copies
      /\ \A i \in Ids \ {id} : tx'[i] = tx[i]
  <2>1. tx \in [Ids -> Transaction] /\ tx[id] \in Transaction
    BY <1>1, <1>3 DEF TypeOK
  <2> HIDE DEF id, copies
  <2> QED BY <1>3, <1>5, <1>6, <2>1 DEF Transaction
<1>9. BackedUp(tx'[id])
  BY <1>8 DEF BackedUp
<1> HIDE DEF id, copies
<1>10. \A i \in Ids : TransactionSound(tx'[i])
  <2>1. TransactionSound(tx'[id])
    BY <1>3, <1>8 DEF UpdateInv, TransactionSound
  <2> QED BY <1>8, <2>1 DEF UpdateInv
<1>11. TypeOK'
  BY <1>1, <1>2, <1>7, <1>8 DEF TypeOK
<1>12. PendingSound'
  BY <1>2, <1>3 DEF PendingSound
<1>13. ProcessSound(p)'
  <2>1. Preparing(p)'
    BY <1>2, <1>3, <1>7, <1>8, <1>9 DEF Preparing, At
  <2>2. Installing(p)' /\ Restoring(p)' /\ proc'[p].pc # "plan"
    BY <1>7 DEF Installing, Restoring, InstallSteps, UndoSteps
  <2> QED BY <2>1, <2>2 DEF ProcessSound
<1>14. lock' = p
  BY <1>1, <1>7, OnlyOne
<1> QED BY <1>1, <1>7, <1>10, <1>11, <1>12, <1>13, <1>14, OneProcessStep

\* Writing the manifest keeps the invariant.
LEMMA WriteManifestStep ==
  ASSUME UpdateInv, NEW p \in Procs, WriteManifest(p)
  PROVE  UpdateInv'
<1> DEFINE id == proc[p].id
<1>1. TypeOK /\ proc[p].pc = "manifest"
  BY DEF UpdateInv, WriteManifest
<1>2. /\ UNCHANGED <<file, pending, faults, edits>> /\ Goto(p, "pending")
      /\ tx' = [tx EXCEPT ![id].status = "prepared"]
  BY DEF WriteManifest
<1>3. /\ id \in Ids /\ pending = None /\ BackedUp(tx[id])
      /\ proc[p].volume = tx[id].volume
      /\ \A k \in DOMAIN tx[id].entries :
           At(tx[id].entries, tx[id].volume, k) # tx[id].entries[k].new
  BY <1>1 DEF UpdateInv, ProcessSound, Preparing, PreparingSteps
<1>4. /\ proc' \in [Procs -> Process] /\ lock' = lock
      /\ \A q \in Procs \ {p} : proc'[q] = proc[q]
      /\ proc'[p].pc = "pending" /\ proc'[p].id = id /\ proc'[p].volume = proc[p].volume
  BY <1>1, <1>2, GotoMoves DEF ApplySteps
<1> HIDE DEF id
<1>5. /\ tx' \in [Ids -> Transaction]
      /\ tx'[id].status = "prepared" /\ tx'[id].volume = tx[id].volume
      /\ tx'[id].entries = tx[id].entries
  BY <1>1, <1>2, <1>3, StatusWritten DEF Statuses
<1>6. \A i \in Ids : TransactionSound(tx'[i])
  BY <1>2, <1>3, StatusSound DEF Statuses
<1>7. TypeOK'
  BY <1>1, <1>2, <1>4, <1>5 DEF TypeOK
<1>8. PendingSound'
  BY <1>2, <1>3 DEF PendingSound
<1>9. ProcessSound(p)'
  <2>1. Preparing(p)'
    BY <1>2, <1>3, <1>4, <1>5 DEF Preparing, At
  <2>2. Installing(p)' /\ Restoring(p)' /\ proc'[p].pc # "plan"
    BY <1>4 DEF Installing, Restoring, InstallSteps, UndoSteps
  <2> QED BY <2>1, <2>2 DEF ProcessSound
<1>10. lock' = p
  BY <1>1, <1>4, OnlyOne
<1> QED BY <1>1, <1>4, <1>6, <1>7, <1>8, <1>9, <1>10, OneProcessStep

\* Writing the pending marker keeps the invariant.
LEMMA WritePendingStep ==
  ASSUME UpdateInv, NEW p \in Procs, WritePending(p)
  PROVE  UpdateInv'
<1> DEFINE id == proc[p].id
<1>1. TypeOK /\ proc[p].pc = "pending"
  BY DEF UpdateInv, WritePending
<1>2. /\ UNCHANGED <<file, tx, lock, faults, edits>> /\ pending' = id
      /\ proc' = [proc EXCEPT ![p].pc = "check", ![p].k = 1]
  BY DEF WritePending
<1>3. /\ id \in Ids /\ tx[id].status # "none"
      /\ proc[p].volume = tx[id].volume
      /\ \A k \in DOMAIN tx[id].entries :
           At(tx[id].entries, tx[id].volume, k) # tx[id].entries[k].new
  BY <1>1 DEF UpdateInv, ProcessSound, Preparing, PreparingSteps
<1>4. /\ proc' \in [Procs -> Process]
      /\ \A q \in Procs \ {p} : proc'[q] = proc[q]
      /\ proc'[p].pc = "check" /\ proc'[p].id = id /\ proc'[p].volume = proc[p].volume
      /\ proc'[p].k = 1
  <2>1. proc \in [Procs -> Process] /\ proc[p] \in Process
    BY <1>1 DEF TypeOK
  <2> QED BY <1>2, <2>1 DEF Process, ApplySteps
<1>5. TypeOK'
  BY <1>1, <1>2, <1>3, <1>4 DEF TypeOK
<1>6. PendingSound'
  BY <1>2, <1>3 DEF PendingSound
<1>7. ProcessSound(p)'
  <2>1. \A k \in DOMAIN tx[id].entries : ~(k < 1)
    BY <1>1, <1>3, TransactionFields
  <2>2. Installing(p)'
    BY <1>2, <1>3, <1>4, <2>1 DEF Installing, At
  <2>3. Preparing(p)' /\ Restoring(p)' /\ proc'[p].pc # "plan"
    BY <1>4 DEF Preparing, Restoring, PreparingSteps, UndoSteps
  <2> QED BY <2>2, <2>3 DEF ProcessSound
<1>8. lock' = p
  BY <1>1, <1>2, OnlyOne
<1>9. \A i \in Ids : TransactionSound(tx'[i])
  BY <1>2 DEF UpdateInv
<1> QED BY <1>1, <1>4, <1>5, <1>6, <1>7, <1>8, <1>9, OneProcessStep

\* The places of a journal are owned files, and no two entries share one.
LEMMA JournalPlaces ==
  ASSUME UpdateInv, NEW id \in Ids
  PROVE  LET t == tx[id]
             Where(k) == Place(t.volume, t.entries[k].target)
         IN /\ \A k \in DOMAIN t.entries : Where(k) \in Places /\ t.entries[k] \in Entry
            /\ \A j, k \in DOMAIN t.entries : Where(j) = Where(k) => j = k
<1> DEFINE t == tx[id]
<1>1. t.entries \in Seq(Entry) /\ TransactionSound(t)
  BY TransactionFields DEF UpdateInv
<1> HIDE DEF t
<1>2. \A k \in DOMAIN t.entries : t.entries[k] \in Entry
  BY <1>1
<1>3. \A k \in DOMAIN t.entries : Place(t.volume, t.entries[k].target) \in Places
  <2> TAKE k \in DOMAIN t.entries
  <2>1. t.entries[k].target \in Targets
    BY <1>2 DEF Entry
  <2>2. t.entries[k].target \in DataTargets => t.volume \in Volumes
    BY <1>1 DEF TransactionSound, Mounted
  <2> QED BY <2>1, <2>2, PlaceTyped
<1>4. ASSUME NEW j \in DOMAIN t.entries, NEW k \in DOMAIN t.entries,
             Place(t.volume, t.entries[j].target) = Place(t.volume, t.entries[k].target)
      PROVE  j = k
  <2>1. t.entries[j].target = t.entries[k].target
    BY <1>4, PlaceInjective
  <2> QED BY <1>1, <2>1 DEF TransactionSound, Ordered
<1> QED BY <1>2, <1>3, <1>4 DEF t

\* Checking a target keeps the invariant.
LEMMA CheckTargetStep ==
  ASSUME UpdateInv, NEW p \in Procs, CheckTarget(p)
  PROVE  UpdateInv'
<1> DEFINE id == proc[p].id
           t == tx[id]
           k == proc[p].k
<1>1. TypeOK /\ proc[p].pc = "check"
  BY DEF UpdateInv, CheckTarget
<1>2. UNCHANGED <<file, tx, pending, faults, edits>>
  BY DEF CheckTarget
<1>3. /\ id \in Ids /\ proc[p].volume = t.volume /\ t.status # "none" /\ k >= 1
      /\ ~proc[p].raced =>
           \A i \in DOMAIN t.entries : At(t.entries, t.volume, i) = t.entries[i].new <=> i < k
  BY <1>1 DEF UpdateInv, ProcessSound, Installing, InstallSteps
<1>4. k \in Nat /\ t.entries \in Seq(Entry)
  BY <1>1, <1>3, ProcessFields, TransactionFields
<1>5. PendingSound' /\ \A i \in Ids : TransactionSound(tx'[i])
  BY <1>2 DEF UpdateInv, PendingSound
<1>6. lock = p
  BY <1>1, OnlyOne
<1>7. CASE Goto(p, "load")
  BY <1>1, <1>2, <1>5, <1>7, LoadStep DEF TypeOK
<1>8. CASE Goto(p, "commit") /\ k > Len(t.entries)
  <2>1. /\ proc' \in [Procs -> Process] /\ lock' = lock
        /\ \A q \in Procs \ {p} : proc'[q] = proc[q]
        /\ proc'[p].pc = "commit" /\ proc'[p].id = id
        /\ proc'[p].volume = proc[p].volume /\ proc'[p].raced = proc[p].raced
    BY <1>1, <1>8, GotoMoves DEF ApplySteps
  <2>2. TypeOK'
    BY <1>1, <1>2, <2>1 DEF TypeOK
  <2>3. \A i \in DOMAIN t.entries : i < k
    BY <1>4, <1>8
  <2>4. Installing(p)'
    BY <1>2, <1>3, <2>1, <2>3 DEF Installing, At
  <2>5. Preparing(p)' /\ Restoring(p)' /\ proc'[p].pc # "plan"
    BY <2>1 DEF Preparing, Restoring, PreparingSteps, UndoSteps
  <2> QED BY <1>1, <1>5, <1>6, <2>1, <2>2, <2>4, <2>5, OneProcessStep DEF ProcessSound
<1>9. CASE /\ Goto(p, "replace") /\ ~(k > Len(t.entries))
           /\ At(t.entries, t.volume, k) = t.entries[k].old
  <2>1. /\ proc' \in [Procs -> Process] /\ lock' = lock
        /\ \A q \in Procs \ {p} : proc'[q] = proc[q]
        /\ proc'[p].pc = "replace" /\ proc'[p].id = id /\ proc'[p].k = k
        /\ proc'[p].volume = proc[p].volume /\ proc'[p].raced = proc[p].raced
    BY <1>1, <1>9, GotoMoves DEF ApplySteps
  <2>2. TypeOK'
    BY <1>1, <1>2, <2>1 DEF TypeOK
  <2>3. k \in DOMAIN t.entries
    BY <1>3, <1>4, <1>9
  <2>4. Installing(p)'
    BY <1>2, <1>3, <1>9, <2>1, <2>3 DEF Installing, At
  <2>5. Preparing(p)' /\ Restoring(p)' /\ proc'[p].pc # "plan"
    BY <2>1 DEF Preparing, Restoring, PreparingSteps, UndoSteps
  <2> QED BY <1>1, <1>5, <1>6, <2>1, <2>2, <2>4, <2>5, OneProcessStep DEF ProcessSound
<1> QED BY <1>3, <1>7, <1>8, <1>9 DEF CheckTarget, Journal, EntryPlace, At

\* Replacing a target keeps the invariant.
LEMMA ReplaceTargetStep ==
  ASSUME UpdateInv, NEW p \in Procs, ReplaceTarget(p)
  PROVE  UpdateInv'
<1> DEFINE id == proc[p].id
           t == tx[id]
           k == proc[p].k
           Where(i) == Place(t.volume, t.entries[i].target)
<1>1. TypeOK /\ proc[p].pc = "replace"
  BY DEF UpdateInv, ReplaceTarget
<1>2. UNCHANGED <<tx, pending, edits>>
  BY DEF ReplaceTarget
<1>3. /\ id \in Ids /\ proc[p].volume = t.volume /\ t.status # "none" /\ k >= 1
      /\ k \in DOMAIN t.entries
      /\ ~proc[p].raced =>
           \A i \in DOMAIN t.entries : At(t.entries, t.volume, i) = t.entries[i].new <=> i < k
  BY <1>1 DEF UpdateInv, ProcessSound, Installing, InstallSteps
<1>4. k \in Nat /\ t.entries \in Seq(Entry)
  BY <1>1, <1>3, ProcessFields, TransactionFields
<1>5. /\ \A i \in DOMAIN t.entries : Where(i) \in Places /\ t.entries[i] \in Entry
      /\ \A i, j \in DOMAIN t.entries : Where(i) = Where(j) => i = j
  BY <1>3, JournalPlaces
<1>6. file' = [file EXCEPT ![Where(k)] = t.entries[k].new]
  BY <1>3 DEF ReplaceTarget, Journal, EntryPlace
<1>7. file' \in [Places -> Contents \cup {Absent}]
  <2>1. t.entries[k].new \in Contents
    BY <1>3, <1>5 DEF Entry
  <2> QED BY <1>1, <1>6, <2>1 DEF TypeOK
<1>8. PendingSound' /\ \A i \in Ids : TransactionSound(tx'[i])
  BY <1>2 DEF UpdateInv, PendingSound
<1>9. lock = p
  BY <1>1, OnlyOne
<1>10. CASE Goto(p, "load") /\ Fault
  BY <1>1, <1>2, <1>7, <1>8, <1>10, LoadStep, FaultTyped DEF TypeOK
<1>11. CASE /\ proc' = [proc EXCEPT ![p].pc = "check", ![p].k = @ + 1]
            /\ UNCHANGED <<lock, faults>>
  <2>1. /\ proc' \in [Procs -> Process]
        /\ \A q \in Procs \ {p} : proc'[q] = proc[q]
        /\ proc'[p].pc = "check" /\ proc'[p].id = id /\ proc'[p].k = k + 1
        /\ proc'[p].volume = proc[p].volume /\ proc'[p].raced = proc[p].raced
    <3>1. proc \in [Procs -> Process] /\ proc[p] \in Process
      BY <1>1 DEF TypeOK
    <3> QED BY <1>4, <1>11, <3>1 DEF Process, ApplySteps
  <2>2. TypeOK'
    BY <1>1, <1>2, <1>7, <1>11, <2>1 DEF TypeOK
  <2>3. \A i \in DOMAIN t.entries :
          file'[Where(i)] = IF i = k THEN t.entries[k].new ELSE file[Where(i)]
    BY <1>1, <1>3, <1>5, <1>6 DEF TypeOK
  <2>4. \A i \in DOMAIN t.entries : i < k + 1 <=> (i = k \/ i < k)
    <3> HIDE DEF t, k
    <3>1. \A i \in DOMAIN t.entries : i \in Nat
      BY <1>4
    <3> QED BY <1>4, <3>1
  <2>5. ~proc[p].raced =>
          \A i \in DOMAIN t.entries : file'[Where(i)] = t.entries[i].new <=> i < k + 1
    BY <1>3, <2>3, <2>4 DEF At
  <2>6. k + 1 >= 1
    BY <1>4
  <2> HIDE DEF id, k
  <2>7. Installing(p)'
    BY <1>2, <1>3, <2>1, <2>5, <2>6 DEF Installing, At
  <2>8. Preparing(p)' /\ Restoring(p)' /\ proc'[p].pc # "plan"
    BY <2>1 DEF Preparing, Restoring, PreparingSteps, UndoSteps
  <2> QED BY <1>1, <1>8, <1>9, <1>11, <2>1, <2>2, <2>7, <2>8, OneProcessStep DEF ProcessSound
<1> QED BY <1>10, <1>11 DEF ReplaceTarget

\* Committing the manifest keeps the invariant.
LEMMA CommitManifestStep ==
  ASSUME UpdateInv, NEW p \in Procs, CommitManifest(p)
  PROVE  UpdateInv'
<1> DEFINE id == proc[p].id
           t == tx[id]
<1>1. TypeOK /\ proc[p].pc = "commit"
  BY DEF UpdateInv, CommitManifest
<1>2. /\ UNCHANGED <<file, pending, edits>>
      /\ tx' = [tx EXCEPT ![id].status = "committed"]
  BY DEF CommitManifest
<1>3. /\ id \in Ids /\ proc[p].volume = t.volume /\ t.status # "none"
      /\ ~proc[p].raced =>
           \A i \in DOMAIN t.entries : At(t.entries, t.volume, i) = t.entries[i].new
  BY <1>1 DEF UpdateInv, ProcessSound, Installing, InstallSteps
<1>4. BackedUp(t)
  BY <1>3 DEF UpdateInv, TransactionSound
<1>5. /\ tx' \in [Ids -> Transaction]
      /\ tx'[id].status = "committed" /\ tx'[id].volume = t.volume
      /\ tx'[id].entries = t.entries
      /\ \A i \in Ids \ {id} : tx'[i] = tx[i]
  BY <1>1, <1>2, <1>3, StatusWritten DEF Statuses
<1>6. \A i \in Ids : TransactionSound(tx'[i])
  BY <1>2, <1>3, <1>4, StatusSound DEF Statuses
<1>7. \A i \in Ids : tx[i].status # "none" => tx'[i].status # "none"
  BY <1>5
<1>8. CASE Goto(p, "load") /\ Fault
  BY <1>1, <1>2, <1>5, <1>6, <1>7, <1>8, LoadStep, FaultTyped DEF TypeOK
<1>9. CASE Goto(p, "unlink") /\ UNCHANGED faults
  <2>1. /\ proc' \in [Procs -> Process] /\ lock' = lock
        /\ \A q \in Procs \ {p} : proc'[q] = proc[q]
        /\ proc'[p].pc = "unlink" /\ proc'[p].id = id
        /\ proc'[p].volume = proc[p].volume /\ proc'[p].raced = proc[p].raced
    BY <1>1, <1>9, GotoMoves DEF ApplySteps
  <2>2. TypeOK'
    BY <1>1, <1>2, <1>5, <1>9, <2>1 DEF TypeOK
  <2>3. PendingSound'
    BY <1>1, <1>2, <1>7 DEF UpdateInv, PendingSound, TypeOK
  <2> HIDE DEF id
  <2>4. Installing(p)'
    BY <1>2, <1>3, <1>5, <2>1 DEF Installing, At
  <2>5. Preparing(p)' /\ Restoring(p)' /\ proc'[p].pc # "plan"
    BY <2>1 DEF Preparing, Restoring, PreparingSteps, UndoSteps
  <2>6. lock' = p
    BY <1>1, <2>1, OnlyOne
  <2> QED BY <1>1, <1>6, <2>1, <2>2, <2>3, <2>4, <2>5, <2>6, OneProcessStep DEF ProcessSound
<1> QED BY <1>8, <1>9 DEF CommitManifest, Try

\* A failed call in the try, and the unlink of pending.json.
LEMMA CommitUnlinkStep ==
  ASSUME UpdateInv, NEW p \in Procs, CommitUnlink(p) \/ Caught(p)
  PROVE  UpdateInv'
<1>1. TypeOK /\ proc[p].pc # "idle"
  BY DEF UpdateInv, CommitUnlink, Caught
<1>2. UNCHANGED <<file, tx, edits>> /\ pending' \in {None, pending}
  BY DEF CommitUnlink, Caught
<1>3. /\ file' \in [Places -> Contents \cup {Absent}] /\ tx' \in [Ids -> Transaction]
      /\ \A i \in Ids : TransactionSound(tx'[i])
  BY <1>1, <1>2 DEF TypeOK, UpdateInv
<1>4. CASE Exit(p) /\ UNCHANGED faults
  BY <1>1, <1>2, <1>4, ExitStep DEF TypeOK
<1>5. CASE Goto(p, "load") /\ Fault
  BY <1>1, <1>2, <1>3, <1>5, FaultTyped, LoadStep
<1> QED BY <1>4, <1>5 DEF CommitUnlink, Caught

---------------------------------------------------------------------------
(***************************************************************************)
(* The steps of rollback and recovery.                                     *)
(***************************************************************************)
LEMMA StartRollbackStep ==
  ASSUME UpdateInv, NEW p \in Procs, StartRollback(p)
  PROVE  UpdateInv'
<1>1. TypeOK /\ lock = None
  BY DEF UpdateInv, StartRollback
<1>2. PICK id \in Ids \cup {None}, volume \in Volumes \cup {None} :
        proc' = [proc EXCEPT ![p] = [Idle EXCEPT !.pc = "load", !.id = id, !.volume = volume]]
  BY DEF StartRollback
<1> DEFINE new == [Idle EXCEPT !.pc = "load", !.id = id, !.volume = volume]
<1>3. new \in Process /\ new.pc = "load"
  <2>1. <<>> \in Seq(PayloadItem)
    OBVIOUS
  <2> QED BY <2>1 DEF Idle, Process, RestoreSteps
<1> HIDE DEF new
<1>4. proc' = [proc EXCEPT ![p] = new]
  BY <1>2 DEF new
<1>5. /\ proc' \in [Procs -> Process] /\ proc'[p] = new
      /\ \A q \in Procs \ {p} : proc'[q] = proc[q]
  BY <1>1, <1>3, <1>4 DEF TypeOK
<1>6. TypeOK'
  BY <1>1, <1>5 DEF TypeOK, StartRollback
<1>7. ProcessSound(p)'
  BY <1>3, <1>5 DEF ProcessSound, Preparing, Installing, Restoring,
                    PreparingSteps, InstallSteps, UndoSteps
<1>8. PendingSound' /\ \A i \in Ids : TransactionSound(tx'[i])
  BY DEF UpdateInv, PendingSound, StartRollback
<1>9. lock' = p /\ proc'[p].pc # "idle"
  BY <1>3, <1>5 DEF StartRollback
<1> QED BY <1>1, <1>5, <1>6, <1>7, <1>8, <1>9, OneProcessStep

\* The first loop of restore establishes what the second relies on.
LEMMA LoadJournalStep ==
  ASSUME UpdateInv, NEW p \in Procs, LoadJournal(p)
  PROVE  UpdateInv'
<1> DEFINE id == Wanted(p)
           t == tx[id]
<1>1. TypeOK /\ proc[p].pc = "load"
  BY DEF UpdateInv, LoadJournal
<1>2. UNCHANGED <<file, tx, pending, lock, faults, edits>>
  BY DEF LoadJournal
<1>3. proc' = [proc EXCEPT ![p].pc = "restore", ![p].id = id, ![p].k = 1]
  BY DEF LoadJournal
<1>4. id \in Ids /\ t.status # "none"
  <2>1. id \in Ids \cup {None}
    BY <1>1, ProcessFields DEF Wanted, TypeOK
  <2> QED BY <2>1 DEF LoadJournal, Loadable
<1>5. \A k \in DOMAIN t.entries :
        Place(proc[p].volume, t.entries[k].target) = Place(t.volume, t.entries[k].target)
  <2> TAKE k \in DOMAIN t.entries
  <2>1. t.entries[k] \in Entry
    BY <1>4, JournalPlaces
  <2>2. t.entries[k].target \in EspTargets \/ t.entries[k].target \in DataTargets
    BY <2>1 DEF Entry, Targets
  <2>3. t.entries[k].target \in DataTargets => proc[p].volume = t.volume
    BY DEF LoadJournal, Loadable
  <2> QED BY <2>2, <2>3 DEF Place
<1>6. \A k \in DOMAIN t.entries :
        At(t.entries, t.volume, k) \in {Absent, t.entries[k].old, t.entries[k].new}
  BY <1>5 DEF LoadJournal, Restorable, At
<1>7. /\ proc' \in [Procs -> Process]
      /\ \A q \in Procs \ {p} : proc'[q] = proc[q]
      /\ proc'[p].pc = "restore" /\ proc'[p].id = id /\ proc'[p].k = 1
      /\ proc'[p].volume = proc[p].volume
  <2>1. proc \in [Procs -> Process] /\ proc[p] \in Process
    BY <1>1 DEF TypeOK
  <2> HIDE DEF id
  <2> QED BY <1>3, <1>4, <2>1 DEF Process, RestoreSteps
<1>8. \A k \in DOMAIN t.entries : ~(k < 1)
  <2>1. t.entries \in Seq(Entry)
    BY <1>1, <1>4, TransactionFields
  <2> HIDE DEF t
  <2> QED BY <2>1
<1> HIDE DEF id
<1>9. TypeOK'
  BY <1>1, <1>2, <1>7 DEF TypeOK
<1>10. Restoring(p)'
  BY <1>2, <1>4, <1>5, <1>6, <1>7, <1>8 DEF Restoring, At
<1>11. Preparing(p)' /\ Installing(p)' /\ proc'[p].pc # "plan"
  BY <1>7 DEF Preparing, Installing, PreparingSteps, InstallSteps
<1>12. PendingSound' /\ \A i \in Ids : TransactionSound(tx'[i])
  BY <1>2 DEF UpdateInv, PendingSound
<1>13. lock' = p
  BY <1>1, <1>2, OnlyOne
<1> QED BY <1>1, <1>7, <1>9, <1>10, <1>11, <1>12, <1>13, OneProcessStep DEF ProcessSound

\* Restoring a target keeps the invariant.
LEMMA RestoreTargetStep ==
  ASSUME UpdateInv, NEW p \in Procs, RestoreTarget(p)
  PROVE  UpdateInv'
<1> DEFINE id == proc[p].id
           t == tx[id]
           k == proc[p].k
           Where(i) == Place(t.volume, t.entries[i].target)
<1>1. TypeOK /\ proc[p].pc = "restore"
  BY DEF UpdateInv, RestoreTarget
<1>2. UNCHANGED <<tx, pending, faults, edits>>
  BY DEF RestoreTarget
<1>3. /\ id \in Ids /\ t.status # "none" /\ k >= 1
      /\ \A i \in DOMAIN t.entries : Place(proc[p].volume, t.entries[i].target) = Where(i)
      /\ ~proc[p].raced =>
           \A i \in DOMAIN t.entries :
             IF i < k THEN file[Where(i)] = t.entries[i].old
                      ELSE file[Where(i)] \in {Absent, t.entries[i].old, t.entries[i].new}
  BY <1>1 DEF UpdateInv, ProcessSound, Restoring, UndoSteps, At
<1>4. k \in Nat /\ t.entries \in Seq(Entry)
  BY <1>1, <1>3, ProcessFields, TransactionFields
<1>5. /\ \A i \in DOMAIN t.entries : Where(i) \in Places /\ t.entries[i] \in Entry
      /\ \A i, j \in DOMAIN t.entries : Where(i) = Where(j) => i = j
  BY <1>3, JournalPlaces
<1>6. PendingSound' /\ \A i \in Ids : TransactionSound(tx'[i])
  BY <1>2 DEF UpdateInv, PendingSound
<1>7. lock = p
  BY <1>1, OnlyOne
<1>8. CASE k > Len(t.entries) /\ Goto(p, "rolledback") /\ UNCHANGED file
  <2>1. /\ proc' \in [Procs -> Process] /\ lock' = lock
        /\ \A q \in Procs \ {p} : proc'[q] = proc[q]
        /\ proc'[p].pc = "rolledback" /\ proc'[p].id = id /\ proc'[p].k = k
        /\ proc'[p].volume = proc[p].volume /\ proc'[p].raced = proc[p].raced
    BY <1>1, <1>8, GotoMoves DEF RestoreSteps
  <2>2. TypeOK'
    BY <1>1, <1>2, <1>8, <2>1 DEF TypeOK
  <2>3. \A i \in DOMAIN t.entries : i < k
    BY <1>4, <1>8
  <2>4. Restoring(p)'
    BY <1>2, <1>3, <1>8, <2>1, <2>3 DEF Restoring, At
  <2>5. Preparing(p)' /\ Installing(p)' /\ proc'[p].pc # "plan"
    BY <2>1 DEF Preparing, Installing, PreparingSteps, InstallSteps
  <2> QED BY <1>1, <1>6, <1>7, <2>1, <2>2, <2>4, <2>5, OneProcessStep DEF ProcessSound
<1>9. CASE /\ ~(k > Len(t.entries))
           /\ file' = [file EXCEPT ![EntryPlace(p, k)] = Journal(p)[k].old]
           /\ proc' = [proc EXCEPT ![p].k = @ + 1]
           /\ UNCHANGED lock
  <2>1. /\ proc' \in [Procs -> Process]
        /\ \A q \in Procs \ {p} : proc'[q] = proc[q]
        /\ proc'[p].pc = "restore" /\ proc'[p].id = id /\ proc'[p].k = k + 1
        /\ proc'[p].volume = proc[p].volume /\ proc'[p].raced = proc[p].raced
    <3>1. proc \in [Procs -> Process] /\ proc[p] \in Process
      BY <1>1 DEF TypeOK
    <3>2. k + 1 \in Nat /\ proc' = [proc EXCEPT ![p].k = k + 1]
      BY <1>4, <1>9
    <3> HIDE DEF k
    <3> QED BY <1>1, <3>1, <3>2 DEF Process, RestoreSteps
  <2>2. k \in DOMAIN t.entries
    BY <1>3, <1>4, <1>9
  <2>3. file' = [file EXCEPT ![Where(k)] = t.entries[k].old]
    BY <1>3, <1>9, <2>2 DEF EntryPlace, Journal
  <2>4. file' \in [Places -> Contents \cup {Absent}]
    <3>1. t.entries[k].old \in Contents \cup {Absent}
      BY <1>5, <2>2 DEF Entry
    <3> QED BY <1>1, <2>3, <3>1 DEF TypeOK
  <2>5. TypeOK'
    BY <1>1, <1>2, <1>9, <2>1, <2>4 DEF TypeOK
  <2>6. \A i \in DOMAIN t.entries :
          file'[Where(i)] = IF i = k THEN t.entries[k].old ELSE file[Where(i)]
    BY <1>1, <1>5, <2>2, <2>3 DEF TypeOK
  <2>7. \A i \in DOMAIN t.entries : i < k + 1 <=> (i = k \/ i < k)
    <3> HIDE DEF t, k
    <3>1. \A i \in DOMAIN t.entries : i \in Nat
      BY <1>4
    <3> QED BY <1>4, <3>1
  <2>8. ~proc[p].raced =>
          \A i \in DOMAIN t.entries :
            IF i < k + 1 THEN file'[Where(i)] = t.entries[i].old
            ELSE file'[Where(i)] \in {Absent, t.entries[i].old, t.entries[i].new}
    BY <1>3, <2>6, <2>7
  <2>9. k + 1 >= 1
    BY <1>4
  <2> HIDE DEF id, k
  <2>10. Restoring(p)'
    BY <1>2, <1>3, <2>1, <2>8, <2>9 DEF Restoring, At
  <2>11. Preparing(p)' /\ Installing(p)' /\ proc'[p].pc # "plan"
    BY <2>1 DEF Preparing, Installing, PreparingSteps, InstallSteps
  <2> QED BY <1>1, <1>6, <1>7, <1>9, <2>1, <2>5, <2>10, <2>11, OneProcessStep DEF ProcessSound
<1> QED BY <1>8, <1>9 DEF RestoreTarget, Journal

\* Finishing the manifest of a rollback keeps the invariant.
LEMMA FinishManifestStep ==
  ASSUME UpdateInv, NEW p \in Procs, FinishManifest(p)
  PROVE  UpdateInv'
<1> DEFINE id == proc[p].id
           t == tx[id]
<1>1. TypeOK /\ proc[p].pc = "rolledback"
  BY DEF UpdateInv, FinishManifest
<1>2. /\ UNCHANGED <<file, pending, faults, edits>> /\ Goto(p, "clear")
      /\ tx' = [tx EXCEPT ![id].status = "rolled_back"]
  BY DEF FinishManifest
<1>3. /\ id \in Ids /\ t.status # "none" /\ proc[p].k >= 1
      /\ \A i \in DOMAIN t.entries :
           Place(proc[p].volume, t.entries[i].target) = Place(t.volume, t.entries[i].target)
  BY <1>1 DEF UpdateInv, ProcessSound, Restoring, UndoSteps
<1>4. BackedUp(t)
  BY <1>3 DEF UpdateInv, TransactionSound
<1>5. /\ tx' \in [Ids -> Transaction]
      /\ tx'[id].status = "rolled_back" /\ tx'[id].volume = t.volume
      /\ tx'[id].entries = t.entries
      /\ \A i \in Ids \ {id} : tx'[i] = tx[i]
  BY <1>1, <1>2, <1>3, StatusWritten DEF Statuses
<1>6. \A i \in Ids : TransactionSound(tx'[i])
  BY <1>2, <1>3, <1>4, StatusSound DEF Statuses
<1>7. /\ proc' \in [Procs -> Process] /\ lock' = lock
      /\ \A q \in Procs \ {p} : proc'[q] = proc[q]
      /\ proc'[p].pc = "clear" /\ proc'[p].id = id
      /\ proc'[p].volume = proc[p].volume /\ proc'[p].k = proc[p].k
  BY <1>1, <1>2, GotoMoves DEF RestoreSteps
<1>8. TypeOK'
  BY <1>1, <1>2, <1>5, <1>7 DEF TypeOK
<1>9. PendingSound'
  BY <1>1, <1>2, <1>5 DEF UpdateInv, PendingSound, TypeOK
<1> HIDE DEF id
<1>10. Restoring(p)'
  BY <1>2, <1>3, <1>5, <1>7 DEF Restoring
<1>11. Preparing(p)' /\ Installing(p)' /\ proc'[p].pc # "plan"
  BY <1>7 DEF Preparing, Installing, PreparingSteps, InstallSteps
<1>12. lock' = p
  BY <1>1, <1>7, OnlyOne
<1> QED BY <1>1, <1>6, <1>7, <1>8, <1>9, <1>10, <1>11, <1>12, OneProcessStep DEF ProcessSound

---------------------------------------------------------------------------
(***************************************************************************)
(* The outside world.                                                      *)
(***************************************************************************)
\* An edit leaves every process where it is and marks the one it disturbs.
LEMMA DisturbsOne ==
  ASSUME TypeOK, NEW place, proc' = Disturbs(place)
  PROVE  /\ proc' \in [Procs -> Process]
         /\ \A p \in Procs :
              /\ proc'[p].pc = proc[p].pc /\ proc'[p].id = proc[p].id
              /\ proc'[p].volume = proc[p].volume /\ proc'[p].payload = proc[p].payload
              /\ proc'[p].k = proc[p].k
              /\ proc[p].pc = "idle" => proc'[p] = proc[p]
              /\ ~proc'[p].raced =>
                   /\ ~proc[p].raced
                   /\ proc[p].pc \in {"check", "replace", "commit", "unlink",
                                      "restore", "rolledback"} =>
                        \A k \in DOMAIN Journal(p) : EntryPlace(p, k) # place
<1> DEFINE Hit(p) ==
             /\ proc[p].pc \in {"check", "replace", "commit", "unlink", "restore", "rolledback"}
             /\ \E k \in DOMAIN Journal(p) : EntryPlace(p, k) = place
<1>1. proc' = [p \in Procs |-> IF Hit(p) THEN [proc[p] EXCEPT !.raced = TRUE] ELSE proc[p]]
  BY DEF Disturbs
<1>2. \A p \in Procs : proc[p] \in Process
  BY DEF TypeOK
<1>3. \A p \in Procs : proc[p].pc = "idle" => ~Hit(p)
  OBVIOUS
<1>4. \A p \in Procs : ~Hit(p) =>
        (proc[p].pc \in {"check", "replace", "commit", "unlink", "restore", "rolledback"} =>
           \A k \in DOMAIN Journal(p) : EntryPlace(p, k) # place)
  OBVIOUS
<1> HIDE DEF Hit
<1>5. \A p \in Procs :
        LET marked == [proc[p] EXCEPT !.raced = TRUE]
        IN /\ marked \in Process /\ marked.pc = proc[p].pc /\ marked.id = proc[p].id
           /\ marked.volume = proc[p].volume /\ marked.payload = proc[p].payload
           /\ marked.k = proc[p].k /\ marked.raced = TRUE
  BY <1>2 DEF Process
<1>6. \A p \in Procs : proc'[p] = IF Hit(p) THEN [proc[p] EXCEPT !.raced = TRUE] ELSE proc[p]
  BY <1>1
<1>7. proc' \in [Procs -> Process]
  BY <1>1, <1>2, <1>5
<1> SUFFICES ASSUME NEW p \in Procs
    PROVE  /\ proc'[p].pc = proc[p].pc /\ proc'[p].id = proc[p].id
           /\ proc'[p].volume = proc[p].volume /\ proc'[p].payload = proc[p].payload
           /\ proc'[p].k = proc[p].k
           /\ proc[p].pc = "idle" => proc'[p] = proc[p]
           /\ ~proc'[p].raced =>
                /\ ~proc[p].raced
                /\ proc[p].pc \in {"check", "replace", "commit", "unlink",
                                   "restore", "rolledback"} =>
                     \A k \in DOMAIN Journal(p) : EntryPlace(p, k) # place
  BY <1>7
<1>8. CASE Hit(p)
  <2>1. proc[p].pc # "idle"
    BY <1>3, <1>8
  <2>2. proc'[p] = [proc[p] EXCEPT !.raced = TRUE]
    BY <1>6, <1>8
  <2> QED BY <1>5, <2>1, <2>2
<1>9. CASE ~Hit(p)
  BY <1>4, <1>6, <1>9
<1> QED BY <1>8, <1>9

\* User edits never install anything, and mark the process they disturb.
LEMMA EditStep ==
  ASSUME UpdateInv, NEW place \in Places, Edit(place)
  PROVE  UpdateInv'
<1>1. TypeOK /\ UNCHANGED <<tx, pending, lock, faults>>
  BY DEF UpdateInv, Edit
<1>2. /\ proc' \in [Procs -> Process]
      /\ \A p \in Procs :
           /\ proc'[p].pc = proc[p].pc /\ proc'[p].id = proc[p].id
           /\ proc'[p].volume = proc[p].volume /\ proc'[p].payload = proc[p].payload
           /\ proc'[p].k = proc[p].k
           /\ proc[p].pc = "idle" => proc'[p] = proc[p]
           /\ ~proc'[p].raced =>
                /\ ~proc[p].raced
                /\ proc[p].pc \in {"check", "replace", "commit", "unlink",
                                   "restore", "rolledback"} =>
                     \A k \in DOMAIN Journal(p) : EntryPlace(p, k) # place
  BY <1>1, DisturbsOne DEF Edit
<1>3. /\ file' \in [Places -> Contents \cup {Absent}]
      /\ file'[place] \in {Foreign, Absent}
      /\ \A other \in Places \ {place} : file'[other] = file[other]
  BY <1>1, NameAssumption DEF Edit, TypeOK
<1>4. edits' \in 0 .. MaxEdits
  BY <1>1, NameAssumption DEF Edit, TypeOK
<1>5. TypeOK'
  BY <1>1, <1>2, <1>3, <1>4 DEF TypeOK
<1>6. Mutex'
  <2>1. Idle.pc = "idle"
    BY DEF Idle
  <2> QED BY <1>1, <1>2, <2>1 DEF UpdateInv, Mutex
<1>7. PendingSound' /\ \A i \in Ids : TransactionSound(tx'[i])
  BY <1>1 DEF UpdateInv, PendingSound
<1>8. ASSUME NEW p \in Procs
      PROVE  ProcessSound(p)'
  <2> DEFINE id == proc[p].id
             t == tx[id]
             Where(i) == Place(t.volume, t.entries[i].target)
  <2>1. ProcessSound(p)
    BY DEF UpdateInv
  <2>2. id \in Ids =>
          \A k \in DOMAIN t.entries : Where(k) \in Places /\ t.entries[k] \in Entry
    BY JournalPlaces
  <2>3. ~proc'[p].raced =>
          /\ ~proc[p].raced
          /\ proc[p].pc \in {"check", "replace", "commit", "unlink", "restore", "rolledback"} =>
               \A k \in DOMAIN t.entries : Place(proc[p].volume, t.entries[k].target) # place
    BY <1>2 DEF Journal, EntryPlace
  <2>4. /\ proc'[p].pc = proc[p].pc /\ proc'[p].id = id /\ proc'[p].volume = proc[p].volume
        /\ proc'[p].k = proc[p].k /\ proc'[p].payload = proc[p].payload
    BY <1>2
  <2>5. proc'[p].pc = "plan" => Applicable(proc'[p].payload, proc'[p].volume)
    BY <2>1, <2>4 DEF ProcessSound
  <2> HIDE DEF id
  <2>6. Preparing(p)'
    <3>1. id \in Ids => \A k \in DOMAIN t.entries :
            /\ t.entries[k].new \notin {Foreign, Absent}
            /\ file'[Where(k)] \in {Foreign, Absent, file[Where(k)]}
      BY <1>3, <2>2, NameAssumption DEF Entry
    <3>2. Preparing(p)
      BY <2>1 DEF ProcessSound
    <3> QED BY <1>1, <2>4, <3>1, <3>2 DEF Preparing, At, id
  <2>7. Installing(p)'
    <3>1. Installing(p)
      BY <2>1 DEF ProcessSound
    <3> SUFFICES ASSUME proc[p].pc \in InstallSteps
        PROVE  Installing(p)'
      BY <2>4 DEF Installing
    <3>2. id \in Ids /\ proc[p].volume = t.volume
      BY <3>1 DEF Installing, id
    <3>3. ~proc'[p].raced =>
            ~proc[p].raced /\ \A k \in DOMAIN t.entries : file'[Where(k)] = file[Where(k)]
      BY <1>3, <2>2, <2>3, <3>2 DEF InstallSteps
    <3> QED BY <1>1, <2>4, <3>1, <3>3 DEF Installing, At, id
  <2>8. Restoring(p)'
    <3>1. Restoring(p)
      BY <2>1 DEF ProcessSound
    <3> SUFFICES ASSUME proc[p].pc \in UndoSteps
        PROVE  Restoring(p)'
      BY <2>4 DEF Restoring
    <3>2. /\ id \in Ids
          /\ \A k \in DOMAIN t.entries : Place(proc[p].volume, t.entries[k].target) = Where(k)
      BY <3>1 DEF Restoring, id
    <3>3. ~proc'[p].raced /\ proc[p].pc # "clear" =>
            ~proc[p].raced /\ \A k \in DOMAIN t.entries : file'[Where(k)] = file[Where(k)]
      BY <1>3, <2>2, <2>3, <3>2 DEF UndoSteps
    <3>4. /\ t.status # "none" /\ proc[p].k >= 1
          /\ ~proc[p].raced /\ proc[p].pc # "clear" =>
               \A k \in DOMAIN t.entries :
                 IF proc[p].pc = "rolledback" \/ k < proc[p].k
                 THEN file[Where(k)] = t.entries[k].old
                 ELSE file[Where(k)] \in {Absent, t.entries[k].old, t.entries[k].new}
      BY <3>1 DEF Restoring, At, id
    <3>5. ~proc'[p].raced /\ proc[p].pc # "clear" =>
            \A k \in DOMAIN t.entries :
              IF proc[p].pc = "rolledback" \/ k < proc[p].k
              THEN file'[Where(k)] = t.entries[k].old
              ELSE file'[Where(k)] \in {Absent, t.entries[k].old, t.entries[k].new}
      BY <3>3, <3>4
    <3>6. tx'[proc'[p].id] = t
      BY <1>1, <2>4
    <3> HIDE DEF t
    <3>7. t = tx'[proc'[p].id] /\ proc'[p].id \in Ids
      BY <2>4, <3>2, <3>6
    <3> QED BY <2>4, <3>2, <3>4, <3>5, <3>7 DEF Restoring, At
  <2>9. Applicable(proc'[p].payload, proc'[p].volume) <=> Applicable(proc[p].payload, proc[p].volume)'
    BY DEF Applicable
  <2> QED BY <2>5, <2>6, <2>7, <2>8, <2>9 DEF ProcessSound
<1> QED BY <1>5, <1>6, <1>7, <1>8 DEF UpdateInv

\* A damaged backup is not the old content any more, and nothing else changes.
LEMMA DamageStep ==
  ASSUME UpdateInv, NEW id \in Ids, Damage(id)
  PROVE  UpdateInv'
<1>1. TypeOK /\ UNCHANGED <<file, pending, lock, proc, faults>>
  BY DEF UpdateInv, Damage
<1>2. PICK k \in DOMAIN tx[id].backup : tx' = [tx EXCEPT ![id].backup[k] = Foreign]
  BY DEF Damage
<1>3. tx[id] \in Transaction /\ tx[id].backup \in Seq(Contents \cup {Absent})
  BY <1>1, TransactionFields
<1> DEFINE damaged == [tx[id].backup EXCEPT ![k] = Foreign]
<1>4. damaged \in Seq(Contents \cup {Absent}) /\ DOMAIN damaged = DOMAIN tx[id].backup
  BY <1>3, NameAssumption
<1>5. \A j \in DOMAIN damaged : damaged[j] \in {tx[id].backup[j], Foreign}
  BY <1>3
<1>6. tx' = [tx EXCEPT ![id].backup = damaged]
  BY <1>2
<1> HIDE DEF damaged
<1>7. /\ tx' \in [Ids -> Transaction]
      /\ tx'[id].status = tx[id].status /\ tx'[id].volume = tx[id].volume
      /\ tx'[id].entries = tx[id].entries /\ tx'[id].backup = damaged
      /\ \A i \in Ids \ {id} : tx'[i] = tx[i]
  BY <1>1, <1>3, <1>4, <1>6 DEF TypeOK, Transaction
<1>8. BackedUp(tx[id]) => BackedUp(tx'[id])
  BY <1>4, <1>5, <1>7 DEF BackedUp
<1>9. \A i \in Ids : TransactionSound(tx'[i]) /\ (BackedUp(tx[i]) => BackedUp(tx'[i]))
  BY <1>7, <1>8 DEF UpdateInv, TransactionSound
<1>10. \A i \in Ids : /\ tx'[i].status = tx[i].status /\ tx'[i].volume = tx[i].volume
                      /\ tx'[i].entries = tx[i].entries
  BY <1>7
<1>11. edits' \in 0 .. MaxEdits
  BY <1>1, NameAssumption DEF Damage, TypeOK
<1>12. TypeOK'
  BY <1>1, <1>7, <1>11 DEF TypeOK
<1>13. Mutex' /\ PendingSound'
  BY <1>1, <1>10 DEF UpdateInv, Mutex, PendingSound, TypeOK
<1>14. ASSUME NEW p \in Procs
       PROVE  ProcessSound(p)'
  <2>1. ProcessSound(p)
    BY DEF UpdateInv
  <2>2. Preparing(p)'
    BY <1>1, <1>9, <1>10, <2>1 DEF ProcessSound, Preparing, At
  <2>3. Installing(p)'
    BY <1>1, <1>10, <2>1 DEF ProcessSound, Installing, At
  <2>4. Restoring(p)'
    BY <1>1, <1>10, <2>1 DEF ProcessSound, Restoring, At
  <2>5. proc'[p].pc = "plan" => Applicable(proc[p].payload, proc[p].volume)'
    BY <1>1, <2>1 DEF ProcessSound, Applicable
  <2> QED BY <2>2, <2>3, <2>4, <2>5 DEF ProcessSound
<1> QED BY <1>9, <1>12, <1>13, <1>14 DEF UpdateInv

---------------------------------------------------------------------------
(***************************************************************************)
(* The invariant holds.                                                    *)
(***************************************************************************)
LEMMA InitUpdate == Init => UpdateInv
<1> SUFFICES ASSUME Init PROVE UpdateInv
  OBVIOUS
<1>1. /\ file \in [Places -> Contents \cup {Absent}]
      /\ tx = [id \in Ids |-> NoTransaction] /\ proc = [p \in Procs |-> Idle]
      /\ pending = None /\ lock = None /\ faults = 0 /\ edits = 0
  BY InitialAssumption DEF Init
<1>2. NoTransaction \in Transaction
  <2>1. <<>> \in Seq(Entry) /\ <<>> \in Seq(Contents \cup {Absent})
    OBVIOUS
  <2> QED BY <2>1 DEF NoTransaction, Transaction, Statuses
<1>3. Idle \in Process
  <2>1. <<>> \in Seq(PayloadItem)
    OBVIOUS
  <2> QED BY <2>1 DEF Idle, Process
<1>4. TypeOK
  BY <1>1, <1>2, <1>3, NameAssumption DEF TypeOK
<1>5. Mutex /\ PendingSound
  BY <1>1, NameAssumption DEF Mutex, PendingSound
<1>6. TransactionSound(NoTransaction)
  <2>1. NoTransaction.entries = <<>> /\ NoTransaction.status = "none"
    BY DEF NoTransaction
  <2> QED BY <2>1 DEF TransactionSound, Ordered, Mounted
<1>7. \A p \in Procs : ProcessSound(p)
  BY <1>1, IdleIsSound
<1> QED BY <1>1, <1>4, <1>5, <1>6, <1>7 DEF UpdateInv

\* Every step keeps the invariant.
LEMMA NextUpdate == UpdateInv /\ [Next]_vars => UpdateInv'
<1> SUFFICES ASSUME UpdateInv, [Next]_vars PROVE UpdateInv'
  OBVIOUS
<1>1. TypeOK
  BY DEF UpdateInv
<1>2. CASE UNCHANGED vars
  <2>1. TypeOK'
    BY <1>1, <1>2 DEF vars, TypeOK
  <2>2. Mutex' /\ PendingSound' /\ \A id \in Ids : TransactionSound(tx'[id])
    BY <1>2 DEF vars, UpdateInv, Mutex, PendingSound
  <2>3. ASSUME NEW p \in Procs PROVE ProcessSound(p)'
    <3>1. ProcessSound(p)
      BY DEF UpdateInv
    <3>2. Preparing(p)' /\ Installing(p)' /\ Restoring(p)'
      BY <1>2, <3>1 DEF vars, ProcessSound, Preparing, Installing, Restoring, At
    <3> QED BY <1>2, <3>1, <3>2 DEF vars, ProcessSound, Applicable
  <2> QED BY <2>1, <2>2, <2>3 DEF UpdateInv
<1>3. ASSUME NEW p \in Procs,
             StartApply(p) \/ StartRollback(p) \/ Work(p) \/ Caught(p) \/ Die(p)
      PROVE  UpdateInv'
  <2>1. CASE StartApply(p)
    BY <2>1, StartApplyStep
  <2>2. CASE StartRollback(p)
    BY <2>2, StartRollbackStep
  <2>3. CASE Caught(p)
    BY <2>3, CommitUnlinkStep
  <2>4. CASE Die(p)
    BY <1>1, <2>4, ExitStep, FaultTyped DEF Die
  <2>5. CASE PlanNothing(p)
    BY <1>1, <2>5, ExitStep DEF PlanNothing, TypeOK
  <2>6. CASE PlanChanges(p)
    BY <2>6, PlanChangesStep
  <2>7. CASE Stage(p)
    BY <2>7, StageStep
  <2>8. CASE WriteManifest(p)
    BY <2>8, WriteManifestStep
  <2>9. CASE WritePending(p)
    BY <2>9, WritePendingStep
  <2>10. CASE CheckTarget(p)
    BY <2>10, CheckTargetStep
  <2>11. CASE ReplaceTarget(p)
    BY <2>11, ReplaceTargetStep
  <2>12. CASE CommitManifest(p)
    BY <2>12, CommitManifestStep
  <2>13. CASE CommitUnlink(p)
    BY <2>13, CommitUnlinkStep
  <2>14. CASE LoadJournal(p)
    BY <2>14, LoadJournalStep
  <2>15. CASE RefuseRollback(p)
    BY <1>1, <2>15, ExitStep DEF RefuseRollback, TypeOK
  <2>16. CASE RestoreTarget(p)
    BY <2>16, RestoreTargetStep
  <2>17. CASE FinishManifest(p)
    BY <2>17, FinishManifestStep
  <2>18. CASE FinishUnlink(p)
    BY <1>1, <2>18, ExitStep DEF FinishUnlink, TypeOK
  <2> QED BY <1>3, <2>1, <2>2, <2>3, <2>4, <2>5, <2>6, <2>7, <2>8, <2>9, <2>10, <2>11,
             <2>12, <2>13, <2>14, <2>15, <2>16, <2>17, <2>18 DEF Work
<1>4. ASSUME NEW place \in Places, Edit(place) PROVE UpdateInv'
  BY <1>4, EditStep
<1>5. ASSUME NEW id \in Ids, Damage(id) PROVE UpdateInv'
  BY <1>5, DamageStep
<1> QED BY <1>2, <1>3, <1>4, <1>5 DEF Next

\* What the journals, the lock, the pending record, the processes and the
\* owned files agree on at every step of apply and rollback, whatever process
\* dies, whatever call fails and whatever the user edits.
THEOREM UpdateAgrees == Spec => []UpdateInv
<1>1. Init => UpdateInv
  BY InitUpdate
<1>2. UpdateInv /\ [Next]_vars => UpdateInv'
  BY NextUpdate
<1> QED BY <1>1, <1>2, PTL DEF Spec

\* Every state of the updater is well typed.
THEOREM UpdateTyped == Spec => []TypeOK
<1>1. UpdateInv => TypeOK
  BY DEF UpdateInv
<1> QED BY <1>1, UpdateAgrees, PTL

\* The pending record always names a transaction whose manifest is written and
\* whose replaced files are backed up: whenever apply is interrupted,
\* `rollback pending` finds what it needs.
THEOREM PendingStaysRecoverable == Spec => []PendingIsRecoverable
<1>1. UpdateInv => PendingIsRecoverable
  <2> SUFFICES ASSUME UpdateInv, pending # None PROVE PendingIsRecoverable
    BY DEF PendingIsRecoverable
  <2>1. pending \in Ids /\ tx[pending].status # "none"
    BY DEF UpdateInv, TypeOK, PendingSound
  <2>2. BackedUp(tx[pending])
    BY <2>1 DEF UpdateInv, TransactionSound
  <2> QED BY <2>1, <2>2 DEF PendingIsRecoverable, BackedUp
<1> QED BY <1>1, UpdateAgrees, PTL

\* While an update is applied no new loader is on the ESP before the runtime
\* files it consumes, for every payload order a frontend may pass.
THEOREM RuntimeComesFirst == Spec => []RuntimeBeforeLoader
<1>1. UpdateInv => RuntimeBeforeLoader
  <2> SUFFICES ASSUME UpdateInv, NEW p \in Procs,
                      proc[p].pc \in InstallSteps, ~proc[p].raced,
                      NEW j \in DOMAIN Journal(p), NEW k \in DOMAIN Journal(p),
                      Journal(p)[j].target \in DataTargets,
                      Journal(p)[k].target \in EspTargets,
                      file[EntryPlace(p, k)] = Journal(p)[k].new
               PROVE  file[EntryPlace(p, j)] = Journal(p)[j].new
    BY DEF RuntimeBeforeLoader, InstallSteps
  <2> DEFINE t == tx[proc[p].id]
  <2>1. /\ proc[p].id \in Ids /\ proc[p].volume = t.volume
        /\ \A i \in DOMAIN t.entries :
             At(t.entries, t.volume, i) = t.entries[i].new
               <=> (proc[p].pc \in {"commit", "unlink"} \/ i < proc[p].k)
    BY DEF UpdateInv, ProcessSound, Installing
  <2>2. t.entries \in Seq(Entry) /\ proc[p].k \in Nat /\ Ordered(t.entries)
    BY <2>1, TransactionFields, ProcessFields DEF UpdateInv, TransactionSound
  <2>3. j < k
    BY <2>2 DEF Ordered, Journal
  <2>4. proc[p].pc \in {"commit", "unlink"} \/ k < proc[p].k
    BY <2>1 DEF Journal, EntryPlace, At
  <2>5. j \in Nat /\ k \in Nat
    BY <2>2 DEF Journal
  <2>6. proc[p].pc \in {"commit", "unlink"} \/ j < proc[p].k
    <3>1. ASSUME k < proc[p].k PROVE j < proc[p].k
      BY <2>2, <2>3, <2>5, <3>1
    <3> QED BY <2>4, <3>1
  <2> QED BY <2>1, <2>6 DEF Journal, EntryPlace, At
<1> QED BY <1>1, UpdateAgrees, PTL

---------------------------------------------------------------------------
(***************************************************************************)
(* What a step may never do.                                               *)
(***************************************************************************)
\* Only the two os.replace loops and user edits change an owned file.
LEMMA FileWriters ==
  ASSUME [Next]_vars, file' # file, edits' = edits, TypeOK
  PROVE  \E p \in Procs : ReplaceTarget(p) \/ RestoreTarget(p)
<1>1. edits \in Nat
  BY NameAssumption DEF TypeOK
<1>2. ~\E place \in Places : Edit(place)
  BY <1>1 DEF Edit
<1> QED BY <1>2 DEF Next, Work, vars, StartApply, StartRollback, Caught, Die, PlanNothing,
                    PlanChanges, Stage, WriteManifest, WritePending, CheckTarget,
                    CommitManifest, CommitUnlink, LoadJournal, RefuseRollback,
                    FinishManifest, FinishUnlink, Damage

\* Neither apply nor rollback overwrites a content that no transaction holds:
\* the digests are compared before the write, and the lock keeps every other
\* updater out in between.
THEOREM NothingIsLost == Spec => NoContentLost
<1> DEFINE Step == \A place \in Places :
                     /\ file'[place] # file[place] /\ edits' = edits
                     /\ file[place] # Absent
                     /\ \A p \in Procs : ~proc[p].raced
                     => Held(place, file[place])
<1>1. UpdateInv /\ [Next]_vars => [Step]_vars
  <2> SUFFICES ASSUME UpdateInv, [Next]_vars, NEW place \in Places,
                      file'[place] # file[place], edits' = edits,
                      file[place] # Absent, \A p \in Procs : ~proc[p].raced
               PROVE  Held(place, file[place])
    OBVIOUS
  <2>1. TypeOK
    BY DEF UpdateInv
  <2>2. PICK p \in Procs : ReplaceTarget(p) \/ RestoreTarget(p)
    BY <2>1, FileWriters
  <2> DEFINE id == proc[p].id
             t == tx[id]
             k == proc[p].k
             Where(i) == Place(t.volume, t.entries[i].target)
  <2>3. CASE ReplaceTarget(p)
    <3>1. proc[p].pc = "replace"
      BY <2>3 DEF ReplaceTarget
    <3>2. /\ id \in Ids /\ proc[p].volume = t.volume /\ t.status # "none"
          /\ k \in DOMAIN t.entries
          /\ file[Where(k)] = t.entries[k].old
      BY <3>1 DEF UpdateInv, ProcessSound, Installing, InstallSteps, At
    <3>3. file' = [file EXCEPT ![Where(k)] = t.entries[k].new]
      BY <2>3, <3>2 DEF ReplaceTarget, Journal, EntryPlace
    <3>4. place = Where(k)
      BY <2>1, <3>3 DEF TypeOK
    <3> QED BY <3>2, <3>4 DEF Held
  <2>4. CASE RestoreTarget(p)
    <3>1. proc[p].pc = "restore" /\ ~(k > Len(t.entries))
      BY <2>4 DEF RestoreTarget, Journal
    <3>2. /\ id \in Ids /\ t.status # "none" /\ k >= 1
          /\ \A i \in DOMAIN t.entries : Place(proc[p].volume, t.entries[i].target) = Where(i)
          /\ \A i \in DOMAIN t.entries :
               IF i < k THEN file[Where(i)] = t.entries[i].old
                        ELSE file[Where(i)] \in {Absent, t.entries[i].old, t.entries[i].new}
      BY <3>1 DEF UpdateInv, ProcessSound, Restoring, UndoSteps, At
    <3>3. k \in DOMAIN t.entries
      <4>1. k \in Nat /\ t.entries \in Seq(Entry)
        BY <2>1, <3>2, ProcessFields, TransactionFields
      <4> QED BY <3>1, <3>2, <4>1
    <3>4. file' = [file EXCEPT ![Where(k)] = t.entries[k].old]
      BY <2>4, <3>1, <3>2, <3>3 DEF RestoreTarget, Journal, EntryPlace
    <3>5. place = Where(k)
      BY <2>1, <3>4 DEF TypeOK
    <3>6. file[place] \in {t.entries[k].old, t.entries[k].new}
      BY <3>2, <3>3, <3>5
    <3> QED BY <3>2, <3>3, <3>5, <3>6 DEF Held
  <2> QED BY <2>2, <2>3, <2>4
<1> QED BY <1>1, UpdateAgrees, PTL DEF Spec, NoContentLost

\* An unfinished transaction is never replaced by another one: it stays the
\* pending one until its own process or a rollback clears it.
THEOREM OneAtATime == Spec => OneUnfinished
<1> DEFINE Step == pending # None /\ pending' # None => pending' = pending
<1>1. UpdateInv /\ [Next]_vars => [Step]_vars
  <2> SUFFICES ASSUME UpdateInv, [Next]_vars, pending # None, pending' # None,
                      pending' # pending
               PROVE  FALSE
    OBVIOUS
  <2>1. PICK p \in Procs : WritePending(p)
    BY DEF Next, Work, vars, StartApply, StartRollback, Caught, Die, PlanNothing,
           PlanChanges, Stage, WriteManifest, CheckTarget, ReplaceTarget,
           CommitManifest, CommitUnlink, LoadJournal, RefuseRollback, RestoreTarget,
           FinishManifest, FinishUnlink, Edit, Damage
  <2>2. proc[p].pc = "pending"
    BY <2>1 DEF WritePending
  <2> QED BY <2>2 DEF UpdateInv, ProcessSound, Preparing, PreparingSteps
<1> QED BY <1>1, UpdateAgrees, PTL DEF Spec, OneUnfinished

\* A manifest that says committed or rolled_back tells the truth about every
\* file of the transaction at the moment it is written.
THEOREM FinishedTellsTheTruth == Spec => FinishedIsUniform
<1> DEFINE Step == \A p \in Procs :
                     ~proc[p].raced /\ proc[p].id # None =>
                       LET id == proc[p].id
                           status == tx'[id].status
                       IN status # tx[id].status /\ status # "prepared" =>
                            \A k \in DOMAIN Journal(p) :
                              file[EntryPlace(p, k)] = IF status = "committed"
                                                       THEN Journal(p)[k].new
                                                       ELSE Journal(p)[k].old
<1>1. UpdateInv /\ [Next]_vars => [Step]_vars
  <2> SUFFICES ASSUME UpdateInv, [Next]_vars, NEW p \in Procs,
                      ~proc[p].raced, proc[p].id # None,
                      tx'[proc[p].id].status # tx[proc[p].id].status,
                      tx'[proc[p].id].status # "prepared",
                      NEW k \in DOMAIN Journal(p)
               PROVE  file[EntryPlace(p, k)] = IF tx'[proc[p].id].status = "committed"
                                               THEN Journal(p)[k].new
                                               ELSE Journal(p)[k].old
    OBVIOUS
  <2> DEFINE id == proc[p].id
             t == tx[id]
  <2>1. TypeOK /\ id \in Ids /\ proc[p].pc # "idle"
    <3>1. Idle.id = None
      BY DEF Idle
    <3>2. TypeOK /\ lock = p
      BY <3>1 DEF UpdateInv, Mutex
    <3>3. proc[p].id \in Ids \cup {None}
      BY <3>2, ProcessFields
    <3> QED BY <3>2, <3>3 DEF UpdateInv, Mutex
  <2>2. \A q \in Procs : proc[q].pc # "idle" => q = p
    <3>1. Idle.pc = "idle"
      BY DEF Idle
    <3> QED BY <2>1, <3>1, OnlyOne
  <2>3. ASSUME NEW i \in Ids, Damage(i) PROVE FALSE
    <3>1. PICK n \in DOMAIN tx[i].backup : tx' = [tx EXCEPT ![i].backup[n] = Foreign]
      BY <2>3 DEF Damage
    <3>2. tx \in [Ids -> Transaction] /\ tx[i] \in Transaction
      BY <2>1 DEF TypeOK
    <3>3. tx'[i].status = tx[i].status /\ \A j \in Ids \ {i} : tx'[j] = tx[j]
      BY <3>1, <3>2 DEF Transaction
    <3> QED BY <2>1, <3>3
  <2>4. ASSUME NEW q \in Procs, PlanChanges(q) PROVE FALSE
    <3>1. PICK i \in Fresh, entries \in Changes(proc[q].payload, proc[q].volume) :
            tx' = [tx EXCEPT ![i].entries = entries, ![i].volume = proc[q].volume]
      BY <2>4 DEF PlanChanges
    <3>2. tx \in [Ids -> Transaction] /\ \A j \in Ids : tx[j] \in Transaction
      BY <2>1 DEF TypeOK
    <3>3. \A j \in Ids : tx'[j].status = tx[j].status
      BY <3>1, <3>2 DEF Transaction
    <3> QED BY <2>1, <3>3
  <2>5. ASSUME NEW q \in Procs, Stage(q) PROVE FALSE
    <3>1. \E b : tx' = [tx EXCEPT ![proc[q].id].backup = b]
      BY <2>5 DEF Stage
    <3>2. tx \in [Ids -> Transaction] /\ \A j \in Ids : tx[j] \in Transaction
      BY <2>1 DEF TypeOK
    <3>3. \A j \in Ids : tx'[j].status = tx[j].status
      BY <3>1, <3>2 DEF Transaction
    <3> QED BY <2>1, <3>3
  <2>6. ASSUME NEW q \in Procs, WriteManifest(q) PROVE FALSE
    <3>1. q = p /\ tx' = [tx EXCEPT ![id].status = "prepared"]
      BY <2>2, <2>6 DEF WriteManifest
    <3>2. tx'[id].status = "prepared"
      BY <2>1, <3>1, StatusWritten DEF Statuses
    <3> QED BY <3>2
  <2>7. PICK q \in Procs : CommitManifest(q) \/ FinishManifest(q)
    <3>1. tx' # tx
      BY <2>1
    <3> QED BY <2>3, <2>4, <2>5, <2>6, <3>1
            DEF Next, Work, vars, StartApply, StartRollback, Caught, Die, PlanNothing,
                WritePending, CheckTarget, ReplaceTarget, CommitUnlink, LoadJournal,
                RefuseRollback, RestoreTarget, FinishUnlink, Edit
  <2>8. q = p
    BY <2>2, <2>7 DEF CommitManifest, FinishManifest
  <2>9. CASE CommitManifest(p)
    <3>1. proc[p].pc = "commit" /\ tx' = [tx EXCEPT ![id].status = "committed"]
      BY <2>9 DEF CommitManifest
    <3>2. tx'[id].status = "committed"
      BY <2>1, <3>1, StatusWritten DEF Statuses
    <3>3. /\ proc[p].volume = t.volume
          /\ \A i \in DOMAIN t.entries : At(t.entries, t.volume, i) = t.entries[i].new
      BY <3>1 DEF UpdateInv, ProcessSound, Installing, InstallSteps
    <3> QED BY <3>2, <3>3 DEF Journal, EntryPlace, At
  <2>10. CASE FinishManifest(p)
    <3>1. proc[p].pc = "rolledback" /\ tx' = [tx EXCEPT ![id].status = "rolled_back"]
      BY <2>10 DEF FinishManifest
    <3>2. tx'[id].status = "rolled_back"
      BY <2>1, <3>1, StatusWritten DEF Statuses
    <3>3. \A i \in DOMAIN t.entries :
            /\ Place(proc[p].volume, t.entries[i].target) = Place(t.volume, t.entries[i].target)
            /\ At(t.entries, t.volume, i) = t.entries[i].old
      BY <3>1 DEF UpdateInv, ProcessSound, Restoring, UndoSteps
    <3> QED BY <3>2, <3>3 DEF Journal, EntryPlace, At
  <2> QED BY <2>7, <2>8, <2>9, <2>10
<1> QED BY <1>1, UpdateAgrees, PTL DEF Spec, FinishedIsUniform
=============================================================================
