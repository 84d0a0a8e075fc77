------------------------------ MODULE DataRoot ------------------------------
(***************************************************************************)
(* Who touches the mobile data root, and in which order.                   *)
(*                                                                         *)
(*   mobile/lib/core/mobile_operation_coordinator.dart     the queue       *)
(*   mobile/lib/platform/managed_attachment_store.dart     stage, cleanup  *)
(*   mobile/lib/application/agenda_application.dart         photos of a log *)
(*   mobile/lib/application/concrete_application.dart       evidence        *)
(*   mobile/lib/application/inventory_application.dart      asset photos    *)
(*   mobile/lib/application/mobile_backup_application.dart  backup, restore *)
(*   mobile/lib/bootstrap/app_bootstrap.dart    which of them share a queue *)
(*                                                                         *)
(* A job is one call of one of these services.  The database is the set of *)
(* photos that have a row, the attachments directory the set of photos     *)
(* that have a file.  Each action is what runs between two awaits that     *)
(* another job can be scheduled in.                                        *)
(*                                                                         *)
(* RestoreRecovery has the journal of the swap and the steps of its        *)
(* rollback; here the rollback is one action and the process does not die  *)
(* inside the swap.                                                        *)
(*                                                                         *)
(* Bounds: Workloads (sets of calls that are made in one behaviour),       *)
(* MaxFaults (exceptions thrown, at the steps of FaultSteps), MaxCrashes   *)
(* (process deaths).                                                       *)
(***************************************************************************)
EXTENDS Naturals, Sequences, FiniteSets

CONSTANTS
  Jobs,
  Workloads,    \* the sets of jobs that are asked for together
  Kind,         \* [Jobs -> Kinds]
  Photo,        \* the attachment id of a job that adds one
  Photos,
  NoFile,       \* nothing at that path
  FaultSteps,
  MaxFaults, MaxCrashes

\* The steps of a call, in the order of the code.  A call enters its queue
\* when it reaches "queued".
AttachAgendaPhotos ==
  <<"look", "stage", "verify", "finalize", "queued", "open", "commit",
    "close">>

\* Mutant: evidence staged before the queue, as the photos of a log are.
EvidenceStagedFirst == AttachAgendaPhotos

AttachEvidenceBatch ==
  <<"queued", "look", "stage", "verify", "finalize", "open", "commit",
    "close">>

AddOrReplaceAssetPhoto ==
  <<"queued", "open", "look", "stage", "verify", "finalize", "commit",
    "close">>

CreateBackupInside == <<"rows", "vacuum", "files", "save">>

CreateBackup == <<"queued">> \o CreateBackupInside

\* Mutant: the swap starts without a safety backup.
RestoreWithoutSafetyBackup ==
  <<"queued", "prepare", "old_db", "old_atts", "new_db", "new_atts", "check",
    "notify", "reconciling", "complete">>

RestoreBackup ==
  <<"queued", "prepare">> \o CreateBackupInside
    \o <<"old_db", "old_atts", "new_db", "new_atts", "check", "notify",
         "reconciling", "complete">>

Path == [agenda    |-> AttachAgendaPhotos,
         evidence  |-> AttachEvidenceBatch,
         inventory |-> AddOrReplaceAssetPhoto,
         backup    |-> CreateBackup,
         restore   |-> RestoreBackup]

Kinds      == DOMAIN Path
Attaching  == {"agenda", "evidence", "inventory"}
Packing    == {"backup", "restore"}
Staging    == {"stage", "verify", "finalize"}
Steps      == Staging \union
              {"look", "queued", "open", "commit", "close", "prepare",
               "rows", "vacuum", "files", "save", "old_db", "old_atts",
               "new_db", "new_atts", "check", "notify", "reconciling",
               "complete"}
Ended      == {"done", "failed", "killed"}

ASSUME Inputs ==
  /\ Workloads \subseteq SUBSET Jobs
  /\ Kind \in [Jobs -> Kinds] /\ Photo \in [Jobs -> Photos]
  /\ \A s \in SUBSET Photos : s # NoFile
  /\ \A j, k \in Jobs :
       Kind[j] \in Attaching /\ Kind[k] \in Attaching /\ Photo[j] = Photo[k]
         => Kind[j] = Kind[k]
  /\ FaultSteps \subseteq Steps
  /\ MaxFaults \in Nat /\ MaxCrashes \in Nat

\* A close that throws after the commit is left out.
CloseReturns == "close" \notin FaultSteps

VARIABLES
  active,   \* [rows, files]: the database and the attachments in their place
  old,      \* [rows, files]: what a restore moved to its rollback area
  temp,     \* photos with a managed-<id>.part in temp_staging
  conn,     \* where the database file is that a job has open
  at,       \* the step a job is at; "new", "cleanup" or how it ended
  queue,    \* tickets waiting in each serial queue, the head running
  package,  \* [rows, files]: the snapshot and the manifest of a backup
  saved,    \* jobs whose package is in exports/backups
  incoming, \* [rows, files]: what a restore prepared
  order,    \* history: jobs in the order they entered the shared queue
  met,      \* history: <<b, k>>, k was under way while b packed or swapped
  faults, crashes

roots  == <<active, old>>
packs  == <<package, saved, incoming>>
budget == <<faults, crashes>>
vars   == <<roots, temp, conn, at, queue, packs, order, met, budget>>

Nothing == [rows |-> NoFile, files |-> NoFile]
Empty   == [rows |-> {}, files |-> {}]

\* Is there a database (a directory), and is the photo in it?
Has(photos, p) == photos # NoFile /\ p \in photos

There(s, photos) == photos # NoFile /\ s \subseteq photos

\* Mutant: the reconciler uses the coordinator the restore is running on.
NotifyLaneShared == "shared"

\* The notification reconciler of a restore runs on an agenda of its own with
\* a fresh coordinator: the restore already owns the shared one.
NotifyLane == "fresh"

\* Bootstrap gives the inventory no coordinator; it queues behind itself only.
Lane(j) == IF Kind[j] = "inventory" THEN "inventory" ELSE "shared"

Lanes == {"shared", "inventory", "fresh"}

Call(j)   == <<j, "call">>
Nested(j) == <<j, "nested">>

Heads(lane, ticket) == queue[lane] # <<>> /\ Head(queue[lane]) = ticket

Running(j) == Heads(Lane(j), Call(j))

Position(j, step) ==
  LET path == Path[Kind[j]] IN CHOOSE i \in DOMAIN path : path[i] = step

\* The step after the one the job is at.
After(j) ==
  LET path == Path[Kind[j]]
      i    == Position(j, at[j])
  IN  IF i = Len(path) THEN "done" ELSE path[i + 1]

\* A file this call put into attachments/managed.
OwnsFile(j) ==
  /\ Kind[j] \in Attaching /\ at[j] \in Steps
  /\ Position(j, "finalize") < Position(j, at[j])

Init ==
  /\ active = Empty /\ old = Nothing
  /\ temp = {}
  /\ conn = [j \in Jobs |-> "none"]
  /\ at = [j \in Jobs |-> "new"]
  /\ queue = [l \in Lanes |-> <<>>]
  /\ package = [j \in Jobs |-> Empty] /\ saved = {}
  /\ incoming = [j \in Jobs |-> Empty]
  /\ order = <<>> /\ met = {}
  /\ faults = 0 /\ crashes = 0

-----------------------------------------------------------------------------
(* Who meets whom. *)

UnderWay(j) == at[j] \notin Ended \union {"new"}

\* A backup or a restore that runs.
Holds(b) == Kind[b] \in Packing /\ UnderWay(b) /\ at[b] # "queued"

\* Calls the shared queue does not hold off, or not before they staged.
Meets(b, k) == Holds(b) /\ Kind[k] \in {"agenda", "inventory"} /\ UnderWay(k)

Meeting ==
  met' = met \union {p \in Jobs \X Jobs : Meets(p[1], p[2])'}

-----------------------------------------------------------------------------
(* The queue. *)

\* Mutant: an exclusive task goes before the ones that wait.
EnqueueExclusiveFirst(j) ==
  /\ queue' = [queue EXCEPT ![Lane(j)] =
       IF Kind[j] \in Packing /\ @ # <<>>
         THEN <<Head(@), Call(j)>> \o Tail(@) ELSE Append(@, Call(j))]
  /\ order' = IF Lane(j) = "shared" THEN Append(order, j) ELSE order

\* Both run and runExclusive append to _tail.
Enqueue(j) ==
  /\ queue' = [queue EXCEPT ![Lane(j)] = Append(@, Call(j))]
  /\ order' = IF Lane(j) = "shared" THEN Append(order, j) ELSE order

Release(j) ==
  queue' = IF Running(j) THEN [queue EXCEPT ![Lane(j)] = Tail(@)] ELSE queue

GoTo(j, step) ==
  /\ at' = [at EXCEPT ![j] = step] /\ Meeting
  /\ IF step = "queued" THEN Enqueue(j)
     ELSE /\ IF step \in Ended THEN Release(j) ELSE UNCHANGED queue
          /\ UNCHANGED order

\* A step that returns normally.
Proceed(j) == GoTo(j, After(j))

Asked == {j \in Jobs : at[j] # "new"}

\* A form sends one call at a time and keeps the ids of its photos for the
\* next: under one id at most two calls of a log are under way.
Twins(j) == {k \in Jobs : Kind[k] = "agenda" /\ Photo[k] = Photo[j] /\ UnderWay(k)}

Ask(j) ==
  /\ at[j] = "new"
  /\ Kind[j] = "agenda" => \A k, m \in Twins(j) : k = m
  /\ \E workload \in Workloads : Asked \union {j} \subseteq workload
  /\ GoTo(j, Path[Kind[j]][1])
  /\ UNCHANGED <<roots, temp, conn, packs, budget>>

Begin(j) ==
  /\ at[j] = "queued" /\ Running(j)
  /\ Proceed(j)
  /\ UNCHANGED <<roots, temp, conn, packs, budget>>

-----------------------------------------------------------------------------
(* A step that throws. *)

Swapping == {"old_db", "old_atts", "new_db", "new_atts", "check", "notify",
             "reconciling", "complete"}

\* A rename takes the file away from under the connections that have it open.
Follow(from, to) ==
  [j \in Jobs |-> IF conn[j] = from THEN to ELSE conn[j]]

\* rollbackToOld: what was moved comes back, what was activated goes away.
PutOldBack ==
  /\ active' = [rows  |-> IF old.rows = NoFile THEN active.rows ELSE old.rows,
                files |-> IF old.files = NoFile THEN active.files ELSE old.files]
  /\ old' = Nothing
  /\ conn' = IF old.rows = NoFile THEN conn
             ELSE [j \in Jobs |-> CASE conn[j] = "old"    -> "active"
                                    [] conn[j] = "active" -> "gone"
                                    [] OTHER              -> conn[j]]

\* The catch blocks.  An agenda call has left the queue when its own catch
\* block runs; the inventory closes the database after its catch block.
Fail(j) ==
  /\ IF Kind[j] = "restore" /\ at[j] \in Swapping
       THEN PutOldBack
       ELSE conn' = [conn EXCEPT ![j] = "none"] /\ UNCHANGED roots
  /\ temp' = IF at[j] \in Staging THEN temp \ {Photo[j]} ELSE temp
  /\ IF OwnsFile(j) /\ ~(Kind[j] = "inventory" /\ at[j] = "close")
       THEN /\ at' = [at EXCEPT ![j] = "cleanup"]
            /\ IF Kind[j] = "agenda" THEN Release(j) ELSE UNCHANGED queue
       ELSE /\ at' = [at EXCEPT ![j] = "failed"]
            /\ Release(j)
  /\ Meeting
  /\ UNCHANGED <<packs, order>>

\* A file-system call, SQLite or the notification plugin throws.
Throw(j) ==
  /\ faults < MaxFaults /\ faults' = faults + 1
  /\ at[j] \in FaultSteps \ {"queued"}
  /\ Fail(j)
  /\ UNCHANGED crashes

Refuse(j) == Fail(j) /\ UNCHANGED budget

-----------------------------------------------------------------------------
(* Adding a photo. *)

\* stage() begins: create what is missing, refuse an id that is taken.
Look(j) ==
  /\ at[j] = "look"
  /\ active' = [active EXCEPT !.files = IF @ = NoFile THEN {} ELSE @]
  /\ \/ /\ Photo[j] \notin temp /\ ~Has(active.files, Photo[j])
        /\ Proceed(j)
        /\ UNCHANGED conn
     \/ /\ Photo[j] \in temp \/ Has(active.files, Photo[j])
        /\ GoTo(j, "failed")
        /\ conn' = [conn EXCEPT ![j] = "none"]
  /\ UNCHANGED <<old, temp, packs, budget>>

\* Write .part, over the one of another call that looked as early.
Stage(j) ==
  /\ at[j] = "stage"
  /\ temp' = temp \union {Photo[j]}
  /\ Proceed(j)
  /\ UNCHANGED <<roots, conn, packs, budget>>

\* The second look, before the rename: another call of this id may have taken
\* the .part away, or its place.
Verify(j) ==
  /\ at[j] = "verify"
  /\ \/ /\ Photo[j] \in temp /\ ~Has(active.files, Photo[j])
        /\ Proceed(j)
        /\ UNCHANGED <<roots, temp, conn, packs, budget>>
     \/ /\ Photo[j] \notin temp \/ Has(active.files, Photo[j])
        /\ Refuse(j)

\* The end of stage(): rename .part to attachments/managed/<id>.
Finalize(j) ==
  /\ at[j] = "finalize"
  /\ \/ /\ active.files # NoFile /\ Photo[j] \in temp
        /\ active' = [active EXCEPT !.files = @ \union {Photo[j]}]
        /\ temp' = temp \ {Photo[j]}
        /\ Proceed(j)
        /\ UNCHANGED <<old, conn, packs, budget>>
     \/ /\ active.files = NoFile \/ Photo[j] \notin temp
        /\ Refuse(j)

\* AppDatabase.open makes a blank database where there is none.  The
\* inventory looks the id up before it stages anything.
OpenDb(j) ==
  /\ at[j] = "open"
  /\ LET rows == IF active.rows = NoFile THEN {} ELSE active.rows IN
     \/ /\ Kind[j] = "inventory" => Photo[j] \notin rows
        /\ active' = [active EXCEPT !.rows = rows]
        /\ conn' = [conn EXCEPT ![j] = "active"]
        /\ Proceed(j)
        /\ UNCHANGED <<old, temp, packs, budget>>
     \/ /\ Kind[j] = "inventory" /\ Photo[j] \in rows
        /\ Refuse(j)

\* SQLite refuses a write that begins on a moved file and completes one that
\* began before the move: both are possible for a connection that was moved.
Commit(j) ==
  /\ at[j] = "commit"
  /\ \/ /\ conn[j] = "active" /\ Photo[j] \notin active.rows
        /\ active' = [active EXCEPT !.rows = @ \union {Photo[j]}]
        /\ Proceed(j)
        /\ UNCHANGED <<old, temp, conn, packs, budget>>
     \/ /\ conn[j] = "old" /\ Photo[j] \notin old.rows
        /\ old' = [old EXCEPT !.rows = @ \union {Photo[j]}]
        /\ Proceed(j)
        /\ UNCHANGED <<active, temp, conn, packs, budget>>
     \/ /\ conn[j] = "gone"
        /\ Proceed(j)
        /\ UNCHANGED <<roots, temp, conn, packs, budget>>
     \/ /\ conn[j] = "active" => Photo[j] \in active.rows
        /\ Refuse(j)

Close(j) ==
  /\ at[j] = "close"
  /\ conn' = [conn EXCEPT ![j] = "none"]
  /\ Proceed(j)
  /\ UNCHANGED <<roots, temp, packs, budget>>

\* Mutant: the catch block only rethrows.
CleanupNothing(j) ==
  /\ at[j] = "cleanup"
  /\ GoTo(j, "failed")
  /\ UNCHANGED <<roots, temp, conn, packs, budget>>

\* cleanup(): delete the file if it is there; what that throws is swallowed.
Cleanup(j) ==
  /\ at[j] = "cleanup"
  /\ active' = [active EXCEPT !.files = IF @ = NoFile THEN @ ELSE @ \ {Photo[j]}]
  /\ GoTo(j, "failed")
  /\ UNCHANGED <<old, temp, conn, packs, budget>>

-----------------------------------------------------------------------------
(* Backup. *)

ReadRows(j) ==
  /\ at[j] = "rows"
  /\ package' = [package EXCEPT ![j].files = active.rows]
  /\ conn' = [conn EXCEPT ![j] = "active"]
  /\ Proceed(j)
  /\ UNCHANGED <<roots, temp, saved, incoming, budget>>

Vacuum(j) ==
  /\ at[j] = "vacuum"
  /\ package' = [package EXCEPT ![j].rows = active.rows]
  /\ conn' = [conn EXCEPT ![j] = "none"]
  /\ Proceed(j)
  /\ UNCHANGED <<roots, temp, saved, incoming, budget>>

\* Mutant: whatever files are there are packed.
ReadFilesFound(j) ==
  /\ at[j] = "files" /\ active.files # NoFile
  /\ package' = [package EXCEPT ![j].files = active.files]
  /\ Proceed(j)
  /\ UNCHANGED <<roots, temp, conn, saved, incoming, budget>>

\* attachment_missing when a row has no file.
ReadFiles(j) ==
  /\ at[j] = "files"
  /\ \/ /\ There(package[j].files, active.files)
        /\ Proceed(j)
        /\ UNCHANGED <<roots, temp, conn, packs, budget>>
     \/ /\ ~There(package[j].files, active.files)
        /\ Refuse(j)

\* Encrypt, verify, write package.part and rename it to exports/backups.
Save(j) ==
  /\ at[j] = "save"
  /\ saved' = saved \union {j}
  /\ Proceed(j)
  /\ UNCHANGED <<roots, temp, conn, package, incoming, budget>>

-----------------------------------------------------------------------------
(* Restore. *)

Restorable(p) == p.rows = p.files

\* _prepareIncoming of a package taken on this device, or of one from a
\* device without photos.
Prepare(j) ==
  /\ at[j] = "prepare"
  /\ \E p \in {Empty} \union {package[k] : k \in saved} :
       \/ /\ Restorable(p)
          /\ incoming' = [incoming EXCEPT ![j] = p]
          /\ Proceed(j)
          /\ UNCHANGED <<roots, temp, conn, package, saved, budget>>
       \/ /\ ~Restorable(p)
          /\ Refuse(j)

MoveOldDb(j) ==
  /\ at[j] = "old_db"
  /\ \/ /\ active.rows # NoFile /\ active.files # NoFile
        /\ old' = [old EXCEPT !.rows = active.rows]
        /\ active' = [active EXCEPT !.rows = NoFile]
        /\ conn' = Follow("active", "old")
        /\ Proceed(j)
        /\ UNCHANGED <<temp, packs, budget>>
     \/ /\ active.rows = NoFile \/ active.files = NoFile
        /\ Refuse(j)

MoveOldAtts(j) ==
  /\ at[j] = "old_atts"
  /\ old' = [old EXCEPT !.files = active.files]
  /\ active' = [active EXCEPT !.files = NoFile]
  /\ Proceed(j)
  /\ UNCHANGED <<temp, conn, packs, budget>>

\* Renaming a file replaces a blank database made in the meantime.
MoveNewDb(j) ==
  /\ at[j] = "new_db"
  /\ active' = [active EXCEPT !.rows = incoming[j].rows]
  /\ conn' = Follow("active", "gone")
  /\ Proceed(j)
  /\ UNCHANGED <<old, temp, packs, budget>>

\* Renaming a directory onto one that is not empty throws.
MoveNewAtts(j) ==
  /\ at[j] = "new_atts"
  /\ \/ /\ active.files = NoFile
        /\ active' = [active EXCEPT !.files = incoming[j].files]
        /\ Proceed(j)
        /\ UNCHANGED <<old, temp, conn, packs, budget>>
     \/ /\ active.files # NoFile
        /\ Refuse(j)

\* _requireAttachmentManifestMatchesDatabase on the activated pair.
Matches(manifest) == active.rows = manifest /\ There(manifest, active.files)

Check(j) ==
  /\ at[j] = "check"
  /\ \/ /\ Matches(incoming[j].files)
        /\ Proceed(j)
        /\ UNCHANGED <<roots, temp, conn, packs, budget>>
     \/ /\ ~Matches(incoming[j].files)
        /\ Refuse(j)

\* notificationReconciler reads the restored database through a queue.
Notify(j) ==
  /\ at[j] = "notify"
  /\ at' = [at EXCEPT ![j] = After(j)] /\ Meeting
  /\ queue' = [queue EXCEPT ![NotifyLane] = Append(@, Nested(j))]
  /\ UNCHANGED <<roots, temp, conn, packs, order, budget>>

Reconciled(j) ==
  /\ at[j] = "reconciling" /\ Heads(NotifyLane, Nested(j))
  /\ at' = [at EXCEPT ![j] = After(j)] /\ Meeting
  /\ queue' = [queue EXCEPT ![NotifyLane] = Tail(@)]
  /\ UNCHANGED <<roots, temp, conn, packs, order, budget>>

\* completeValidated deletes the rollback area.
Complete(j) ==
  /\ at[j] = "complete"
  /\ old' = Nothing
  /\ conn' = Follow("old", "gone")
  /\ Proceed(j)
  /\ UNCHANGED <<active, temp, packs, budget>>

-----------------------------------------------------------------------------
\* The process dies.  The files stay; RestoreRecovery has a death in the swap.
Crash ==
  /\ crashes < MaxCrashes /\ crashes' = crashes + 1
  /\ \A j \in Jobs : at[j] \notin Swapping
  /\ at' = [j \in Jobs |-> IF at[j] \in Ended \union {"new"} THEN at[j] ELSE "killed"]
  /\ Meeting
  /\ conn' = [j \in Jobs |-> "none"]
  /\ queue' = [l \in Lanes |-> <<>>]
  /\ UNCHANGED <<roots, temp, packs, order, faults>>

AddPhoto(j) ==
  \/ Look(j) \/ Stage(j) \/ Verify(j) \/ Finalize(j)
  \/ OpenDb(j) \/ Commit(j) \/ Close(j) \/ Cleanup(j)

Backup(j) == ReadRows(j) \/ Vacuum(j) \/ ReadFiles(j) \/ Save(j)

Restore(j) ==
  \/ Prepare(j) \/ MoveOldDb(j) \/ MoveOldAtts(j) \/ MoveNewDb(j)
  \/ MoveNewAtts(j) \/ Check(j) \/ Notify(j) \/ Reconciled(j) \/ Complete(j)

Step(j) == Begin(j) \/ AddPhoto(j) \/ Backup(j) \/ Restore(j)

Next == Crash \/ \E j \in Jobs : Ask(j) \/ Step(j) \/ Throw(j)

Spec == Init /\ [][Next]_vars

\* The event loop goes on while a continuation is ready.
FairSpec == Spec /\ \A j \in Jobs : WF_vars(Step(j))

-----------------------------------------------------------------------------
(* Properties. *)

Sets == (SUBSET Photos) \union {NoFile}

\* Every variable stays in its type; a backup never reads a database that is
\* not in its place.
TypeOK ==
  /\ active \in [rows : Sets, files : Sets]
  /\ old \in [rows : Sets, files : Sets]
  /\ temp \subseteq Photos
  /\ conn \in [Jobs -> {"none", "active", "old", "gone"}]
  /\ at \in [Jobs -> Steps \union Ended \union {"new", "cleanup"}]
  /\ \A l \in Lanes : queue[l] \in Seq(Jobs \X {"call", "nested"})
  /\ \A j \in Jobs : NoFile \notin {package[j].rows, package[j].files}
  /\ package \in [Jobs -> [rows : SUBSET Photos, files : SUBSET Photos]]
  /\ incoming \in [Jobs -> [rows : SUBSET Photos, files : SUBSET Photos]]
  /\ saved \subseteq Jobs
  /\ order \in Seq(Jobs) /\ met \subseteq Jobs \X Jobs
  /\ faults \in 0..MaxFaults /\ crashes \in 0..MaxCrashes

SwapUnderWay ==
  \E j \in Jobs : at[j] \in Swapping \ {"old_db"}

\* Photos of logs and assets that were being added while a restore ran.
Overtaken == {Photo[p[2]] : p \in {q \in met : Kind[q[1]] = "restore"}}

\* Photos of assets that were being added while this backup ran.
AddedBeside(b) ==
  {Photo[p[2]] : p \in {q \in met : q[1] = b /\ Kind[q[2]] = "inventory"}}

\* A photo with a row has its file: neither a failed call, nor a second call
\* under the same id, nor a restore, nor a process death takes the file of a
\* committed row away.  What a restore overtook, it alone may lose.  (stage,
\* cleanup, the catch blocks, rollbackToOld)
RowsHaveFiles ==
  ~SwapUnderWay =>
    active.rows # NoFile /\ There(active.rows \ Overtaken, active.files)

\* A package that createBackup reports can be prepared for a restore, its
\* manifest lists the rows of its own snapshot, unless an asset photo was added
\* between the two reads; then that photo alone is missing from the manifest.
\* (_createBackupInside, _requireAttachmentManifestMatchesDatabase)
PackagesRestorable ==
  \A j \in saved :
    /\ package[j].files \subseteq package[j].rows
    /\ package[j].rows \subseteq package[j].files \union AddedBeside(j)

SafetyPackages == {package[j] : j \in {k \in saved : Kind[k] = "restore"}}

\* A photo whose call returned normally is in the data root or in the safety
\* package of a restore that replaced it, unless the restore overtook its call.
\* (restoreBackup: the safety backup and the swap see the same state)
AcknowledgedKept ==
  \A j \in Jobs : at[j] = "done" /\ Kind[j] \in Attaching =>
    \/ Photo[j] \in Overtaken
    \/ Has(active.rows, Photo[j]) \/ Has(old.rows, Photo[j])
    \/ \E p \in SafetyPackages : Photo[j] \in p.rows

EnteredBefore(k, j) ==
  \E m, n \in DOMAIN order : m < n /\ order[m] = k /\ order[n] = j

Restored == \E j \in Jobs : Kind[j] = "restore" /\ at[j] # "new"

\* A backup has every photo whose call entered the queue before it and came
\* back, and none whose call entered after it.  (_enqueue, createBackup)
SnapshotAtItsTurn ==
  \A j \in saved, k \in Jobs :
    Kind[k] \in Attaching /\ at[k] = "done" /\ ~Restored =>
      /\ EnteredBefore(k, j) => Photo[k] \in package[j].rows
      /\ EnteredBefore(j, k) => Photo[k] \notin package[j].rows

AtRest == \A j \in Jobs : at[j] \in Ended \union {"new"}

\* Once no call is running, and if the process never died, no file is left
\* that no row refers to, and no .part.  (cleanup in every catch block)
NothingLeftBehind ==
  AtRest /\ crashes = 0 =>
    active.files \ Overtaken \subseteq active.rows /\ temp = {}

\* While a backup or a restore runs, only it changes the files: what the
\* coordinator says of itself ("operations submitted while an exclusive task is
\* running start only after it finishes").
\* The code does not meet this: photos of logs are staged, and cleaned up,
\* outside it (attachAgendaPhotos).
ExclusiveTasksAlone ==
  [][\A b \in Jobs : Holds(b) /\ active'.files # active.files => at'[b] # at[b]]_vars

\* Time and again no call is left unanswered, also behind a call that threw and
\* behind a restore that waits for its own reconciler.  (_enqueue catches what an
\* operation throws; bootstrap gives the reconciler a coordinator of its own)
EveryCallAnswered == []<>AtRest
=============================================================================
