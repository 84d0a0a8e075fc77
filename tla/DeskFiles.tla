------------------------------ MODULE DeskFiles ------------------------------
(***************************************************************************)
(* The files of the desktop application: photos sent with an observation,  *)
(* full backups of the data root, and their restoration into a new root.   *)
(*                                                                         *)
(* A photo is staged below attachments/staging, its row and the            *)
(* observation are inserted in one transaction, the file is renamed to its *)
(* final place while the transaction is open, and the commit comes last.   *)
(* A backup copies the database first, then reads the files the copy       *)
(* names, while uploads go on.  Calls may fail at every step, the process  *)
(* may die between two steps, and a disk may damage a file.                *)
(*                                                                         *)
(* The bytes of a file are whole or damaged: a digest tells the two apart. *)
(* An upload stands for one observation with one photo; ids are fresh, so  *)
(* no two share a path.                                                    *)
(***************************************************************************)
EXTENDS Naturals, FiniteSets

CONSTANTS Uploads,       \* requests that bring a photo
          Restores,      \* restorations, all into the same target
          None,
          MaxDamage,     \* files the disk damages
          MaxCrashes     \* times the process dies

Bytes   == {"whole", "damaged"}
Files   == [Uploads -> Bytes \cup {None}]
Roots   == [rows : SUBSET Uploads, files : Files]
Answers == {"saved", "refused", "staging left", "final left"}

ASSUME FilesAssumption ==
  /\ None \notin Uploads /\ None \notin Bytes
  /\ None \notin Roots   /\ None \notin Answers
  /\ MaxDamage \in Nat   /\ MaxCrashes \in Nat

VARIABLES rows,        \* uploads whose rows are committed
          staging,     \* per upload, its staging file: None or its bytes
          final,       \* the same of its final file
          uploads,     \* where each request stands
          told,        \* what its answer said
          writer,      \* the request that holds the write transaction
          backup,      \* the backup under way
          archive,     \* the published archive: None, or its rows and files
          restores,    \* where each restoration stands, and its directory
          target,      \* the restored root: None, or its rows and files
          damaged,     \* final files the disk damaged
          spoiled,     \* did the disk damage a staging file or the archive?
          crashes

vars == <<rows, staging, final, uploads, told, writer, backup, archive,
          restores, target, damaged, spoiled, crashes>>

requestVars == <<rows, staging, final, uploads, told, writer>>
backupVars  == <<backup, archive>>
restoreVars == <<restores, target>>
faultVars   == <<damaged, spoiled, crashes>>

NoBackup == [at |-> "idle", rows |-> {}, todo |-> {}, files |-> << >>]

Init ==
  /\ rows = {} /\ writer = None
  /\ staging = [u \in Uploads |-> None]
  /\ final   = [u \in Uploads |-> None]
  /\ uploads = [u \in Uploads |-> "idle"]
  /\ told    = [u \in Uploads |-> None]
  /\ backup = NoBackup /\ archive = None
  /\ restores = [r \in Restores |-> [at |-> "idle", held |-> None]]
  /\ target = None
  /\ damaged = {} /\ spoiled = FALSE /\ crashes = 0

-----------------------------------------------------------------------------
(* An upload                                                               *)

Moves(u, from, to) ==
  /\ uploads[u] = from
  /\ uploads' = [uploads EXCEPT ![u] = to]

Tell(u, answer) == told' = [told EXCEPT ![u] = answer]

\* The staging file is opened exclusively and filled.
OpenStaging(u) ==
  /\ Moves(u, "idle", "staging")
  /\ staging' = [staging EXCEPT ![u] = "damaged"]
  /\ UNCHANGED <<rows, final, told, writer, backupVars, restoreVars, faultVars>>

StageStream(u) ==
  /\ Moves(u, "staging", "staged")
  /\ staging' = [staging EXCEPT ![u] = "whole"]
  /\ UNCHANGED <<rows, final, told, writer, backupVars, restoreVars, faultVars>>

\* Reading the upload or writing the file fails; the file is removed, or that
\* fails as well and the error says so.
StageFails(u) ==
  /\ Moves(u, "staging", "answered")
  /\ \/ staging' = [staging EXCEPT ![u] = None] /\ Tell(u, "refused")
     \/ UNCHANGED staging /\ Tell(u, "staging left")
  /\ UNCHANGED <<rows, final, writer, backupVars, restoreVars, faultVars>>

\* The transaction begins and the rows of the observation, the photo and the
\* event are inserted.
InsertRows(u) ==
  /\ writer = None
  /\ Moves(u, "staged", "inserted")
  /\ writer' = u
  /\ UNCHANGED <<rows, staging, final, told, backupVars, restoreVars, faultVars>>

\* The transaction cannot begin, or a row is refused: rolled back.
InsertFails(u) ==
  /\ Moves(u, "staged", "failed")
  /\ UNCHANGED <<rows, staging, final, told, writer, backupVars, restoreVars,
                 faultVars>>

\* A variant that trusts the staging file.
AnyStaging(u) == final[u] = None

\* finalize: the staging file is read again, and renamed when its digest is
\* still the one of the upload and nothing is at the final place.
Finalizable(u) == staging[u] = "whole" /\ final[u] = None

FinalizeUpload(u) ==
  /\ Finalizable(u)
  /\ Moves(u, "inserted", "moved")
  /\ staging' = [staging EXCEPT ![u] = None]
  /\ final' = [final EXCEPT ![u] = staging[u]]
  /\ UNCHANGED <<rows, told, writer, backupVars, restoreVars, faultVars>>

\* It refuses, or the rename fails: the transaction is rolled back and the
\* staging file, still there, is left for a reconciliation.  A directory that
\* cannot be made is an error of another type, and handled like a failed
\* insertion.
FinalizeFails(u) ==
  /\ \/ Moves(u, "inserted", "answered") /\ Tell(u, "staging left")
     \/ Moves(u, "inserted", "failed")   /\ UNCHANGED told
  /\ writer' = None
  /\ UNCHANGED <<rows, staging, final, backupVars, restoreVars, faultVars>>

CommitUpload(u) ==
  /\ Moves(u, "moved", "answered")
  /\ rows' = rows \cup {u}
  /\ writer' = None
  /\ Tell(u, "saved")
  /\ UNCHANGED <<staging, final, backupVars, restoreVars, faultVars>>

\* The commit fails after the rename: rolled back, and the answer names the
\* final file.
CommitFails(u) ==
  /\ Moves(u, "moved", "answered")
  /\ writer' = None
  /\ Tell(u, "final left")
  /\ UNCHANGED <<rows, staging, final, backupVars, restoreVars, faultVars>>

\* A variant that answers before it removes the staging file.
DiscardForgotten(u) ==
  /\ Moves(u, "failed", "answered")
  /\ Tell(u, "refused")
  /\ UNCHANGED <<rows, staging, final, writer, backupVars, restoreVars,
                 faultVars>>

\* Nothing was finalized: the staging file is removed, and the error tells
\* when it could not be.
DiscardStaged(u) ==
  /\ Moves(u, "failed", "answered")
  /\ \/ staging' = [staging EXCEPT ![u] = None] /\ Tell(u, "refused")
     \/ UNCHANGED staging /\ Tell(u, "staging left")
  /\ UNCHANGED <<rows, final, writer, backupVars, restoreVars, faultVars>>

CreateObservation(u) ==
  \/ OpenStaging(u)    \/ StageStream(u)   \/ StageFails(u)
  \/ InsertRows(u)     \/ InsertFails(u)   \/ FinalizeUpload(u)
  \/ FinalizeFails(u)  \/ CommitUpload(u)  \/ CommitFails(u)
  \/ DiscardStaged(u)

-----------------------------------------------------------------------------
(* Verification of a root: its rows against its files                      *)

Verify(file) ==
  IF file = None THEN "missing"
  ELSE IF file = "whole" THEN "valid" ELSE "mismatch"

\* The manifest of an archive names the database and the file of every row,
\* and nothing else.
ManifestAgrees(root) ==
  \A u \in Uploads : root.files[u] # None <=> u \in root.rows

\* reconcile: the files that belong to no row.
Orphans(root) == {u \in Uploads : root.files[u] # None} \ root.rows

\* Every row has its file and no file is without a row.
Reconciled(root) ==
  (\A u \in root.rows : Verify(root.files[u]) = "valid") /\ Orphans(root) = {}

-----------------------------------------------------------------------------
(* A backup: the copy of the database, then the files it names             *)

BackupEnds(answer) == backup' = [NoBackup EXCEPT !.at = answer]

SnapshotDatabase ==
  /\ backup.at = "idle"
  /\ backup' = [at |-> "verifying", rows |-> rows, todo |-> rows,
                files |-> [u \in Uploads |-> None]]
  /\ UNCHANGED <<requestVars, archive, restoreVars, faultVars>>

VerifyAttachment(u) ==
  /\ backup.at = "verifying" /\ u \in backup.todo
  /\ IF Verify(final[u]) = "valid"
     THEN backup' = [backup EXCEPT !.todo = @ \ {u}]
     ELSE BackupEnds("refused")
  /\ UNCHANGED <<requestVars, archive, restoreVars, faultVars>>

\* The archive is written with the files as they are now.
WriteArchive ==
  /\ backup.at = "verifying" /\ backup.todo = {}
  /\ backup' = [backup EXCEPT !.at = "written",
                  !.files = [u \in Uploads |->
                               IF u \in backup.rows THEN final[u] ELSE None]]
  /\ UNCHANGED <<requestVars, archive, restoreVars, faultVars>>

\* A variant that publishes what it has written.
PublishUnverified ==
  /\ backup.at = "written"
  /\ archive = None
  /\ archive' = [rows |-> backup.rows, files |-> backup.files]
  /\ BackupEnds("published")
  /\ UNCHANGED <<requestVars, restoreVars, faultVars>>

\* verify_backup: the entries against the manifest, an extraction, and the
\* rows of the copy against the extracted files; then the rename.
PublishArchive ==
  /\ backup.at = "written"
  /\ archive = None
  /\ IF Reconciled(backup)
     THEN /\ archive' = [rows |-> backup.rows, files |-> backup.files]
          /\ BackupEnds("published")
     ELSE /\ BackupEnds("refused")
          /\ UNCHANGED archive
  /\ UNCHANGED <<requestVars, restoreVars, faultVars>>

\* No space, a locked database, a failed rename: the work directory goes.
BackupFails ==
  /\ backup.at \in {"verifying", "written"}
  /\ BackupEnds("failed")
  /\ UNCHANGED <<requestVars, archive, restoreVars, faultVars>>

\* A finished backup is forgotten, and a new one gets a new name.
NextBackup ==
  /\ backup.at \in {"refused", "failed"}
  /\ BackupEnds("idle")
  /\ UNCHANGED <<requestVars, archive, restoreVars, faultVars>>

\* The page verifies the archive again after it was published and removes one
\* that does not pass.
VerifyPublished ==
  /\ archive # None
  /\ archive' = IF Reconciled(archive) THEN archive ELSE None
  /\ UNCHANGED <<requestVars, backup, restoreVars, faultVars>>

CreateBackup ==
  \/ SnapshotDatabase \/ \E u \in Uploads : VerifyAttachment(u)
  \/ WriteArchive \/ PublishArchive \/ BackupFails \/ NextBackup
  \/ VerifyPublished

-----------------------------------------------------------------------------
(* A restoration into a root that must not exist                           *)

RestoreAt(r, at, held) ==
  restores' = [restores EXCEPT ![r] = [at |-> at, held |-> held]]

\* The target is free and the archive passes its verification.
RestoreBegins(r) ==
  /\ restores[r].at = "idle"
  /\ archive # None
  /\ IF target = None /\ Reconciled(archive)
     THEN RestoreAt(r, "extracting", None)
     ELSE RestoreAt(r, "refused", None)
  /\ UNCHANGED <<requestVars, backupVars, target, faultVars>>

\* The files go to a directory beside the target, each checked against the
\* manifest as it is written.
ExtractArchive(r) ==
  /\ restores[r].at = "extracting"
  /\ IF /\ archive # None
        /\ ManifestAgrees(archive)
        /\ \A u \in archive.rows : Verify(archive.files[u]) = "valid"
     THEN RestoreAt(r, "extracted", archive)
     ELSE RestoreAt(r, "refused", None)
  /\ UNCHANGED <<requestVars, backupVars, target, faultVars>>

\* The extracted database is read, migrated when it is older, and its rows are
\* reconciled with the extracted files.
ValidateRestored(r) ==
  /\ restores[r].at = "extracted"
  /\ IF Reconciled(restores[r].held)
     THEN RestoreAt(r, "validated", restores[r].held)
     ELSE RestoreAt(r, "refused", None)
  /\ UNCHANGED <<requestVars, backupVars, target, faultVars>>

\* The rename onto the target fails when the target has appeared meanwhile.
MoveToTarget(r) ==
  /\ restores[r].at = "validated"
  /\ IF target = None
     THEN /\ target' = restores[r].held
          /\ RestoreAt(r, "done", None)
     ELSE /\ RestoreAt(r, "refused", None)
          /\ UNCHANGED target
  /\ UNCHANGED <<requestVars, backupVars, faultVars>>

\* A step fails: the directory is removed, or the error tells that it is left.
RestoreFails(r) ==
  /\ restores[r].at \in {"extracting", "extracted", "validated"}
  /\ \/ RestoreAt(r, "refused", None)
     \/ RestoreAt(r, "directory left", restores[r].held)
  /\ UNCHANGED <<requestVars, backupVars, target, faultVars>>

RestoreBackup(r) ==
  \/ RestoreBegins(r) \/ ExtractArchive(r) \/ ValidateRestored(r)
  \/ MoveToTarget(r)  \/ RestoreFails(r)

-----------------------------------------------------------------------------
(* Faults                                                                  *)

Running(u) == uploads[u] \in {"staging", "staged", "inserted", "moved", "failed"}

\* The process dies: what it was doing stops where it was, the open
\* transaction is rolled back by the next one, and nothing is cleaned up.
Crash ==
  /\ crashes < MaxCrashes
  /\ crashes' = crashes + 1
  /\ uploads' = [u \in Uploads |-> IF Running(u) THEN "lost" ELSE uploads[u]]
  /\ writer' = None
  /\ backup' = IF backup.at \in {"verifying", "written"}
               THEN [NoBackup EXCEPT !.at = "failed"] ELSE backup
  /\ UNCHANGED <<rows, staging, final, told, archive, restoreVars, damaged,
                 spoiled>>

Damage ==
  /\ Cardinality(damaged) + (IF spoiled THEN 1 ELSE 0) < MaxDamage
  /\ \/ \E u \in Uploads :
          /\ final[u] = "whole"
          /\ final' = [final EXCEPT ![u] = "damaged"]
          /\ damaged' = damaged \cup {u}
          /\ UNCHANGED <<staging, archive, spoiled>>
     \/ /\ \E u \in Uploads :
             \/ /\ staging[u] = "whole"
                /\ staging' = [staging EXCEPT ![u] = "damaged"]
                /\ UNCHANGED archive
             \/ /\ archive # None
                /\ archive.files[u] = "whole"
                /\ archive' = [archive EXCEPT !.files[u] = "damaged"]
                /\ UNCHANGED staging
        /\ spoiled' = TRUE
        /\ UNCHANGED <<final, damaged>>
  /\ UNCHANGED <<rows, uploads, told, writer, backup, restoreVars, crashes>>

Next ==
  \/ \E u \in Uploads : CreateObservation(u)
  \/ CreateBackup
  \/ \E r \in Restores : RestoreBackup(r)
  \/ Crash
  \/ Damage

Spec == Init /\ [][Next]_vars

-----------------------------------------------------------------------------
(* Properties                                                              *)

\* A committed row has its file, and the file is whole unless the disk damaged
\* it: at every moment a crash, a backup or a reader may look, whatever calls
\* failed before (observations.py:189, the rename before the commit).  And an
\* upload answered "saved" is committed.
RowsHaveTheirFiles ==
  /\ \A u \in rows : final[u] # None /\ (u \notin damaged => final[u] = "whole")
  /\ \A u \in Uploads : told[u] = "saved" => u \in rows

\* A file that belongs to no committed row belongs to a request under way, was
\* named by an error that asks for a reconciliation, or was left by a process
\* that died: no failure leaves one silently (observations.py:192 to 233).
LeftoversAreTold ==
  \A u \in Uploads \ rows :
    /\ staging[u] # None =>
         Running(u) \/ uploads[u] = "lost" \/ told[u] = "staging left"
    /\ final[u] # None =>
         Running(u) \/ uploads[u] = "lost" \/ told[u] = "final left"

\* Backups and uploads do not disturb each other: while no disk damaged a
\* file, no backup is refused, the published archive passes the verification
\* of a restoration, and whatever happened, a restored root is complete,
\* every row with its whole file and no other file (backups.py:70 to 236).
BackupsRestore ==
  /\ damaged = {} => backup.at # "refused"
  /\ archive # None /\ ~spoiled => Reconciled(archive)
  /\ target # None => Reconciled(target)
=============================================================================
