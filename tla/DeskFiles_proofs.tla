--------------------------- MODULE DeskFiles_proofs ---------------------------
(***************************************************************************)
(* Proofs about the files of the desktop application, for any uploads, any *)
(* restorations, and any number of crashes and damaged files.              *)
(*                                                                         *)
(* What the two files of an upload hold follows from where its request     *)
(* stands and what it answered (UploadInv); what a backup or a restoration *)
(* holds follows from how far it got (CopiesInv).  The three properties    *)
(* are consequences.                                                       *)
(***************************************************************************)
EXTENDS DeskFiles, TLAPS

FilesTyped ==
  /\ rows \subseteq Uploads
  /\ staging \in Files /\ final \in Files
  /\ uploads \in [Uploads -> {"idle", "staging", "staged", "inserted", "moved",
                              "failed", "answered", "lost"}]
  /\ told \in [Uploads -> Answers \cup {None}]
  /\ damaged \subseteq Uploads
  /\ spoiled \in BOOLEAN

Backups == [at : {"idle", "verifying", "written", "published", "refused",
                  "failed"},
            rows : SUBSET Uploads, todo : SUBSET Uploads,
            files : Files \cup {<< >>}]

Stages == {"idle", "extracting", "extracted", "validated", "done", "refused",
           "directory left"}
Places == [at : Stages, held : Roots \cup {None}]

CopiesTyped ==
  /\ backup \in Backups
  /\ archive \in Roots \cup {None}
  /\ restores \in [Restores -> Places]
  /\ target \in Roots \cup {None}

\* The final file is there, and whole unless the disk damaged it.
Kept(u) == final[u] # None /\ (u \notin damaged => final[u] = "whole")

\* Where a request stands tells its files, its answer and its row.
Unfinished(u) == u \notin rows /\ told[u] = None

Stands(u) ==
  /\ uploads[u] = "idle" =>
       Unfinished(u) /\ staging[u] = None /\ final[u] = None
  /\ uploads[u] \in {"staging", "staged", "inserted", "failed"} =>
       Unfinished(u) /\ final[u] = None
  /\ uploads[u] = "moved" => Unfinished(u) /\ staging[u] = None /\ Kept(u)
  /\ uploads[u] = "lost" => Unfinished(u)
  /\ uploads[u] = "answered" =>
       /\ told[u] \in Answers
       /\ told[u] = "saved" <=> u \in rows
       /\ told[u] = "saved" => staging[u] = None /\ Kept(u)
       /\ told[u] = "refused" => staging[u] = None /\ final[u] = None
       /\ told[u] = "staging left" => final[u] = None
       /\ told[u] = "final left" => staging[u] = None

UploadInv == FilesTyped /\ \A u \in Uploads : Stands(u)

\* What the copies hold, by how far each has come.
BackupInv ==
  /\ backup.at \in {"verifying", "written"} =>
       backup.rows \subseteq rows /\ backup.todo \subseteq rows
  /\ backup.at = "written" =>
       /\ backup.files \in Files
       /\ \A u \in Uploads :
            /\ u \notin backup.rows => backup.files[u] = None
            /\ u \in backup.rows \ damaged => backup.files[u] = "whole"
  /\ damaged = {} => backup.at # "refused"

ArchiveInv == archive # None /\ ~spoiled => Reconciled(archive)

RestoreInv ==
  /\ \A r \in Restores :
       /\ restores[r].at = "extracted" => restores[r].held \in Roots
       /\ restores[r].at = "validated" =>
            restores[r].held \in Roots /\ Reconciled(restores[r].held)
  /\ target # None => Reconciled(target)

CopiesInv == CopiesTyped /\ BackupInv /\ ArchiveInv /\ RestoreInv

FilesInv == UploadInv /\ CopiesInv

-----------------------------------------------------------------------------
(* Uploads                                                                 *)

\* A step of a request touches its own files, answer and row only.
LEMMA OthersUntouched ==
  ASSUME FilesTyped, NEW u \in Uploads, CreateObservation(u),
         NEW v \in Uploads \ {u}
  PROVE  /\ staging'[v] = staging[v] /\ final'[v] = final[v]
         /\ uploads'[v] = uploads[v] /\ told'[v] = told[v]
         /\ v \in rows' <=> v \in rows
         /\ damaged' = damaged
<1> USE DEF FilesTyped, Files, Moves, Tell
<1>1. CASE OpenStaging(u)
  BY <1>1 DEF OpenStaging, faultVars
<1>2. CASE StageStream(u)
  BY <1>2 DEF StageStream, faultVars
<1>3. CASE StageFails(u)
  BY <1>3 DEF StageFails, faultVars
<1>4. CASE InsertRows(u)
  BY <1>4 DEF InsertRows, faultVars
<1>5. CASE InsertFails(u)
  BY <1>5 DEF InsertFails, faultVars
<1>6. CASE FinalizeUpload(u)
  BY <1>6 DEF FinalizeUpload, faultVars
<1>7. CASE FinalizeFails(u)
  BY <1>7 DEF FinalizeFails, faultVars
<1>8. CASE CommitUpload(u)
  BY <1>8 DEF CommitUpload, faultVars
<1>9. CASE CommitFails(u)
  BY <1>9 DEF CommitFails, faultVars
<1>10. CASE DiscardStaged(u)
  BY <1>10 DEF DiscardStaged, faultVars
<1> QED
  BY <1>1, <1>2, <1>3, <1>4, <1>5, <1>6, <1>7, <1>8, <1>9, <1>10
     DEF CreateObservation

\* Its own files, answer and row are those of the place it moves to.
LEMMA OwnStep ==
  ASSUME UploadInv, NEW u \in Uploads, CreateObservation(u)
  PROVE  FilesTyped' /\ Stands(u)'
<1>1. FilesTyped /\ Stands(u)
  BY DEF UploadInv
<1> USE <1>1, FilesAssumption
    DEF FilesTyped, Files, Bytes, Answers, Moves, Tell, Stands, Unfinished, Kept
<1>2. CASE OpenStaging(u)
  BY <1>2 DEF OpenStaging, faultVars
<1>3. CASE StageStream(u)
  BY <1>3 DEF StageStream, faultVars
<1>4. CASE StageFails(u)
  <2>1. FilesTyped'
    BY <1>4 DEF StageFails, faultVars
  <2>2. Stands(u)'
    BY <1>4 DEF StageFails, faultVars
  <2> QED
    BY <2>1, <2>2
<1>5. CASE InsertRows(u)
  BY <1>5 DEF InsertRows, faultVars
<1>6. CASE InsertFails(u)
  BY <1>6 DEF InsertFails, faultVars
<1>7. CASE FinalizeUpload(u)
  BY <1>7 DEF FinalizeUpload, Finalizable, faultVars
<1>8. CASE FinalizeFails(u)
  <2>1. FilesTyped'
    BY <1>8 DEF FinalizeFails, faultVars
  <2>2. Stands(u)'
    BY <1>8 DEF FinalizeFails, faultVars
  <2> QED
    BY <2>1, <2>2
<1>9. CASE CommitUpload(u)
  BY <1>9 DEF CommitUpload, faultVars
<1>10. CASE CommitFails(u)
  BY <1>10 DEF CommitFails, faultVars
<1>11. CASE DiscardStaged(u)
  <2>1. FilesTyped'
    BY <1>11 DEF DiscardStaged, faultVars
  <2>2. Stands(u)'
    BY <1>11 DEF DiscardStaged, faultVars
  <2> QED
    BY <2>1, <2>2
<1> QED
  BY <1>2, <1>3, <1>4, <1>5, <1>6, <1>7, <1>8, <1>9, <1>10, <1>11
     DEF CreateObservation

\* A step of a request leaves every request standing as its place says.
LEMMA UploadSteps ==
  ASSUME UploadInv, NEW u \in Uploads, CreateObservation(u)
  PROVE  UploadInv'
<1>1. FilesTyped' /\ Stands(u)'
  BY OwnStep
<1>2. ASSUME NEW v \in Uploads \ {u}
      PROVE  Stands(v)'
  BY OthersUntouched DEF UploadInv, Stands, Unfinished, Kept
<1> QED
  BY <1>1, <1>2 DEF UploadInv

\* A death leaves the files as they are; the disk damages what it records.
LEMMA UploadFaults ==
  ASSUME UploadInv, Crash \/ Damage
  PROVE  UploadInv'
<1> USE FilesAssumption DEF FilesTyped, Files, Bytes, Answers, restoreVars
<1>1. CASE Crash
  <2>1. FilesTyped'
    BY <1>1 DEF UploadInv, Crash
  <2>2. ASSUME NEW u \in Uploads
        PROVE  Stands(u)'
    BY <1>1, <2>2 DEF UploadInv, Crash, Running, Stands, Unfinished, Kept
  <2> QED
    BY <2>1, <2>2 DEF UploadInv
<1>2. CASE Damage
  <2>1. FilesTyped'
    BY <1>2 DEF UploadInv, Damage
  <2>2. ASSUME NEW u \in Uploads
        PROVE  Stands(u)'
    <3>1. /\ UNCHANGED <<rows, told, uploads>>
          /\ damaged \subseteq damaged'
          /\ (staging[u] = None) <=> (staging'[u] = None)
          /\ \/ final'[u] = final[u]
             \/ final'[u] = "damaged" /\ final[u] = "whole" /\ u \in damaged'
      BY <1>2, <2>2 DEF UploadInv, Damage
    <3> QED
      BY <2>2, <3>1 DEF UploadInv, Stands, Unfinished, Kept
  <2> QED
    BY <2>1, <2>2 DEF UploadInv
<1> QED
  BY <1>1, <1>2

-----------------------------------------------------------------------------
(* Copies                                                                  *)

\* What a copy holds stays true while it is not touched: rows are only added,
\* and damage is recorded.
LEMMA BackupUntouched ==
  ASSUME BackupInv, UNCHANGED backup, rows \subseteq rows',
         damaged \subseteq damaged'
  PROVE  BackupInv'
<1>1. /\ backup'.at = backup.at /\ backup'.rows = backup.rows
      /\ backup'.todo = backup.todo /\ backup'.files = backup.files
  OBVIOUS
<1> QED
  BY <1>1 DEF BackupInv, Files, Bytes

\* An archive that is not touched stays what it was.
LEMMA ArchiveUntouched ==
  ASSUME ArchiveInv, UNCHANGED archive, spoiled => spoiled'
  PROVE  ArchiveInv'
BY DEF ArchiveInv, Reconciled, Orphans, Verify

\* So do the restorations and the target.
LEMMA RestoresUntouched ==
  ASSUME RestoreInv, UNCHANGED restoreVars
  PROVE  RestoreInv'
BY DEF RestoreInv, Reconciled, Orphans, Verify, Roots, Files, Bytes, restoreVars

\* No step of an upload takes anything from a copy.
LEMMA CopiesDuringUploads ==
  ASSUME CopiesInv, NEW u \in Uploads, CreateObservation(u)
  PROVE  CopiesInv'
<1>1. /\ rows \subseteq rows'
      /\ UNCHANGED <<backupVars, restoreVars, faultVars>>
  BY DEF CreateObservation, OpenStaging, StageStream, StageFails, InsertRows,
         InsertFails, FinalizeUpload, FinalizeFails, CommitUpload, CommitFails,
         DiscardStaged
<1>2. CopiesTyped'
  BY <1>1 DEF CopiesInv, CopiesTyped, Backups, Places, Roots, Files,
              Bytes, backupVars, restoreVars
<1> QED
  BY <1>1, <1>2, BackupUntouched, ArchiveUntouched, RestoresUntouched
     DEF CopiesInv, backupVars, faultVars

\* A backup that ends keeps nothing.
LEMMA BackupEnded ==
  ASSUME NEW answer \in {"idle", "published", "refused", "failed"},
         BackupEnds(answer), UNCHANGED damaged,
         damaged = {} => answer # "refused"
  PROVE  /\ backup' \in Backups
         /\ BackupInv'
<1> USE DEF Backups
<1>1. backup' = [at |-> answer, rows |-> {}, todo |-> {}, files |-> << >>]
  BY DEF BackupEnds, NoBackup
<1> QED
  BY <1>1 DEF BackupInv

\* The rows of the copy are committed, and their files were whole when they
\* were read, unless the disk had damaged them.
LEMMA BackupSteps ==
  ASSUME UploadInv, CopiesInv, CreateBackup
  PROVE  CopiesInv'
<1> USE DEF Backups
<1>1. /\ UNCHANGED <<requestVars, restoreVars, faultVars>>
      /\ RestoreInv'
  <2>1. UNCHANGED <<requestVars, restoreVars, faultVars>>
    BY DEF CreateBackup, SnapshotDatabase, VerifyAttachment, WriteArchive,
           PublishArchive, BackupFails, NextBackup, VerifyPublished
  <2> QED
    BY <2>1, RestoresUntouched DEF CopiesInv
<1>2. /\ rows \subseteq Uploads /\ final \in Files /\ damaged \subseteq Uploads
      /\ \A u \in rows \ damaged : final[u] = "whole"
  BY DEF UploadInv, FilesTyped, Stands, Unfinished, Kept, Answers
<1>3. UNCHANGED <<rows, damaged, spoiled, restores, target>>
  BY <1>1 DEF requestVars, restoreVars, faultVars
<1>4. UNCHANGED archive => ArchiveInv'
  BY <1>3, ArchiveUntouched DEF CopiesInv
<1>5. SUFFICES /\ backup' \in Backups
               /\ archive' \in Roots \cup {None}
               /\ BackupInv' /\ ArchiveInv'
  BY <1>1, <1>3 DEF CopiesInv, CopiesTyped, Backups, Places, Roots, Files, Bytes
<1>6. /\ archive \in Roots \cup {None} /\ BackupInv /\ ArchiveInv
      /\ backup \in Backups
  BY DEF CopiesInv, CopiesTyped
<1>7. UNCHANGED archive => archive' \in Roots \cup {None}
  BY <1>6 DEF Roots, Files, Bytes
<1>8. CASE SnapshotDatabase
  <2>1. backup' = [at |-> "verifying", rows |-> rows, todo |-> rows,
                   files |-> [u \in Uploads |-> None]]
    BY <1>8 DEF SnapshotDatabase
  <2>2. UNCHANGED archive
    BY <1>8 DEF SnapshotDatabase
  <2>3. [u \in Uploads |-> None] \in Files
    BY DEF Files
  <2> QED
    BY <1>2, <1>3, <1>4, <1>7, <2>1, <2>2, <2>3 DEF BackupInv
<1>9. ASSUME NEW u \in Uploads, VerifyAttachment(u)
      PROVE  /\ backup' \in Backups
             /\ BackupInv' /\ UNCHANGED archive
  <2>1. UNCHANGED archive
    BY <1>9 DEF VerifyAttachment
  <2>2. CASE Verify(final[u]) = "valid"
    <3>1. backup' = [backup EXCEPT !.todo = @ \ {u}] /\ backup.at = "verifying"
      BY <1>9, <2>2 DEF VerifyAttachment
    <3> QED
      BY <1>3, <1>6, <2>1, <3>1 DEF BackupInv
  <2>3. CASE Verify(final[u]) # "valid"
    <3>1. BackupEnds("refused") /\ u \in rows
      BY <1>6, <1>9, <2>3 DEF VerifyAttachment, BackupInv
    <3>2. u \in damaged
      BY <1>2, <2>3, <3>1, FilesAssumption DEF Verify, Bytes
    <3> QED
      BY <1>3, <2>1, <3>1, <3>2, BackupEnded
  <2> QED
    BY <2>2, <2>3
<1>10. CASE WriteArchive
  <2> DEFINE held == [u \in Uploads |->
                      IF u \in backup.rows THEN final[u] ELSE None]
  <2>1. /\ backup.at = "verifying" /\ UNCHANGED archive
        /\ backup' = [backup EXCEPT !.at = "written", !.files = held]
    BY <1>10 DEF WriteArchive
  <2>2. held \in Files
    BY <1>2 DEF Files
  <2>3. backup.rows \subseteq rows
    BY <1>6, <2>1 DEF BackupInv
  <2>4. \A u \in Uploads : /\ u \notin backup.rows => held[u] = None
                           /\ u \in backup.rows \ damaged => held[u] = "whole"
    BY <1>2, <2>3
  <2> HIDE DEF held
  <2>5. /\ backup'.at = "written" /\ backup'.rows = backup.rows
        /\ backup'.todo = backup.todo /\ backup'.files = held
        /\ backup' \in Backups
    BY <1>6, <2>1, <2>2
  <2>6. backup.todo \subseteq rows
    BY <1>6, <2>1 DEF BackupInv
  <2>7. held \in Files'
    BY <2>2 DEF Files, Bytes
  <2> QED
    BY <1>3, <1>4, <1>7, <2>1, <2>3, <2>4, <2>5, <2>6, <2>7 DEF BackupInv
<1>11. CASE PublishArchive
  <2>1. backup.at = "written" /\ backup.files \in Files
    BY <1>6, <1>11 DEF PublishArchive, BackupInv
  <2>2. CASE Reconciled(backup)
    <3>1. /\ archive' = [rows |-> backup.rows, files |-> backup.files]
          /\ BackupEnds("published")
      BY <1>11, <2>2 DEF PublishArchive
    <3>2. archive' \in Roots
      BY <1>6, <2>1, <3>1 DEF Roots
    <3>3. archive'.rows = backup.rows /\ archive'.files = backup.files
      BY <3>1
    <3>4. ArchiveInv'
      BY <2>2, <3>3 DEF ArchiveInv, Reconciled, Orphans, Verify
    <3> QED
      BY <1>3, <3>1, <3>2, <3>4, BackupEnded DEF Roots, Files, Bytes
  <2>3. CASE ~Reconciled(backup)
    <3>1. BackupEnds("refused") /\ UNCHANGED archive
      BY <1>11, <2>3 DEF PublishArchive
    <3>2. backup.rows \subseteq rows
      BY <1>6, <2>1 DEF BackupInv
    <3>3. ~(damaged = {})
      BY <1>2, <1>6, <2>1, <2>3, <3>2, FilesAssumption
         DEF BackupInv, Reconciled, Orphans, Verify, Bytes
    <3> QED
      BY <1>3, <1>4, <1>7, <3>1, <3>3, BackupEnded
  <2> QED
    BY <2>2, <2>3
<1>12. CASE BackupFails \/ NextBackup
  <2>1. UNCHANGED archive /\ (BackupEnds("failed") \/ BackupEnds("idle"))
    BY <1>12 DEF BackupFails, NextBackup
  <2> QED
    BY <1>3, <1>4, <1>7, <2>1, BackupEnded
<1>13. CASE VerifyPublished
  <2>1. UNCHANGED backup /\ archive' \in {archive, None}
    BY <1>13 DEF VerifyPublished
  <2>2. BackupInv'
    BY <1>3, <1>6, <2>1, BackupUntouched
  <2>3. CASE archive' = archive
    BY <1>4, <1>6, <1>7, <2>1, <2>2, <2>3
  <2>4. CASE archive' = None
    BY <1>6, <2>1, <2>2, <2>4 DEF ArchiveInv
  <2> QED
    BY <2>1, <2>3, <2>4
<1> QED
  BY <1>4, <1>7, <1>8, <1>9, <1>10, <1>11, <1>12, <1>13 DEF CreateBackup

\* Only what was reconciled reaches the target.
LEMMA RestoreSteps ==
  ASSUME CopiesInv, NEW r \in Restores, RestoreBackup(r)
  PROVE  CopiesInv'
<1> USE DEF RestoreAt, Places, Stages
<1>1. UNCHANGED <<requestVars, backupVars, faultVars>>
  BY DEF RestoreBackup, RestoreBegins, ExtractArchive, ValidateRestored,
         MoveToTarget, RestoreFails
<1>2. UNCHANGED <<rows, damaged, spoiled, backup, archive>>
  BY <1>1 DEF requestVars, backupVars, faultVars
<1>3. BackupInv' /\ ArchiveInv'
  BY <1>2, BackupUntouched, ArchiveUntouched DEF CopiesInv
<1>4. /\ restores \in [Restores -> Places]
      /\ target \in Roots \cup {None} /\ archive \in Roots \cup {None}
      /\ RestoreInv
  BY DEF CopiesInv, CopiesTyped
<1> SUFFICES /\ restores' \in [Restores -> Places]
             /\ target' \in Roots \cup {None}
             /\ RestoreInv'
  BY <1>2, <1>3 DEF CopiesInv, CopiesTyped, Backups, Places, Roots, Files, Bytes
<1> DEFINE Sound(at, held) ==
             /\ at = "extracted" => held \in Roots
             /\ at = "validated" => held \in Roots /\ Reconciled(held)
\* A step gives one restoration a place and a directory that suit each other.
<1>5. ASSUME NEW at \in Stages, NEW held \in Roots \cup {None},
             RestoreAt(r, at, held), Sound(at, held), UNCHANGED target
      PROVE  /\ restores' \in [Restores -> Places]
             /\ target' \in Roots \cup {None}
             /\ RestoreInv'
  <2>1. restores' = [restores EXCEPT ![r] = [at |-> at, held |-> held]]
    BY <1>5
  <2>2. \A q \in Restores :
          restores'[q] = IF q = r THEN [at |-> at, held |-> held]
                         ELSE restores[q]
    BY <1>4, <2>1
  <2>3. restores' \in [Restores -> Places]
    BY <1>4, <2>1
  <2>4. target # None => Reconciled(target)
    BY <1>4 DEF RestoreInv
  <2>5. \A q \in Restores : Sound(restores'[q].at, restores'[q].held)
    BY <1>4, <1>5, <2>2 DEF RestoreInv
  <2> QED
    BY <1>4, <1>5, <2>3, <2>4, <2>5 DEF RestoreInv, Reconciled, Orphans, Verify
<1>6. CASE \/ RestoreBegins(r) \/ ExtractArchive(r)
           \/ ValidateRestored(r) \/ RestoreFails(r)
  BY <1>4, <1>5, <1>6
     DEF RestoreBegins, ExtractArchive, ValidateRestored, RestoreFails,
         RestoreInv
<1>7. CASE MoveToTarget(r)
  <2>1. CASE target = None
    <3>1. /\ target' = restores[r].held /\ restores[r].held \in Roots
          /\ Reconciled(restores[r].held)
      BY <1>4, <1>7, <2>1 DEF MoveToTarget, RestoreInv
    <3>2. /\ restores' = [restores EXCEPT ![r] = [at |-> "done", held |-> None]]
      BY <1>7, <2>1 DEF MoveToTarget
    <3> QED
      BY <1>4, <3>1, <3>2 DEF RestoreInv, Reconciled, Orphans, Verify
  <2>2. CASE target # None
    BY <1>4, <1>5, <1>7, <2>2 DEF MoveToTarget
  <2> QED
    BY <2>1, <2>2
<1> QED
  BY <1>6, <1>7 DEF RestoreBackup

\* A death ends the backup and leaves the directories; damage to the archive
\* is on record, and the restored root was checked before.
LEMMA CopiesFaults ==
  ASSUME UploadInv, CopiesInv, Crash \/ Damage
  PROVE  CopiesInv'
<1>1. CASE Crash
  <2>1. UNCHANGED <<rows, archive, restoreVars, damaged, spoiled>>
    BY <1>1 DEF Crash
  <2>2. ArchiveInv' /\ RestoreInv'
    BY <2>1, ArchiveUntouched, RestoresUntouched DEF CopiesInv
  <2>3. UNCHANGED backup \/ BackupEnds("failed")
    BY <1>1 DEF Crash, BackupEnds
  <2>4. CASE UNCHANGED backup
    BY <2>1, <2>2, <2>4, BackupUntouched
       DEF CopiesInv, CopiesTyped, Backups, Places, Roots, Files,
           Bytes, restoreVars
  <2>5. CASE BackupEnds("failed")
    BY <2>1, <2>2, <2>5, BackupEnded
       DEF CopiesInv, CopiesTyped, Backups, Places, Roots, Files,
           Bytes, restoreVars
  <2> QED
    BY <2>3, <2>4, <2>5
<1>2. CASE Damage
  <2>1. /\ UNCHANGED <<rows, backup, restoreVars>> /\ damaged \subseteq damaged'
        /\ UNCHANGED <<archive, spoiled>> \/ spoiled'
    BY <1>2 DEF Damage
  <2>2. BackupInv' /\ RestoreInv'
    BY <2>1, BackupUntouched, RestoresUntouched DEF CopiesInv
  <2>3. ArchiveInv'
    BY <2>1, ArchiveUntouched DEF CopiesInv, ArchiveInv
  <2>4. archive' \in Roots \cup {None}
    <3>1. CASE UNCHANGED archive
      BY <3>1 DEF CopiesInv, CopiesTyped, Backups, Places, Roots, Files, Bytes
    <3>2. CASE ~UNCHANGED archive
      <4>1. PICK u \in Uploads :
              /\ archive # None
              /\ archive' = [archive EXCEPT !.files[u] = "damaged"]
        BY <1>2, <3>2 DEF Damage
      <4>2. archive \in Roots
        BY <4>1 DEF CopiesInv, CopiesTyped
      <4> QED
        BY <4>1, <4>2 DEF Roots, Files, Bytes
    <3> QED
      BY <3>1, <3>2
  <2> QED
    BY <2>1, <2>2, <2>3, <2>4
       DEF CopiesInv, CopiesTyped, Backups, Places, Roots, Files,
           Bytes, restoreVars
<1> QED
  BY <1>1, <1>2

-----------------------------------------------------------------------------
(* The invariant and the properties                                        *)

\* The invariant is inductive.
LEMMA FilesInvStep == FilesInv /\ [Next]_vars => FilesInv'
<1> SUFFICES ASSUME FilesInv, [Next]_vars PROVE FilesInv'
  OBVIOUS
<1> USE DEF FilesInv
<1>1. ASSUME NEW u \in Uploads, CreateObservation(u) PROVE FilesInv'
  BY <1>1, UploadSteps, CopiesDuringUploads
<1>2. ASSUME UNCHANGED <<requestVars, faultVars>> PROVE UploadInv'
  BY <1>2 DEF UploadInv, FilesTyped, Stands, Unfinished, Kept, Files, Bytes,
              Answers, requestVars, faultVars
<1>3. CASE CreateBackup
  <2>1. UNCHANGED <<requestVars, faultVars>>
    BY <1>3 DEF CreateBackup, SnapshotDatabase, VerifyAttachment, WriteArchive,
                PublishArchive, BackupFails, NextBackup, VerifyPublished
  <2> QED
    BY <1>2, <1>3, <2>1, BackupSteps
<1>4. ASSUME NEW r \in Restores, RestoreBackup(r) PROVE FilesInv'
  <2>1. UNCHANGED <<requestVars, faultVars>>
    BY <1>4 DEF RestoreBackup, RestoreBegins, ExtractArchive, ValidateRestored,
                MoveToTarget, RestoreFails
  <2> QED
    BY <1>2, <1>4, <2>1, RestoreSteps
<1>5. CASE Crash \/ Damage
  BY <1>5, UploadFaults, CopiesFaults
<1>6. CASE UNCHANGED vars
  <2>1. /\ UNCHANGED <<requestVars, faultVars>>
        /\ UNCHANGED <<rows, damaged, spoiled, backup, archive, restoreVars>>
    BY <1>6 DEF vars, requestVars, faultVars, restoreVars
  <2>2. BackupInv' /\ ArchiveInv' /\ RestoreInv'
    BY <2>1, BackupUntouched, ArchiveUntouched, RestoresUntouched DEF CopiesInv
  <2>3. CopiesTyped'
    BY <2>1 DEF CopiesInv, CopiesTyped, Backups, Places, Roots, Files,
           Bytes, restoreVars
  <2> QED
    BY <1>2, <2>1, <2>2, <2>3 DEF CopiesInv
<1> QED
  BY <1>1, <1>3, <1>4, <1>5, <1>6 DEF Next

\* The invariant holds in every state, whatever fails.
THEOREM DeskFilesInvariant == Spec => []FilesInv
<1>1. Init => FilesInv
  <2> SUFFICES ASSUME Init PROVE FilesInv
    OBVIOUS
  <2> USE FilesAssumption DEF Init
  <2>1. UploadInv
    BY DEF UploadInv, FilesTyped, Stands, Unfinished, Kept, Files, Bytes,
           Answers
  <2>2. CopiesTyped
    BY DEF CopiesTyped, Backups, Places, Stages, NoBackup,
           Files
  <2>3. BackupInv /\ ArchiveInv /\ RestoreInv
    BY DEF BackupInv, ArchiveInv, RestoreInv, NoBackup
  <2> QED
    BY <2>1, <2>2, <2>3 DEF FilesInv, CopiesInv
<1> QED
  BY <1>1, FilesInvStep, PTL DEF Spec

\* A committed row has its file, at every moment (observations.py:189, the
\* rename before the commit), for any number of uploads and of failures.
THEOREM RowsAlwaysHaveFiles == Spec => []RowsHaveTheirFiles
<1>1. FilesInv => RowsHaveTheirFiles
  BY FilesAssumption
     DEF FilesInv, UploadInv, FilesTyped, Stands, Unfinished, Kept, Answers,
         RowsHaveTheirFiles
<1> QED
  BY <1>1, DeskFilesInvariant, PTL

\* No failure leaves a file silently (observations.py:192 to 233).
THEOREM LeftoversAreNamed == Spec => []LeftoversAreTold
<1>1. FilesInv => LeftoversAreTold
  BY FilesAssumption
     DEF FilesInv, UploadInv, FilesTyped, Stands, Unfinished, Kept, Answers,
         LeftoversAreTold, Running
<1> QED
  BY <1>1, DeskFilesInvariant, PTL

\* A backup is refused only for a damaged file, what is published restores,
\* and what is restored is complete (backups.py:70 to 236).
THEOREM BackupsAlwaysRestore == Spec => []BackupsRestore
<1>1. FilesInv => BackupsRestore
  BY DEF FilesInv, CopiesInv, BackupInv, ArchiveInv, RestoreInv, BackupsRestore
<1> QED
  BY <1>1, DeskFilesInvariant, PTL
=============================================================================
