-------------------------- MODULE RestoreRecovery --------------------------
(***************************************************************************)
(* The swap of the mobile data root by a restored backup, its journal, and *)
(* the recovery that every bootstrap runs first.                           *)
(*                                                                         *)
(*   mobile/lib/application/mobile_backup_application.dart                 *)
(*       restoreBackup, _activatePreparedRestore                           *)
(*   mobile/lib/application/restore_recovery_application.dart              *)
(*   mobile/lib/bootstrap/app_bootstrap.dart   start()                     *)
(*                                                                         *)
(* The disk outlives the process.  Each action is one file-system call (or *)
(* one read-only check), so a crash may fall between any two of them.  The *)
(* data is abstracted to where it comes from: a copy of the database file  *)
(* or of the attachments directory is the generation it belongs to.        *)
(*                                                                         *)
(* Bounds: Ops (restores ever asked for), MaxCrashes (process deaths),     *)
(* MaxFaults (exceptions thrown by a file-system call or by the            *)
(* notification reconciler).  CrashSites and FaultSites name the parts of  *)
(* the run where they may fall.                                            *)
(***************************************************************************)
EXTENDS Naturals

CONSTANTS
  Ops,          \* restore operations; operation o brings in generation o
  Original,     \* the generation on disk before the first restore
  NoFile,       \* nothing at that path
  Torn,         \* a directory partly deleted, a journal partly written
  Blank,        \* what AppDatabase.open or ensureCreated makes from nothing
  Coherent,     \* <<database, attachments>> pairs the validators accept
  CrashSites, FaultSites,
  MaxCrashes, MaxFaults

Gens == Ops \union {Original}

Copies == Gens \union {NoFile, Torn, Blank}

\* RestoreJournalPhase; the journal's sequence number is phase.index + 1.
Prepared          == 1
OldStateMoved     == 2
NewStateActivated == 3
Validated         == 4

Entries == [op : Ops, phase : 1..4]

Slots == Entries \union {NoFile, Torn}

Sites == {"first_journal", "swap", "settle", "undo", "boot"}

ASSUME DistinctCopies ==
  /\ Original \notin Ops
  /\ {NoFile, Torn, Blank} \intersect (Gens \union Entries) = {}
  /\ NoFile # Torn /\ NoFile # Blank /\ Torn # Blank

\* A whole generation validates, as does the empty pair a fresh install has;
\* a missing or a partly deleted half never does.
ASSUME CoherentPairs ==
  /\ Coherent \subseteq (Gens \union {Blank}) \X (Gens \union {Blank})
  /\ \A g \in Gens \union {Blank} : <<g, g>> \in Coherent

ASSUME Bounds ==
  /\ MaxCrashes \in Nat /\ MaxFaults \in Nat
  /\ CrashSites \subseteq Sites /\ FaultSites \subseteq Sites

VARIABLES
  activeDb,     \* database/cse_mobile.sqlite3
  activeAtts,   \* attachments/
  staged,       \* staged[o]: temp_staging/restore-o, the incoming pair
  rollback,     \* rollback[o]: temp_staging/rollback-o, with failed_new inside
  journal,      \* restore_journal.json
  next,         \* restore_journal.json.next
  pc,           \* the call the process is about to make
  mode,         \* "restore", "undo" (its catch block) or "boot"
  op,           \* operation of the journal entry in memory
  phase,        \* its phase; 0 before begin() returned
  started,      \* operations asked for so far
  before,       \* history: the active pair when an operation was asked for
  crashes, faults

disk    == <<activeDb, activeAtts, staged, rollback>>
slots   == <<journal, next>>
process == <<pc, mode, op, phase>>
history == <<started, before>>
budget  == <<crashes, faults>>
vars    == <<disk, slots, process, history, budget>>

NoPair  == [db |-> NoFile, atts |-> NoFile]
NoArea  == [db |-> NoFile, atts |-> NoFile,
            failedDb |-> NoFile, failedAtts |-> NoFile]

NewPair(o) == [db |-> o, atts |-> o]

Pairs == [db : Copies, atts : Copies]
Areas == [db : Copies, atts : Copies, failedDb : Copies, failedAtts : Copies]

JournalWrite == {"drop_next", "tear_next", "fill_next", "drop_journal",
                 "rename_next"}
Swap         == {"move_old_db", "move_old_atts", "move_new_db",
                 "move_new_atts", "smoke", "notify"}
Settle       == {"complete", "drop_staged", "drop_rollback", "clear_journal",
                 "clear_next"}
PutBack      == {"check_rollback", "old_db", "old_db_rename", "old_atts",
                 "old_atts_rename", "validate_old"}
Idle         == {"down", "serving", "blocked"}
Pcs          == JournalWrite \union Swap \union Settle \union PutBack
                  \union Idle \union {"validate_new"}

Busy == pc \notin Idle

\* The part of the run the process is in.
Site ==
  IF mode = "boot" THEN "boot"
  ELSE IF mode = "undo" THEN "undo"
  ELSE IF phase = 0 THEN "first_journal"
  ELSE IF pc \in Settle THEN "settle" ELSE "swap"

ActivePair == [db |-> activeDb, atts |-> activeAtts]

\* validateActiveState and the smoke checks after the swap.
ActiveValid == <<activeDb, activeAtts>> \in Coherent

Init ==
  /\ activeDb = Original /\ activeAtts = Original
  /\ staged = [o \in Ops |-> NoPair]
  /\ rollback = [o \in Ops |-> NoArea]
  /\ journal = NoFile /\ next = NoFile
  /\ pc = "serving" /\ mode = "boot"
  /\ op \in Ops /\ phase = 0
  /\ started = {} /\ before = [o \in Ops |-> NoPair]
  /\ crashes = 0 /\ faults = 0

Goto(p) == pc' = p /\ UNCHANGED <<mode, op, phase>>

-----------------------------------------------------------------------------
(* Leaving a run: what the code does when a call throws. *)

\* Mutant: the catch block rethrows without rolling back.
ThrowWithoutRollback ==
  /\ staged' = [staged EXCEPT ![op] = NoPair]
  /\ pc' = IF mode = "boot" THEN "blocked" ELSE "serving"
  /\ UNCHANGED <<activeDb, activeAtts, rollback, slots, mode, op, phase, history>>

\* _activatePreparedRestore's catch calls rollbackToOld; an exception inside
\* that, or inside begin(), leaves the application running, and restoreBackup's
\* finally deletes the prepared directory.
Throw ==
  /\ \/ /\ mode = "restore" /\ phase > 0
        /\ mode' = "undo" /\ pc' = "check_rollback" /\ UNCHANGED staged
     \/ /\ mode = "restore" /\ phase = 0
        /\ staged' = [staged EXCEPT ![op] = NoPair]
        /\ pc' = "serving" /\ UNCHANGED mode
     \/ /\ mode = "undo"
        /\ staged' = [staged EXCEPT ![op] = NoPair]
        /\ pc' = "serving" /\ UNCHANGED mode
     \/ /\ mode = "boot" /\ pc = "validate_new"
        /\ pc' = "check_rollback" /\ UNCHANGED <<mode, staged>>
     \/ /\ mode = "boot" /\ pc # "validate_new"
        /\ pc' = "blocked" /\ UNCHANGED <<mode, staged>>
  /\ UNCHANGED <<activeDb, activeAtts, rollback, slots, op, phase, history>>

\* A call at pc throws without having had an effect.
Fault ==
  /\ Busy /\ faults < MaxFaults /\ Site \in FaultSites
  /\ faults' = faults + 1
  /\ Throw
  /\ UNCHANGED crashes

\* The process is killed, or the power goes.
Crash ==
  /\ Busy /\ crashes < MaxCrashes /\ Site \in CrashSites
  /\ crashes' = crashes + 1
  /\ pc' = "down"
  /\ UNCHANGED <<disk, slots, mode, op, phase, history, faults>>

-----------------------------------------------------------------------------
(* Asking for a restore. *)

\* restoreBackup up to recovery.begin(): the package is unpacked and validated
\* in temp_staging/restore-o, then the safety backup opens the active database
\* (making an empty one where there is none), refuses an incoherent pair, and
\* the rollback directory is created.
StartRestore(o) ==
  LET db   == IF activeDb = NoFile THEN Blank ELSE activeDb
      atts == IF activeAtts = NoFile THEN Blank ELSE activeAtts
  IN
  /\ pc = "serving" /\ o \in Ops \ started
  /\ <<db, atts>> \in Coherent
  /\ activeDb' = db /\ activeAtts' = atts
  /\ staged' = [staged EXCEPT ![o] = NewPair(o)]
  /\ started' = started \union {o}
  /\ before' = [before EXCEPT ![o] = [db |-> db, atts |-> atts]]
  /\ op' = o /\ phase' = 0 /\ mode' = "restore" /\ pc' = "drop_next"
  /\ UNCHANGED <<rollback, slots, budget>>

\* The safety backup fails (an incoherent pair, a full disk): restoreBackup
\* throws before its try block, and the prepared directory stays behind.
RefuseRestore(o) ==
  /\ pc = "serving" /\ o \in Ops \ started
  /\ activeDb' = IF activeDb = NoFile THEN Blank ELSE activeDb
  /\ activeAtts' = IF activeAtts = NoFile THEN Blank ELSE activeAtts
  /\ staged' = [staged EXCEPT ![o] = NewPair(o)]
  /\ started' = started \union {o}
  /\ UNCHANGED <<rollback, slots, process, before, budget>>

\* After a failed rollback the application keeps running: the first operation
\* that opens AppDatabase makes an empty database where there is none.
OpenMissingDatabase ==
  /\ pc = "serving" /\ activeDb = NoFile
  /\ activeDb' = Blank
  /\ UNCHANGED <<activeAtts, staged, rollback, slots, process, history, budget>>

-----------------------------------------------------------------------------
(* _write: the journal entry of the phase after the one in memory. *)

NextEntry == [op |-> op, phase |-> phase + 1]

\* Mutant: the old journal goes before the new one is written.
DropBothSlots ==
  /\ pc = "drop_next" /\ next' = NoFile /\ journal' = NoFile /\ Goto("tear_next")
  /\ UNCHANGED <<disk, history, budget>>

DropNext ==
  /\ pc = "drop_next" /\ next' = NoFile /\ Goto("tear_next")
  /\ UNCHANGED <<disk, journal, history, budget>>

TearNext ==
  /\ pc = "tear_next" /\ next' = Torn /\ Goto("fill_next")
  /\ UNCHANGED <<disk, journal, history, budget>>

FillNext ==
  /\ pc = "fill_next" /\ next' = NextEntry /\ Goto("drop_journal")
  /\ UNCHANGED <<disk, journal, history, budget>>

DropJournal ==
  /\ pc = "drop_journal" /\ journal' = NoFile /\ Goto("rename_next")
  /\ UNCHANGED <<disk, next, history, budget>>

\* begin() or advance() returns; the caller goes on with the phase's next step.
RenameNext ==
  /\ pc = "rename_next"
  /\ journal' = next /\ next' = NoFile
  /\ phase' = phase + 1
  /\ \/ phase' = Prepared          /\ pc' = "move_old_db"
     \/ phase' = OldStateMoved     /\ pc' = "move_new_db"
     \/ phase' = NewStateActivated /\ pc' = "smoke"
     \/ phase' = Validated         /\ pc' = "notify"
  /\ UNCHANGED <<disk, mode, op, history, budget>>

-----------------------------------------------------------------------------
(* _activatePreparedRestore between begin() and completeValidated. *)

MoveOldDb ==
  /\ pc = "move_old_db"
  /\ \/ /\ activeDb # NoFile /\ activeAtts # NoFile
        /\ rollback' = [rollback EXCEPT ![op].db = activeDb]
        /\ activeDb' = NoFile
        /\ Goto("move_old_atts")
        /\ UNCHANGED <<activeAtts, staged, slots, history>>
     \/ (activeDb = NoFile \/ activeAtts = NoFile) /\ Throw
  /\ UNCHANGED budget

MoveOldAtts ==
  /\ pc = "move_old_atts"
  /\ rollback' = [rollback EXCEPT ![op].atts = activeAtts]
  /\ activeAtts' = NoFile
  /\ Goto("drop_next")
  /\ UNCHANGED <<activeDb, staged, slots, history, budget>>

MoveNewDb ==
  /\ pc = "move_new_db"
  /\ activeDb' = staged[op].db
  /\ staged' = [staged EXCEPT ![op].db = NoFile]
  /\ Goto("move_new_atts")
  /\ UNCHANGED <<activeAtts, rollback, slots, history, budget>>

MoveNewAtts ==
  /\ pc = "move_new_atts"
  /\ activeAtts' = staged[op].atts
  /\ staged' = [staged EXCEPT ![op].atts = NoFile]
  /\ Goto("drop_next")
  /\ UNCHANGED <<activeDb, rollback, slots, history, budget>>

\* _validateDatabaseFile and the manifest comparison on the active pair.
SmokeCheck ==
  /\ pc = "smoke"
  /\ \/ ActiveValid /\ Goto("drop_next")
        /\ UNCHANGED <<disk, slots, history>>
     \/ ~ActiveValid /\ Throw
  /\ UNCHANGED budget

\* notificationReconciler(); its failure is a Fault.
Notify ==
  /\ pc = "notify" /\ Goto("complete")
  /\ UNCHANGED <<disk, slots, history, budget>>

-----------------------------------------------------------------------------
(* Settling: validate, _cleanupOperation, _clearJournal. *)

\* completeValidated's own validateActiveState.
CompleteValidated ==
  /\ pc = "complete"
  /\ \/ ActiveValid /\ Goto("drop_staged")
        /\ UNCHANGED <<disk, slots, history>>
     \/ ~ActiveValid /\ Throw
  /\ UNCHANGED budget

\* The prepared directory is never read again, so its deletion is one step.
DropStaged ==
  /\ pc = "drop_staged"
  /\ staged' = [staged EXCEPT ![op] = NoPair]
  /\ Goto("drop_rollback")
  /\ UNCHANGED <<activeDb, activeAtts, rollback, slots, history, budget>>

\* A recursive delete takes the entries one by one, in the order the directory
\* lists them; a directory entry is torn before it is gone.
DropRollback ==
  /\ pc = "drop_rollback"
  /\ \/ /\ rollback[op] = NoArea
        /\ Goto("clear_journal") /\ UNCHANGED rollback
     \/ /\ \/ /\ rollback[op].db # NoFile
              /\ rollback' = [rollback EXCEPT ![op].db = NoFile]
           \/ /\ rollback[op].failedDb # NoFile
              /\ rollback' = [rollback EXCEPT ![op].failedDb = NoFile]
           \/ /\ rollback[op].atts # NoFile
              /\ rollback' = [rollback EXCEPT ![op].atts =
                                IF @ = Torn THEN NoFile ELSE Torn]
           \/ /\ rollback[op].failedAtts # NoFile
              /\ rollback' = [rollback EXCEPT ![op].failedAtts =
                                IF @ = Torn THEN NoFile ELSE Torn]
        /\ UNCHANGED process
  /\ UNCHANGED <<activeDb, activeAtts, staged, slots, history, budget>>

ClearJournal ==
  /\ pc = "clear_journal" /\ journal' = NoFile /\ Goto("clear_next")
  /\ UNCHANGED <<disk, next, history, budget>>

\* The run ends: restoreBackup returns (or rethrows after its rollback), or
\* bootstrap goes on to open the database.
ClearNext ==
  /\ pc = "clear_next" /\ next' = NoFile /\ Goto("serving")
  /\ UNCHANGED <<disk, journal, history, budget>>

-----------------------------------------------------------------------------
(* _restoreAvailableOldComponents, from the catch block or from bootstrap. *)

RequireRollback == phase # Prepared

\* Mutant: phase prepared is taken to mean that nothing was moved.
CheckRollbackUnlessPrepared ==
  /\ pc = "check_rollback"
  /\ IF phase = Prepared THEN Goto("drop_staged") ELSE Goto("old_db")
  /\ UNCHANGED <<disk, slots, history, budget>>

CheckRollback ==
  /\ pc = "check_rollback"
  /\ LET missing == rollback[op].db = NoFile \/ rollback[op].atts = NoFile IN
     \/ /\ ~(RequireRollback /\ missing)
        /\ Goto("old_db") /\ UNCHANGED <<disk, slots, history>>
     \/ RequireRollback /\ missing /\ Throw
  /\ UNCHANGED budget

\* _preserveFailedFile moves the database in the way into failed_new.
OldDb ==
  /\ pc = "old_db"
  /\ LET area == rollback[op] IN
     \/ /\ area.db # NoFile /\ activeDb # NoFile /\ area.failedDb = NoFile
        /\ rollback' = [rollback EXCEPT ![op].failedDb = activeDb]
        /\ activeDb' = NoFile
        /\ Goto("old_db_rename")
        /\ UNCHANGED <<activeAtts, staged, slots, history>>
     \/ /\ area.db # NoFile /\ activeDb = NoFile
        /\ Goto("old_db_rename") /\ UNCHANGED <<disk, slots, history>>
     \/ /\ area.db = NoFile /\ activeDb # NoFile
        /\ Goto("old_atts") /\ UNCHANGED <<disk, slots, history>>
     \/ /\ \/ area.db # NoFile /\ activeDb # NoFile /\ area.failedDb # NoFile
           \/ area.db = NoFile /\ activeDb = NoFile
        /\ Throw
  /\ UNCHANGED budget

OldDbRename ==
  /\ pc = "old_db_rename"
  /\ activeDb' = rollback[op].db
  /\ rollback' = [rollback EXCEPT ![op].db = NoFile]
  /\ Goto("old_atts")
  /\ UNCHANGED <<activeAtts, staged, slots, history, budget>>

\* _preserveFailedDirectory does the same for the attachments.
OldAtts ==
  /\ pc = "old_atts"
  /\ LET area == rollback[op] IN
     \/ /\ area.atts # NoFile /\ activeAtts # NoFile /\ area.failedAtts = NoFile
        /\ rollback' = [rollback EXCEPT ![op].failedAtts = activeAtts]
        /\ activeAtts' = NoFile
        /\ Goto("old_atts_rename")
        /\ UNCHANGED <<activeDb, staged, slots, history>>
     \/ /\ area.atts # NoFile /\ activeAtts = NoFile
        /\ Goto("old_atts_rename") /\ UNCHANGED <<disk, slots, history>>
     \/ /\ area.atts = NoFile /\ activeAtts # NoFile
        /\ Goto("validate_old") /\ UNCHANGED <<disk, slots, history>>
     \/ /\ \/ area.atts # NoFile /\ activeAtts # NoFile
              /\ area.failedAtts # NoFile
           \/ area.atts = NoFile /\ activeAtts = NoFile
        /\ Throw
  /\ UNCHANGED budget

OldAttsRename ==
  /\ pc = "old_atts_rename"
  /\ activeAtts' = rollback[op].atts
  /\ rollback' = [rollback EXCEPT ![op].atts = NoFile]
  /\ Goto("validate_old")
  /\ UNCHANGED <<activeDb, staged, slots, history, budget>>

ValidateOld ==
  /\ pc = "validate_old"
  /\ \/ ActiveValid /\ Goto("drop_staged")
        /\ UNCHANGED <<disk, slots, history>>
     \/ ~ActiveValid /\ Throw
  /\ UNCHANGED budget

-----------------------------------------------------------------------------
(* recoverBeforeBootstrap. *)

Readable == {journal, next} \ {NoFile, Torn}

SlotFiles == {journal, next} \ {NoFile}

\* _read keeps the valid slots, prefers the higher sequence, and refuses slots
\* that are all invalid or that name two operations.
BootRead ==
  /\ pc = "down"
  /\ mode' = "boot"
  /\ \/ /\ SlotFiles = {}
        \* No journal: bootstrap creates what is missing and serves.
        /\ activeDb' = IF activeDb = NoFile THEN Blank ELSE activeDb
        /\ activeAtts' = IF activeAtts = NoFile THEN Blank ELSE activeAtts
        /\ pc' = "serving" /\ UNCHANGED <<op, phase>>
     \/ /\ SlotFiles # {}
        /\ \/ Readable = {}
           \/ \E a, b \in Readable : a.op # b.op
        /\ pc' = "blocked" /\ UNCHANGED <<activeDb, activeAtts, op, phase>>
     \/ \E e \in Readable :
          /\ \A other \in Readable : other.op = e.op /\ other.phase <= e.phase
          /\ op' = e.op /\ phase' = e.phase
          /\ pc' = IF e.phase \in {Prepared, OldStateMoved}
                   THEN "check_rollback" ELSE "validate_new"
          /\ UNCHANGED <<activeDb, activeAtts>>
  /\ UNCHANGED <<staged, rollback, slots, history, budget>>

\* Mutant: bootstrap keeps an activated pair without validating it.
KeepNew ==
  /\ pc = "validate_new" /\ Goto("drop_staged")
  /\ UNCHANGED <<disk, slots, history, budget>>

\* new_state_activated and validated keep the new pair when it validates.
ValidateNew ==
  /\ pc = "validate_new"
  /\ \/ ActiveValid /\ Goto("drop_staged")
        /\ UNCHANGED <<disk, slots, history>>
     \/ ~ActiveValid /\ Throw
  /\ UNCHANGED budget

\* BootstrapFailure leaves the engineer nothing but starting again; a running
\* application may be closed, or killed between two operations.
Restart ==
  /\ pc = "blocked" /\ Goto("down")
  /\ UNCHANGED <<disk, slots, history, budget>>

Close ==
  /\ pc = "serving" /\ Goto("down")
  /\ UNCHANGED <<disk, slots, history, budget>>

-----------------------------------------------------------------------------

Step ==
  \/ DropNext \/ TearNext \/ FillNext \/ DropJournal \/ RenameNext
  \/ MoveOldDb \/ MoveOldAtts \/ MoveNewDb \/ MoveNewAtts
  \/ SmokeCheck \/ Notify
  \/ CompleteValidated \/ DropStaged \/ DropRollback
  \/ ClearJournal \/ ClearNext
  \/ CheckRollback \/ OldDb \/ OldDbRename \/ OldAtts \/ OldAttsRename
  \/ ValidateOld
  \/ BootRead \/ ValidateNew

Next ==
  \/ \E o \in Ops : StartRestore(o) \/ RefuseRestore(o)
  \/ OpenMissingDatabase
  \/ Step
  \/ Restart
  \/ Close
  \/ Fault
  \/ Crash

Spec == Init /\ [][Next]_vars

\* The process runs on while it lives, and the engineer starts a dead or a
\* blocked application again; nothing obliges a restore, a fault or a crash.
Fairness == WF_vars(Step) /\ WF_vars(Restart)

FairSpec == Spec /\ Fairness
-----------------------------------------------------------------------------
(* Properties. *)

\* Every variable has its type.
TypeOK ==
  /\ activeDb \in Copies /\ activeAtts \in Copies
  /\ staged \in [Ops -> Pairs] /\ rollback \in [Ops -> Areas]
  /\ journal \in Slots /\ next \in Slots
  /\ pc \in Pcs /\ mode \in {"restore", "undo", "boot"}
  /\ op \in Ops /\ phase \in 0..4
  /\ started \subseteq Ops /\ before \in [Ops -> Pairs]
  /\ crashes \in 0..MaxCrashes /\ faults \in 0..MaxFaults

\* As long as a half of the old pair is in operation o's rollback area, a
\* crash leaves a journal slot that names o: the write order of _write (fill
\* next, delete the journal, rename) and the cleanup order (rollback area
\* first, journal last) never leave the moved pair without its journal.
JournalCoversSwap ==
  \A o \in Ops :
    rollback[o].db # NoFile \/ rollback[o].atts # NoFile
      => \E e \in Readable : e.op = o

\* While an operation is in the journal, the old or the new generation is
\* complete in the places recovery reads: active, or the rollback area.
AGenerationSurvives ==
  \A e \in Readable :
    \E g \in {before[e.op], NewPair(e.op)} :
      /\ g.db \in {activeDb, rollback[e.op].db}
      /\ g.atts \in {activeAtts, rollback[e.op].atts}

\* The application never runs on half a generation, on a database made from
\* nothing, or on two halves of different generations.
ServesWholeGeneration ==
  pc = "serving" =>
    \E g \in started \union {Original} : activeDb = g /\ activeAtts = g

\* A half of the old pair is deleted only when the whole new pair is active.
OldPairDeletedLast ==
  [][\A o \in Ops :
       (rollback[o].db # NoFile \/ rollback[o].atts # NoFile) /\ pc = "drop_rollback"
         => ActivePair = NewPair(o)]_vars

\* Entries of operations that have begun to move the active pair.
Swapping ==
  {e \in Readable : \/ e.phase # Prepared
                    \/ rollback[e.op].db # NoFile
                    \/ rollback[e.op].atts # NoFile}

\* The swap, its journal and its recovery implement AtomicRestore.  A restore
\* is pending from its first rename until its journal is deleted (or, in phase
\* prepared, until both halves are back); meanwhile the engineer's memory is
\* the old pair.
Restore ==
  INSTANCE AtomicRestore WITH
    Incoming <- [o \in Ops |-> NewPair(o)],
    Initial  <- NewPair(Original),
    memory   <- IF Swapping = {} THEN ActivePair
                ELSE before[(CHOOSE e \in Swapping : TRUE).op],
    pending  <- {e.op : e \in Swapping},
    open     <- pc = "serving"

\* Every behaviour of the swap, the journal and the recovery is one of
\* AtomicRestore (_activatePreparedRestore, recoverBeforeBootstrap).
SwapIsAtomic == Restore!Spec

\* docs/191:50 "oncesinde kucuk bir journal atomik yazilir": a journal
\* write that was cut short never keeps the next bootstrap from serving.
JournalWriteIsAtomic == pc = "blocked" => Readable # {}

\* docs/191:65 "`new_state_activated` ve `validated` ... basariliysa
\* tamamlanir; aksi halde eski cift geri gelir": bootstrap never refuses a
\* journal in one of these phases.  The code does not meet this: an exception
\* while the rollback area is deleted makes the catch block roll back.
ActivatedPairSettles ==
  pc = "blocked" => \A e \in Readable : e.phase \in {Prepared, OldStateMoved}

\* A death while the first entry of an operation is written: nothing is moved
\* yet, and the one slot on disk cannot be read.
FirstEntryTorn ==
  /\ SlotFiles = {Torn}
  /\ \A o \in Ops : rollback[o].db = NoFile /\ rollback[o].atts = NoFile

\* A death while a pair that was moved away is put back, or an exception at
\* start once cleanup had begun: a half of the pair is not in the rollback area,
\* and recovery asks for both (restore_recovery_application.dart:187, 197).
HalfPutBack ==
  \E e \in Readable :
    e.phase # Prepared
      /\ (rollback[e.op].db = NoFile \/ rollback[e.op].atts = NoFile)

\* A restore asked for is settled: after whatever crashes and exceptions, the
\* application comes back.  Only a death while the first entry is written, or
\* what leaves half of the old pair in the rollback area, can keep it away.
RestoreSettles ==
  (pc # "serving") ~>
    (pc = "serving" \/ (pc = "blocked" /\ (FirstEntryTorn \/ HalfPutBack)))
-----------------------------------------------------------------------------
(* Why JournalCoversSwap holds: the inductive invariant behind it, for runs *)
(* in which no call of the catch block or of the cleanup throws by itself.  *)

ForwardSites == {"first_journal", "swap", "boot"}

Emptied(o) == rollback[o].db = NoFile /\ rollback[o].atts = NoFile

\* Where the process is, whose catch block it is in, and its journal's phase.
PhaseByPlace ==
  /\ pc \in JournalWrite \union Swap \union {"complete"} => mode = "restore"
  /\ pc \in JournalWrite => phase <= NewStateActivated
  /\ pc \in {"move_old_db", "move_old_atts"} => phase = Prepared
  /\ pc \in {"move_new_db", "move_new_atts"} => phase = OldStateMoved
  /\ pc = "smoke" => phase = NewStateActivated
  /\ pc \in {"notify", "complete"} => phase = Validated
  /\ pc = "validate_new" => mode = "boot"
  /\ pc \in PutBack => mode # "restore"
  /\ pc \in PutBack \union Settle \union {"validate_new"} => phase # 0

\* Only the operation in hand has the old pair in its rollback area, and an
\* operation not yet asked for has nothing there.
OneOperation ==
  /\ \A o \in Ops : ~Emptied(o) => o = op
  /\ \A o \in Ops \ started : rollback[o] = NoArea
  /\ \A e \in Readable : e.op \in started
  /\ Busy => op \in started

\* Nothing is moved while the application runs, before the first journal
\* entry, or once the journal may go.
NothingMoved ==
  /\ pc = "serving" \/ (pc \in JournalWrite /\ phase = 0)
       => \A o \in Ops : Emptied(o)
  /\ pc \in {"clear_journal", "clear_next"} => rollback[op] = NoArea

\* The journal on disk follows the entry in memory.
JournalInStep ==
  /\ pc \in {"drop_next", "tear_next", "fill_next"} /\ phase # 0
       => journal = [op |-> op, phase |-> phase]
  /\ pc \in {"drop_journal", "rename_next"} => next = NextEntry
  /\ pc \in Swap \union {"complete"} => journal = [op |-> op, phase |-> phase]

OldDbIs(place) ==
  \/ place = "rollback" /\ rollback[op].db = before[op].db
  \/ place = "active" /\ rollback[op].db = NoFile /\ activeDb = before[op].db

OldAttsIs(place) ==
  \/ place = "rollback" /\ rollback[op].atts = before[op].atts
  \/ place = "active" /\ rollback[op].atts = NoFile
       /\ activeAtts = before[op].atts

OldDbKept   == OldDbIs("active") \/ OldDbIs("rollback")
OldAttsKept == OldAttsIs("active") \/ OldAttsIs("rollback")

NoFailedDb   == rollback[op].failedDb = NoFile
NoFailedAtts == rollback[op].failedAtts = NoFile

\* Where the two halves of the old pair are at each step of the swap and of
\* its undoing, so that the undoing never has to refuse.
OldPairTracked ==
  mode # "boot" /\ pc \in JournalWrite \union Swap \union PutBack \union {"complete"} =>
    /\ <<before[op].db, before[op].atts>> \in Coherent
    /\ mode = "restore" => NoFailedDb /\ NoFailedAtts
    /\ (pc \in JournalWrite /\ phase = 0) \/ pc = "move_old_db"
         => OldDbIs("active") /\ OldAttsIs("active")
    /\ pc = "move_old_atts"
         => OldDbIs("rollback") /\ OldAttsIs("active") /\ activeDb = NoFile
    /\ (pc \in JournalWrite /\ phase # 0)
         \/ pc \in {"move_new_db", "move_new_atts", "smoke", "notify", "complete"}
         => OldDbIs("rollback") /\ OldAttsIs("rollback")
    /\ pc = "check_rollback"
         => /\ IF phase = Prepared THEN OldDbKept /\ OldAttsKept
               ELSE OldDbIs("rollback") /\ OldAttsIs("rollback")
            /\ NoFailedDb /\ NoFailedAtts
    /\ pc = "old_db" => OldDbKept /\ OldAttsKept /\ NoFailedDb /\ NoFailedAtts
    /\ pc = "old_db_rename"
         => OldDbIs("rollback") /\ activeDb = NoFile /\ OldAttsKept /\ NoFailedAtts
    /\ pc = "old_atts" => OldDbIs("active") /\ OldAttsKept /\ NoFailedAtts
    /\ pc = "old_atts_rename"
         => OldDbIs("active") /\ OldAttsIs("rollback") /\ activeAtts = NoFile
    /\ pc = "validate_old" => OldDbIs("active") /\ OldAttsIs("active")

\* The inductive invariant: types, JournalCoversSwap and what it takes to keep
\* it across _write, the swap, the catch block, cleanup and recovery.
IInv ==
  /\ TypeOK
  /\ JournalCoversSwap
  /\ PhaseByPlace
  /\ OneOperation
  /\ NothingMoved
  /\ JournalInStep
  /\ OldPairTracked
=============================================================================
