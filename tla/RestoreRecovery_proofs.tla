----------------------- MODULE RestoreRecovery_proofs -----------------------
(***************************************************************************)
(* Theorems of RestoreRecovery, for any set of restore operations, any     *)
(* number of crashes and faults, and any coherent pairs.                   *)
(***************************************************************************)
EXTENDS RestoreRecovery, TLAPS

\* A throw keeps the types.
LEMMA ThrowType ==
  ASSUME TypeOK, Throw
  PROVE  /\ activeDb' = activeDb /\ activeAtts' = activeAtts
         /\ rollback' = rollback /\ journal' = journal /\ next' = next
         /\ op' = op /\ phase' = phase /\ started' = started /\ before' = before
         /\ staged' \in [Ops -> Pairs] /\ pc' \in Pcs
         /\ mode' \in {"restore", "undo", "boot"}
BY DEF TypeOK, Throw, slots, history, Pairs, NoPair, Copies,
       Pcs, PutBack, Idle

\* Every step keeps the types.
LEMMA StepType ==
  ASSUME TypeOK, PhaseByPlace, [Next]_vars
  PROVE  TypeOK'
<1> USE DEF TypeOK, Goto
<1>1. CASE \E o \in Ops : StartRestore(o) \/ RefuseRestore(o)
  <2>1. PICK o \in Ops : StartRestore(o) \/ RefuseRestore(o)
    BY <1>1
  <2>2. NewPair(o) \in Pairs /\ Blank \in Copies
    BY DEF NewPair, Pairs, Copies, Gens
  <2>3. CASE StartRestore(o)
    BY <2>2, <2>3 DEF StartRestore, slots, budget, Pairs, Pcs, JournalWrite
  <2>4. CASE RefuseRestore(o)
    BY <2>2, <2>4 DEF RefuseRestore, slots, budget, process
  <2>5. QED BY <2>1, <2>3, <2>4
<1>2. CASE OpenMissingDatabase \/ Restart \/ Close
  BY <1>2 DEF OpenMissingDatabase, Restart, Close, disk, slots, process,
     history, budget, Copies, Pcs, Idle
<1>3. CASE DropNext \/ TearNext \/ FillNext \/ DropJournal
  BY <1>3 DEF DropNext, TearNext, FillNext, DropJournal, disk, history,
     budget, Slots, Entries, NextEntry, Pcs, JournalWrite, PhaseByPlace,
     NewStateActivated
<1>4. CASE RenameNext
  BY <1>4 DEF RenameNext, disk, history, budget, Slots, Entries, Pcs, Swap,
     Prepared, OldStateMoved, NewStateActivated, Validated
<1>5. CASE MoveOldDb \/ MoveOldAtts
  BY <1>5, ThrowType DEF MoveOldDb, MoveOldAtts, slots, history, budget, Areas,
     Copies, Pcs, Swap, JournalWrite
<1>6. CASE MoveNewDb \/ MoveNewAtts
  BY <1>6 DEF MoveNewDb, MoveNewAtts, slots, history, budget, Pairs,
     Copies, Pcs, Swap, JournalWrite
<1>7. CASE SmokeCheck \/ Notify \/ CompleteValidated \/ ValidateOld
             \/ ValidateNew \/ CheckRollback
  BY <1>7, ThrowType DEF SmokeCheck, Notify, CompleteValidated, ValidateOld,
     ValidateNew, CheckRollback, disk, slots, history, budget,
     Pcs, Swap, JournalWrite, Settle, PutBack
<1>8. CASE DropStaged \/ ClearJournal \/ ClearNext
  BY <1>8 DEF DropStaged, ClearJournal, ClearNext, disk, slots, history,
     budget, Pairs, NoPair, Copies, Slots, Pcs, Settle, Idle
<1>9. CASE DropRollback
  BY <1>9 DEF DropRollback, process, slots, history, budget, Areas, Copies,
     Pcs, Settle
<1>10. CASE OldDb
  BY <1>10, ThrowType DEF OldDb, disk, slots, history, budget, Areas, Copies,
     Pcs, PutBack
<1>11. CASE OldAtts
  BY <1>11, ThrowType DEF OldAtts, disk, slots, history, budget, Areas, Copies,
     Pcs, PutBack
<1>12. CASE OldDbRename \/ OldAttsRename
  BY <1>12 DEF OldDbRename, OldAttsRename, slots, history, budget, Areas,
     Copies, Pcs, PutBack
<1>13. CASE BootRead
  BY <1>13 DEF BootRead, slots, history, budget, Copies, Slots, Entries,
     Readable, Pcs, PutBack, Idle
<1>14. CASE Fault
  BY <1>14, ThrowType, Bounds DEF Fault
<1>15. CASE Crash
  BY <1>15, Bounds DEF Crash, disk, slots, history, Pcs, Idle
<1>16. CASE UNCHANGED vars
  BY <1>16 DEF vars, disk, slots, process, history, budget
<1>17. QED
  BY <1>1, <1>2, <1>3, <1>4, <1>5, <1>6, <1>7, <1>8, <1>9, <1>10, <1>11,
     <1>12, <1>13, <1>14, <1>15, <1>16 DEF Next, Step

\* A half of a pair the validators accept is there.
LEMMA CoherentPresent ==
  ASSUME NEW d, NEW a, <<d, a>> \in Coherent
  PROVE  d # NoFile /\ a # NoFile
BY CoherentPairs, DistinctCopies DEF Gens

-----------------------------------------------------------------------------
(* One lemma for each conjunct of IInv: no step disturbs it. *)

\* Every step keeps the journal phase that goes with its place in the code.
LEMMA StepPhase ==
  ASSUME TypeOK, PhaseByPlace, [Next]_vars
  PROVE  PhaseByPlace'
<1> USE DEF TypeOK, PhaseByPlace, Goto
<1> USE DEF JournalWrite, Swap, Settle, PutBack, Idle, Prepared,
        OldStateMoved, NewStateActivated, Validated
<1>1. CASE \E o \in Ops : StartRestore(o) \/ RefuseRestore(o)
  BY <1>1 DEF StartRestore, RefuseRestore, process
<1>2. CASE OpenMissingDatabase \/ Restart \/ Close
  BY <1>2 DEF OpenMissingDatabase, Restart, Close, process
<1>3. CASE DropNext \/ TearNext \/ FillNext \/ DropJournal \/ RenameNext
  BY <1>3 DEF DropNext, TearNext, FillNext, DropJournal, RenameNext
<1>4. CASE MoveOldDb \/ MoveOldAtts \/ MoveNewDb \/ MoveNewAtts
  BY <1>4 DEF MoveOldDb, MoveOldAtts, MoveNewDb, MoveNewAtts, Throw
<1>5. CASE SmokeCheck \/ Notify \/ CompleteValidated \/ ValidateOld
             \/ ValidateNew \/ CheckRollback
  BY <1>5 DEF SmokeCheck, Notify, CompleteValidated, ValidateOld,
     ValidateNew, CheckRollback, Throw
<1>6. CASE DropStaged \/ DropRollback \/ ClearJournal \/ ClearNext
  BY <1>6 DEF DropStaged, DropRollback, ClearJournal, ClearNext, process
<1>7. CASE OldDb \/ OldAtts \/ OldDbRename \/ OldAttsRename
  BY <1>7 DEF OldDb, OldAtts, OldDbRename, OldAttsRename, Throw
<1>8. CASE BootRead
  BY <1>8, DistinctCopies DEF BootRead, Readable, Slots, Entries
<1>9. CASE Fault
  BY <1>9 DEF Fault, Throw, Busy
<1>10. CASE Crash
  BY <1>10 DEF Crash
<1>11. CASE UNCHANGED vars
  BY <1>11 DEF vars, process
<1>12. QED
  BY <1>1, <1>2, <1>3, <1>4, <1>5, <1>6, <1>7, <1>8, <1>9, <1>10, <1>11
  DEF Next, Step

\* In the catch block, rollbackToOld never has to refuse.
LEMMA UndoSucceeds ==
  ASSUME IInv, mode = "undo"
  PROVE  /\ pc = "check_rollback" /\ RequireRollback
              => rollback[op].db # NoFile /\ rollback[op].atts # NoFile
         /\ pc = "old_db" =>
              /\ rollback[op].failedDb = NoFile
              /\ rollback[op].db = NoFile => activeDb # NoFile
         /\ pc = "old_atts" =>
              /\ rollback[op].failedAtts = NoFile
              /\ rollback[op].atts = NoFile => activeAtts # NoFile
         /\ pc = "validate_old" => ActiveValid
<1> USE DEF IInv, OldPairTracked, OldDbKept, OldAttsKept, OldDbIs, OldAttsIs,
        NoFailedDb, NoFailedAtts, PutBack
<1>1. pc \in PutBack => before[op].db # NoFile /\ before[op].atts # NoFile
  BY CoherentPresent
<1>2. pc = "validate_old" => ActiveValid
  BY DEF ActiveValid
<1>3. QED BY <1>1, <1>2 DEF RequireRollback

\* Where a throw leads.
LEMMA ThrowGoes ==
  ASSUME TypeOK, Throw
  PROVE  /\ UNCHANGED <<activeDb, activeAtts, rollback, journal, next, op,
                        phase, started, before>>
         /\ pc' \in {"check_rollback", "serving", "blocked"}
         /\ pc' = "serving" => mode = "undo" \/ (mode = "restore" /\ phase = 0)
         /\ pc' = "check_rollback" => phase # 0 \/ pc = "validate_new"
         /\ pc' = "check_rollback" =>
              \/ mode = "restore" /\ phase > 0 /\ mode' = "undo"
              \/ mode = "boot" /\ mode' = "boot"
BY DEF Throw, slots, history, TypeOK

\* The files of the journal follow the entry in memory through _write.
LEMMA StepJournalInStep ==
  ASSUME TypeOK, PhaseByPlace, JournalInStep, [Next]_vars
  PROVE  JournalInStep'
<1> USE DEF TypeOK, PhaseByPlace, JournalInStep, Goto, NextEntry
<1> USE DEF JournalWrite, Swap, Settle, PutBack, Idle, Prepared,
        OldStateMoved, NewStateActivated, Validated
<1>1. CASE \E o \in Ops : StartRestore(o) \/ RefuseRestore(o)
  BY <1>1 DEF StartRestore, RefuseRestore, process, slots
<1>2. CASE OpenMissingDatabase \/ Restart \/ Close
  BY <1>2 DEF OpenMissingDatabase, Restart, Close, process, slots
<1>3. CASE DropNext \/ TearNext \/ FillNext \/ DropJournal \/ RenameNext
  BY <1>3 DEF DropNext, TearNext, FillNext, DropJournal, RenameNext
<1>4. CASE MoveOldDb \/ MoveOldAtts \/ MoveNewDb \/ MoveNewAtts
  BY <1>4, ThrowGoes DEF MoveOldDb, MoveOldAtts, MoveNewDb, MoveNewAtts, slots
<1>5. CASE SmokeCheck \/ Notify \/ CompleteValidated \/ ValidateOld
             \/ ValidateNew \/ CheckRollback
  BY <1>5, ThrowGoes DEF SmokeCheck, Notify, CompleteValidated, ValidateOld,
     ValidateNew, CheckRollback, slots
<1>6. CASE DropStaged \/ DropRollback \/ ClearJournal \/ ClearNext
  BY <1>6 DEF DropStaged, DropRollback, ClearJournal, ClearNext, process, slots
<1>7. CASE OldDb \/ OldAtts \/ OldDbRename \/ OldAttsRename
  BY <1>7, ThrowGoes DEF OldDb, OldAtts, OldDbRename, OldAttsRename, slots
<1>8. CASE BootRead
  BY <1>8 DEF BootRead, slots
<1>9. CASE Fault
  BY <1>9, ThrowGoes DEF Fault
<1>10. CASE Crash
  BY <1>10 DEF Crash, slots
<1>11. CASE UNCHANGED vars
  BY <1>11 DEF vars, process, slots
<1>12. QED
  BY <1>1, <1>2, <1>3, <1>4, <1>5, <1>6, <1>7, <1>8, <1>9, <1>10, <1>11
  DEF Next, Step

\* A fault of a forward site ends a run only before the first journal entry.
LEMMA FaultServes ==
  ASSUME IInv, FaultSites \subseteq ForwardSites, Fault, pc' = "serving"
  PROVE  pc \in JournalWrite /\ mode = "restore" /\ phase = 0
<1>1. Site \in {"first_journal", "swap", "boot"}
  BY DEF Fault, ForwardSites
<1>2. mode = "restore" /\ phase = 0
  BY <1>1, ThrowGoes DEF Fault, Site, IInv
<1>3. QED
  BY <1>2 DEF Fault, Busy, IInv, TypeOK, PhaseByPlace, Pcs, JournalWrite,
     Swap, Settle, PutBack, Idle, Prepared, OldStateMoved, NewStateActivated,
     Validated

\* The active pair is moved only between the first journal entry and cleanup.
LEMMA StepNothingMoved ==
  ASSUME IInv, FaultSites \subseteq ForwardSites, [Next]_vars
  PROVE  NothingMoved'
<1> USE DEF IInv, TypeOK, PhaseByPlace, NothingMoved, Emptied, Goto
<1> USE DEF JournalWrite, Swap, Settle, PutBack, Idle, Prepared,
        OldStateMoved, NewStateActivated, Validated
<1>1. CASE \E o \in Ops : StartRestore(o) \/ RefuseRestore(o)
  BY <1>1 DEF StartRestore, RefuseRestore, process
<1>2. CASE OpenMissingDatabase \/ Restart \/ Close
  BY <1>2 DEF OpenMissingDatabase, Restart, Close, process, disk
<1>3. CASE DropNext \/ TearNext \/ FillNext \/ DropJournal \/ RenameNext
  BY <1>3 DEF DropNext, TearNext, FillNext, DropJournal, RenameNext, disk
<1>4. CASE MoveOldDb \/ MoveOldAtts \/ MoveNewDb \/ MoveNewAtts
  BY <1>4, ThrowGoes DEF MoveOldDb, MoveOldAtts, MoveNewDb, MoveNewAtts
<1>5. CASE SmokeCheck \/ Notify \/ CompleteValidated \/ ValidateOld
             \/ ValidateNew \/ CheckRollback
  BY <1>5, ThrowGoes, UndoSucceeds DEF SmokeCheck, Notify, CompleteValidated,
     ValidateOld, ValidateNew, CheckRollback, disk
<1>6. CASE DropStaged \/ DropRollback
  BY <1>6 DEF DropStaged, DropRollback, process
<1>7. CASE ClearJournal
  BY <1>7 DEF ClearJournal, disk
<1>8. CASE ClearNext
  BY <1>8 DEF ClearNext, disk, OneOperation, NoArea
<1>9. CASE OldDb \/ OldAtts \/ OldDbRename \/ OldAttsRename
  BY <1>9, ThrowGoes, UndoSucceeds DEF OldDb, OldAtts, OldDbRename,
     OldAttsRename, disk
<1>10. CASE BootRead
  BY <1>10 DEF BootRead, JournalCoversSwap, Readable, SlotFiles
<1>11. CASE Fault
  BY <1>11, ThrowGoes, FaultServes DEF Fault
<1>12. CASE Crash
  BY <1>12 DEF Crash, disk
<1>13. CASE UNCHANGED vars
  BY <1>13 DEF vars, process, disk
<1>14. QED
  BY <1>1, <1>2, <1>3, <1>4, <1>5, <1>6, <1>7, <1>8, <1>9, <1>10, <1>11,
     <1>12, <1>13 DEF Next, Step

\* No step puts a second operation in the rollback area or in the journal.
LEMMA StepOneOperation ==
  ASSUME IInv, [Next]_vars
  PROVE  OneOperation'
<1> USE DEF IInv, TypeOK, PhaseByPlace, OneOperation, Emptied, Goto
<1> USE DEF JournalWrite, Swap, Settle, PutBack, Idle, Busy
<1>1. CASE \E o \in Ops : StartRestore(o) \/ RefuseRestore(o)
  BY <1>1 DEF StartRestore, RefuseRestore, process, slots, NothingMoved,
     Readable
<1>2. CASE OpenMissingDatabase \/ Restart \/ Close
  BY <1>2 DEF OpenMissingDatabase, Restart, Close, process, disk, slots,
     history, Readable
<1>3. CASE DropNext \/ TearNext \/ FillNext \/ DropJournal \/ RenameNext
  BY <1>3 DEF DropNext, TearNext, FillNext, DropJournal, RenameNext, disk,
     history, Readable, NextEntry
<1>4. CASE MoveOldDb \/ MoveOldAtts \/ MoveNewDb \/ MoveNewAtts
  BY <1>4, ThrowGoes DEF MoveOldDb, MoveOldAtts, MoveNewDb, MoveNewAtts,
     slots, history, Readable, Areas
<1>5. CASE SmokeCheck \/ Notify \/ CompleteValidated \/ ValidateOld
             \/ ValidateNew \/ CheckRollback
  BY <1>5, ThrowGoes DEF SmokeCheck, Notify, CompleteValidated,
     ValidateOld, ValidateNew, CheckRollback, disk, slots, history, Readable
<1>6. CASE DropStaged \/ DropRollback
  BY <1>6 DEF DropStaged, DropRollback, process, slots, history, Readable,
     Areas
<1>7. CASE ClearJournal \/ ClearNext
  BY <1>7 DEF ClearJournal, ClearNext, disk, history, Readable
<1>8. CASE OldDb \/ OldDbRename
  BY <1>8, ThrowGoes DEF OldDb, OldDbRename, disk, slots, history, Readable,
     Areas
<1>9. CASE OldAtts \/ OldAttsRename
  BY <1>9, ThrowGoes DEF OldAtts, OldAttsRename, disk, slots, history,
     Readable, Areas
<1>10. CASE BootRead
  BY <1>10 DEF BootRead, JournalCoversSwap, Readable, SlotFiles, slots,
     history
<1>11. CASE Fault
  BY <1>11, ThrowGoes DEF Fault, Readable
<1>12. CASE Crash
  BY <1>12 DEF Crash, disk, slots, history, Readable
<1>13. CASE UNCHANGED vars
  BY <1>13 DEF vars, process, disk, slots, history, Readable
<1>14. QED
  BY <1>1, <1>2, <1>3, <1>4, <1>5, <1>6, <1>7, <1>8, <1>9, <1>10, <1>11,
     <1>12, <1>13 DEF Next, Step

\* No step takes the journal away from a pair that is still moved.
LEMMA StepJournalCovers ==
  ASSUME IInv, [Next]_vars
  PROVE  JournalCoversSwap'
<1> USE DEF IInv, TypeOK, JournalCoversSwap, Emptied, Goto
<1> USE DEF JournalWrite, Swap, Settle, PutBack, Idle, Busy
<1>1. CASE \E o \in Ops : StartRestore(o) \/ RefuseRestore(o)
  BY <1>1 DEF StartRestore, RefuseRestore, slots, Readable
<1>2. CASE OpenMissingDatabase \/ Restart \/ Close
  BY <1>2 DEF OpenMissingDatabase, Restart, Close, disk, slots, Readable
<1>3. CASE DropNext \/ TearNext \/ FillNext \/ DropJournal \/ RenameNext
  <2>1. \A o \in Ops : rollback'[o] = rollback[o]
    BY <1>3 DEF DropNext, TearNext, FillNext, DropJournal, RenameNext, disk
  <2>2. SUFFICES ASSUME NEW o \in Ops, ~Emptied(o)
                 PROVE  \E e \in Readable' : e.op = o
    BY <2>1
  <2>3. o = op /\ ~(pc \in JournalWrite /\ phase = 0)
    <3>1. o = op
      BY <2>2 DEF OneOperation
    <3>2. ~(pc \in JournalWrite /\ phase = 0)
      BY <2>2 DEF NothingMoved
    <3>3. QED BY <3>1, <3>2
  <2>4. CASE DropNext \/ TearNext \/ FillNext
    <3>1. journal = [op |-> op, phase |-> phase] /\ journal' = journal
      BY <2>3, <2>4 DEF DropNext, TearNext, FillNext, JournalInStep
    <3>2. journal' \in Readable'
      BY <3>1, DistinctCopies, <2>3, <2>4
      DEF Readable, Entries, DropNext, TearNext, FillNext, PhaseByPlace,
          NewStateActivated
    <3>3. QED BY <2>3, <3>1, <3>2
  <2>5. CASE DropJournal \/ RenameNext
    <3>1. next = NextEntry
      BY <2>5 DEF DropJournal, RenameNext, JournalInStep
    <3>2. NextEntry \in Entries
      BY <2>5 DEF DropJournal, RenameNext, PhaseByPlace, NewStateActivated,
         NextEntry, Entries
    <3>3. NextEntry \in Readable'
      BY <2>5, <3>1, <3>2, DistinctCopies DEF DropJournal, RenameNext, Readable
    <3>4. QED BY <2>3, <2>5, <3>3 DEF NextEntry
  <2>6. QED BY <1>3, <2>4, <2>5
<1>4. CASE MoveOldDb \/ MoveOldAtts \/ MoveNewDb \/ MoveNewAtts
  <2>1. Readable' = Readable
    BY <1>4, ThrowGoes DEF MoveOldDb, MoveOldAtts, MoveNewDb, MoveNewAtts,
       slots, Readable
  <2>2. \A o \in Ops \ {op} : rollback'[o] = rollback[o]
    BY <1>4, ThrowGoes DEF MoveOldDb, MoveOldAtts, MoveNewDb, MoveNewAtts,
       Areas
  <2>3. journal = [op |-> op, phase |-> phase] /\ phase \in 1..4
    BY <1>4 DEF MoveOldDb, MoveOldAtts, MoveNewDb, MoveNewAtts, JournalInStep,
       PhaseByPlace, Prepared, OldStateMoved
  <2>4. journal \in Readable
    BY <2>3, DistinctCopies DEF Readable, Entries
  <2>5. QED BY <2>1, <2>2, <2>3, <2>4
<1>5. CASE SmokeCheck \/ Notify \/ CompleteValidated \/ ValidateOld
             \/ ValidateNew \/ CheckRollback
  BY <1>5, ThrowGoes DEF SmokeCheck, Notify, CompleteValidated,
     ValidateOld, ValidateNew, CheckRollback, disk, slots, Readable
<1>6. CASE DropStaged \/ DropRollback
  BY <1>6 DEF DropStaged, DropRollback, slots, Readable, Areas
<1>7. CASE ClearJournal \/ ClearNext
  BY <1>7 DEF ClearJournal, ClearNext, disk, OneOperation, NothingMoved,
     NoArea, Readable
<1>8. CASE OldDb \/ OldDbRename
  BY <1>8, ThrowGoes DEF OldDb, OldDbRename, disk, slots, Readable, Areas
<1>9. CASE OldAtts \/ OldAttsRename
  BY <1>9, ThrowGoes DEF OldAtts, OldAttsRename, disk, slots, Readable, Areas
<1>10. CASE BootRead
  BY <1>10 DEF BootRead, Readable, slots
<1>11. CASE Fault
  BY <1>11, ThrowGoes DEF Fault, Readable
<1>12. CASE Crash
  BY <1>12 DEF Crash, disk, slots, Readable
<1>13. CASE UNCHANGED vars
  BY <1>13 DEF vars, disk, slots, Readable
<1>14. QED
  BY <1>1, <1>2, <1>3, <1>4, <1>5, <1>6, <1>7, <1>8, <1>9, <1>10, <1>11,
     <1>12, <1>13 DEF Next, Step

\* Every step leaves the halves of the old pair where OldPairTracked says.
LEMMA StepOldPairTracked ==
  ASSUME IInv, FaultSites \subseteq ForwardSites, [Next]_vars
  PROVE  OldPairTracked'
<1> USE DEF IInv, TypeOK, PhaseByPlace, OldPairTracked, Goto
<1> USE DEF OldDbKept, OldAttsKept, OldDbIs, OldAttsIs, NoFailedDb, NoFailedAtts
<1> USE DEF JournalWrite, Swap, Settle, PutBack, Idle, Prepared,
        OldStateMoved, NewStateActivated, Validated
<1>1. CASE \E o \in Ops : StartRestore(o) \/ RefuseRestore(o)
  <2>1. PICK o \in Ops : StartRestore(o) \/ RefuseRestore(o)
    BY <1>1
  <2>2. CASE StartRestore(o)
    BY <2>2 DEF StartRestore, OneOperation, NoArea
  <2>3. CASE RefuseRestore(o)
    BY <2>3 DEF RefuseRestore, process
  <2>4. QED BY <2>1, <2>2, <2>3
<1>2. CASE OpenMissingDatabase \/ Restart \/ Close
  BY <1>2 DEF OpenMissingDatabase, Restart, Close, process
<1>3. CASE DropNext \/ TearNext \/ FillNext \/ DropJournal
  BY <1>3 DEF DropNext, TearNext, FillNext, DropJournal, disk, history
<1>4. CASE RenameNext
  BY <1>4 DEF RenameNext, disk, history
<1>5. CASE MoveOldDb
  BY <1>5, CoherentPresent DEF MoveOldDb, history, Areas
<1>6. CASE MoveOldAtts
  BY <1>6 DEF MoveOldAtts, history, Areas
<1>7. CASE MoveNewDb \/ MoveNewAtts
  BY <1>7 DEF MoveNewDb, MoveNewAtts, history
<1>8. CASE SmokeCheck \/ Notify \/ CompleteValidated
  BY <1>8, ThrowGoes DEF SmokeCheck, Notify, CompleteValidated, disk, history
<1>9. CASE ValidateOld \/ ValidateNew \/ CheckRollback
  BY <1>9, ThrowGoes, UndoSucceeds DEF ValidateOld, ValidateNew, CheckRollback,
     disk, history, RequireRollback
<1>10. CASE DropStaged \/ DropRollback \/ ClearJournal \/ ClearNext
  BY <1>10 DEF DropStaged, DropRollback, ClearJournal, ClearNext, process
<1>11. CASE OldDb
  BY <1>11, ThrowGoes, UndoSucceeds, CoherentPresent DEF OldDb, disk, history,
     Areas
<1>12. CASE OldDbRename
  BY <1>12 DEF OldDbRename, history, Areas
<1>13. CASE OldAtts
  BY <1>13, ThrowGoes, UndoSucceeds, CoherentPresent DEF OldAtts, disk, history,
     Areas
<1>14. CASE OldAttsRename
  BY <1>14 DEF OldAttsRename, history, Areas
<1>15. CASE BootRead
  BY <1>15 DEF BootRead
<1>16. CASE Fault
  <2>1. Throw /\ Busy /\ Site \in {"first_journal", "swap", "boot"}
    BY <1>16 DEF Fault, ForwardSites
  <2>2. CASE pc' # "check_rollback" \/ mode' = "boot"
    BY <2>1, <2>2, ThrowGoes
  <2>3. CASE pc' = "check_rollback" /\ mode' # "boot"
    <3>1. mode = "restore" /\ phase > 0
      BY <2>1, <2>3, ThrowGoes
    <3>2. pc \in (JournalWrite \union Swap) \ Settle
      BY <2>1, <3>1 DEF Site, Busy, Pcs
    <3>3. /\ OldDbKept /\ OldAttsKept /\ NoFailedDb /\ NoFailedAtts
          /\ <<before[op].db, before[op].atts>> \in Coherent
          /\ phase # Prepared => OldDbIs("rollback") /\ OldAttsIs("rollback")
      BY <3>1, <3>2
    <3>4. QED BY <2>1, <2>3, <3>1, <3>3, ThrowGoes
  <2>4. QED BY <2>2, <2>3
<1>17. CASE Crash
  BY <1>17 DEF Crash
<1>18. CASE UNCHANGED vars
  BY <1>18 DEF vars, process, disk, history
<1>19. QED
  BY <1>1, <1>2, <1>3, <1>4, <1>5, <1>6, <1>7, <1>8, <1>9, <1>10, <1>11,
     <1>12, <1>13, <1>14, <1>15, <1>16, <1>17, <1>18 DEF Next, Step

-----------------------------------------------------------------------------

\* A start has the types.
LEMMA InitType ==
  ASSUME Init
  PROVE  TypeOK
BY DistinctCopies, Bounds
DEF Init, TypeOK, Copies, Gens, Pairs, NoPair, Areas, NoArea, Slots, Entries,
    Pcs, Idle

\* The inductive invariant of a run in which only the forward sites throw.
THEOREM Inductive ==
  ASSUME FaultSites \subseteq ForwardSites
  PROVE  Spec => []IInv
<1>1. Init => IInv
  <2> SUFFICES ASSUME Init PROVE IInv
    OBVIOUS
  <2>1. TypeOK
    BY InitType
  <2>2. Readable = {} /\ (\A o \in Ops : Emptied(o) /\ rollback[o] = NoArea)
    BY DEF Init, Readable, NoArea, Emptied
  <2>3. PhaseByPlace /\ NothingMoved /\ JournalInStep /\ OldPairTracked
    BY <2>2 DEF Init, PhaseByPlace, NothingMoved, JournalInStep,
       OldPairTracked, JournalWrite, Swap, Settle, PutBack
  <2>4. OneOperation /\ JournalCoversSwap
    BY <2>2 DEF Init, OneOperation, JournalCoversSwap, Emptied, Busy, Idle
  <2>5. QED BY <2>1, <2>3, <2>4 DEF IInv
<1>2. IInv /\ [Next]_vars => IInv'
  <2> SUFFICES ASSUME IInv, [Next]_vars PROVE IInv'
    OBVIOUS
  <2>1. TypeOK'
    BY StepType DEF IInv
  <2>2. QED
    BY <2>1, StepPhase, StepJournalInStep, StepNothingMoved, StepOneOperation,
       StepJournalCovers, StepOldPairTracked DEF IInv
<1>3. QED BY <1>1, <1>2, PTL DEF Spec

\* The types of the variables, whatever crashes and whichever calls throw,
\* those of the cleanup and of the rollback included.
THEOREM TypeCorrect == Spec => []TypeOK
<1>1. Init => TypeOK /\ PhaseByPlace
  BY InitType DEF Init, PhaseByPlace, JournalWrite, Swap, Settle, PutBack
<1>2. TypeOK /\ PhaseByPlace /\ [Next]_vars => (TypeOK /\ PhaseByPlace)'
  BY StepType, StepPhase
<1>3. QED BY <1>1, <1>2, PTL DEF Spec

\* The moved pair is never without its journal: for any number of restores and
\* of crashes at any call, including those of the recovery, and of faults in
\* the swap and in the recovery.
THEOREM SwapIsJournaled ==
  ASSUME FaultSites \subseteq ForwardSites
  PROVE  Spec => []JournalCoversSwap
<1>1. IInv => JournalCoversSwap
  BY DEF IInv
<1>2. QED BY <1>1, Inductive, PTL

-----------------------------------------------------------------------------
(***************************************************************************)
(* What the disk holds at every moment of a restore, from IInv: when only  *)
(* whole generations validate and exceptions fall before and during the    *)
(* swap and at boot, the application serves one whole generation wherever  *)
(* the process died.                                                       *)
(*                                                                         *)
(* An exception of the check of an activated pair makes recovery look for  *)
(* the old one, which cleanup may have begun to delete.  It then refuses,  *)
(* or puts a torn half back that its own check refuses: the application    *)
(* does not open, and neither pair is served.                              *)
(***************************************************************************)

\* Which pairs validate.
OnlyWholePairs == Coherent = {<<g, g>> : g \in Gens \union {Blank}}

\* The entry that recovery goes by: the one that was written last.
Top == IF next \in Entries THEN {next}
       ELSE IF journal \in Entries THEN {journal} ELSE {}

\* A generation that was on disk before o brought in its own.
BeforeWhole(o) ==
  \E g \in (started \union {Original}) \ {o} : before[o] = NewPair(g)

\* A half of the old pair is in the rollback area, and nothing but the new one
\* in its place; or it is in its place.
OldDbHalf(o) ==
  \/ rollback[o].db = before[o].db /\ activeDb \in {NoFile, o}
  \/ rollback[o].db = NoFile /\ activeDb = before[o].db
OldAttsHalf(o) ==
  \/ rollback[o].atts = before[o].atts /\ activeAtts \in {NoFile, o}
  \/ rollback[o].atts = NoFile /\ activeAtts = before[o].atts

OldPair(o) == OldDbHalf(o) /\ OldAttsHalf(o)
NewActive(o) == activeDb = o /\ activeAtts = o

\* What cleanup leaves of the rollback area while the new pair is active.
AreaLeft(o) ==
  /\ rollback[o].db \in {before[o].db, NoFile}
  /\ rollback[o].atts \in {before[o].atts, Torn, NoFile}

\* Recovery puts back what cleanup had begun to delete: the old database with a
\* torn attachments directory, which no validator accepts.
TornAtts(o) ==
  \/ rollback[o].atts = Torn /\ activeAtts \in {NoFile, o}
  \/ rollback[o].atts = NoFile /\ activeAtts = Torn

HalfTorn(o) == OldDbHalf(o) /\ TornAtts(o)

\* What recovery finds behind an entry.
OnDisk(e) ==
  \/ OldPair(e.op)
  \/ /\ e.phase >= NewStateActivated
     /\ (NewActive(e.op) /\ AreaLeft(e.op)) \/ HalfTorn(e.op)

\* The process puts back an activated pair, as only recovery does after an
\* exception of the check of the new pair.
BootUndoes == pc \in PutBack /\ mode = "boot" /\ phase >= NewStateActivated

WholeActive ==
  \E g \in started \union {Original} : activeDb = g /\ activeAtts = g

\* The two slots of the journal.
SlotsAgree ==
  /\ journal \in Entries /\ next \in Entries
       => next = [op |-> journal.op, phase |-> journal.phase + 1]
  /\ pc = "serving" \/ (pc \in JournalWrite /\ phase = 0)
       => journal = NoFile /\ \A e \in Readable : e.phase = Prepared
  /\ Busy /\ ~(pc \in JournalWrite /\ phase = 0) => \A e \in Readable : e.op = op
  /\ pc \in Swap \union {"complete"} \/ (pc \in {"drop_next", "tear_next"} /\ phase # 0)
       => next = NoFile
  /\ pc = "tear_next" => next = NoFile
  /\ pc = "fill_next" => next = Torn
  /\ pc = "rename_next" => journal = NoFile
  /\ pc = "validate_new" =>
       Top # {} /\ phase >= NewStateActivated /\ \A e \in Top : e.phase = phase
  /\ BootUndoes => Top # {} /\ \A e \in Top : e.phase = phase
  /\ pc = "clear_next" => journal = NoFile

BeforeKnown ==
  /\ Busy => BeforeWhole(op)
  /\ \A e \in Readable : BeforeWhole(e.op)

\* Whatever the moment, recovery finds a whole generation or refuses.
DiskSafe ==
  /\ \A e \in Top : OnDisk(e)
  /\ Top = {} => WholeActive

\* The incoming pair until it is moved.
StagedKept ==
  /\ (pc \in JournalWrite /\ phase \in {0, 1})
        \/ pc \in {"move_old_db", "move_old_atts", "move_new_db"}
       => staged[op] = NewPair(op)
  /\ pc = "move_new_atts" => staged[op].atts = op

ActiveAt ==
  /\ (pc \in JournalWrite /\ phase = 0) \/ pc = "move_old_db"
       => ActivePair = before[op] /\ Emptied(op)
  /\ pc = "move_old_atts"
       => /\ activeDb = NoFile /\ rollback[op].db = before[op].db
          /\ activeAtts = before[op].atts /\ rollback[op].atts = NoFile
  /\ (pc \in JournalWrite /\ phase = Prepared) \/ pc = "move_new_db"
       => /\ activeDb = NoFile /\ activeAtts = NoFile
          /\ rollback[op].db = before[op].db /\ rollback[op].atts = before[op].atts
  /\ pc = "move_new_atts"
       => /\ activeDb = op /\ activeAtts = NoFile
          /\ rollback[op].db = before[op].db /\ rollback[op].atts = before[op].atts
  /\ (pc \in JournalWrite /\ phase >= OldStateMoved) \/ pc \in {"smoke", "notify", "complete"}
       => /\ NewActive(op)
          /\ rollback[op].db = before[op].db /\ rollback[op].atts = before[op].atts
  /\ pc \in PutBack =>
       \/ OldPair(op)
       \/ BootUndoes /\ HalfTorn(op)
       \/ BootUndoes /\ pc = "check_rollback" /\ NewActive(op) /\ AreaLeft(op)
  /\ pc = "old_db_rename" => activeDb = NoFile
  /\ pc \in {"old_atts", "old_atts_rename", "validate_old"} => rollback[op].db = NoFile
  /\ pc = "old_atts_rename" => activeAtts = NoFile
  /\ pc = "validate_old" => rollback[op].atts = NoFile
  /\ pc \in Settle \ {"complete"} =>
       \/ ActivePair = before[op] /\ Emptied(op)
       \/ /\ NewActive(op) /\ AreaLeft(op)
          /\ \A e \in Top : e.phase >= NewStateActivated

DInv == SlotsAgree /\ BeforeKnown /\ DiskSafe /\ StagedKept /\ ActiveAt

-----------------------------------------------------------------------------
(* Facts about states.                                                     *)

\* What is read of the journal is its entries.
LEMMA ReadableEntries ==
  ASSUME TypeOK
  PROVE  /\ Readable = {journal, next} \cap Entries
         /\ Top \subseteq Readable /\ (Top = {} <=> Readable = {})
         /\ \A e \in Readable : e \in Entries /\ e.op \in Ops /\ e.phase \in 1..4
  <1>1. NoFile \notin Entries /\ Torn \notin Entries
    BY DistinctCopies
  <1>2. Readable = {journal, next} \cap Entries
    BY <1>1 DEF Readable, TypeOK, Slots
  <1>3. \A e \in Entries : e.op \in Ops /\ e.phase \in 1..4
    BY DEF Entries
  <1>4. Top \subseteq Readable /\ (Top = {} <=> Readable = {})
    BY <1>2 DEF Top
  <1> QED BY <1>2, <1>3, <1>4

\* The new generation and the one before it are there, and differ.
LEMMA BeforeDiffers ==
  ASSUME NEW o \in Ops, BeforeWhole(o), TypeOK
  PROVE  /\ before[o].db # NoFile /\ before[o].atts # NoFile /\ o # NoFile
         /\ before[o].db # o /\ before[o].atts # o
         /\ before[o].db = before[o].atts
         /\ before[o].db \in started \union {Original}
  BY DistinctCopies DEF BeforeWhole, NewPair, Gens, TypeOK

\* Which pairs validate behind an entry: the old one when both halves are in
\* their place, or the new one; never a torn half.
LEMMA ValidPair ==
  ASSUME OnlyWholePairs, TypeOK, NEW o \in Ops, BeforeWhole(o), OldPair(o) \/ HalfTorn(o)
  PROVE  /\ ActiveValid => \/ ActivePair = before[o] /\ Emptied(o)
                           \/ NewActive(o) /\ AreaLeft(o)
         /\ ActivePair = before[o] => ActiveValid
  <1>1. /\ before[o].db # NoFile /\ before[o].atts # NoFile /\ o # NoFile
        /\ before[o].db # o /\ before[o].atts # o
        /\ before[o].db = before[o].atts /\ before[o].db \in Gens
        /\ before[o] = [db |-> before[o].db, atts |-> before[o].atts]
    BY BeforeDiffers DEF TypeOK, Gens, BeforeWhole, NewPair
  <1>2. NoFile \notin Gens \union {Blank} /\ Torn \notin Gens \union {Blank}
    BY DistinctCopies
  <1>3. ActiveValid => activeDb = activeAtts /\ activeDb # NoFile /\ activeAtts # Torn
    BY <1>2 DEF ActiveValid, OnlyWholePairs
  <1>4. activeDb = activeAtts /\ activeDb \in Gens => ActiveValid
    BY DEF ActiveValid, OnlyWholePairs
  <1>5. ActiveValid => \/ ActivePair = before[o] /\ Emptied(o)
                       \/ NewActive(o) /\ AreaLeft(o)
    <2>1. CASE OldPair(o)
      BY <1>1, <1>3, <2>1 DEF OldPair, OldDbHalf, OldAttsHalf, NewActive, ActivePair, Emptied,
         AreaLeft
    <2>2. CASE HalfTorn(o)
      BY <1>1, <1>3, <2>2 DEF HalfTorn, OldDbHalf, TornAtts, NewActive, AreaLeft
    <2> QED BY <2>1, <2>2
  <1>6. ActivePair = before[o] => ActiveValid
    BY <1>1, <1>4 DEF ActivePair
  <1> QED BY <1>5, <1>6

LEMMA NewIsValid ==
  ASSUME OnlyWholePairs, NEW o \in Ops, NewActive(o)
  PROVE  ActiveValid
  BY DEF OnlyWholePairs, NewActive, ActiveValid, Gens

\* What is served is whole.
LEMMA ServesWhole ==
  ASSUME IInv, DInv, pc = "serving"
  PROVE  WholeActive /\ activeDb # NoFile /\ activeAtts # NoFile
  <1>1. WholeActive
    <2>1. CASE Top = {}
      BY <2>1 DEF DInv, DiskSafe
    <2>2. ASSUME NEW e \in Top
          PROVE  WholeActive
      <3>1. e.op \in Ops /\ BeforeWhole(e.op) /\ OnDisk(e) /\ Emptied(e.op) /\ e.op \in started
        BY <2>2, ReadableEntries DEF IInv, DInv, BeforeKnown, DiskSafe, NothingMoved,
           OneOperation
      <3>2. e.phase = Prepared
        BY <2>2, ReadableEntries DEF IInv, DInv, SlotsAgree
      <3>3. OldPair(e.op)
        BY <3>1, <3>2 DEF OnDisk, Prepared, NewStateActivated
      <3> QED BY <3>1, <3>3, BeforeDiffers DEF IInv, OldPair, OldDbHalf, OldAttsHalf, Emptied,
          WholeActive
    <2> QED BY <2>1, <2>2
  <1> QED BY <1>1, DistinctCopies DEF WholeActive, IInv, TypeOK, Gens

\* Recovery goes by the entry written last.
LEMMA BootTop ==
  ASSUME TypeOK, SlotsAgree, NEW e \in Readable,
         \A other \in Readable : other.phase <= e.phase
  PROVE  Top = {e}
  <1>1. /\ Readable = {journal, next} \cap Entries
        /\ \A x \in Readable : x \in Entries /\ x.phase \in 1..4
    BY ReadableEntries
  <1>2. CASE next \in Entries /\ journal \in Entries
    <2>1. next.phase = journal.phase + 1
      BY <1>2 DEF SlotsAgree
    <2> QED BY <1>1, <1>2, <2>1 DEF Top
  <1> QED BY <1>1, <1>2 DEF Top

-----------------------------------------------------------------------------
(* One lemma for each conjunct of DInv: no step disturbs it.               *)

\* An exception of the swap ends in the catch block; one before the first
\* entry ends the restore.  At boot it ends the recovery, save that of the check
\* of an activated pair: the old one is then put back.
LEMMA FaultIsForward ==
  ASSUME IInv, DInv, FaultSites \subseteq ForwardSites, Fault
  PROVE  /\ UNCHANGED <<activeDb, activeAtts, rollback, journal, next, op,
                        phase, started, before>>
         /\ \/ pc' = "serving" /\ pc \in JournalWrite /\ phase = 0
            \/ /\ pc' = "check_rollback" /\ mode' = "undo" /\ phase # 0
               /\ pc \in JournalWrite \union Swap
            \/ pc' = "blocked"
            \/ pc = "validate_new" /\ pc' = "check_rollback" /\ mode' = "boot"
  <1>1. Throw /\ Busy /\ Site \in {"first_journal", "swap", "boot"}
    BY DEF Fault, ForwardSites
  <1>2. CASE mode = "boot"
    BY <1>1, <1>2, ThrowGoes DEF Throw, IInv
  <1>3. CASE mode # "boot"
    <2>1. mode = "restore" /\ (phase = 0 \/ pc \notin Settle)
      BY <1>1, <1>3 DEF Site, IInv, TypeOK
    <2>2. pc \in JournalWrite \union Swap /\ (phase = 0 => pc \in JournalWrite)
      BY <1>1, <2>1 DEF IInv, TypeOK, PhaseByPlace, Busy, Pcs, JournalWrite, Swap, Settle,
         PutBack, Idle, Prepared, OldStateMoved, NewStateActivated, Validated
    <2> QED BY <1>1, <2>1, <2>2, ThrowGoes DEF Throw, slots, history, IInv, TypeOK
  <1> QED BY <1>2, <1>3

\* The checks of the active pair by themselves never throw while the new pair
\* is active, nor does the undoing.
LEMMA ForwardGoesOn ==
  ASSUME IInv, DInv, OnlyWholePairs
  PROVE  /\ pc = "move_old_db" => activeDb # NoFile /\ activeAtts # NoFile
         /\ pc \in {"smoke", "complete"} => ActiveValid
  <1>1. CASE pc = "move_old_db"
    <2>1. BeforeWhole(op) /\ ActivePair = before[op] /\ op \in Ops /\ TypeOK
      BY <1>1 DEF DInv, BeforeKnown, Busy, Idle, ActiveAt, IInv, TypeOK
    <2>2. before[op].db # NoFile /\ before[op].atts # NoFile
      BY <2>1, BeforeDiffers
    <2>3. ActivePair.db = activeDb /\ ActivePair.atts = activeAtts
      BY DEF ActivePair
    <2> QED BY <1>1, <2>1, <2>2, <2>3
  <1>2. CASE pc \in {"smoke", "complete"}
    BY <1>2, NewIsValid DEF IInv, TypeOK, DInv, ActiveAt
  <1> QED BY <1>1, <1>2

\* Putting a half back leaves it in the rollback area or puts it in its place,
\* a torn one as well.
LEMMA PutBackKeeps ==
  ASSUME IInv, DInv, OldDb \/ OldDbRename \/ OldAtts \/ OldAttsRename
  PROVE  /\ UNCHANGED <<journal, next, op, before, started>>
         /\ OldDbHalf(op) => OldDbHalf(op)'
         /\ OldAttsHalf(op) => OldAttsHalf(op)'
         /\ TornAtts(op) => TornAtts(op)'
  <1>1. /\ op \in Ops /\ before[op].db # NoFile /\ before[op].atts # NoFile /\ op # NoFile
        /\ before[op].db # op /\ before[op].atts # op /\ TypeOK /\ Torn # NoFile
        /\ pc = "old_db_rename" => activeDb = NoFile
        /\ pc = "old_atts_rename" => activeAtts = NoFile
    <2>1. Busy /\ TypeOK
      BY DEF IInv, OldDb, OldDbRename, OldAtts, OldAttsRename, Busy, Idle
    <2>2. op \in Ops /\ BeforeWhole(op)
      BY <2>1 DEF TypeOK, DInv, BeforeKnown
    <2> QED BY <2>1, <2>2, BeforeDiffers, DistinctCopies DEF DInv, ActiveAt
  <1>2. UNCHANGED <<journal, next, op, before, started>>
    BY <1>1, ThrowGoes DEF OldDb, OldDbRename, OldAtts, OldAttsRename, Goto, slots, history
  <1> USE DEF OldDbHalf, OldAttsHalf, TornAtts, TypeOK, Areas
  <1>3. CASE OldDb
    BY <1>1, <1>2, <1>3, ThrowGoes DEF OldDb, disk
  <1>4. CASE OldDbRename
    BY <1>1, <1>2, <1>4 DEF OldDbRename
  <1>5. CASE OldAtts
    BY <1>1, <1>2, <1>5, ThrowGoes DEF OldAtts, disk
  <1>6. CASE OldAttsRename
    BY <1>1, <1>2, <1>6 DEF OldAttsRename
  <1> QED BY <1>2, <1>3, <1>4, <1>5, <1>6

\* Where a call of the undoing leads; in the catch block none of them throws.
LEMMA PutBackGoes ==
  ASSUME IInv, CheckRollback \/ OldDb \/ OldDbRename \/ OldAtts \/ OldAttsRename
                 \/ ValidateOld
  PROVE  \/ pc' \in PutBack \cup {"drop_staged"} /\ UNCHANGED <<mode, phase>>
         \/ pc' = "blocked"
  BY UndoSucceeds DEF IInv, TypeOK, PhaseByPlace, PutBack, CheckRollback, OldDb, OldDbRename,
     OldAtts, OldAttsRename, ValidateOld, Throw, Goto

LEMMA StepSlots ==
  ASSUME IInv, DInv, FaultSites \subseteq ForwardSites, OnlyWholePairs, [Next]_vars
  PROVE  SlotsAgree'
  <1> USE DEF IInv, DInv, TypeOK, PhaseByPlace, SlotsAgree, Goto
  <1> USE DEF JournalWrite, Swap, Settle, PutBack, Idle, Busy, Prepared,
          OldStateMoved, NewStateActivated, Validated, BootUndoes
  <1>0. /\ Readable = {journal, next} \cap Entries
        /\ NoFile \notin Entries /\ Torn \notin Entries
    BY ReadableEntries, DistinctCopies
  <1>a. TypeOK'
    BY StepType
  <1>b. Readable' = {journal', next'} \cap Entries
    BY <1>0, <1>a DEF Readable, Slots
  <1>c. UNCHANGED slots => Top' = Top /\ UNCHANGED <<journal, next>>
    BY DEF Top, slots
  <1>1. CASE \E o \in Ops : StartRestore(o) \/ RefuseRestore(o)
    BY <1>0, <1>b, <1>1 DEF StartRestore, RefuseRestore, process, slots
  <1>2. CASE OpenMissingDatabase \/ Restart \/ Close
    BY <1>0, <1>b, <1>2 DEF OpenMissingDatabase, Restart, Close, process, slots
  <1>3. CASE DropNext \/ TearNext
    BY <1>0, <1>b, <1>3 DEF DropNext, TearNext
  <1>4. CASE FillNext
    <2>1. NextEntry \in Entries /\ NextEntry.op = op /\ NextEntry.phase = phase + 1
      BY <1>4 DEF FillNext, NextEntry, Entries
    <2>2. phase = 0 => journal \notin Entries
      BY <1>0, <1>4 DEF FillNext
    <2>3. phase # 0 => journal.op = op /\ journal.phase = phase
      BY <1>4 DEF FillNext, JournalInStep
    <2>4. NextEntry = [op |-> op, phase |-> phase + 1]
      BY DEF NextEntry
    <2> QED BY <1>0, <1>b, <1>4, <2>1, <2>2, <2>3, <2>4 DEF FillNext
  <1>5. CASE DropJournal \/ RenameNext
    <2>1. next.op = op
      BY <1>5 DEF DropJournal, RenameNext, JournalInStep, NextEntry
    <2> QED BY <1>0, <1>b, <1>5, <2>1 DEF DropJournal, RenameNext
  <1>6. CASE MoveOldDb \/ MoveOldAtts \/ MoveNewDb \/ MoveNewAtts \/ SmokeCheck \/ Notify
               \/ CompleteValidated
    BY <1>0, <1>b, <1>6, ForwardGoesOn
       DEF MoveOldDb, MoveOldAtts, MoveNewDb, MoveNewAtts, SmokeCheck, Notify,
           CompleteValidated, slots
  <1>7. CASE CheckRollback \/ OldDb \/ OldDbRename \/ OldAtts \/ OldAttsRename \/ ValidateOld
    <2>1. pc \in PutBack /\ UNCHANGED <<slots, op>>
      BY <1>7, ThrowGoes DEF CheckRollback, OldDb, OldDbRename, OldAtts, OldAttsRename,
         ValidateOld, slots
    <2>2. \/ pc' \in PutBack \cup {"drop_staged"} /\ UNCHANGED <<mode, phase>>
          \/ pc' = "blocked"
      BY <1>7, PutBackGoes
    <2> QED BY <1>0, <1>b, <1>c, <2>1, <2>2
  <1>8. CASE ValidateNew \/ DropStaged \/ DropRollback
    <2>1. pc \in Settle \cup {"validate_new"} /\ UNCHANGED <<slots, op, phase>>
      BY <1>8, ThrowGoes DEF ValidateNew, DropStaged, DropRollback, process, slots
    <2>2. \/ pc' \in {"drop_staged", "drop_rollback", "clear_journal"}
          \/ pc = "validate_new" /\ pc' = "check_rollback"
      BY <1>8 DEF ValidateNew, DropStaged, DropRollback, process, Throw
    <2> QED BY <1>0, <1>b, <1>c, <2>1, <2>2
  <1>9. CASE ClearJournal \/ ClearNext
    BY <1>0, <1>b, <1>9 DEF ClearJournal, ClearNext
  <1>10. CASE BootRead
    <2>1. CASE SlotFiles = {} \/ Readable = {} \/ \E x, y \in Readable : x.op # y.op
      BY <1>0, <1>b, <1>10, <2>1 DEF BootRead, slots, SlotFiles, Readable
    <2>2. ASSUME NEW e \in Readable,
                 \A other \in Readable : other.op = e.op /\ other.phase <= e.phase,
                 op' = e.op, phase' = e.phase,
                 pc' = IF e.phase \in {Prepared, OldStateMoved}
                       THEN "check_rollback" ELSE "validate_new"
          PROVE  SlotsAgree'
      <3>1. Top = {e} /\ e.phase \in 1..4
        BY <2>2, BootTop, ReadableEntries
      <3>2. journal' = journal /\ next' = next /\ mode' = "boot" /\ Top' = Top
        BY <1>10 DEF BootRead, slots, Top
      <3> HIDE DEF TypeOK
      <3> QED BY <1>0, <1>b, <2>2, <3>1, <3>2
    <2> QED BY <1>10, <2>1, <2>2 DEF BootRead
  <1>11. CASE Fault
    <2>1. UNCHANGED <<slots, op, phase>>
      BY <1>11, FaultIsForward DEF slots
    <2> QED BY <1>0, <1>b, <1>c, <1>11, <2>1, FaultIsForward DEF Fault
  <1>12. CASE Crash
    BY <1>0, <1>b, <1>12 DEF Crash, slots
  <1>13. CASE UNCHANGED vars
    BY <1>0, <1>b, <1>13 DEF vars, process, slots, Top
  <1> QED
    BY <1>1, <1>2, <1>3, <1>4, <1>5, <1>6, <1>7, <1>8, <1>9, <1>10, <1>11, <1>12, <1>13
    DEF Next, Step

\* A generation that was on disk before stays one.
LEMMA BeforeStays ==
  ASSUME NEW o \in Ops, BeforeWhole(o), before'[o] = before[o], started \subseteq started'
  PROVE  BeforeWhole(o)'
  BY DEF BeforeWhole

LEMMA StepBefore ==
  ASSUME IInv, DInv, FaultSites \subseteq ForwardSites, [Next]_vars
  PROVE  BeforeKnown'
  <1> USE DEF IInv, DInv, TypeOK, BeforeKnown, Goto
  <1>0. /\ Readable = {journal, next} \cap Entries
        /\ NoFile \notin Entries /\ Torn \notin Entries
        /\ \A e \in Readable : e.op \in Ops
    BY ReadableEntries, DistinctCopies
  <1>a. TypeOK'
    BY StepType
  <1>b. Readable' = {journal', next'} \cap Entries
    BY <1>0, <1>a DEF Readable, Slots
  <1>1. ASSUME Readable' \subseteq Readable \cup (IF Busy THEN {NextEntry} ELSE {}),
               before' = before, started \subseteq started',
               Busy' => (Busy /\ op' = op) \/ \E e \in Readable : op' = e.op
        PROVE  BeforeKnown'
    <2>1. NextEntry.op = op /\ op \in Ops
      BY DEF NextEntry
    <2>2. \A e \in Readable' : BeforeWhole(e.op)'
      BY <1>0, <1>1, <2>1, BeforeStays
    <2>3. Busy' => BeforeWhole(op)'
      BY <1>0, <1>1, <2>1, BeforeStays
    <2> QED BY <2>2, <2>3
  <1>2. ASSUME NEW o \in Ops, StartRestore(o)
        PROVE  BeforeKnown'
    <2>1. /\ WholeActive /\ activeDb # NoFile /\ activeAtts # NoFile
          /\ o \notin started
      BY <1>2, ServesWhole DEF StartRestore
    <2>2. /\ op' = o /\ started' = started \cup {o}
          /\ before' = [before EXCEPT ![o] = [db |-> activeDb, atts |-> activeAtts]]
      BY <1>2, <2>1 DEF StartRestore
    <2>3. PICK g \in started \cup {Original} : activeDb = g /\ activeAtts = g
      BY <2>1 DEF WholeActive
    <2>4. g # o /\ before'[o] = NewPair(g)
      BY <2>1, <2>2, <2>3, DistinctCopies DEF NewPair
    <2>5. BeforeWhole(o)'
      BY <2>2, <2>4 DEF BeforeWhole
    <2>6. \A e \in Readable : e.op \in started /\ e.op # o
      BY <2>1 DEF OneOperation
    <2>7. Readable' = Readable
      BY <1>2 DEF StartRestore, slots, Readable
    <2>8. \A e \in Readable' : BeforeWhole(e.op)'
      BY <1>0, <2>2, <2>6, <2>7, BeforeStays
    <2> QED BY <2>2, <2>5, <2>8
  <1>3. CASE \E o \in Ops : StartRestore(o) \/ RefuseRestore(o)
    BY <1>1, <1>2, <1>3 DEF RefuseRestore, process, slots, Readable, Busy
  <1>4. CASE OpenMissingDatabase \/ Restart \/ Close
    BY <1>1, <1>4
       DEF OpenMissingDatabase, Restart, Close, process, slots, history, Readable, Busy, Idle
  <1>5. CASE DropNext \/ TearNext \/ FillNext \/ DropJournal \/ RenameNext
    <2>1. Busy /\ before' = before /\ started' = started /\ op' = op
      BY <1>5 DEF DropNext, TearNext, FillNext, DropJournal, RenameNext, history, Busy, Idle
    <2>2. Readable' \subseteq Readable \cup {NextEntry}
      BY <1>0, <1>b, <1>5 DEF DropNext, TearNext, FillNext, DropJournal, RenameNext
    <2> QED BY <1>1, <2>1, <2>2
  <1>6. CASE MoveOldDb \/ MoveOldAtts \/ MoveNewDb \/ MoveNewAtts \/ SmokeCheck \/ Notify
               \/ CompleteValidated \/ ValidateOld \/ ValidateNew \/ CheckRollback \/ OldDb
               \/ OldAtts \/ OldDbRename \/ OldAttsRename \/ DropStaged \/ DropRollback
    <2>1. Busy /\ before' = before /\ started' = started /\ op' = op /\ Readable' = Readable
      BY <1>6, ThrowGoes
         DEF MoveOldDb, MoveOldAtts, MoveNewDb, MoveNewAtts, SmokeCheck, Notify,
             CompleteValidated, ValidateOld, ValidateNew, CheckRollback, OldDb, OldAtts,
             OldDbRename, OldAttsRename, DropStaged, DropRollback, process, slots, history,
             Readable, Busy, Idle
    <2> QED BY <1>1, <2>1
  <1>7. CASE ClearJournal \/ ClearNext
    BY <1>0, <1>b, <1>1, <1>7 DEF ClearJournal, ClearNext, history, Busy, Idle
  <1>8. CASE BootRead
    BY <1>1, <1>8 DEF BootRead, slots, history, Readable, Busy, Idle
  <1>9. CASE Fault
    BY <1>1, <1>9, FaultIsForward DEF Readable, Fault
  <1>10. CASE Crash
    BY <1>1, <1>10 DEF Crash, slots, history, Readable, Busy, Idle
  <1>11. CASE UNCHANGED vars
    BY <1>1, <1>11 DEF vars, process, slots, history, Readable, Busy
  <1> QED
    BY <1>3, <1>4, <1>5, <1>6, <1>7, <1>8, <1>9, <1>10, <1>11 DEF Next, Step

LEMMA StepStaged ==
  ASSUME IInv, DInv, FaultSites \subseteq ForwardSites, OnlyWholePairs, [Next]_vars
  PROVE  StagedKept'
  <1> USE DEF IInv, TypeOK, PhaseByPlace, StagedKept, Goto
  <1> USE DEF JournalWrite, Swap, Settle, PutBack, Idle, Prepared,
          OldStateMoved, NewStateActivated, Validated
  <1>0. StagedKept
    BY DEF DInv
  <1>1. CASE \E o \in Ops : StartRestore(o) \/ RefuseRestore(o)
    BY <1>0, <1>1 DEF StartRestore, RefuseRestore, process
  <1>2. CASE OpenMissingDatabase \/ Restart \/ Close
    BY <1>0, <1>2 DEF OpenMissingDatabase, Restart, Close, process
  <1>3. CASE DropNext \/ TearNext \/ FillNext \/ DropJournal \/ RenameNext
    BY <1>0, <1>3 DEF DropNext, TearNext, FillNext, DropJournal, RenameNext, disk
  <1>4. CASE MoveOldDb \/ MoveOldAtts
    BY <1>0, <1>4, ThrowGoes DEF MoveOldDb, MoveOldAtts
  <1>5. CASE MoveNewDb \/ MoveNewAtts
    BY <1>0, <1>5 DEF MoveNewDb, MoveNewAtts, NewPair, Pairs
  <1>6. CASE SmokeCheck \/ Notify \/ CompleteValidated \/ ValidateOld
               \/ ValidateNew \/ CheckRollback
    BY <1>0, <1>6, ThrowGoes DEF SmokeCheck, Notify, CompleteValidated, ValidateOld,
       ValidateNew, CheckRollback
  <1>7. CASE DropStaged \/ DropRollback \/ ClearJournal \/ ClearNext
    BY <1>0, <1>7 DEF DropStaged, DropRollback, ClearJournal, ClearNext, process
  <1>8. CASE OldDb \/ OldAtts \/ OldDbRename \/ OldAttsRename
    BY <1>0, <1>8, ThrowGoes DEF OldDb, OldAtts, OldDbRename, OldAttsRename
  <1>9. CASE BootRead
    BY <1>0, <1>9 DEF BootRead
  <1>10. CASE Fault
    BY <1>0, <1>10, FaultIsForward
  <1>11. CASE Crash
    BY <1>0, <1>11 DEF Crash
  <1>12. CASE UNCHANGED vars
    BY <1>0, <1>12 DEF vars, process, disk
  <1> QED
    BY <1>1, <1>2, <1>3, <1>4, <1>5, <1>6, <1>7, <1>8, <1>9, <1>10, <1>11, <1>12
    DEF Next, Step

LEMMA StepActiveAt ==
  ASSUME IInv, DInv, FaultSites \subseteq ForwardSites, OnlyWholePairs, [Next]_vars
  PROVE  ActiveAt'
  <1> USE DEF IInv, TypeOK, PhaseByPlace, Goto
  <1> USE DEF JournalWrite, Swap, Settle, PutBack, Idle, Prepared,
          OldStateMoved, NewStateActivated, Validated
  <1> DEFINE HalvesStay ==
               /\ OldPair(op) => OldPair(op)'
               /\ HalfTorn(op) => HalfTorn(op)'
  <1>0. /\ ActiveAt /\ StagedKept /\ SlotsAgree /\ OneOperation /\ DiskSafe
        /\ Busy => BeforeWhole(op)
    BY DEF DInv, BeforeKnown
  <1>a. Busy => /\ before[op].db # NoFile /\ before[op].atts # NoFile /\ op # NoFile
                /\ before[op].db # op /\ before[op].atts # op
                /\ before[op] = [db |-> before[op].db, atts |-> before[op].atts]
    BY <1>0, BeforeDiffers DEF Pairs
  <1>1. CASE \E o \in Ops : StartRestore(o) \/ RefuseRestore(o)
    <2>1. ASSUME NEW o \in Ops, StartRestore(o)
          PROVE  ActiveAt'
      <3>1. activeDb # NoFile /\ activeAtts # NoFile /\ rollback[o] = NoArea
        BY <1>0, <2>1, ServesWhole DEF StartRestore, OneOperation
      <3>2. /\ op' = o /\ pc' = "drop_next" /\ phase' = 0 /\ rollback' = rollback
            /\ activeDb' = activeDb /\ activeAtts' = activeAtts
            /\ before'[o] = [db |-> activeDb, atts |-> activeAtts]
        BY <2>1, <3>1 DEF StartRestore
      <3> QED BY <3>1, <3>2 DEF ActiveAt, ActivePair, Emptied, NoArea
    <2> QED BY <1>0, <1>1, <2>1 DEF RefuseRestore, process, ActiveAt
  <1>2. CASE OpenMissingDatabase \/ Restart \/ Close
    BY <1>0, <1>2 DEF OpenMissingDatabase, Restart, Close, process, ActiveAt
  <1>3. CASE DropNext \/ TearNext \/ FillNext \/ DropJournal
    BY <1>0, <1>3 DEF DropNext, TearNext, FillNext, DropJournal, disk, history, ActiveAt,
       ActivePair, Emptied, NewActive
  <1>4. CASE RenameNext
    BY <1>0, <1>4 DEF RenameNext, disk, history, ActiveAt, ActivePair, Emptied, NewActive
  <1>5. CASE MoveOldDb
    <2>1. activeDb = before[op].db /\ activeAtts = before[op].atts /\ Emptied(op)
      BY <1>0, <1>5 DEF MoveOldDb, ActiveAt, ActivePair
    <2>2. activeDb # NoFile /\ activeAtts # NoFile
      BY <1>5, ForwardGoesOn DEF MoveOldDb
    <2> QED BY <1>5, <2>1, <2>2 DEF MoveOldDb, history, ActiveAt, Emptied, Areas
  <1>6. CASE MoveOldAtts
    BY <1>0, <1>6 DEF MoveOldAtts, history, ActiveAt, Areas
  <1>7. CASE MoveNewDb
    BY <1>0, <1>7 DEF MoveNewDb, history, ActiveAt, StagedKept, NewPair
  <1>8. CASE MoveNewAtts
    BY <1>0, <1>8 DEF MoveNewAtts, history, ActiveAt, StagedKept, NewActive
  <1>9. CASE SmokeCheck \/ Notify
    BY <1>0, <1>9, ForwardGoesOn DEF SmokeCheck, Notify, disk, history, ActiveAt, NewActive
  <1>10. CASE CompleteValidated
    <2>1. NewActive(op) /\ journal = [op |-> op, phase |-> Validated] /\ next = NoFile
      BY <1>0, <1>10 DEF CompleteValidated, ActiveAt, JournalInStep, SlotsAgree
    <2>2. UNCHANGED <<disk, slots, history, op>> /\ pc' = "drop_staged"
      BY <1>10, ForwardGoesOn DEF CompleteValidated
    <2>3. \A e \in Top : e.phase >= NewStateActivated
      BY <2>1, DistinctCopies DEF Top
    <2>4. AreaLeft(op)
      BY <1>0, <1>10 DEF CompleteValidated, ActiveAt, AreaLeft
    <2> QED BY <2>1, <2>2, <2>3, <2>4 DEF disk, slots, history, ActiveAt, NewActive, AreaLeft,
       Top
  <1>11. CASE CheckRollback \/ OldDb \/ OldDbRename \/ OldAtts \/ OldAttsRename
    <2>1. CASE pc' = "blocked"
      BY <2>1 DEF ActiveAt
    <2>2. CASE pc' \in PutBack /\ UNCHANGED <<mode, phase>>
      <3>1. /\ pc \in PutBack /\ pc' # "check_rollback" /\ UNCHANGED <<op, before>>
            /\ \/ OldPair(op)
               \/ mode = "boot" /\ phase >= NewStateActivated /\ HalfTorn(op)
        <4>1. /\ pc \in PutBack /\ pc' # "check_rollback" /\ UNCHANGED <<op, before>>
              /\ CheckRollback /\ RequireRollback =>
                   rollback[op].db # NoFile /\ rollback[op].atts # NoFile
          BY <1>11, <2>2, ThrowGoes DEF CheckRollback, OldDb, OldDbRename, OldAtts,
             OldAttsRename, Throw, history
        <4>2. CASE OldPair(op) \/ (BootUndoes /\ HalfTorn(op))
          BY <4>1, <4>2 DEF BootUndoes
        <4>3. CASE BootUndoes /\ CheckRollback /\ NewActive(op) /\ AreaLeft(op)
          BY <4>1, <4>3 DEF BootUndoes, RequireRollback, NewActive, AreaLeft, OldPair,
             HalfTorn, OldDbHalf, OldAttsHalf, TornAtts
        <4> QED BY <1>0, <1>11, <4>1, <4>2, <4>3
                DEF ActiveAt, OldDb, OldDbRename, OldAtts, OldAttsRename
      <3>2. OldPair(op)' \/ (mode' = "boot" /\ phase' >= NewStateActivated /\ HalfTorn(op)')
        <4>1. HalvesStay
          <5>1. CASE CheckRollback
            BY <2>2, <5>1 DEF CheckRollback, disk, history, Throw, OldPair, HalfTorn,
               OldDbHalf, OldAttsHalf, TornAtts
          <5> QED BY <1>11, <5>1, PutBackKeeps DEF OldPair, HalfTorn
        <4> QED BY <2>2, <3>1, <4>1
      <3>3. /\ pc' = "old_db_rename" => activeDb' = NoFile
            /\ pc' = "old_atts_rename" => activeAtts' = NoFile
            /\ pc' \in {"old_atts", "old_atts_rename", "validate_old"} =>
                 rollback'[op].db = NoFile
            /\ pc' = "validate_old" => rollback'[op].atts = NoFile
        BY <1>0, <1>11, <2>2
           DEF CheckRollback, OldDb, OldDbRename, OldAtts, OldAttsRename, Throw, disk,
               ActiveAt, Areas
      <3> QED BY <2>2, <3>1, <3>2, <3>3 DEF ActiveAt, BootUndoes
    <2> QED BY <1>11, <2>1, <2>2, PutBackGoes
            DEF CheckRollback, OldDb, OldDbRename, OldAtts, OldAttsRename, Throw
  <1>12. CASE ValidateOld
    <2>1. OldPair(op) \/ HalfTorn(op)
      BY <1>0, <1>12 DEF ValidateOld, ActiveAt
    <2>2. rollback[op].db = NoFile /\ Busy
      BY <1>0, <1>12 DEF ValidateOld, ActiveAt, Busy
    <2>3. ActiveValid => ActivePair = before[op] /\ Emptied(op)
      <3>1. ~(NewActive(op) /\ OldDbHalf(op))
        BY <1>a, <2>2 DEF NewActive, OldDbHalf
      <3> QED BY <1>0, <2>1, <2>2, <3>1, ValidPair DEF OldPair, HalfTorn
    <2> QED BY <2>3, <1>12, UndoSucceeds DEF ValidateOld, disk, history, Throw, ActiveAt,
       ActivePair, Emptied
  <1>13. CASE ValidateNew
    <2>1. /\ Top # {} /\ \A e \in Top : e.phase = phase /\ e.op = op /\ OnDisk(e)
          /\ phase >= NewStateActivated /\ BeforeWhole(op) /\ mode = "boot"
      BY <1>0, <1>13, ReadableEntries DEF ValidateNew, SlotsAgree, DiskSafe, Busy
    <2>2. OldPair(op) \/ HalfTorn(op) \/ (NewActive(op) /\ AreaLeft(op))
      BY <2>1 DEF OnDisk
    <2>3. CASE ActiveValid
      <3>1. \/ ActivePair = before[op] /\ Emptied(op)
            \/ NewActive(op) /\ AreaLeft(op)
        BY <2>1, <2>2, <2>3, ValidPair
      <3>2. UNCHANGED <<disk, slots, history, op>> /\ pc' = "drop_staged"
        BY <1>13, <2>3 DEF ValidateNew
      <3> QED BY <2>1, <3>1, <3>2 DEF disk, slots, history, ActiveAt, NewActive, AreaLeft, Top,
         ActivePair, Emptied
    <2>4. CASE ~ActiveValid
      <3>1. OldPair(op) \/ HalfTorn(op)
        BY <2>2, <2>4, NewIsValid
      <3>2. /\ UNCHANGED <<activeDb, activeAtts, rollback, history, op, mode, phase>>
            /\ pc' = "check_rollback"
        BY <1>13, <2>1, <2>4 DEF ValidateNew, Throw
      <3> QED BY <2>1, <3>1, <3>2 DEF history, ActiveAt, BootUndoes, OldPair, HalfTorn,
         OldDbHalf, OldAttsHalf, TornAtts
    <2> QED BY <2>3, <2>4
  <1>14. CASE DropStaged
    BY <1>0, <1>14 DEF DropStaged, slots, history, ActiveAt, ActivePair, Emptied, NewActive,
       AreaLeft, Top
  <1>15. CASE DropRollback
    <2>1. \/ ActivePair = before[op] /\ Emptied(op)
          \/ NewActive(op) /\ AreaLeft(op) /\ \A e \in Top : e.phase >= NewStateActivated
      BY <1>0, <1>15 DEF DropRollback, ActiveAt
    <2>2. /\ UNCHANGED <<activeDb, activeAtts, slots, history, op>>
          /\ pc' \in {"drop_rollback", "clear_journal"}
          /\ Emptied(op) => Emptied(op)'
          /\ AreaLeft(op) => AreaLeft(op)'
      BY <1>15 DEF DropRollback, process, history, Emptied, AreaLeft, Areas
    <2> QED BY <2>1, <2>2 DEF slots, history, ActiveAt, ActivePair, NewActive, Top
  <1>16. CASE ClearJournal
    <2>1. Top' \subseteq Top
      BY <1>16, DistinctCopies DEF ClearJournal, Top
    <2> QED BY <1>0, <1>16, <2>1 DEF ClearJournal, disk, history, ActiveAt, ActivePair,
       Emptied, NewActive, AreaLeft
  <1>17. CASE ClearNext
    BY <1>17 DEF ClearNext, ActiveAt
  <1>18. CASE BootRead
    <2>1. CASE pc' \notin {"check_rollback"}
      BY <1>18, <2>1 DEF BootRead, ActiveAt
    <2>2. ASSUME NEW e \in Readable,
                 \A other \in Readable : other.op = e.op /\ other.phase <= e.phase,
                 op' = e.op, e.phase \in {Prepared, OldStateMoved},
                 pc' = "check_rollback",
                 UNCHANGED <<activeDb, activeAtts, rollback, history>>
          PROVE  ActiveAt'
      <3>1. Top = {e}
        BY <1>0, <2>2, BootTop
      <3>2. OldPair(e.op)
        BY <1>0, <2>2, <3>1 DEF DiskSafe, OnDisk
      <3> HIDE DEF TypeOK
      <3> QED BY <2>2, <3>2 DEF history, ActiveAt, OldPair, OldDbHalf, OldAttsHalf
    <2> QED BY <1>18, <2>1, <2>2 DEF BootRead
  <1>19. CASE Fault
    <2>1. CASE pc' \in {"serving", "blocked"}
      BY <2>1 DEF ActiveAt
    <2>2. CASE pc' = "check_rollback" /\ pc # "validate_new"
      <3>1. /\ pc \in JournalWrite \union Swap /\ phase # 0 /\ Busy
            /\ UNCHANGED <<activeDb, activeAtts, rollback, op, before>>
        BY <1>19, <2>2, FaultIsForward DEF Fault
      <3>2. OldPair(op)
        BY <1>0, <1>a, <3>1 DEF ActiveAt, OldPair, OldDbHalf, OldAttsHalf, ActivePair,
           Emptied, NewActive
      <3> QED BY <2>2, <3>1, <3>2 DEF ActiveAt, OldPair, OldDbHalf, OldAttsHalf
    <2>3. CASE pc = "validate_new" /\ pc' = "check_rollback"
      <3>1. /\ UNCHANGED <<activeDb, activeAtts, rollback, op, before, phase>>
            /\ mode' = "boot" /\ Busy
        BY <1>19, <2>3, FaultIsForward DEF Fault
      <3>2. /\ phase >= NewStateActivated
            /\ OldPair(op) \/ HalfTorn(op) \/ (NewActive(op) /\ AreaLeft(op))
        BY <1>0, <2>3, <3>1, ReadableEntries DEF SlotsAgree, DiskSafe, OnDisk
      <3> QED BY <2>3, <3>1, <3>2 DEF ActiveAt, BootUndoes, OldPair, HalfTorn, OldDbHalf,
         OldAttsHalf, TornAtts, NewActive, AreaLeft
    <2> QED BY <1>19, <2>1, <2>2, <2>3, FaultIsForward
  <1>20. CASE Crash
    BY <1>20 DEF Crash, ActiveAt
  <1>21. CASE UNCHANGED vars
    BY <1>0, <1>21 DEF vars, process, disk, slots, history, ActiveAt, ActivePair, Emptied,
       NewActive, AreaLeft, BootUndoes, OldPair, HalfTorn, OldDbHalf, OldAttsHalf,
       TornAtts, Top
  <1> QED
    BY <1>1, <1>2, <1>3, <1>4, <1>5, <1>6, <1>7, <1>8, <1>9, <1>10, <1>11, <1>12, <1>13,
       <1>14, <1>15, <1>16, <1>17, <1>18, <1>19, <1>20, <1>21
    DEF Next, Step

\* An entry and the pair behind it, when neither is touched.
LEMMA OnDiskStays ==
  ASSUME IInv, DInv, UNCHANGED <<activeDb, activeAtts>>,
         \A e \in Readable : rollback'[e.op] = rollback[e.op] /\ before'[e.op] = before[e.op]
  PROVE  \A e \in Top : OnDisk(e) /\ OnDisk(e)'
  BY ReadableEntries
  DEF IInv, DInv, DiskSafe, OnDisk, OldPair, HalfTorn, OldDbHalf, OldAttsHalf, TornAtts,
      NewActive, AreaLeft

LEMMA StepDiskSafe ==
  ASSUME IInv, DInv, FaultSites \subseteq ForwardSites, OnlyWholePairs, [Next]_vars
  PROVE  DiskSafe'
  <1> USE DEF IInv, TypeOK, PhaseByPlace, Goto
  <1> USE DEF JournalWrite, Swap, Settle, PutBack, Idle, Prepared,
          OldStateMoved, NewStateActivated, Validated
  <1>0. /\ ActiveAt /\ StagedKept /\ SlotsAgree /\ OneOperation /\ DiskSafe
        /\ Busy => BeforeWhole(op)
        /\ TypeOK /\ NoFile \notin Entries /\ Torn \notin Entries
    BY DistinctCopies DEF DInv, BeforeKnown
  <1>1. ASSUME UNCHANGED <<activeDb, activeAtts, journal, next>>, started \subseteq started',
               \A e \in Readable :
                 rollback'[e.op] = rollback[e.op] /\ before'[e.op] = before[e.op]
        PROVE  DiskSafe'
    <2>1. Top' = Top /\ (WholeActive => WholeActive')
      BY <1>1 DEF Top, WholeActive
    <2>2. \A e \in Top : OnDisk(e)'
      BY <1>1, OnDiskStays
    <2> QED BY <1>0, <2>1, <2>2 DEF DiskSafe
  <1>2. ASSUME Busy, pc \notin JournalWrite \/ phase # 0, Top # {}, UNCHANGED <<slots, op>>,
               \/ OldPair(op)'
               \/ /\ \A e \in Top : e.phase >= NewStateActivated
                  /\ (NewActive(op)' /\ AreaLeft(op)') \/ HalfTorn(op)'
        PROVE  DiskSafe'
    <2>1. Top' = Top /\ \A e \in Top : e.op = op
      BY <1>0, <1>2, ReadableEntries DEF Top, slots, SlotsAgree
    <2> QED BY <1>2, <2>1 DEF DiskSafe, OnDisk, OldPair, HalfTorn, OldDbHalf, OldAttsHalf,
       TornAtts, NewActive, AreaLeft
  <1>3. CASE \E o \in Ops : StartRestore(o) \/ RefuseRestore(o)
    <2>1. activeDb # NoFile /\ activeAtts # NoFile
      BY <1>3, ServesWhole DEF StartRestore, RefuseRestore
    <2>2. ASSUME NEW o \in Ops, StartRestore(o) \/ RefuseRestore(o)
          PROVE  /\ UNCHANGED <<activeDb, activeAtts, journal, next, rollback>>
                 /\ started \subseteq started'
                 /\ \A e \in Readable : before'[e.op] = before[e.op]
      BY <1>0, <2>1, <2>2, ReadableEntries DEF StartRestore, RefuseRestore, slots, OneOperation
    <2> QED BY <1>1, <1>3, <2>2
  <1>4. CASE OpenMissingDatabase
    BY <1>4, ServesWhole DEF OpenMissingDatabase
  <1>5. CASE Restart \/ Close \/ Crash \/ UNCHANGED vars
    BY <1>1, <1>5 DEF Restart, Close, Crash, vars, disk, slots, history
  <1>6. CASE Fault
    BY <1>1, <1>6, FaultIsForward
  <1>7. CASE DropNext
    <2>1. CASE phase = 0
      <3>1. BeforeWhole(op) /\ ActivePair = before[op]
        BY <1>0, <1>7, <2>1 DEF DropNext, ActiveAt, Busy
      <3>2. WholeActive
        BY <3>1 DEF BeforeWhole, ActivePair, NewPair, WholeActive
      <3>3. UNCHANGED <<activeDb, activeAtts, started>> /\ Top' = {}
        BY <1>0, <1>7, <2>1 DEF DropNext, disk, history, Top, SlotsAgree
      <3> QED BY <3>2, <3>3 DEF DiskSafe, WholeActive
    <2>2. CASE phase # 0
      BY <1>0, <1>1, <1>7, <2>2 DEF DropNext, disk, history, SlotsAgree
    <2> QED BY <2>1, <2>2
  <1>8. CASE TearNext
    <2>1. Top' = Top /\ UNCHANGED <<activeDb, activeAtts, rollback, before, started>>
      BY <1>0, <1>8 DEF TearNext, disk, history, Top, SlotsAgree
    <2>2. \A e \in Top : OnDisk(e)'
      BY <2>1, OnDiskStays
    <2>3. WholeActive => WholeActive'
      BY <2>1 DEF WholeActive
    <2> QED BY <1>0, <2>1, <2>2, <2>3 DEF DiskSafe
  <1>9. CASE FillNext
    <2>1. /\ Busy /\ BeforeWhole(op) /\ NextEntry \in Entries
          /\ NextEntry.op = op /\ NextEntry.phase = phase + 1
      BY <1>0, <1>9 DEF FillNext, NextEntry, Entries, Busy
    <2>2. Top' = {NextEntry}
      BY <1>9, <2>1 DEF FillNext, Top
    <2>3. OldPair(op)
      BY <1>0, <1>9, <2>1, BeforeDiffers DEF FillNext, ActiveAt, OldPair, OldDbHalf,
         OldAttsHalf, ActivePair, Emptied, NewActive
    <2>4. UNCHANGED <<activeDb, activeAtts, rollback, before, op>>
      BY <1>9 DEF FillNext, disk, history
    <2> QED BY <2>1, <2>2, <2>3, <2>4 DEF DiskSafe, OnDisk, OldPair, OldDbHalf, OldAttsHalf
  <1>10. CASE DropJournal \/ RenameNext
    <2>1. next \in Entries
      BY <1>10 DEF DropJournal, RenameNext, JournalInStep, NextEntry, Entries
    <2>2. Top = {next} /\ Top' = Top
      BY <1>0, <1>10, <2>1 DEF DropJournal, RenameNext, Top
    <2>3. UNCHANGED <<activeDb, activeAtts, rollback, before, started>>
      BY <1>10 DEF DropJournal, RenameNext, disk, history
    <2>4. \A e \in Top : OnDisk(e)'
      BY <2>3, OnDiskStays
    <2> QED BY <2>2, <2>4 DEF DiskSafe
  <1>11. ASSUME pc \in {"move_old_db", "move_old_atts", "move_new_db", "move_new_atts"}
         PROVE  Busy /\ Top # {} /\ phase # 0
    <2>1. journal = [op |-> op, phase |-> phase] /\ phase \in 1..4
      BY <1>11 DEF JournalInStep
    <2> QED BY <1>11, <2>1 DEF Busy, Top, Entries
  <1>12. CASE MoveOldDb
    <2>1. Busy /\ Top # {} /\ phase # 0
      BY <1>11, <1>12 DEF MoveOldDb
    <2>2. activeDb = before[op].db /\ activeAtts = before[op].atts /\ Emptied(op)
      BY <1>0, <1>12 DEF MoveOldDb, ActiveAt, ActivePair
    <2>3. UNCHANGED <<slots, op>> /\ OldPair(op)'
      BY <1>12, <2>2, ForwardGoesOn DEF MoveOldDb, slots, history, Emptied, OldPair,
         OldDbHalf, OldAttsHalf, Areas
    <2> QED BY <1>2, <2>1, <2>3
  <1>13. CASE MoveOldAtts
    <2>1. Busy /\ Top # {} /\ phase # 0
      BY <1>11, <1>13 DEF MoveOldAtts
    <2>2. UNCHANGED <<slots, op>> /\ OldPair(op)'
      BY <1>0, <1>13 DEF MoveOldAtts, slots, history, ActiveAt, OldPair, OldDbHalf,
         OldAttsHalf, Areas
    <2> QED BY <1>2, <2>1, <2>2
  <1>14. CASE MoveNewDb
    <2>1. Busy /\ Top # {} /\ phase # 0
      BY <1>11, <1>14 DEF MoveNewDb
    <2>2. UNCHANGED <<slots, op>> /\ OldPair(op)'
      BY <1>0, <1>14 DEF MoveNewDb, slots, history, ActiveAt, StagedKept, NewPair, OldPair,
         OldDbHalf, OldAttsHalf
    <2> QED BY <1>2, <2>1, <2>2
  <1>15. CASE MoveNewAtts
    <2>1. Busy /\ Top # {} /\ phase # 0
      BY <1>11, <1>15 DEF MoveNewAtts
    <2>2. UNCHANGED <<slots, op>> /\ OldPair(op)'
      BY <1>0, <1>15 DEF MoveNewAtts, slots, history, ActiveAt, StagedKept, OldPair,
         OldDbHalf, OldAttsHalf
    <2> QED BY <1>2, <2>1, <2>2
  <1>16. CASE SmokeCheck \/ Notify \/ CompleteValidated \/ ValidateOld \/ ValidateNew
                \/ CheckRollback \/ DropStaged
    <2>1. UNCHANGED <<activeDb, activeAtts, rollback, slots, history>>
      BY <1>16, ThrowGoes DEF SmokeCheck, Notify, CompleteValidated, ValidateOld, ValidateNew,
         CheckRollback, DropStaged, disk, slots, history
    <2> QED BY <1>1, <2>1 DEF slots, history
  <1>17. CASE OldDb \/ OldDbRename \/ OldAtts \/ OldAttsRename
    <2>1. /\ Busy /\ pc \in PutBack /\ pc # "check_rollback" /\ BeforeWhole(op)
          /\ OldPair(op) \/ (BootUndoes /\ HalfTorn(op))
      BY <1>0, <1>17 DEF OldDb, OldDbRename, OldAtts, OldAttsRename, ActiveAt, Busy
    <2>2. /\ before[op].db # NoFile /\ before[op].atts # NoFile /\ op # NoFile
          /\ before[op].db # op /\ before[op].atts # op
      BY <2>1, BeforeDiffers
    <2>3. /\ UNCHANGED <<slots, op, before, started>>
          /\ (OldPair(op) => OldPair(op)') /\ (HalfTorn(op) => HalfTorn(op)')
      BY <1>17, PutBackKeeps DEF slots, OldPair, HalfTorn
    <2>4. BootUndoes => Top # {} /\ \A e \in Top : e.phase >= NewStateActivated
      BY <1>0 DEF SlotsAgree, BootUndoes
    <2>5. CASE Top # {}
      BY <1>2, <2>1, <2>3, <2>4, <2>5
    <2>6. CASE Top = {}
      <3>1. Emptied(op)
        BY <2>6, ReadableEntries DEF JournalCoversSwap, Emptied
      <3>2. /\ activeDb # NoFile /\ activeAtts # NoFile
            /\ pc \notin {"old_db_rename", "old_atts_rename"}
        BY <1>0, <2>1, <2>2, <2>4, <2>6, <3>1 DEF OldPair, OldDbHalf, OldAttsHalf, Emptied,
           ActiveAt
      <3>3. UNCHANGED <<activeDb, activeAtts>>
        BY <1>17, <3>1, <3>2, ThrowGoes DEF OldDb, OldDbRename, OldAtts, OldAttsRename, disk,
           Emptied
      <3> QED BY <1>0, <2>3, <2>6, <3>3 DEF DiskSafe, Top, slots, WholeActive
    <2> QED BY <2>5, <2>6
  <1>18. CASE DropRollback
    <2>1. \/ ActivePair = before[op] /\ Emptied(op)
          \/ NewActive(op) /\ AreaLeft(op) /\ \A e \in Top : e.phase >= NewStateActivated
      BY <1>0, <1>18 DEF DropRollback, ActiveAt
    <2>2. /\ UNCHANGED <<activeDb, activeAtts, slots, before, started, op>> /\ Busy
          /\ pc \notin JournalWrite
      BY <1>18 DEF DropRollback, process, history, Busy
    <2>3. Emptied(op) => Emptied(op)'
      BY <1>18 DEF DropRollback, process, Emptied, Areas
    <2>4. CASE Top = {}
      BY <1>0, <2>2, <2>4 DEF DiskSafe, Top, slots, WholeActive
    <2>5. CASE ActivePair = before[op] /\ Emptied(op) /\ Top # {}
      <3>1. activeDb = before[op].db /\ activeAtts = before[op].atts
        BY <2>5 DEF ActivePair
      <3>2. OldPair(op)'
        BY <2>2, <2>3, <2>5, <3>1 DEF Emptied, OldPair, OldDbHalf, OldAttsHalf
      <3> QED BY <1>2, <2>2, <2>5, <3>2
    <2>6. CASE /\ NewActive(op) /\ AreaLeft(op) /\ Top # {}
               /\ \A e \in Top : e.phase >= NewStateActivated
      <3>1. NewActive(op)' /\ AreaLeft(op)'
        BY <1>18, <2>2, <2>6 DEF NewActive, DropRollback, AreaLeft, Areas
      <3> QED BY <1>2, <2>2, <2>6, <3>1
    <2> QED BY <2>1, <2>4, <2>5, <2>6
  <1>19. CASE ClearJournal \/ ClearNext
    <2>1. \/ ActivePair = before[op]
          \/ NewActive(op)
      BY <1>0, <1>19 DEF ClearJournal, ClearNext, ActiveAt
    <2>2. BeforeWhole(op) /\ op \in started
      BY <1>0, <1>19 DEF ClearJournal, ClearNext, Busy, OneOperation
    <2>3. WholeActive
      BY <2>1, <2>2 DEF BeforeWhole, NewPair, ActivePair, NewActive, WholeActive
    <2>4. UNCHANGED <<activeDb, activeAtts, rollback, before, started>> /\ Top' \subseteq Top
      BY <1>0, <1>19 DEF ClearJournal, ClearNext, disk, history, Top, SlotsAgree
    <2>5. \A e \in Top : OnDisk(e)'
      BY <2>4, OnDiskStays
    <2> QED BY <2>3, <2>4, <2>5 DEF DiskSafe, WholeActive
  <1>20. CASE BootRead
    <2>1. UNCHANGED <<slots, history, rollback>>
      BY <1>20 DEF BootRead
    <2>2. CASE SlotFiles = {}
      <3>1. Top = {}
        BY <1>0, <2>2 DEF SlotFiles, Top
      <3>2. activeDb # NoFile /\ activeAtts # NoFile
        BY <1>0, <3>1, DistinctCopies DEF DiskSafe, WholeActive, Gens
      <3> QED BY <1>1, <1>20, <2>1, <2>2, <3>2 DEF BootRead, slots, history, Readable,
         SlotFiles
    <2>3. CASE SlotFiles # {}
      BY <1>1, <1>20, <2>1, <2>3 DEF BootRead, slots, history
    <2> QED BY <2>2, <2>3
  <1> QED
    BY <1>3, <1>4, <1>5, <1>6, <1>7, <1>8, <1>9, <1>10, <1>12, <1>13, <1>14, <1>15, <1>16,
       <1>17, <1>18, <1>19, <1>20
    DEF Next, Step

-----------------------------------------------------------------------------
(* Theorems.                                                               *)

LEMMA InitDisk == Init => DInv
  <1> SUFFICES ASSUME Init PROVE DInv
    OBVIOUS
  <1>1. Readable = {} /\ Top = {} /\ journal = NoFile /\ pc = "serving"
    BY DistinctCopies DEF Init, Readable, Top
  <1>2. SlotsAgree /\ BeforeKnown /\ StagedKept /\ ActiveAt
    BY <1>1, DistinctCopies DEF SlotsAgree, BeforeKnown, StagedKept, ActiveAt, Busy, Idle,
       JournalWrite, Swap, Settle, PutBack, BootUndoes
  <1>3. DiskSafe
    BY <1>1 DEF DiskSafe, WholeActive, Init
  <1> QED BY <1>2, <1>3 DEF DInv

LEMMA DiskInvariant ==
  ASSUME FaultSites \subseteq ForwardSites, OnlyWholePairs
  PROVE  Spec => [](IInv /\ DInv)
  <1>1. Spec => []IInv
    BY Inductive
  <1>2. IInv /\ DInv /\ [Next]_vars => DInv'
    BY StepSlots, StepBefore, StepStaged, StepActiveAt, StepDiskSafe DEF DInv
  <1> QED BY <1>1, <1>2, InitDisk, PTL DEF Spec

\* The application runs on one whole generation only, whatever came before:
\* swaps undone, deaths of recovery itself, journals left by a failed start of
\* a restore (recoverBeforeBootstrap, rollbackToOld).
THEOREM ServedIsWhole ==
  ASSUME FaultSites \subseteq ForwardSites, OnlyWholePairs
  PROVE  Spec => []ServesWholeGeneration
  <1>1. IInv /\ DInv => ServesWholeGeneration
    BY ServesWhole DEF ServesWholeGeneration, WholeActive
  <1> QED BY <1>1, DiskInvariant, PTL

\* Cleanup deletes a half of the old pair only when the new one is active
\* (_cleanupOperation, from the swap or from recovery).
THEOREM OldPairGoesLast ==
  ASSUME FaultSites \subseteq ForwardSites, OnlyWholePairs
  PROVE  Spec => OldPairDeletedLast
  <1>1. IInv /\ DInv =>
          \A o \in Ops :
            (rollback[o].db # NoFile \/ rollback[o].atts # NoFile) /\ pc = "drop_rollback"
              => ActivePair = NewPair(o)
    <2> SUFFICES ASSUME IInv, DInv, NEW o \in Ops, ~Emptied(o), pc = "drop_rollback"
                 PROVE  ActivePair = NewPair(o)
      BY DEF Emptied
    <2>1. o = op
      BY DEF IInv, OneOperation
    <2>2. NewActive(op)
      BY <2>1 DEF DInv, ActiveAt, Settle
    <2> QED BY <2>1, <2>2 DEF NewActive, ActivePair, NewPair
  <1>2. IInv /\ DInv =>
          [\A o \in Ops :
             (rollback[o].db # NoFile \/ rollback[o].atts # NoFile) /\ pc = "drop_rollback"
               => ActivePair = NewPair(o)]_vars
    BY <1>1
  <1> QED BY <1>2, DiskInvariant, PTL DEF OldPairDeletedLast

-----------------------------------------------------------------------------
(* The swap, its journal and its recovery implement AtomicRestore.         *)

\* What the refinement mapping makes of a state.
Memory  == IF Swapping = {} THEN ActivePair
           ELSE before[(CHOOSE e \in Swapping : TRUE).op]
Pending == {e.op : e \in Swapping}

\* An operation that is settled one way or the other, or one that never began.
Settled     == Swapping = {}
Unsettled(o) == Swapping # {} /\ \A e \in Swapping : e.op = o

LEMMA MappedState ==
  /\ Settled => Memory = ActivePair /\ Pending = {}
  /\ \A o : Unsettled(o) => Memory = before[o] /\ Pending = {o}
  <1>1. Settled => Memory = ActivePair /\ Pending = {}
    BY DEF Settled, Memory, Pending
  <1>2. ASSUME NEW o, Unsettled(o)
        PROVE  Memory = before[o] /\ Pending = {o}
    <2>1. (CHOOSE e \in Swapping : TRUE) \in Swapping
      BY <1>2 DEF Unsettled
    <2> QED BY <1>2, <2>1 DEF Unsettled, Memory, Pending
  <1> QED BY <1>1, <1>2

\* The same of the next state.
LEMMA MappedNext ==
  /\ Settled' => Memory' = ActivePair' /\ Pending' = {}
  /\ \A o : Unsettled(o)' => Memory' = before'[o] /\ Pending' = {o}
  <1>1. Settled' => Memory' = ActivePair' /\ Pending' = {}
    BY DEF Settled, Memory, Pending
  <1>2. ASSUME NEW o, Unsettled(o)'
        PROVE  Memory' = before'[o] /\ Pending' = {o}
    <2>1. (CHOOSE e \in Swapping' : TRUE) \in Swapping'
      BY <1>2 DEF Unsettled
    <2> QED BY <1>2, <2>1 DEF Unsettled, Memory, Pending
  <1> QED BY <1>1, <1>2

\* One operation at most is unsettled, none while the application runs.
LEMMA OneUnsettled ==
  ASSUME IInv, DInv
  PROVE  /\ Settled \/ \E o \in Ops : Unsettled(o)
         /\ Busy /\ ~(pc \in JournalWrite /\ phase = 0) => Settled \/ Unsettled(op)
         /\ pc = "serving" \/ (pc \in JournalWrite /\ phase = 0) => Settled
  <1>1. Swapping \subseteq Readable
    BY DEF Swapping
  <1>2. \A x, y \in Readable : x.op = y.op
    BY ReadableEntries DEF IInv, DInv, SlotsAgree
  <1>3. Settled \/ \E o \in Ops : Unsettled(o)
    BY <1>1, <1>2, ReadableEntries DEF Settled, Unsettled, IInv
  <1>4. Busy /\ ~(pc \in JournalWrite /\ phase = 0) => Settled \/ Unsettled(op)
    BY <1>1 DEF DInv, SlotsAgree, Settled, Unsettled
  <1>5. pc = "serving" \/ (pc \in JournalWrite /\ phase = 0) => Settled
    BY ReadableEntries DEF IInv, DInv, SlotsAgree, NothingMoved, Emptied, Swapping, Settled
  <1> QED BY <1>3, <1>4, <1>5

\* A step of AtomicRestore, or none.
Abstract ==
  \/ UNCHANGED <<Memory, Pending, pc = "serving">>
  \/ Restore!Next

\* Steps that leave the pair, the journal and the memory of before.
LEMMA StillSteps ==
  ASSUME IInv, DInv, UNCHANGED <<activeDb, activeAtts, journal, next>>,
         \A e \in Readable :
            /\ before'[e.op] = before[e.op]
            /\ rollback'[e.op].db = rollback[e.op].db
            /\ rollback'[e.op].atts = rollback[e.op].atts
  PROVE  /\ Memory' = Memory /\ Pending' = Pending
         /\ Settled' <=> Settled
         /\ \A o : Unsettled(o)' <=> Unsettled(o)
  <1>1. Readable' = Readable
    BY DEF Readable
  <1>2. Swapping' = Swapping
    BY <1>1 DEF Swapping
  <1>3. (Settled' <=> Settled) /\ \A o : Unsettled(o)' <=> Unsettled(o)
    BY <1>2 DEF Settled, Unsettled
  <1>4. ActivePair' = ActivePair
    BY DEF ActivePair
  <1>5. CASE Settled
    BY <1>3, <1>4, <1>5, MappedState, MappedNext
  <1>6. ASSUME NEW o \in Ops, Unsettled(o)
        PROVE  Memory' = Memory /\ Pending' = Pending
    <2>1. \E e \in Readable : e.op = o
      BY <1>6 DEF Unsettled, Swapping
    <2>2. before'[o] = before[o]
      BY <2>1
    <2> QED BY <1>3, <1>6, <2>2, MappedState, MappedNext
  <1> QED BY <1>3, <1>5, <1>6, OneUnsettled

\* The steps of AtomicRestore, told of the mapped state.
LEMMA AbstractSteps ==
  /\ UNCHANGED <<Memory, Pending>> => Abstract \/ ((pc = "serving")' # (pc = "serving"))
  /\ UNCHANGED <<Memory, Pending>> /\ (Settled \/ pc' # "serving") => Abstract
  /\ \A o \in Ops :
       Settled /\ Unsettled(o)' /\ ActivePair = before'[o] /\ pc # "serving"
         /\ pc' # "serving" => Abstract
  /\ \A o \in Ops :
       Unsettled(o) /\ Settled' /\ ActivePair' \in {before[o], NewPair(o)} => Abstract
  <1> USE DEF Abstract
  <1>1. UNCHANGED <<Memory, Pending>> => Abstract \/ ((pc = "serving")' # (pc = "serving"))
    OBVIOUS
  <1>2. ASSUME UNCHANGED <<Memory, Pending>>, Settled \/ pc' # "serving"
        PROVE  Abstract
    <2>1. CASE pc = "serving" /\ pc' # "serving"
      <3>1. Restore!Stop
        BY <1>2, <2>1 DEF Restore!Stop, Memory, Pending
      <3> QED BY <3>1 DEF Restore!Next
    <2>2. CASE pc # "serving" /\ pc' = "serving"
      <3>1. Pending = {}
        BY <1>2, <2>2, MappedState
      <3>2. Restore!Start
        BY <1>2, <2>2, <3>1 DEF Restore!Start, Memory, Pending
      <3> QED BY <3>2 DEF Restore!Next
    <2> QED BY <1>2, <2>1, <2>2
  <1>3. ASSUME NEW o \in Ops, Settled, Unsettled(o)', ActivePair = before'[o], pc # "serving",
               pc' # "serving"
        PROVE  Abstract
    <2>1. Pending = {} /\ Pending' = {o} /\ Memory' = Memory
      BY <1>3, MappedState, MappedNext
    <2>2. Restore!Commit(o)
      BY <1>3, <2>1 DEF Restore!Commit, Memory, Pending
    <2> QED BY <2>2 DEF Restore!Next
  <1>4. ASSUME NEW o \in Ops, Unsettled(o), Settled', ActivePair' \in {before[o], NewPair(o)}
        PROVE  Abstract
    <2>1. Pending = {o} /\ Pending' = {} /\ Memory' \in {Memory, NewPair(o)}
      BY <1>4, MappedState, MappedNext
    <2>2. [x \in Ops |-> NewPair(x)][o] = NewPair(o)
      OBVIOUS
    <2>3. Restore!Settle(o)
      BY <2>1, <2>2 DEF Restore!Settle, Memory, Pending
    <2> QED BY <2>3 DEF Restore!Next
  <1> QED BY <1>1, <1>2, <1>3, <1>4

\* While a half of the old pair is away, every readable entry is unsettled.
LEMMA AwayIsUnsettled ==
  ASSUME IInv, DInv, ~Emptied(op), Busy, ~(pc \in JournalWrite /\ phase = 0)
  PROVE  Unsettled(op)
  <1>1. \A e \in Readable : e.op = op
    BY DEF DInv, SlotsAgree
  <1>2. op \in Ops /\ JournalCoversSwap
    BY DEF IInv, TypeOK
  <1>3. Readable # {}
    BY <1>2 DEF Emptied, JournalCoversSwap
  <1>4. Swapping = Readable
    BY <1>1 DEF Swapping, Emptied
  <1> QED BY <1>1, <1>3, <1>4 DEF Unsettled

LEMMA StepIsAbstract ==
  ASSUME IInv, DInv, IInv', DInv', FaultSites \subseteq ForwardSites, OnlyWholePairs,
         [Next]_vars
  PROVE  Abstract
  <1> USE DEF Goto
  <1> USE DEF JournalWrite, Swap, Settle, PutBack, Idle, Prepared,
          OldStateMoved, NewStateActivated, Validated
  <1>0. /\ TypeOK /\ ActiveAt /\ SlotsAgree /\ OneOperation /\ DiskSafe /\ NothingMoved
        /\ JournalInStep /\ Readable = {journal, next} \cap Entries
        /\ NoFile \notin Entries /\ Torn \notin Entries
        /\ Busy => BeforeWhole(op) /\ op \in Ops
    BY ReadableEntries, DistinctCopies DEF IInv, DInv, BeforeKnown, TypeOK
  <1>a. TypeOK' /\ Readable' = {journal', next'} \cap Entries
    BY DistinctCopies DEF IInv, TypeOK, Readable, Slots
  <1>1. ASSUME UNCHANGED <<activeDb, activeAtts, journal, next>>,
               pc = "serving" \/ pc' # "serving" \/ Settled,
               \A e \in Readable :
                  /\ before'[e.op] = before[e.op]
                  /\ rollback'[e.op].db = rollback[e.op].db
                  /\ rollback'[e.op].atts = rollback[e.op].atts
        PROVE  Abstract
    <2>1. UNCHANGED <<Memory, Pending>>
      BY <1>1, StillSteps
    <2>2. pc = "serving" => Settled
      BY OneUnsettled
    <2> QED BY <1>1, <2>1, <2>2, AbstractSteps
  <1>2. ASSUME Unsettled(op), Unsettled(op)', UNCHANGED <<op, before>>, pc' # "serving"
        PROVE  Abstract
    <2>1. UNCHANGED <<Memory, Pending>>
      BY <1>2, MappedState, MappedNext
    <2> QED BY <1>2, <2>1, AbstractSteps
  <1>3. ASSUME Busy, UNCHANGED <<activeDb, activeAtts>>, Settled, Settled'
        PROVE  Abstract
    <2>1. UNCHANGED <<Memory, Pending>>
      BY <1>3, MappedState, MappedNext DEF ActivePair
    <2> QED BY <1>3, <2>1, AbstractSteps
  <1>4. CASE \E o \in Ops : StartRestore(o) \/ RefuseRestore(o)
    <2>1. activeDb # NoFile /\ activeAtts # NoFile
      BY <1>4, ServesWhole DEF StartRestore, RefuseRestore
    <2>2. ASSUME NEW o \in Ops, StartRestore(o) \/ RefuseRestore(o)
          PROVE  /\ UNCHANGED <<activeDb, activeAtts, journal, next, rollback>>
                 /\ pc = "serving"
                 /\ \A e \in Readable : before'[e.op] = before[e.op]
      BY <1>0, <2>1, <2>2, ReadableEntries
         DEF StartRestore, RefuseRestore, slots, OneOperation, TypeOK
    <2> QED BY <1>1, <1>4, <2>2
  <1>5. CASE OpenMissingDatabase
    BY <1>5, ServesWhole DEF OpenMissingDatabase
  <1>6. CASE Restart \/ Close \/ Crash \/ UNCHANGED vars
    BY <1>1, <1>6 DEF Restart, Close, Crash, vars, process, disk, slots, history
  <1>7. CASE Fault
    <2>1. pc' = "serving" => pc \in JournalWrite /\ phase = 0
      BY <1>7, FaultIsForward
    <2>2. pc' # "serving" \/ Settled
      BY <2>1, OneUnsettled
    <2> QED BY <1>1, <1>7, <2>2, FaultIsForward
  <1>8. CASE DropNext \/ TearNext \/ FillNext \/ DropJournal \/ RenameNext
    <2>1. Busy /\ pc' # "serving" /\ UNCHANGED <<activeDb, activeAtts, rollback, before, op>>
      BY <1>8 DEF DropNext, TearNext, FillNext, DropJournal, RenameNext, disk, history, Busy
    <2>2. CASE phase = 0
      <3>1. Settled /\ Emptied(op)'
        BY <1>8, <2>1, <2>2, OneUnsettled DEF DropNext, TearNext, FillNext, DropJournal,
           RenameNext, NothingMoved, IInv, Emptied, TypeOK
      <3>2. CASE pc' \in JournalWrite
        <4>1. phase' = 0
          BY <1>8, <2>2, <3>2 DEF DropNext, TearNext, FillNext, DropJournal, RenameNext
        <4>2. Settled'
          <5>1. \A e \in Readable' : e.phase = Prepared /\ Emptied(e.op)'
            BY <1>a, <3>2, <4>1 DEF DInv, SlotsAgree, IInv, NothingMoved, Entries
          <5> QED BY <5>1 DEF Settled, Swapping, Emptied
        <4> QED BY <1>3, <2>1, <3>1, <4>2
      <3>3. CASE RenameNext
        <4>1. \A e \in Readable' : e.op = op /\ e.phase = Prepared
          BY <1>0, <1>a, <2>2, <3>3 DEF RenameNext, JournalInStep, NextEntry
        <4>2. Settled'
          BY <2>1, <3>1, <4>1 DEF Settled, Swapping, Emptied
        <4> QED BY <1>3, <2>1, <3>1, <4>2
      <3> QED BY <1>8, <3>2, <3>3 DEF DropNext, TearNext, FillNext, DropJournal
    <2>3. CASE phase # 0
      <3>1. ~Emptied(op)
        <4>1. before[op].db # NoFile
          BY <1>0, <2>1, BeforeDiffers
        <4> QED BY <1>0, <1>8, <2>3, <4>1
                DEF DropNext, TearNext, FillNext, DropJournal, RenameNext, ActiveAt, Emptied,
                    TypeOK
      <3>2. Unsettled(op)
        BY <2>1, <2>3, <3>1, AwayIsUnsettled
      <3>3. ~Emptied(op)' /\ Busy' /\ phase' # 0
        BY <1>8, <2>1, <2>3, <3>1 DEF DropNext, TearNext, FillNext, DropJournal, RenameNext,
           Emptied, Busy, TypeOK, IInv
      <3>4. Unsettled(op)'
        <4>1. \A e \in Readable' : e.op = op'
          BY <3>3 DEF DInv, SlotsAgree
        <4>2. Swapping' = Readable' /\ Readable' # {}
          BY <2>1, <3>3, <4>1 DEF Swapping, Emptied, IInv, JournalCoversSwap, TypeOK
        <4> QED BY <2>1, <4>1, <4>2 DEF Unsettled
      <3> QED BY <1>2, <2>1, <3>2, <3>4
    <2> QED BY <2>2, <2>3
  <1>9. ASSUME Busy, Busy', pc \notin JournalWrite \/ phase # 0,
               pc' \notin JournalWrite \/ phase' # 0,
               ~Emptied(op), ~Emptied(op)', UNCHANGED <<op, before>>
        PROVE  Abstract
    <2>1. Unsettled(op)
      BY <1>9, AwayIsUnsettled
    <2>2. \A e \in Readable' : e.op = op'
      BY <1>9 DEF DInv, SlotsAgree
    <2>3. Swapping' = Readable' /\ Readable' # {}
      BY <1>9, <2>2 DEF Swapping, Emptied, IInv, JournalCoversSwap, TypeOK
    <2>4. Unsettled(op)'
      BY <1>9, <2>2, <2>3 DEF Unsettled
    <2> QED BY <1>2, <1>9, <2>1, <2>4 DEF Busy
  <1>10. CASE MoveOldDb
    <2>1. /\ Busy /\ BeforeWhole(op) /\ ActivePair = before[op] /\ Emptied(op)
          /\ journal = [op |-> op, phase |-> Prepared] /\ next = NoFile
      BY <1>0, <1>10 DEF MoveOldDb, ActiveAt, Busy, JournalInStep, SlotsAgree, IInv,
         PhaseByPlace
    <2>2. Settled
      BY <1>0, <2>1 DEF Settled, Swapping, Emptied
    <2>3. /\ activeDb # NoFile /\ activeAtts # NoFile
          /\ UNCHANGED <<journal, next, op, before>> /\ pc' = "move_old_atts"
          /\ rollback'[op].db = activeDb
      BY <1>10, <1>0, ForwardGoesOn DEF MoveOldDb, slots, history, TypeOK, Areas
    <2>4. Unsettled(op)'
      <3>1. Readable' = {journal}
        BY <1>0, <1>a, <2>1, <2>3 DEF Entries
      <3> QED BY <2>1, <2>3, <3>1 DEF Unsettled, Swapping
    <2> QED BY <1>0, <1>10, <2>1, <2>2, <2>3, <2>4, AbstractSteps DEF MoveOldDb
  <1>11. CASE MoveOldAtts \/ MoveNewDb \/ MoveNewAtts
    <2>1. Busy /\ BeforeWhole(op) /\ op \in Ops /\ before[op].db # NoFile
      BY <1>0, <1>11, BeforeDiffers DEF MoveOldAtts, MoveNewDb, MoveNewAtts, Busy
    <2>2. rollback[op].db = before[op].db /\ phase \in {Prepared, OldStateMoved}
      BY <1>0, <1>11 DEF MoveOldAtts, MoveNewDb, MoveNewAtts, ActiveAt, IInv, PhaseByPlace
    <2>3. /\ UNCHANGED <<op, before, phase>> /\ Busy' /\ rollback'[op].db = rollback[op].db
      BY <1>0, <1>11 DEF MoveOldAtts, MoveNewDb, MoveNewAtts, history, Busy, TypeOK, Areas
    <2> QED BY <1>9, <2>1, <2>2, <2>3 DEF Emptied
  <1>12. CASE SmokeCheck \/ Notify \/ CompleteValidated \/ ValidateOld \/ ValidateNew
                \/ CheckRollback \/ DropStaged
    <2>1. UNCHANGED <<activeDb, activeAtts, rollback, slots, history>> /\ pc' # "serving"
      BY <1>12, ForwardGoesOn, UndoSucceeds
         DEF SmokeCheck, Notify, CompleteValidated, ValidateOld, ValidateNew, CheckRollback,
             DropStaged, Throw, disk, slots, history, IInv, PhaseByPlace
    <2> QED BY <1>1, <2>1 DEF slots, history
  <1>13. ASSUME pc \in PutBack, UNCHANGED <<journal, next, before, op>>
         PROVE  /\ Busy /\ BeforeWhole(op) /\ op \in Ops
                /\ before[op].db # NoFile /\ before[op].atts # NoFile
                /\ before[op] = [db |-> before[op].db, atts |-> before[op].atts]
                /\ pc \notin JournalWrite
    BY <1>0, <1>13, BeforeDiffers DEF Busy, ActiveAt, TypeOK, Pairs
  <1>14. CASE OldDb \/ OldAtts
    <2>1. /\ pc \in PutBack /\ UNCHANGED <<journal, next, before, op>>
          /\ rollback'[op].db = rollback[op].db /\ rollback'[op].atts = rollback[op].atts
          /\ pc' # "serving"
      BY <1>0, <1>14, ThrowGoes, UndoSucceeds DEF OldDb, OldAtts, Throw, disk, slots, history,
         TypeOK, Areas, IInv, PhaseByPlace
    <2>2. CASE UNCHANGED <<activeDb, activeAtts>>
      <3>1. \A o \in Ops : o # op => rollback'[o] = rollback[o]
        BY <1>0, <1>14, ThrowGoes DEF OldDb, OldAtts, disk, TypeOK
      <3> QED BY <1>1, <2>1, <2>2, <3>1, ReadableEntries DEF IInv
    <2>3. CASE ~UNCHANGED <<activeDb, activeAtts>>
      <3>1. ~Emptied(op) /\ Busy'
        BY <1>14, <2>3, ThrowGoes DEF OldDb, OldAtts, disk, Emptied, Busy, IInv
      <3>2. pc' \notin JournalWrite
        BY <1>14, ThrowGoes DEF OldDb, OldAtts, IInv
      <3> QED BY <1>9, <1>13, <2>1, <3>1, <3>2 DEF Emptied
    <2> QED BY <2>2, <2>3
  <1>15. CASE OldDbRename \/ OldAttsRename
    <2>1. /\ pc \in PutBack /\ UNCHANGED <<journal, next, before, op, phase>> /\ Busy'
          /\ pc' \in {"old_atts", "validate_old"}
      BY <1>0, <1>15 DEF OldDbRename, OldAttsRename, slots, history, Busy
    <2>2. ~Emptied(op)
      BY <1>0, <1>13, <1>15, <2>1, DistinctCopies
         DEF OldDbRename, OldAttsRename, ActiveAt, OldPair, HalfTorn, OldDbHalf, OldAttsHalf,
             TornAtts, Emptied
    <2>3. Unsettled(op)
      BY <1>13, <2>1, <2>2, AwayIsUnsettled
    <2>4. CASE ~Emptied(op)'
      BY <1>9, <1>13, <2>1, <2>2, <2>4
    <2>5. CASE Emptied(op)'
      <3>1. CASE Settled'
        <4>1. Top' \subseteq Readable'
          BY <1>a DEF Top
        <4>2. ~BootUndoes'
          BY <3>1, <4>1 DEF DInv, SlotsAgree, BootUndoes, Settled, Swapping
        <4>3. OldPair(op)'
          BY <2>1, <4>2 DEF DInv, ActiveAt
        <4>4. activeDb' = before[op].db /\ activeAtts' = before[op].atts
          BY <1>13, <2>1, <2>5, <4>3 DEF OldPair, OldDbHalf, OldAttsHalf, Emptied
        <4>5. ActivePair' = before[op]
          BY <1>13, <2>1, <4>4 DEF ActivePair
        <4> QED BY <1>13, <2>1, <2>3, <3>1, <4>5, AbstractSteps
      <3>2. CASE ~Settled'
        <4>1. \A e \in Readable' : e.op = op
          BY <2>1 DEF DInv, SlotsAgree
        <4>2. Unsettled(op)'
          BY <2>1, <3>2, <4>1 DEF Unsettled, Settled, Swapping
        <4> QED BY <1>2, <2>1, <2>3, <4>2
      <3> QED BY <3>1, <3>2
    <2> QED BY <2>4, <2>5
  <1>16. CASE DropRollback
    <2>1. \/ Emptied(op)
          \/ \A e \in Top : e.phase >= NewStateActivated
      BY <1>0, <1>16 DEF DropRollback, ActiveAt
    <2>2. /\ UNCHANGED <<activeDb, activeAtts, journal, next, before, op>> /\ Busy
          /\ pc \notin JournalWrite /\ pc' \in {"drop_rollback", "clear_journal"}
          /\ \A o \in Ops \ {op} : rollback'[o] = rollback[o]
      BY <1>0, <1>16 DEF DropRollback, process, slots, history, Busy, TypeOK
    <2>3. CASE Emptied(op)
      <3>1. rollback'[op].db = NoFile /\ rollback'[op].atts = NoFile
        BY <1>0, <1>16, <2>3 DEF DropRollback, process, Emptied, TypeOK, Areas
      <3> QED BY <1>1, <2>2, <2>3, <3>1, ReadableEntries DEF Emptied, IInv
    <2>4. CASE \A e \in Top : e.phase >= NewStateActivated
      <3>1. Readable' = Readable /\ Top \subseteq Readable /\ (Top = {} <=> Readable = {})
        BY <2>2, ReadableEntries DEF IInv, Readable
      <3>2. Top \subseteq Swapping /\ Top \subseteq Swapping'
        BY <2>4, <3>1 DEF Swapping
      <3>3. \A e \in Readable : e.op = op
        BY <1>0, <2>2 DEF SlotsAgree
      <3>4. CASE Top = {}
        BY <1>3, <2>2, <3>1, <3>4 DEF Settled, Swapping
      <3>5. CASE Top # {}
        BY <1>2, <2>2, <3>1, <3>2, <3>3, <3>5 DEF Unsettled, Swapping
      <3> QED BY <3>4, <3>5
    <2> QED BY <2>1, <2>3, <2>4
  <1>17. CASE ClearJournal \/ ClearNext
    <2>1. /\ Busy /\ pc \notin JournalWrite
          /\ UNCHANGED <<activeDb, activeAtts, rollback, before, op>>
          /\ ActivePair = before[op] \/ NewActive(op)
      BY <1>0, <1>17 DEF ClearJournal, ClearNext, disk, history, Busy, ActiveAt
    <2>2. ActivePair' \in {before[op], NewPair(op)}
      BY <2>1 DEF ActivePair, NewActive, NewPair
    <2>3. Readable' \subseteq Readable /\ (pc' = "serving" => Readable' = {})
      BY <1>0, <1>a, <1>17 DEF ClearJournal, ClearNext, SlotsAgree
    <2>4. Swapping' \subseteq Swapping
      BY <2>1, <2>3 DEF Swapping
    <2>5. Settled \/ Unsettled(op)
      BY <2>1, OneUnsettled
    <2>6. CASE Settled
      <3>1. Settled'
        BY <2>4, <2>6 DEF Settled
      <3> QED BY <1>3, <2>1, <2>6, <3>1
    <2>7. CASE Unsettled(op) /\ Settled'
      BY <1>0, <2>1, <2>2, <2>7, AbstractSteps
    <2>8. CASE Unsettled(op) /\ ~Settled'
      <3>1. Unsettled(op)' /\ pc' # "serving"
        BY <2>1, <2>3, <2>4, <2>8 DEF Unsettled, Settled, Swapping
      <3> QED BY <1>2, <2>1, <2>8, <3>1
    <2> QED BY <2>5, <2>6, <2>7, <2>8
  <1>18. CASE BootRead
    <2>1. UNCHANGED <<slots, history, rollback>>
      BY <1>18 DEF BootRead
    <2>2. CASE SlotFiles = {}
      <3>1. Top = {} /\ Readable = {}
        BY <1>0, <2>2 DEF SlotFiles, Top
      <3>2. activeDb # NoFile /\ activeAtts # NoFile
        BY <1>0, <3>1, DistinctCopies DEF DiskSafe, WholeActive, Gens, TypeOK
      <3>3. UNCHANGED <<activeDb, activeAtts>> /\ Settled
        BY <1>18, <2>2, <3>1, <3>2 DEF BootRead, Settled, Swapping, Readable, SlotFiles
      <3> QED BY <1>1, <2>1, <3>3 DEF slots, history
    <2>3. CASE SlotFiles # {}
      BY <1>1, <1>18, <2>1, <2>3 DEF BootRead, slots, history
    <2> QED BY <2>2, <2>3
  <1> QED
    BY <1>4, <1>5, <1>6, <1>7, <1>8, <1>10, <1>11, <1>12, <1>14, <1>15, <1>16, <1>17, <1>18
    DEF Next, Step

\* The swap with its journal and its recovery does what AtomicRestore
\* promises: for any restores and deaths at any call, the engineer has the old
\* memory or the new one, and the application is open on a settled one only.
THEOREM RestoreIsAtomic ==
  ASSUME FaultSites \subseteq ForwardSites, OnlyWholePairs
  PROVE  Spec => SwapIsAtomic
  <1>1. Init => Restore!Init
    <2> SUFFICES ASSUME Init PROVE Restore!Init
      OBVIOUS
    <2>1. Readable = {} /\ ActivePair = NewPair(Original) /\ pc = "serving"
      BY DEF Init, Readable, ActivePair, NewPair
    <2>2. Swapping = {}
      BY <2>1 DEF Swapping
    <2> QED BY <2>1, <2>2 DEF Restore!Init
  <1>2. (IInv /\ DInv) /\ (IInv /\ DInv)' /\ [Next]_vars => [Restore!Next]_(Restore!avars)
    <2>1. Abstract => [Restore!Next]_(Restore!avars)
      BY DEF Abstract, Restore!avars, Memory, Pending
    <2> QED BY <2>1, StepIsAbstract
  <1> QED BY <1>1, <1>2, DiskInvariant, PTL DEF Spec, SwapIsAtomic, Restore!Spec

-----------------------------------------------------------------------------
(***************************************************************************)
(* What is left when the undoing fails as well.  The application goes on   *)
(* with the pair moved and its entry in the journal, it may make an empty  *)
(* half, be asked for a further restore, or die; neither IInv nor DInv     *)
(* holds.  While an entry can be read, its old or its new generation is    *)
(* there all the same, and this wherever exceptions fall in the swap and   *)
(* in the catch block.  Exceptions of cleanup and of boot break it: what   *)
(* cleanup began to delete may then be put back.                           *)
(***************************************************************************)

CatchSites == {"first_journal", "swap", "undo"}

FirstWrite == pc \in JournalWrite /\ phase = 0

BeforePair(o) == \E g \in Gens \union {Blank} : before[o] = NewPair(g)

\* Each half of the old pair is in the rollback area or, once it is not, in
\* its place, whatever may be in its way meanwhile.
OldThere(o) ==
  /\ \/ rollback[o].db = before[o].db
     \/ rollback[o].db = NoFile /\ activeDb = before[o].db
  /\ \/ rollback[o].atts = before[o].atts
     \/ rollback[o].atts = NoFile /\ activeAtts = before[o].atts

\* The database is put back first: until then the new attachments stay.
DbGoesFirst(o) == rollback[o].db # NoFile => activeAtts = o

Kept(e) == OldThere(e.op) /\ (e.phase >= NewStateActivated => DbGoesFirst(e.op))

\* One of the two pairs is active: cleanup deletes what is left of the other.
Chosen(o) == NewActive(o) \/ ActivePair = before[o]

Activated == \E e \in Readable : e.phase >= NewStateActivated

\* Whose entries the journal holds.
Journals ==
  /\ \A e \in Readable : e.op \in started /\ BeforePair(e.op)
  /\ Busy => op \in started /\ BeforePair(op)
  /\ Busy /\ ~FirstWrite => \A e \in Readable : e.op = op
  /\ FirstWrite /\ journal \in Entries => journal.op # op
  /\ FirstWrite /\ next \in Entries /\ pc \in {"drop_next", "tear_next", "fill_next"}
       => next.op # op
  /\ journal \in Entries /\ next \in Entries /\ journal.op = next.op
       => next.phase = journal.phase + 1
  /\ pc \in Swap \union {"complete", "tear_next"} => next = NoFile
  /\ pc = "fill_next" => next = Torn
  /\ pc \in {"rename_next", "clear_next"} => journal = NoFile
  /\ pc = "validate_new" => Activated
  /\ \A o \in Ops \ started : rollback[o] = NoArea

\* Where the halves are at each call.
Halves ==
  /\ (pc \in JournalWrite /\ phase \in {0, 1})
        \/ pc \in {"move_old_db", "move_old_atts", "move_new_db"}
       => staged[op] = NewPair(op)
  /\ pc = "move_new_atts" => staged[op].atts = op
  /\ FirstWrite \/ pc = "move_old_db" => ActivePair = before[op] /\ Emptied(op)
  /\ pc = "move_old_atts"
       => /\ activeDb = NoFile /\ rollback[op].db = before[op].db
          /\ activeAtts = before[op].atts /\ rollback[op].atts = NoFile
  /\ (pc \in JournalWrite /\ phase = Prepared) \/ pc = "move_new_db"
       => /\ activeDb = NoFile /\ activeAtts = NoFile
          /\ rollback[op].db = before[op].db /\ rollback[op].atts = before[op].atts
  /\ pc = "move_new_atts"
       => /\ activeDb = op /\ activeAtts = NoFile
          /\ rollback[op].db = before[op].db /\ rollback[op].atts = before[op].atts
  /\ (pc \in JournalWrite /\ phase >= OldStateMoved) \/ pc \in {"smoke", "notify", "complete"}
       => /\ NewActive(op)
          /\ rollback[op].db = before[op].db /\ rollback[op].atts = before[op].atts
  /\ pc \in PutBack => OldThere(op) /\ \A e \in Readable : Kept(e)
  /\ pc = "old_db_rename" => rollback[op].db = before[op].db /\ activeDb = NoFile
  /\ pc \in {"old_atts", "old_atts_rename", "validate_old"} => rollback[op].db = NoFile
  /\ pc = "old_atts_rename" => rollback[op].atts = before[op].atts /\ activeAtts = NoFile
  /\ pc = "validate_old" => rollback[op].atts = NoFile
  /\ pc \in Settle \ {"complete"} =>
       \/ ActivePair = before[op] /\ Emptied(op)
       \/ Chosen(op) /\ mode # "undo" /\ (Readable # {} => Activated)

\* Behind every entry the old pair is kept; or, once cleanup has begun, one of
\* the two is active and the entry names a phase in which recovery finds it so.
Survives ==
  \A e \in Readable :
    \/ Kept(e)
    \/ /\ pc # "serving" /\ ~FirstWrite
       /\ Chosen(e.op) /\ Activated /\ \A x \in Readable : x.op = e.op

KInv == TypeOK /\ PhaseByPlace /\ JournalInStep /\ Journals /\ Halves /\ Survives

-----------------------------------------------------------------------------

LEMMA PairThere ==
  ASSUME TypeOK, NEW o \in Ops, BeforePair(o)
  PROVE  /\ before[o].db # NoFile /\ before[o].atts # NoFile /\ o # NoFile
         /\ before[o].db # Torn /\ before[o].atts # Torn
         /\ before[o].db = before[o].atts /\ before[o].db \in Gens \union {Blank}
         /\ before[o] = [db |-> before[o].db, atts |-> before[o].atts]
  BY DistinctCopies DEF BeforePair, NewPair, Gens, TypeOK

\* What validates behind an entry past the activation is one of the two pairs,
\* and these do.
LEMMA ValidIsChosen ==
  ASSUME OnlyWholePairs, TypeOK, NEW o \in Ops, BeforePair(o)
  PROVE  /\ Chosen(o) => ActiveValid
         /\ ActiveValid /\ OldThere(o) /\ DbGoesFirst(o) => Chosen(o)
  <1>1. ActiveValid <=> activeDb = activeAtts /\ activeDb \in Gens \union {Blank}
    BY DEF ActiveValid, OnlyWholePairs
  <1>2. Chosen(o) => ActiveValid
    BY <1>1, PairThere DEF Chosen, NewActive, ActivePair, Gens
  <1>3. ASSUME ActiveValid, OldThere(o), DbGoesFirst(o)
        PROVE  Chosen(o)
    <2>1. CASE rollback[o].db # NoFile
      BY <1>1, <1>3, <2>1 DEF DbGoesFirst, Chosen, NewActive
    <2>2. CASE rollback[o].db = NoFile
      BY <1>1, <1>3, <2>2, PairThere DEF OldThere, Chosen, ActivePair
    <2> QED BY <2>1, <2>2
  <1> QED BY <1>2, <1>3

\* The phases of the entries of a swap that goes on.
LEMMA EntriesInStep ==
  ASSUME TypeOK, PhaseByPlace, JournalInStep, Journals,
         pc \in JournalWrite \union Swap \union {"complete"}, ~FirstWrite
  PROVE  \A e \in Readable : e.op = op /\ e.phase <= phase + 1
                             /\ (pc \notin JournalWrite => e.phase <= phase)
  <1>1. Readable = {journal, next} \cap Entries /\ phase # 0 /\ phase \in 1..4
    BY ReadableEntries DEF TypeOK, FirstWrite, PhaseByPlace, Prepared, OldStateMoved,
       NewStateActivated, Validated, Swap
  <1>2. \A e \in Readable : e.op = op /\ e.phase \in 1..4
    BY ReadableEntries DEF Journals, Busy, Idle, JournalWrite, Swap
  <1>3. CASE pc \in {"drop_journal", "rename_next"}
    <2>1. next = [op |-> op, phase |-> phase + 1] /\ next \in Entries
      BY <1>1, <1>3 DEF JournalInStep, NextEntry, PhaseByPlace, JournalWrite, Entries, TypeOK,
         NewStateActivated
    <2>2. journal \in Entries => journal.phase = phase
      BY <1>1, <1>2, <2>1 DEF Journals
    <2> QED BY <1>1, <1>2, <1>3, <2>1, <2>2 DEF JournalWrite
  <1>4. CASE pc \in {"drop_next", "tear_next", "fill_next"}
    <2>1. journal = [op |-> op, phase |-> phase] /\ journal \in Entries
      BY <1>1, <1>4 DEF JournalInStep, Entries, TypeOK
    <2>2. next \in Entries => next.phase = phase + 1
      BY <1>1, <1>2, <2>1 DEF Journals
    <2> QED BY <1>1, <1>2, <1>4, <2>1, <2>2 DEF JournalWrite
  <1>5. CASE pc \in Swap \union {"complete"}
    BY <1>1, <1>2, <1>5, DistinctCopies DEF JournalInStep, Journals, Entries
  <1> QED BY <1>3, <1>4, <1>5 DEF JournalWrite

\* In the swap and in the catch block nothing but what is kept is behind the
\* entries.
LEMMA SwapKeeps ==
  ASSUME TypeOK, PhaseByPlace, JournalInStep, Journals, Halves,
         pc \in JournalWrite \union Swap \union {"complete"}, ~FirstWrite
  PROVE  OldThere(op) /\ \A e \in Readable : Kept(e)
  <1>1. BeforePair(op) /\ op \in Ops
    BY DEF Journals, TypeOK, Busy, Idle, JournalWrite, Swap
  <1>2. phase \in 1..4
    BY DEF TypeOK, FirstWrite, PhaseByPlace, Prepared, OldStateMoved, NewStateActivated,
       Validated, Swap
  <1>3. OldThere(op)
    BY <1>1, <1>2, PairThere DEF Halves, OldThere, ActivePair, Emptied, Swap, Prepared,
       OldStateMoved
  <1>4. (pc \in JournalWrite /\ phase >= OldStateMoved)
           \/ pc \in {"smoke", "notify", "complete"}
          => activeAtts = op
    BY DEF Halves, NewActive
  <1>5. \A e \in Readable : e.phase >= NewStateActivated => activeAtts = op
    BY <1>2, <1>4, EntriesInStep, ReadableEntries
       DEF PhaseByPlace, Prepared, OldStateMoved, NewStateActivated, Validated, Swap
  <1> QED BY <1>3, <1>5, EntriesInStep DEF Kept, DbGoesFirst

\* Where the process is at work, its place says enough.
LEMMA PlaceSurvives ==
  TypeOK /\ PhaseByPlace /\ JournalInStep /\ Journals /\ Halves
    /\ Busy /\ ~FirstWrite /\ pc # "validate_new"
  => Survives
  <1> SUFFICES ASSUME TypeOK, PhaseByPlace, JournalInStep, Journals, Halves,
                      Busy, ~FirstWrite, pc # "validate_new"
               PROVE  Survives
    OBVIOUS
  <1>1. BeforePair(op) /\ op \in Ops /\ \A e \in Readable : e.op = op
    BY DEF Journals, TypeOK
  <1>2. CASE pc \in JournalWrite \union Swap \union {"complete"}
    BY <1>2, SwapKeeps DEF Survives
  <1>3. CASE pc \in PutBack
    BY <1>3 DEF Survives, Halves
  <1>4. CASE pc \in Settle \ {"complete"}
    <2>1. CASE ActivePair = before[op] /\ Emptied(op)
      BY <1>1, <2>1, PairThere DEF Survives, Kept, OldThere, DbGoesFirst, ActivePair, Emptied
    <2>2. CASE Chosen(op) /\ (Readable # {} => Activated)
      BY <1>1, <1>4, <2>2 DEF Survives, Settle
    <2> QED BY <1>4, <2>1, <2>2 DEF Halves
  <1> QED BY <1>2, <1>3, <1>4 DEF TypeOK, Pcs, Busy, Idle

\* The checks of the swap never throw by themselves.
LEMMA ForwardNeverThrows ==
  ASSUME OnlyWholePairs, TypeOK, Journals, Halves
  PROVE  /\ pc = "move_old_db" => activeDb # NoFile /\ activeAtts # NoFile
         /\ pc \in {"smoke", "complete"} => ActiveValid
  <1>1. CASE pc = "move_old_db"
    <2>1. BeforePair(op) /\ ActivePair = before[op] /\ op \in Ops
      BY <1>1 DEF Journals, Busy, Idle, Halves, TypeOK
    <2>2. before[op].db # NoFile /\ before[op].atts # NoFile
      BY <2>1, PairThere
    <2>3. ActivePair.db = activeDb /\ ActivePair.atts = activeAtts
      BY DEF ActivePair
    <2> QED BY <1>1, <2>1, <2>2, <2>3
  <1>2. CASE pc \in {"smoke", "complete"}
    BY <1>2, NewIsValid DEF TypeOK, Halves
  <1> QED BY <1>1, <1>2

\* What recovery decides of a pair that was activated.
LEMMA BootDecides ==
  ASSUME OnlyWholePairs, KInv, pc = "validate_new"
  PROVE  /\ ActiveValid => Chosen(op)
         /\ ~ActiveValid => OldThere(op) /\ \A e \in Readable : Kept(e)
  <1>1. /\ Activated /\ BeforePair(op) /\ op \in Ops /\ ~FirstWrite
        /\ \A e \in Readable : e.op = op
    BY DEF KInv, Journals, Busy, Idle, TypeOK, FirstWrite, JournalWrite
  <1>2. \A e \in Readable : Kept(e) \/ Chosen(op)
    BY <1>1 DEF KInv, Survives
  <1>3. Chosen(op) => ActiveValid
    BY <1>1, ValidIsChosen DEF KInv
  <1>4. PICK e \in Readable : e.phase >= NewStateActivated
    BY <1>1 DEF Activated
  <1>5. Kept(e) => OldThere(op) /\ DbGoesFirst(op)
    BY <1>1, <1>4 DEF Kept
  <1>6. ActiveValid => Chosen(op)
    BY <1>1, <1>2, <1>5, ValidIsChosen DEF KInv
  <1> QED BY <1>2, <1>3, <1>4, <1>5, <1>6

\* An exception ends the first write, goes from the swap to the catch block, or
\* ends that.
LEMMA FaultLeads ==
  ASSUME TypeOK, PhaseByPlace, FaultSites \subseteq CatchSites, Fault
  PROVE  /\ UNCHANGED <<activeDb, activeAtts, rollback, journal, next, op,
                        phase, started, before>>
         /\ \/ pc' = "serving" /\ FirstWrite
            \/ /\ pc' = "check_rollback" /\ mode' = "undo"
               /\ pc \in JournalWrite \union Swap /\ ~FirstWrite
            \/ /\ pc' = "serving" /\ mode = "undo"
               /\ pc \in PutBack \union (Settle \ {"complete"})
  <1>1. Throw /\ Busy /\ Site \in {"first_journal", "swap", "undo"}
    BY DEF Fault, CatchSites
  <1>2. \/ mode = "restore" /\ (phase = 0 \/ pc \notin Settle)
        \/ mode = "undo"
    BY <1>1 DEF Site, TypeOK
  <1>3. CASE mode = "restore"
    <2>1. pc \in JournalWrite \union Swap /\ (phase = 0 => pc \in JournalWrite)
      BY <1>1, <1>2, <1>3 DEF TypeOK, PhaseByPlace, Busy, Pcs, JournalWrite, Swap, Settle,
         PutBack, Idle, Prepared, OldStateMoved, NewStateActivated, Validated
    <2> QED BY <1>1, <1>3, <2>1, ThrowGoes DEF Throw, TypeOK, FirstWrite
  <1>4. CASE mode = "undo"
    <2>1. pc \in PutBack \union (Settle \ {"complete"})
      BY <1>1, <1>4 DEF TypeOK, PhaseByPlace, Busy, Pcs
    <2> QED BY <1>1, <1>4, <2>1, ThrowGoes DEF Throw
  <1> QED BY <1>2, <1>3, <1>4

\* In the catch block and in recovery it ends the run.
LEMMA UndoThrows ==
  ASSUME TypeOK, PhaseByPlace, Throw, pc \in PutBack
  PROVE  /\ UNCHANGED <<activeDb, activeAtts, rollback, journal, next, op,
                        phase, started, before>>
         /\ pc' \in {"serving", "blocked"}
  BY ThrowGoes DEF Throw, TypeOK, PhaseByPlace, PutBack

\* The journal holds entries of the operation in hand, once it has its first.
LEMMA StepJournals ==
  ASSUME OnlyWholePairs, FaultSites \subseteq CatchSites, KInv, [Next]_vars
  PROVE  Journals'
  <1> USE DEF KInv, TypeOK, PhaseByPlace, Journals, Goto
  <1> USE DEF JournalWrite, Swap, Settle, PutBack, Idle, Prepared,
          OldStateMoved, NewStateActivated, Validated, Busy, FirstWrite
  <1>0. Readable = {journal, next} \cap Entries
    BY ReadableEntries
  <1>1. ASSUME NEW o \in Ops, StartRestore(o) PROVE Journals'
    <2>1. BeforePair(o)'
      BY <1>1 DEF StartRestore, OnlyWholePairs, BeforePair, NewPair
    <2>2. \A p \in started : BeforePair(p) <=> BeforePair(p)'
      BY <1>1 DEF StartRestore, BeforePair
    <2>3. journal' = journal /\ next' = next /\ Readable' = Readable
      BY <1>1 DEF StartRestore, slots, Readable
    <2>4. pc' = "drop_next" /\ op' = o /\ o \notin started /\ started' = started \cup {o}
          /\ phase' = 0 /\ rollback' = rollback
      BY <1>1 DEF StartRestore
    <2> QED BY <1>0, <2>1, <2>2, <2>3, <2>4
  <1>2. CASE \E o \in Ops : RefuseRestore(o)
    BY <1>2 DEF RefuseRestore, process, slots, Readable, BeforePair
  <1>3. CASE OpenMissingDatabase \/ Restart \/ Close
    BY <1>3 DEF OpenMissingDatabase, Restart, Close, process, slots, disk, history, Readable,
       BeforePair
  <1>4. CASE DropNext \/ TearNext \/ DropJournal
    BY <1>0, <1>4, DistinctCopies
       DEF DropNext, TearNext, DropJournal, disk, history, Readable, BeforePair
  <1>5. CASE FillNext
    BY <1>0, <1>5, DistinctCopies
       DEF FillNext, NextEntry, JournalInStep, disk, history, Readable, BeforePair, Entries
  <1>6. CASE RenameNext
    BY <1>0, <1>6, DistinctCopies
       DEF RenameNext, NextEntry, JournalInStep, disk, history, Readable, BeforePair
  <1>7. CASE MoveOldDb \/ MoveOldAtts \/ MoveNewDb \/ MoveNewAtts
    BY <1>7, ForwardNeverThrows DEF MoveOldDb, MoveOldAtts, MoveNewDb, MoveNewAtts, slots,
       history, Readable, BeforePair
  <1>8. CASE SmokeCheck \/ Notify \/ CompleteValidated
    BY <1>8, ForwardNeverThrows DEF SmokeCheck, Notify, CompleteValidated, disk, slots,
       history, Readable, BeforePair
  <1>9. CASE DropStaged \/ DropRollback
    BY <1>9 DEF DropStaged, DropRollback, process, slots, history, Readable, BeforePair
  <1>10. CASE ClearJournal \/ ClearNext
    BY <1>0, <1>10, DistinctCopies
       DEF ClearJournal, ClearNext, disk, history, Readable, BeforePair
  <1>11. CASE CheckRollback \/ ValidateOld \/ ValidateNew
    BY <1>11, ThrowGoes DEF CheckRollback, ValidateOld, ValidateNew, disk, slots, history,
       Readable, BeforePair
  <1>12. CASE OldDb \/ OldAtts \/ OldDbRename \/ OldAttsRename
    BY <1>12, UndoThrows DEF OldDb, OldAtts, OldDbRename, OldAttsRename, disk, slots, history,
       Readable, BeforePair
  <1>13. CASE BootRead
    <2>1. /\ UNCHANGED <<journal, next, started, before, rollback>>
          /\ Readable' = Readable /\ pc = "down" /\ mode' = "boot"
          /\ \A o \in Ops : BeforePair(o) <=> BeforePair(o)'
      BY <1>13 DEF BootRead, slots, history, Readable, BeforePair
    <2>2. CASE pc' \in {"serving", "blocked"}
      BY <2>1, <2>2
    <2>3. CASE pc' \notin {"serving", "blocked"}
      <3>1. PICK e \in Readable :
              /\ \A other \in Readable : other.op = e.op /\ other.phase <= e.phase
              /\ op' = e.op /\ phase' = e.phase
              /\ pc' = IF e.phase \in {1, 2} THEN "check_rollback" ELSE "validate_new"
        BY <1>13, <2>3 DEF BootRead
      <3>2. pc' = "validate_new" => Activated'
        BY <2>1, <3>1, ReadableEntries DEF Activated
      <3> QED BY <1>0, <2>1, <3>1, <3>2
    <2> QED BY <2>2, <2>3
  <1>14. CASE Fault
    BY <1>14, FaultLeads DEF Readable, BeforePair
  <1>15. CASE Crash
    BY <1>15 DEF Crash, disk, slots, history, Readable, BeforePair
  <1>16. CASE UNCHANGED vars
    BY <1>16 DEF vars, disk, slots, process, history, Readable, BeforePair, Activated
  <1> QED
    BY <1>1, <1>2, <1>3, <1>4, <1>5, <1>6, <1>7, <1>8, <1>9, <1>10, <1>11, <1>12, <1>13,
       <1>14, <1>15, <1>16 DEF Next, Step

\* Where the halves of both pairs are, at the next call.
LEMMA StepHalves ==
  ASSUME OnlyWholePairs, FaultSites \subseteq CatchSites, KInv, [Next]_vars
  PROVE  Halves'
  <1> USE DEF KInv, TypeOK, PhaseByPlace, Goto
  <1> USE DEF JournalWrite, Swap, Settle, PutBack, Idle, Prepared,
          OldStateMoved, NewStateActivated, Validated, Busy, FirstWrite
  <1>0. Readable = {journal, next} \cap Entries /\ op \in Ops
    BY ReadableEntries
  <1>b. Busy => BeforePair(op)
    BY DEF Journals
  <1>1. ASSUME NEW o \in Ops, StartRestore(o) PROVE Halves'
    BY <1>1 DEF StartRestore, Halves, Journals, ActivePair, Emptied, NoArea
  <1>2. CASE \E o \in Ops : RefuseRestore(o)
    BY <1>2 DEF RefuseRestore, process, Halves
  <1>3. CASE OpenMissingDatabase \/ Restart \/ Close
    BY <1>3 DEF OpenMissingDatabase, Restart, Close, process, Halves
  <1>4. CASE DropNext \/ TearNext \/ FillNext \/ DropJournal
    BY <1>4 DEF DropNext, TearNext, FillNext, DropJournal, disk, history, Halves,
       ActivePair, Emptied, NewActive
  <1>5. CASE RenameNext
    BY <1>5 DEF RenameNext, disk, history, Halves, ActivePair, Emptied, NewActive
  <1>6. CASE MoveOldDb \/ MoveOldAtts
    BY <1>0, <1>6, ForwardNeverThrows DEF MoveOldDb, MoveOldAtts, slots, history, Halves,
       ActivePair, Emptied, Areas, Pairs
  <1>7. CASE MoveNewDb \/ MoveNewAtts
    BY <1>0, <1>7 DEF MoveNewDb, MoveNewAtts, slots, history, Halves, NewActive, NewPair, Pairs
  <1>8. CASE SmokeCheck \/ Notify
    BY <1>8, ForwardNeverThrows DEF SmokeCheck, Notify, disk, slots, history, Halves,
       NewActive
  <1>9. CASE CompleteValidated
    <2>1. /\ pc = "complete" /\ pc' = "drop_staged" /\ mode' = "restore" /\ op' = op
          /\ UNCHANGED <<activeDb, activeAtts, rollback, journal, next, before>>
      BY <1>9, ForwardNeverThrows DEF CompleteValidated, disk, slots, history
    <2>2. NewActive(op) /\ journal = [op |-> op, phase |-> 4]
      BY <2>1 DEF Halves, JournalInStep
    <2>3. journal \in Readable
      BY <1>0, <2>2 DEF Entries
    <2> QED BY <2>1, <2>2, <2>3 DEF Halves, Chosen, NewActive, Activated, Readable
  <1>10. CASE DropStaged \/ DropRollback \/ ClearJournal \/ ClearNext
    <2>1. /\ pc \in Settle \ {"complete"} /\ pc' \in (Settle \ {"complete"}) \cup {"serving"}
          /\ UNCHANGED <<activeDb, activeAtts, before, mode, op>>
      BY <1>10 DEF DropStaged, DropRollback, ClearJournal, ClearNext, disk, history, process
    <2>2. Emptied(op) => Emptied(op)'
      <3>1. CASE DropRollback
        BY <1>0, <3>1 DEF DropRollback, Emptied, Areas, process
      <3>2. CASE DropStaged \/ ClearJournal \/ ClearNext
        BY <3>2 DEF DropStaged, ClearJournal, ClearNext, disk, Emptied
      <3> QED BY <1>10, <3>1, <3>2
    <2>3. (Readable # {} => Activated) /\ Readable' # {} => Activated'
      <3>1. CASE DropStaged \/ DropRollback
        BY <3>1 DEF DropStaged, DropRollback, slots, Readable, Activated
      <3>2. CASE ClearJournal
        <4>1. ASSUME Activated, Readable' # {} PROVE Activated'
          <5>1. next \in Readable /\ next \in Readable'
            BY <3>2, <4>1 DEF ClearJournal, Readable
          <5>2. PICK e \in Readable : e.phase >= NewStateActivated
            BY <4>1 DEF Activated
          <5>3. e # next => e = journal /\ journal \in Entries /\ journal.op = op
            BY <1>0, <5>2, <2>1 DEF Journals
          <5>4. next.op = op /\ next \in Entries
            BY <1>0, <5>1, <2>1 DEF Journals
          <5>5. next.phase >= NewStateActivated
            BY <5>2, <5>3, <5>4, ReadableEntries DEF Journals
          <5> QED BY <5>1, <5>5, <3>2 DEF Activated, ClearJournal
        <4> QED BY <3>2, <4>1 DEF ClearJournal, Readable
      <3>3. CASE ClearNext
        BY <3>3, <1>0 DEF ClearNext, Readable, Journals
      <3> QED BY <1>10, <3>1, <3>2, <3>3
    <2>4. \/ ActivePair = before[op] /\ Emptied(op)
          \/ Chosen(op) /\ mode # "undo" /\ (Readable # {} => Activated)
      BY <2>1 DEF Halves
    <2> QED BY <2>1, <2>2, <2>3, <2>4 DEF Halves, Chosen, NewActive, ActivePair
  <1>11. CASE CheckRollback
    BY <1>11, UndoThrows DEF CheckRollback, disk, slots, history, Halves, OldThere, Kept,
       DbGoesFirst, Readable
  <1>12. CASE OldDb \/ OldDbRename
    BY <1>0, <1>b, <1>12, UndoThrows, PairThere DEF OldDb, OldDbRename, disk, slots, history,
       Halves, OldThere, Kept, DbGoesFirst, Readable, Areas, Journals
  <1>13. CASE OldAtts \/ OldAttsRename
    BY <1>0, <1>b, <1>13, UndoThrows, PairThere DEF OldAtts, OldAttsRename, disk, slots,
       history, Halves, OldThere, Kept, DbGoesFirst, Readable, Areas, Journals
  <1>14. CASE ValidateOld
    BY <1>0, <1>b, <1>14, UndoThrows, PairThere DEF ValidateOld, disk, slots, history, Halves,
       OldThere, ActivePair, Emptied
  <1>15. CASE ValidateNew
    BY <1>0, <1>15, ThrowGoes, BootDecides DEF ValidateNew, Throw, disk, slots, history,
       Halves, OldThere, ActivePair, Chosen, NewActive, Activated, Readable, Kept,
       DbGoesFirst, Journals
  <1>16. CASE BootRead
    <2>1. /\ UNCHANGED <<journal, next, before, rollback>> /\ Readable' = Readable
          /\ pc = "down" /\ pc' \in {"serving", "blocked", "check_rollback", "validate_new"}
      BY <1>16 DEF BootRead, slots, history, Readable
    <2>2. CASE pc' = "check_rollback"
      <3>1. PICK e \in Readable :
              /\ \A other \in Readable : other.op = e.op /\ other.phase <= e.phase
              /\ op' = e.op /\ e.phase \in {1, 2}
              /\ UNCHANGED <<activeDb, activeAtts>>
        BY <1>16, <2>2 DEF BootRead
      <3>2. ~Activated
        BY <3>1, ReadableEntries DEF Activated
      <3>3. \A x \in Readable : Kept(x) /\ x.op = op'
        BY <3>1, <3>2 DEF Survives
      <3>4. \A x \in Readable : Kept(x)' /\ OldThere(x.op)'
        BY <2>1, <3>1, <3>3 DEF Kept, OldThere, DbGoesFirst
      <3> QED BY <2>1, <2>2, <3>1, <3>3, <3>4 DEF Halves
    <2> QED BY <2>1, <2>2 DEF Halves
  <1>17. CASE Fault
    BY <1>17, FaultLeads, SwapKeeps DEF Halves, Readable, Kept, OldThere, DbGoesFirst
  <1>18. CASE Crash
    BY <1>18 DEF Crash, Halves
  <1>19. CASE UNCHANGED vars
    BY <1>19 DEF vars, disk, slots, process, history, Halves, Readable, Kept, OldThere,
       DbGoesFirst, Chosen, NewActive, Activated, ActivePair, Emptied
  <1> QED
    BY <1>1, <1>2, <1>3, <1>4, <1>5, <1>6, <1>7, <1>8, <1>9, <1>10, <1>11, <1>12, <1>13,
       <1>14, <1>15, <1>16, <1>17, <1>18, <1>19 DEF Next, Step

\* The same of the next state.
LEMMA PlaceSurvivesNext ==
  (TypeOK /\ PhaseByPlace /\ JournalInStep /\ Journals /\ Halves
    /\ Busy /\ ~FirstWrite /\ pc # "validate_new")'
  => Survives'
  BY PlaceSurvives, PTL

\* Behind the entries a whole pair is left by every step.
LEMMA StepSurvives ==
  ASSUME OnlyWholePairs, FaultSites \subseteq CatchSites, KInv, [Next]_vars
  PROVE  Survives'
  <1>0. /\ Readable = {journal, next} \cap Entries /\ op \in Ops
        /\ \A e \in Readable : e.op \in Ops
    BY ReadableEntries DEF KInv, TypeOK
  <1>1. CASE Busy' /\ ~FirstWrite' /\ pc' # "validate_new"
    <2>1. TypeOK' /\ PhaseByPlace' /\ JournalInStep' /\ Journals' /\ Halves'
      BY StepType, StepPhase, StepJournalInStep, StepJournals, StepHalves DEF KInv
    <2> QED BY <1>1, <2>1, PlaceSurvivesNext
  \* An empty half may be made where there is none; nothing else moves.
  <1>2. ASSUME NEW e \in Readable, Kept(e),
               rollback' = rollback, before'[e.op] = before[e.op],
               activeDb # NoFile => activeDb' = activeDb,
               activeAtts # NoFile => activeAtts' = activeAtts
        PROVE  Kept(e)'
    <2>1. before[e.op].db # NoFile /\ before[e.op].atts # NoFile /\ e.op # NoFile
      BY <1>0, <1>2, PairThere DEF KInv, Journals
    <2> QED BY <1>2, <2>1 DEF Kept, OldThere, DbGoesFirst
  <1>3. ASSUME pc = "serving" \/ FirstWrite, rollback' = rollback,
               Readable' \subseteq Readable,
               \A e \in Readable : before'[e.op] = before[e.op],
               activeDb # NoFile => activeDb' = activeDb,
               activeAtts # NoFile => activeAtts' = activeAtts
        PROVE  Survives'
    BY <1>2, <1>3 DEF KInv, Survives
  <1>4. ASSUME UNCHANGED <<activeDb, activeAtts, rollback, before, journal, next>>,
               \/ pc' # "serving" /\ ~FirstWrite'
               \/ pc = "serving" \/ FirstWrite
               \/ \A e \in Readable : Kept(e)
        PROVE  Survives'
    <2>1. Readable' = Readable /\ (Activated <=> Activated')
      BY <1>4 DEF Readable, Activated
    <2>2. \A e \in Readable : (Kept(e) <=> Kept(e)') /\ (Chosen(e.op) <=> Chosen(e.op)')
      BY <1>4 DEF Kept, OldThere, DbGoesFirst, Chosen, NewActive, ActivePair
    <2> QED BY <1>4, <2>1, <2>2 DEF KInv, Survives
  <1>5. CASE \E o \in Ops : StartRestore(o)
    BY <1>0, <1>3, <1>5 DEF StartRestore, slots, Readable, KInv, Journals, TypeOK
  <1>6. CASE \E o \in Ops : RefuseRestore(o)
    BY <1>0, <1>3, <1>6 DEF RefuseRestore, slots, Readable
  <1>7. CASE OpenMissingDatabase
    BY <1>3, <1>7 DEF OpenMissingDatabase, slots, history, Readable
  <1>8. CASE Restart \/ Close \/ Crash
    BY <1>4, <1>8 DEF Restart, Close, Crash, Goto, slots, disk, history, FirstWrite,
       JournalWrite
  <1>9. CASE (DropNext \/ TearNext \/ DropJournal) /\ FirstWrite
    BY <1>0, <1>3, <1>9, DistinctCopies DEF DropNext, TearNext, DropJournal, disk, history,
       Readable
  <1>10. CASE FillNext /\ FirstWrite
    <2>1. /\ next' = NextEntry /\ UNCHANGED <<activeDb, activeAtts, rollback, before, journal>>
          /\ pc = "fill_next"
      BY <1>10 DEF FillNext, history, disk
    <2>2. /\ ActivePair = before[op] /\ Emptied(op)
          /\ NextEntry.phase = 1 /\ NextEntry.op = op
      BY <1>10 DEF KInv, Halves, FirstWrite, NextEntry
    <2>3. ASSUME NEW e, e = NextEntry PROVE Kept(e)'
      <3>1. e.op = op /\ e.phase = 1
        BY <2>2, <2>3
      <3> QED BY <2>1, <2>2, <3>1
            DEF Kept, NewStateActivated, OldThere, ActivePair, Emptied
    <2>5. \A e \in Readable : Kept(e)
      BY <1>10 DEF KInv, Survives
    <2>6. \A e \in Readable : Kept(e)'
      BY <2>1, <2>5 DEF Kept, OldThere, DbGoesFirst
    <2>7. Readable' \subseteq Readable \cup {next'}
      BY <2>1 DEF Readable
    <2> QED BY <2>1, <2>3, <2>6, <2>7 DEF Survives
  <1>11. CASE \/ RenameNext \/ MoveOldDb \/ MoveOldAtts \/ MoveNewDb \/ MoveNewAtts
              \/ SmokeCheck \/ Notify \/ CompleteValidated
              \/ (DropNext \/ TearNext \/ FillNext \/ DropJournal) /\ ~FirstWrite
    <2>1. Busy' /\ ~FirstWrite' /\ pc' # "validate_new"
      BY <1>11, ForwardNeverThrows
         DEF RenameNext, MoveOldDb, MoveOldAtts, MoveNewDb, MoveNewAtts, SmokeCheck, Notify,
             CompleteValidated, DropNext, TearNext, FillNext, DropJournal, Goto, KInv, TypeOK,
             PhaseByPlace, FirstWrite, Busy, Idle, JournalWrite, Swap, Prepared,
             OldStateMoved, NewStateActivated, Validated
    <2> QED BY <1>1, <2>1
  <1>12. CASE DropStaged \/ DropRollback \/ ClearJournal \/ OldDbRename \/ OldAttsRename
    BY <1>1, <1>12 DEF DropStaged, DropRollback, ClearJournal, OldDbRename, OldAttsRename,
       Goto, process, Busy, Idle, FirstWrite, JournalWrite
  <1>13. CASE ClearNext
    <2>1. Readable' = {}
      BY <1>13 DEF ClearNext, KInv, Journals, Readable
    <2> QED BY <2>1 DEF Survives
  <1>14. CASE CheckRollback \/ OldDb \/ OldAtts \/ ValidateOld
    <2>1. CASE pc' \in {"serving", "blocked"}
      <3>1. pc \in PutBack /\ Throw
        BY <1>14, <2>1 DEF CheckRollback, OldDb, OldAtts, ValidateOld, Goto, PutBack
      <3> QED BY <1>4, <3>1, UndoThrows DEF KInv, Halves
    <2>2. CASE pc' \notin {"serving", "blocked"}
      <3>1. Busy' /\ ~FirstWrite' /\ pc' # "validate_new"
        BY <1>14, <2>2, UndoThrows DEF CheckRollback, OldDb, OldAtts, ValidateOld, Goto, KInv,
           PutBack, Busy, Idle, FirstWrite, JournalWrite
      <3> QED BY <1>1, <3>1
    <2> QED BY <2>1, <2>2
  <1>15. CASE ValidateNew
    <2>1. mode = "boot" /\ pc = "validate_new"
      BY <1>15 DEF ValidateNew, KInv, PhaseByPlace
    <2>2. pc' \in {"drop_staged", "check_rollback"}
      BY <1>15, <2>1 DEF ValidateNew, Goto, Throw
    <2> QED BY <1>1, <2>2 DEF Busy, Idle, FirstWrite, JournalWrite
  <1>16. CASE BootRead
    <2>1. UNCHANGED <<journal, next, before, rollback>> /\ Readable' = Readable
      BY <1>16 DEF BootRead, slots, history, Readable
    <2>2. \/ Readable = {}
          \/ pc' = "check_rollback"
          \/ pc' \in {"blocked", "validate_new"} /\ UNCHANGED <<activeDb, activeAtts>>
      BY <1>16 DEF BootRead, SlotFiles, Readable
    <2>3. CASE Readable = {}
      BY <2>1, <2>3 DEF Survives
    <2>4. CASE pc' = "check_rollback"
      BY <1>1, <2>4 DEF Busy, Idle, FirstWrite, JournalWrite
    <2>5. CASE pc' \in {"blocked", "validate_new"} /\ UNCHANGED <<activeDb, activeAtts>>
      BY <1>4, <2>1, <2>5 DEF FirstWrite, JournalWrite
    <2> QED BY <2>2, <2>3, <2>4, <2>5
  <1>17. CASE Fault
    <2>1. UNCHANGED <<activeDb, activeAtts, rollback, before, journal, next>>
      BY <1>17, FaultLeads DEF KInv
    <2>2. CASE FirstWrite
      BY <1>4, <2>1, <2>2
    <2>3. CASE pc' = "check_rollback"
      BY <1>1, <2>3 DEF Busy, Idle, FirstWrite, JournalWrite
    <2>4. CASE mode = "undo" /\ pc \in PutBack \union (Settle \ {"complete"})
      <3>1. \A e \in Readable : Kept(e)
        <4>1. CASE pc \in PutBack
          BY <4>1 DEF KInv, Halves
        <4>2. CASE pc \in Settle \ {"complete"}
          <5>1. ActivePair = before[op] /\ Emptied(op)
            BY <2>4, <4>2 DEF KInv, Halves
          <5>2. \A e \in Readable : e.op = op
            BY <4>2 DEF KInv, Journals, Busy, Idle, FirstWrite, JournalWrite, Settle
          <5> QED BY <5>1, <5>2 DEF Kept, OldThere, DbGoesFirst, ActivePair, Emptied
        <4> QED BY <2>4, <4>1, <4>2
      <3> QED BY <1>4, <2>1, <3>1
    <2> QED BY <1>17, <2>2, <2>3, <2>4, FaultLeads DEF KInv
  <1>18. CASE UNCHANGED vars
    BY <1>4, <1>18 DEF vars, disk, slots, process, history, FirstWrite
  <1> QED
    BY <1>5, <1>6, <1>7, <1>8, <1>9, <1>10, <1>11, <1>12, <1>13, <1>14, <1>15, <1>16, <1>17,
       <1>18 DEF Next, Step

\* Every state has a whole pair behind its entries.
LEMMA KeptInvariant ==
  ASSUME OnlyWholePairs, FaultSites \subseteq CatchSites
  PROVE  Spec => []KInv
  <1>1. Init => KInv
    <2> SUFFICES ASSUME Init PROVE KInv
      OBVIOUS
    <2>1. Readable = {} /\ pc = "serving" /\ journal = NoFile /\ next = NoFile
      BY DEF Init, Readable
    <2>2. PhaseByPlace /\ JournalInStep /\ Journals /\ Halves /\ Survives
      BY <2>1, DistinctCopies DEF Init, PhaseByPlace, JournalInStep, Journals, Halves,
         Survives, Busy,
         Idle, FirstWrite, JournalWrite, Swap, Settle, PutBack
    <2> QED BY <2>2, InitType DEF KInv
  <1>2. KInv /\ [Next]_vars => KInv'
    BY StepType, StepPhase, StepJournalInStep, StepJournals, StepHalves, StepSurvives DEF KInv
  <1> QED BY <1>1, <1>2, PTL DEF Spec

\* While an operation is in the journal, its old or its new generation is whole
\* where recovery looks: for any restores, deaths at any call, and exceptions
\* anywhere in the swap and in the undoing of it, after which the application
\* runs on (_activatePreparedRestore, rollbackToOld, _cleanupOperation).
THEOREM GenerationSurvives ==
  ASSUME OnlyWholePairs, FaultSites \subseteq CatchSites
  PROVE  Spec => []AGenerationSurvives
  <1>1. KInv => AGenerationSurvives
    BY DEF KInv, Survives, Kept, OldThere, Chosen, NewActive, NewPair, ActivePair,
       AGenerationSurvives
  <1> QED BY <1>1, KeptInvariant, PTL
=============================================================================
