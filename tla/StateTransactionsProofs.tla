---------------------- MODULE StateTransactionsProofs ----------------------
(***************************************************************************)
(* Proofs about StateTransactions, for any set of files, any archives and  *)
(* any number of transactions and crashes.                                 *)
(***************************************************************************)
EXTENDS StateTransactionsInv, TLAPS

\* There are two kinds of transaction.
LEMMA KindsFacts ==
    /\ "restore" \in Kinds /\ "merge" \in Kinds
    /\ \A k \in Kinds : k = "restore" \/ k = "merge"
BY DEF Kinds

(***************************************************************************)
(* Every step of startup, staging and failure keeps every variable in its  *)
(* type.                                                                   *)
(***************************************************************************)
LEMMA TypeStep == TypeOK /\ [Next]_vars => TypeOK'
<1> SUFFICES ASSUME TypeOK, [Next]_vars PROVE TypeOK'
    OBVIOUS
<1> USE KindsFacts, FilesAssumption, BoundsAssumption
<1> USE DEF TypeOK, disk, manifest, counters, Absent, Fresh
<1>1. CASE Boot
    BY <1>1 DEF Boot
<1>2. CASE \E k \in Kinds : RecoverUnconfirmed(k)
  <2>1. CASE \E k \in Kinds : RecoverRefuses(k)
      BY <2>1 DEF RecoverRefuses
  <2>2. CASE \E k \in Kinds : RecoverCommitted(k)
      BY <2>2 DEF RecoverCommitted
  <2>3. CASE \E k \in Kinds : RecoverUncommitted(k)
      BY <2>3 DEF RecoverUncommitted, LoopFiles
  <2>4. CASE \E k \in Kinds : RecoverStale(k)
      BY <2>4 DEF RecoverStale, AfterRecover
  <2> QED BY <1>2, <2>1, <2>2, <2>3, <2>4 DEF RecoverUnconfirmed,
         RecoverRefuses, RecoverCommitted, RecoverUncommitted, RecoverStale
<1>3. CASE Install
  <2>1. CASE ApplyPendingRestore
      BY <2>1 DEF ApplyPendingRestore, BeginInstall, LoopFiles
  <2>2. CASE ApplyMergeSkips
      BY <2>2 DEF ApplyMergeSkips
  <2>3. CASE ApplyPendingMerge
      BY <2>3 DEF ApplyPendingMerge, BeginInstall, LoopFiles, MergeApplicable
  <2>4. CASE \E f \in Files : MoveAside(f)
      BY <2>4 DEF MoveAside, HalfDone
  <2>5. CASE \E f \in Files : InstallFile(f)
      BY <2>5 DEF InstallFile, HalfDone
  <2>6. CASE FinalizeInstall
      BY <2>6 DEF FinalizeInstall
  <2> QED BY <1>3, <2>1, <2>2, <2>3, <2>4, <2>5, <2>6 DEF Install
<1>4. CASE Undo
  <2>1. CASE \E f \in Files : UndoInstalled(f)
      BY <2>1 DEF UndoInstalled
  <2>2. CASE \E f \in Files : UndoMoved(f)
      BY <2>2 DEF UndoMoved
  <2>3. CASE UndoInstalledDone
      BY <2>3 DEF UndoInstalledDone
  <2>4. CASE UndoDone
      BY <2>4 DEF UndoDone, AfterRollback, AfterRecover
  <2> QED BY <1>4, <2>1, <2>2, <2>3, <2>4 DEF Undo
<1>5. CASE Rollback
  <2>1. CASE \E f \in Files : ReturnToStaging(f)
      BY <2>1 DEF ReturnToStaging, ReturnsToStaging
  <2>2. CASE \E f \in Files : RestoreOriginal(f)
      BY <2>2 DEF RestoreOriginal
  <2>3. CASE \E f \in Files : NothingToRestore(f)
      BY <2>3 DEF NothingToRestore, ReturnsToStaging
  <2>4. CASE \E f \in Files : RollbackBlocked(f)
      BY <2>4 DEF RollbackBlocked, ReturnsToStaging, AfterRollback
  <2>5. CASE DropRollback
      BY <2>5 DEF DropRollback, AfterRollback, AfterRecover
  <2>6. CASE DropState
      BY <2>6 DEF DropState, AfterRollback, AfterRecover
  <2> QED BY <1>5, <2>1, <2>2, <2>3, <2>4, <2>5, <2>6 DEF Rollback
<1>6. CASE Confirm
  <2>1. CASE LoadDone
      BY <2>1 DEF LoadDone
  <2>2. CASE \E k \in Kinds : CreateMarker(k)
      BY <2>2 DEF CreateMarker
  <2>3. CASE WriteMarker
      BY <2>3 DEF WriteMarker
  <2>4. CASE CleanApplied
      BY <2>4 DEF CleanApplied
  <2>5. CASE CleanMarker
      BY <2>5 DEF CleanMarker
  <2>6. CASE \E f \in Files : CleanOriginal(f)
      BY <2>6 DEF CleanOriginal
  <2>7. CASE CleanDone
      BY <2>7 DEF CleanDone, AfterRecover
  <2> QED BY <1>6, <2>1, <2>2, <2>3, <2>4, <2>5, <2>6, <2>7 DEF Confirm
<1>7. CASE Staging
  <2>1. CASE \E k \in Kinds : StageBegin(k)
      BY <2>1 DEF StageBegin, StageGuard
  <2>2. CASE \E inc \in Archives : StagePublish(inc)
      BY <2>2 DEF StagePublish
  <2>3. CASE Restart
      BY <2>3 DEF Restart
  <2> QED BY <1>7, <2>1, <2>2, <2>3 DEF Staging
<1>8. CASE Owner
  <2>1. CASE \E f \in Files : OwnerCreates(f)
      BY <2>1 DEF OwnerCreates
  <2>2. CASE \E k \in Kinds : LoadRejected(k)
      BY <2>2 DEF LoadRejected, LoopFiles
  <2> QED BY <1>8, <2>1, <2>2 DEF Owner
<1>9. CASE Failure
  <2>1. CASE SanitizeTorn
      BY <2>1 DEF SanitizeTorn
  <2>2. CASE InstallFails
      BY <2>2 DEF InstallFails, IOError, LoopFiles, Installed
  <2>3. CASE \E f \in Files : UndoFails(f)
      BY <2>3 DEF UndoFails, IOError
  <2>4. CASE RollbackFails
      BY <2>4 DEF RollbackFails, IOError, AfterRollback, AfterRecover
  <2>5. CASE ConfirmFails
      BY <2>5 DEF ConfirmFails, IOError
  <2>6. CASE StageMergeTorn
      BY <2>6 DEF StageMergeTorn, StageGuard
  <2>7. CASE StagePublishFails
      BY <2>7 DEF StagePublishFails, IOError
  <2>8. CASE Crash
      BY <2>8 DEF Crash
  <2> QED BY <1>9, <2>1, <2>2, <2>3, <2>4, <2>5, <2>6, <2>7, <2>8 DEF Failure
<1>10. CASE UNCHANGED vars
    BY <1>10 DEF vars
<1> QED BY <1>1, <1>2, <1>3, <1>4, <1>5, <1>6, <1>7, <1>8, <1>9, <1>10 DEF
       Next, Startup

(***************************************************************************)
(* The data directory and the startup sequence stay well typed.            *)
(***************************************************************************)
THEOREM TypeCorrect == Spec => []TypeOK
<1>1. Init => TypeOK
    BY FilesAssumption DEF Init, TypeOK, Kinds, Absent, Fresh
<1> QED BY <1>1, TypeStep, PTL DEF Spec

-----------------------------------------------------------------------------
(* The parts of the inductive invariant, one lemma per group of actions,   *)
(* one step per action.                                                    *)

\* Recovery either refuses, cleans up, rolls back or passes on.
LEMMA RecoverStep ==
    ASSUME IInv, MaxIOErrors <= 1, \E k \in Kinds : RecoverUnconfirmed(k)
    PROVE  IParts'
<1> USE KindsFacts, FilesAssumption, BoundsAssumption
<1> USE DEF disk, manifest, counters, Absent, Fresh, IInv, IParts, TypeOK,
            Exclusive, DiskOK, NumbersOK, RestoreContents, MergeContents,
            InstallPhase, RollbackPhase, CommitPhase, IdlePhase, Idle, Ready,
            TransactionExists, Uncommitted, Installed, LoopFiles
<1> PICK k \in Kinds : RecoverUnconfirmed(k)
    OBVIOUS
<1> pc = IF k = "merge" THEN "recoverMerge" ELSE "recoverRestore"
    BY DEF RecoverUnconfirmed
<1>1. CASE RecoverRefuses(k)
    BY <1>1 DEF RecoverRefuses
<1>2. CASE RecoverCommitted(k)
    BY <1>2 DEF RecoverCommitted
<1>3. CASE RecoverUncommitted(k)
    BY <1>3 DEF RecoverUncommitted
<1>4. CASE RecoverStale(k)
  <2> USE <1>4 DEF RecoverStale, AfterRecover
  <2>1. (Exclusive /\ DiskOK /\ NumbersOK)' OBVIOUS
  <2>2. (RestoreContents /\ MergeContents)' OBVIOUS
  <2>3. (InstallPhase /\ RollbackPhase /\ CommitPhase)' OBVIOUS
  <2>4. IdlePhase' OBVIOUS
  <2> QED BY <2>1, <2>2, <2>3, <2>4
<1> QED BY <1>1, <1>2, <1>3, <1>4 DEF RecoverUnconfirmed

\* Installing a staged transaction, file by file.
LEMMA InstallStep ==
    ASSUME IInv, MaxIOErrors <= 1, Install
    PROVE  IParts'
<1> USE KindsFacts, FilesAssumption, BoundsAssumption
<1> USE DEF disk, manifest, counters, Absent, Fresh, IInv, IParts, TypeOK,
            Exclusive, DiskOK, NumbersOK, RestoreContents, MergeContents,
            InstallPhase, RollbackPhase, CommitPhase, IdlePhase, Idle, Ready,
            TransactionExists, Uncommitted, Installed, LoopFiles
<1>1. CASE ApplyPendingRestore
    BY <1>1 DEF ApplyPendingRestore, BeginInstall
<1>2. CASE ApplyMergeSkips
    BY <1>2 DEF ApplyMergeSkips
<1>3. CASE ApplyPendingMerge
    BY <1>3 DEF ApplyPendingMerge, BeginInstall, MergeApplicable
<1>4. CASE \E f \in Files : MoveAside(f)
    BY <1>4 DEF MoveAside, HalfDone
<1>5. CASE \E f \in Files : InstallFile(f)
    BY <1>5 DEF InstallFile, HalfDone
<1>6. CASE FinalizeInstall
    BY <1>6 DEF FinalizeInstall
<1> QED BY <1>1, <1>2, <1>3, <1>4, <1>5, <1>6 DEF Install

\* The undo closure of ApplyPendingRestore.
LEMMA UndoStep ==
    ASSUME IInv, MaxIOErrors <= 1, Undo
    PROVE  IParts'
<1> USE KindsFacts, FilesAssumption, BoundsAssumption
<1> USE DEF disk, manifest, counters, Absent, Fresh, IInv, IParts, TypeOK,
            Exclusive, DiskOK, NumbersOK, RestoreContents, MergeContents,
            InstallPhase, RollbackPhase, CommitPhase, IdlePhase, Idle, Ready,
            TransactionExists, Uncommitted, Installed, LoopFiles
<1>1. CASE \E f \in Files : UndoInstalled(f)
    BY <1>1 DEF UndoInstalled
<1>2. CASE \E f \in Files : UndoMoved(f)
    BY <1>2 DEF UndoMoved
<1>3. CASE UndoInstalledDone
    BY <1>3 DEF UndoInstalledDone
<1>4. CASE UndoDone
    BY <1>4 DEF UndoDone, AfterRollback, AfterRecover
<1> QED BY <1>1, <1>2, <1>3, <1>4 DEF Undo

\* The rollback of an installed or half installed transaction.
LEMMA RollbackStep ==
    ASSUME IInv, MaxIOErrors <= 1, Rollback
    PROVE  IParts'
<1> USE KindsFacts, FilesAssumption, BoundsAssumption
<1> USE DEF disk, manifest, counters, Absent, Fresh, IInv, IParts, TypeOK,
            Exclusive, DiskOK, NumbersOK, RestoreContents, MergeContents,
            InstallPhase, RollbackPhase, CommitPhase, IdlePhase, Idle, Ready,
            TransactionExists, Uncommitted, Installed, LoopFiles
<1>1. CASE \E f \in Files : ReturnToStaging(f)
    BY <1>1 DEF ReturnToStaging, ReturnsToStaging
<1>2. CASE \E f \in Files : RestoreOriginal(f)
    BY <1>2 DEF RestoreOriginal
<1>3. CASE \E f \in Files : NothingToRestore(f)
    BY <1>3 DEF NothingToRestore, ReturnsToStaging
<1>4. CASE \E f \in Files : RollbackBlocked(f)
    BY <1>4 DEF RollbackBlocked, ReturnsToStaging, AfterRollback
<1>5. CASE DropRollback
  <2> USE <1>5 DEF DropRollback, AfterRollback, AfterRecover
  <2>1. (Exclusive /\ DiskOK /\ NumbersOK)' OBVIOUS
  <2>2. (RestoreContents /\ MergeContents)' OBVIOUS
  <2>3. (InstallPhase /\ RollbackPhase /\ CommitPhase)' OBVIOUS
  <2>4. IdlePhase' OBVIOUS
  <2> QED BY <2>1, <2>2, <2>3, <2>4
<1>6. CASE DropState
    BY <1>6 DEF DropState, AfterRollback, AfterRecover
<1> QED BY <1>1, <1>2, <1>3, <1>4, <1>5, <1>6 DEF Rollback

\* The commit and the cleanup after it; WriteMarker is the commit point.
LEMMA ConfirmStep ==
    ASSUME IInv, MaxIOErrors <= 1, Confirm
    PROVE  IParts'
<1> USE KindsFacts, FilesAssumption, BoundsAssumption
<1> USE DEF disk, manifest, counters, Absent, Fresh, IInv, IParts, TypeOK,
            Exclusive, DiskOK, NumbersOK, RestoreContents, MergeContents,
            InstallPhase, RollbackPhase, CommitPhase, IdlePhase, Idle, Ready,
            TransactionExists, Uncommitted, Installed, LoopFiles
<1>1. CASE LoadDone
    BY <1>1 DEF LoadDone
<1>2. CASE \E k \in Kinds : CreateMarker(k)
    BY <1>2 DEF CreateMarker
<1>3. CASE WriteMarker
    BY <1>3 DEF WriteMarker
<1>4. CASE CleanApplied
    BY <1>4 DEF CleanApplied
<1>5. CASE CleanMarker
    BY <1>5 DEF CleanMarker
<1>6. CASE \E f \in Files : CleanOriginal(f)
    BY <1>6 DEF CleanOriginal
<1>7. CASE CleanDone
  <2> USE <1>7 DEF CleanDone, AfterRecover
  <2>1. (Exclusive /\ DiskOK /\ NumbersOK)' OBVIOUS
  <2>2. (RestoreContents /\ MergeContents)' OBVIOUS
  <2>3. (InstallPhase /\ RollbackPhase /\ CommitPhase)' OBVIOUS
  <2>4. IdlePhase'
    <3>1. Idle(cur)' /\ \A k \in Kinds \ {cur} : Idle(k)'
        OBVIOUS
    <3>2. pc' # "running" => applied' = {}
        OBVIOUS
    <3> QED BY <3>1, <3>2
  <2> QED BY <2>1, <2>2, <2>3, <2>4
<1> QED BY <1>1, <1>2, <1>3, <1>4, <1>5, <1>6, <1>7 DEF Confirm

\* The administrator stages a transaction or restarts the service.
LEMMA StagingStep ==
    ASSUME IInv, MaxIOErrors <= 1, Staging
    PROVE  IParts'
<1> USE KindsFacts, FilesAssumption, BoundsAssumption
<1> USE DEF disk, manifest, counters, Absent, Fresh, IInv, IParts, TypeOK,
            Exclusive, DiskOK, NumbersOK, RestoreContents, MergeContents,
            InstallPhase, RollbackPhase, CommitPhase, IdlePhase, Idle, Ready,
            TransactionExists, Uncommitted, Installed, LoopFiles
<1>1. CASE \E k \in Kinds : StageBegin(k)
    BY <1>1 DEF StageBegin, StageGuard
<1>2. CASE \E inc \in Archives : StagePublish(inc)
    BY <1>2 DEF StagePublish
<1>3. CASE Restart
    BY <1>3 DEF Restart
<1> QED BY <1>1, <1>2, <1>3 DEF Staging

\* An owner writes its file or rejects what it loaded.
LEMMA OwnerStep ==
    ASSUME IInv, MaxIOErrors <= 1, Owner
    PROVE  IParts'
<1> USE KindsFacts, FilesAssumption, BoundsAssumption
<1> USE DEF disk, manifest, counters, Absent, Fresh, IInv, IParts, TypeOK,
            Exclusive, DiskOK, NumbersOK, RestoreContents, MergeContents,
            InstallPhase, RollbackPhase, CommitPhase, IdlePhase, Idle, Ready,
            TransactionExists, Uncommitted, Installed, LoopFiles
<1>1. CASE \E f \in Files : OwnerCreates(f)
    BY <1>1 DEF OwnerCreates
<1>2. CASE \E k \in Kinds : LoadRejected(k)
    BY <1>2 DEF LoadRejected
<1> QED BY <1>1, <1>2 DEF Owner

\* Crashes and failed file operations.
LEMMA FailureStep ==
    ASSUME IInv, MaxIOErrors <= 1, Failure
    PROVE  IParts'
<1> USE KindsFacts, FilesAssumption, BoundsAssumption
<1> USE DEF disk, manifest, counters, Absent, Fresh, IInv, IParts, TypeOK,
            Exclusive, DiskOK, NumbersOK, RestoreContents, MergeContents,
            InstallPhase, RollbackPhase, CommitPhase, IdlePhase, Idle, Ready,
            TransactionExists, Uncommitted, Installed, LoopFiles
<1>1. CASE SanitizeTorn
    BY <1>1 DEF SanitizeTorn
<1>2. CASE InstallFails
    BY <1>2 DEF InstallFails, IOError
<1>3. CASE \E f \in Files : UndoFails(f)
    BY <1>3 DEF UndoFails, IOError
<1>4. CASE RollbackFails
    BY <1>4 DEF RollbackFails, IOError, AfterRollback, AfterRecover
<1>5. CASE ConfirmFails
    BY <1>5 DEF ConfirmFails, IOError
<1>6. CASE StageMergeTorn
    BY <1>6 DEF StageMergeTorn, StageGuard
<1>7. CASE StagePublishFails
    BY <1>7 DEF StagePublishFails, IOError
<1>8. CASE Crash
    BY <1>8 DEF Crash
<1> QED BY <1>1, <1>2, <1>3, <1>4, <1>5, <1>6, <1>7, <1>8 DEF Failure

\* The invariant is inductive when at most one file operation fails.
LEMMA InvariantStep == ASSUME MaxIOErrors <= 1 PROVE IInv /\ [Next]_vars => IInv'
<1> SUFFICES ASSUME IInv, [Next]_vars PROVE IParts'
    BY TypeStep DEF IInv
<1>1. CASE Boot
    BY <1>1, KindsFacts
    DEF Boot, disk, manifest, counters, Absent, Fresh, IInv, IParts, TypeOK,
        Exclusive, DiskOK, NumbersOK, RestoreContents, MergeContents,
        InstallPhase, RollbackPhase, CommitPhase, IdlePhase, Idle, Ready,
        TransactionExists, Uncommitted, Installed, LoopFiles
<1>2. CASE UNCHANGED vars
    BY <1>2
    DEF vars, disk, manifest, counters, Absent, Fresh, IInv, IParts, TypeOK,
        Exclusive, DiskOK, NumbersOK, RestoreContents, MergeContents,
        InstallPhase, RollbackPhase, CommitPhase, IdlePhase, Idle, Ready,
        TransactionExists, Uncommitted, Installed, LoopFiles
<1> QED BY <1>1, <1>2, RecoverStep, InstallStep, UndoStep, RollbackStep,
           ConfirmStep, StagingStep, OwnerStep, FailureStep
        DEF Next, Startup

(***************************************************************************)
(* The inductive invariant holds in every reachable state.                 *)
(***************************************************************************)
THEOREM Invariance == ASSUME MaxIOErrors <= 1 PROVE Spec => []IInv
<1>1. Init => IInv
    BY FilesAssumption, KindsFacts
    DEF Init, Kinds, disk, manifest, counters, Absent, Fresh, IInv, IParts,
        TypeOK, Exclusive, DiskOK, NumbersOK, RestoreContents, MergeContents,
        InstallPhase, RollbackPhase, CommitPhase, IdlePhase, Idle, Ready,
        TransactionExists, Uncommitted, Installed, LoopFiles
<1> QED BY <1>1, InvariantStep, PTL DEF Spec
-----------------------------------------------------------------------------
(* What follows from the invariant. *)

(***************************************************************************)
(* The service never runs on a half applied or unconfirmed transaction.    *)
(***************************************************************************)
THEOREM RunsClean == ASSUME MaxIOErrors <= 1 PROVE Spec => []CleanWhenRunning
<1>1. IInv => CleanWhenRunning
    BY DEF IInv, IParts, TypeOK, IdlePhase, DiskOK, Idle, CleanWhenRunning
<1> QED BY <1>1, Invariance, PTL

(***************************************************************************)
(* Only its installation or the administrator consumes a pending           *)
(* transaction.                                                            *)
(***************************************************************************)
THEOREM PendingIsKept == ASSUME MaxIOErrors <= 1 PROVE Spec => PendingKept
<1> DEFINE Kept == \A k \in Kinds : stage[k] = "pending" /\ stage'[k] # "pending"
                       => stage'[k] = "applied" \/ pc = "running"
<1>1. IInv /\ [Next]_vars => [Kept]_vars
  <2> SUFFICES ASSUME IInv, Next PROVE Kept
      BY DEF vars
  <2> USE DEF disk, manifest, counters, IInv, IParts, TypeOK
  <2>1. CASE Staging
      BY <2>1 DEF Staging, StageBegin, StagePublish, Restart
  <2>2. CASE Owner
      BY <2>2 DEF Owner, OwnerCreates, LoadRejected
  <2>3. CASE Failure
      BY <2>3 DEF Failure, SanitizeTorn, InstallFails, UndoFails, RollbackFails,
                  ConfirmFails, StageMergeTorn, StagePublishFails, Crash
  <2>4. CASE Boot \/ \E k \in Kinds : RecoverUnconfirmed(k)
      BY <2>4 DEF Boot, RecoverUnconfirmed, RecoverRefuses, RecoverCommitted,
                  RecoverUncommitted, RecoverStale
  <2>5. CASE Install
      BY <2>5 DEF Install, ApplyPendingRestore, ApplyMergeSkips, ApplyPendingMerge,
                  MoveAside, InstallFile, FinalizeInstall
  <2>6. CASE Undo
      BY <2>6 DEF Undo, UndoInstalled, UndoMoved, UndoInstalledDone, UndoDone
  <2>7. CASE Rollback
      BY <2>7 DEF Rollback, ReturnToStaging, RestoreOriginal, NothingToRestore,
                  RollbackBlocked, DropRollback, DropState, RollbackPhase
  <2>8. CASE Confirm
      BY <2>8 DEF Confirm, LoadDone, CreateMarker, WriteMarker, CleanApplied,
                  CleanMarker, CleanOriginal, CleanDone
  <2> QED BY <2>1, <2>2, <2>3, <2>4, <2>5, <2>6, <2>7, <2>8 DEF Next, Startup
<1>2. Spec => [][Kept]_vars
    BY <1>1, Invariance, PTL DEF Spec
<1> QED BY <1>2 DEF PendingKept

-----------------------------------------------------------------------------
(* Refinement: every step leaves the durable state alone, except an owner  *)
(* that creates a file and the write of the commit marker.                 *)

\* Recovery changes nothing durable.
LEMMA RecoverDurable ==
    ASSUME IInv, MaxIOErrors <= 1, \E k \in Kinds : RecoverUnconfirmed(k)
    PROVE  UNCHANGED <<Durable, committed>>
<1> USE KindsFacts, FilesAssumption, BoundsAssumption
<1> USE DEF disk, manifest, counters, Absent, Fresh, IInv, IParts, TypeOK,
            Exclusive, DiskOK, NumbersOK, RestoreContents, MergeContents,
            InstallPhase, RollbackPhase, CommitPhase, IdlePhase, Idle, Ready,
            TransactionExists, Uncommitted, Installed, LoopFiles, Durable
<1> PICK k \in Kinds : RecoverUnconfirmed(k)
    OBVIOUS
<1> pc = IF k = "merge" THEN "recoverMerge" ELSE "recoverRestore"
    BY DEF RecoverUnconfirmed
<1>1. CASE RecoverRefuses(k)
    BY <1>1 DEF RecoverRefuses
<1>2. CASE RecoverCommitted(k)
    BY <1>2 DEF RecoverCommitted
<1>3. CASE RecoverUncommitted(k)
    BY <1>3 DEF RecoverUncommitted
<1>4. CASE RecoverStale(k)
    BY <1>4 DEF RecoverStale, AfterRecover
<1> QED BY <1>1, <1>2, <1>3, <1>4 DEF RecoverUnconfirmed

\* Installing changes nothing durable.
LEMMA InstallDurable ==
    ASSUME IInv, MaxIOErrors <= 1, Install
    PROVE  UNCHANGED <<Durable, committed>>
<1> USE KindsFacts, FilesAssumption, BoundsAssumption
<1> USE DEF disk, manifest, counters, Absent, Fresh, IInv, IParts, TypeOK,
            Exclusive, DiskOK, NumbersOK, RestoreContents, MergeContents,
            InstallPhase, RollbackPhase, CommitPhase, IdlePhase, Idle, Ready,
            TransactionExists, Uncommitted, Installed, LoopFiles, Durable
<1>1. CASE ApplyPendingRestore
    BY <1>1 DEF ApplyPendingRestore, BeginInstall
<1>2. CASE ApplyMergeSkips
    BY <1>2 DEF ApplyMergeSkips
<1>3. CASE ApplyPendingMerge
    BY <1>3 DEF ApplyPendingMerge, BeginInstall, MergeApplicable
<1>4. CASE \E f \in Files : MoveAside(f)
    BY <1>4 DEF MoveAside, HalfDone
<1>5. CASE \E f \in Files : InstallFile(f)
    BY <1>5 DEF InstallFile, HalfDone
<1>6. CASE FinalizeInstall
    BY <1>6 DEF FinalizeInstall
<1> QED BY <1>1, <1>2, <1>3, <1>4, <1>5, <1>6 DEF Install

\* Undoing a failed installation changes nothing durable.
LEMMA UndoDurable ==
    ASSUME IInv, MaxIOErrors <= 1, Undo
    PROVE  UNCHANGED <<Durable, committed>>
<1> USE KindsFacts, FilesAssumption, BoundsAssumption
<1> USE DEF disk, manifest, counters, Absent, Fresh, IInv, IParts, TypeOK,
            Exclusive, DiskOK, NumbersOK, RestoreContents, MergeContents,
            InstallPhase, RollbackPhase, CommitPhase, IdlePhase, Idle, Ready,
            TransactionExists, Uncommitted, Installed, LoopFiles, Durable
<1>1. CASE \E f \in Files : UndoInstalled(f)
    BY <1>1 DEF UndoInstalled
<1>2. CASE \E f \in Files : UndoMoved(f)
    BY <1>2 DEF UndoMoved
<1>3. CASE UndoInstalledDone
    BY <1>3 DEF UndoInstalledDone
<1>4. CASE UndoDone
    BY <1>4 DEF UndoDone, AfterRollback, AfterRecover
<1> QED BY <1>1, <1>2, <1>3, <1>4 DEF Undo

\* Rolling back changes nothing durable.
LEMMA RollbackDurable ==
    ASSUME IInv, MaxIOErrors <= 1, Rollback
    PROVE  UNCHANGED <<Durable, committed>>
<1> USE KindsFacts, FilesAssumption, BoundsAssumption
<1> USE DEF disk, manifest, counters, Absent, Fresh, IInv, IParts, TypeOK,
            Exclusive, DiskOK, NumbersOK, RestoreContents, MergeContents,
            InstallPhase, RollbackPhase, CommitPhase, IdlePhase, Idle, Ready,
            TransactionExists, Uncommitted, Installed, LoopFiles, Durable
<1>1. CASE \E f \in Files : ReturnToStaging(f)
    BY <1>1 DEF ReturnToStaging, ReturnsToStaging
<1>2. CASE \E f \in Files : RestoreOriginal(f)
    BY <1>2 DEF RestoreOriginal
<1>3. CASE \E f \in Files : NothingToRestore(f)
    BY <1>3 DEF NothingToRestore, ReturnsToStaging
<1>4. CASE \E f \in Files : RollbackBlocked(f)
    BY <1>4 DEF RollbackBlocked, ReturnsToStaging, AfterRollback
<1>5. CASE DropRollback
    BY <1>5 DEF DropRollback, AfterRollback, AfterRecover
<1>6. CASE DropState
    BY <1>6 DEF DropState, AfterRollback, AfterRecover
<1> QED BY <1>1, <1>2, <1>3, <1>4, <1>5, <1>6 DEF Rollback

\* Confirming, apart from the marker itself, changes nothing durable.
LEMMA CleanupDurable ==
    ASSUME IInv, MaxIOErrors <= 1, Confirm /\ ~WriteMarker
    PROVE  UNCHANGED <<Durable, committed>>
<1> USE KindsFacts, FilesAssumption, BoundsAssumption
<1> USE DEF disk, manifest, counters, Absent, Fresh, IInv, IParts, TypeOK,
            Exclusive, DiskOK, NumbersOK, RestoreContents, MergeContents,
            InstallPhase, RollbackPhase, CommitPhase, IdlePhase, Idle, Ready,
            TransactionExists, Uncommitted, Installed, LoopFiles, Durable
<1>1. CASE LoadDone
    BY <1>1 DEF LoadDone
<1>2. CASE \E k \in Kinds : CreateMarker(k)
    BY <1>2 DEF CreateMarker
<1>3. CASE CleanApplied
    BY <1>3 DEF CleanApplied
<1>4. CASE CleanMarker
    BY <1>4 DEF CleanMarker
<1>5. CASE \E f \in Files : CleanOriginal(f)
    BY <1>5 DEF CleanOriginal
<1>6. CASE CleanDone
    BY <1>6 DEF CleanDone, AfterRecover
<1> QED BY <1>1, <1>2, <1>3, <1>4, <1>5, <1>6 DEF Confirm

\* Staging changes nothing durable.
LEMMA StagingDurable ==
    ASSUME IInv, MaxIOErrors <= 1, Staging
    PROVE  UNCHANGED <<Durable, committed>>
<1> USE KindsFacts, FilesAssumption, BoundsAssumption
<1> USE DEF disk, manifest, counters, Absent, Fresh, IInv, IParts, TypeOK,
            Exclusive, DiskOK, NumbersOK, RestoreContents, MergeContents,
            InstallPhase, RollbackPhase, CommitPhase, IdlePhase, Idle, Ready,
            TransactionExists, Uncommitted, Installed, LoopFiles, Durable
<1>1. CASE \E k \in Kinds : StageBegin(k)
    BY <1>1 DEF StageBegin, StageGuard
<1>2. CASE \E inc \in Archives : StagePublish(inc)
    BY <1>2 DEF StagePublish
<1>3. CASE Restart
    BY <1>3 DEF Restart
<1> QED BY <1>1, <1>2, <1>3 DEF Staging

\* A crash or a failed file operation changes nothing durable.
LEMMA FailureDurable ==
    ASSUME IInv, MaxIOErrors <= 1, Failure
    PROVE  UNCHANGED <<Durable, committed>>
<1> USE KindsFacts, FilesAssumption, BoundsAssumption
<1> USE DEF disk, manifest, counters, Absent, Fresh, IInv, IParts, TypeOK,
            Exclusive, DiskOK, NumbersOK, RestoreContents, MergeContents,
            InstallPhase, RollbackPhase, CommitPhase, IdlePhase, Idle, Ready,
            TransactionExists, Uncommitted, Installed, LoopFiles, Durable
<1>1. CASE SanitizeTorn
    BY <1>1 DEF SanitizeTorn
<1>2. CASE InstallFails
    BY <1>2 DEF InstallFails, IOError
<1>3. CASE \E f \in Files : UndoFails(f)
    BY <1>3 DEF UndoFails, IOError
<1>4. CASE RollbackFails
    BY <1>4 DEF RollbackFails, IOError, AfterRollback, AfterRecover
<1>5. CASE ConfirmFails
    BY <1>5 DEF ConfirmFails, IOError
<1>6. CASE StageMergeTorn
    BY <1>6 DEF StageMergeTorn, StageGuard
<1>7. CASE StagePublishFails
    BY <1>7 DEF StagePublishFails, IOError
<1>8. CASE Crash
    BY <1>8 DEF Crash
<1> QED BY <1>1, <1>2, <1>3, <1>4, <1>5, <1>6, <1>7, <1>8 DEF Failure

\* An owner that writes its file first creates it in the abstract store too,
\* or hides behind the original that a rollback would put back.
LEMMA OwnerDurable ==
    ASSUME IInv, Owner
    PROVE  Store!OwnerCreates \/ UNCHANGED <<Durable, committed>>
<1> USE KindsFacts, FilesAssumption, BoundsAssumption
<1> USE DEF disk, manifest, counters, Absent, Fresh, IInv, IParts, TypeOK,
            Exclusive, DiskOK, NumbersOK, RestoreContents, MergeContents,
            InstallPhase, RollbackPhase, CommitPhase, IdlePhase, Idle, Ready,
            TransactionExists, Uncommitted, Installed, LoopFiles, Durable
<1>1. ASSUME NEW f \in Files, OwnerCreates(f)
      PROVE  Store!OwnerCreates \/ UNCHANGED <<Durable, committed>>
  <2> USE <1>1 DEF OwnerCreates
  <2>1. \A g \in Files \ {f} : Durable'[g] = Durable[g]
      OBVIOUS
  <2>2. \/ Durable'[f] = Durable[f]
        \/ Durable[f] = Absent /\ Durable'[f] = Fresh
      OBVIOUS
  <2>3. committed' = committed
      OBVIOUS
  <2>4. CASE Durable'[f] = Durable[f]
      BY <2>1, <2>3, <2>4
  <2>5. CASE Durable[f] = Absent /\ Durable'[f] = Fresh
    <3>1. /\ Durable = [g \in Files |-> Durable[g]]
          /\ Durable' = [g \in Files |-> Durable'[g]]
        OBVIOUS
    <3>2. Durable' = [Durable EXCEPT ![f] = Fresh]
      <4> HIDE DEF Durable, IInv, OwnerCreates
      <4> QED BY <2>1, <2>5, <3>1
    <3> QED BY <2>3, <2>5, <3>2 DEF Store!OwnerCreates, Store!Absent, Store!Fresh
  <2> QED BY <2>2, <2>4, <2>5
<1>2. ASSUME NEW k \in Kinds, LoadRejected(k)
      PROVE  UNCHANGED <<Durable, committed>>
    BY <1>2 DEF LoadRejected
<1> QED BY <1>1, <1>2 DEF Owner

\* The commit point: the whole restore or the whole merge becomes durable.
LEMMA CommitDurable ==
    ASSUME IInv, WriteMarker
    PROVE  Store!RestoreCommits \/ Store!MergeCommits
<1> USE KindsFacts, FilesAssumption, BoundsAssumption
<1> USE DEF disk, manifest, counters, Absent, Fresh, IInv, IParts, TypeOK,
            Exclusive, DiskOK, NumbersOK, RestoreContents, MergeContents,
            InstallPhase, RollbackPhase, CommitPhase, IdlePhase, Idle, Ready,
            TransactionExists, Uncommitted, Installed, LoopFiles, Durable
<1> USE DEF WriteMarker
<1>1. committed' = txn[cur] /\ committed' \in Nat /\ committed' > committed
    OBVIOUS
<1>2. \A f \in Files : Durable'[f] = data[f]
    OBVIOUS
<1>3. CASE cur = "restore"
  <2>1. \A f \in Files : IF f \in incl[cur] THEN Durable'[f] = committed'
                                           ELSE Durable'[f] \in {Absent, Fresh}
      BY <1>1, <1>2, <1>3
  <2>2. Durable' \in [Files -> Nat] /\ incl[cur] \in SUBSET Files
      BY <1>2
  <2> QED BY <1>1, <2>1, <2>2 DEF Store!RestoreCommits, Store!Absent, Store!Fresh
<1>4. CASE cur = "merge"
  <2>1. \A f \in Files : Durable'[f] = IF f \in MergeFiles THEN committed' ELSE Durable[f]
      BY <1>1, <1>2, <1>4
  <2>2. Durable' = [f \in Files |-> IF f \in MergeFiles THEN committed' ELSE Durable[f]]
      BY <2>1
  <2> QED BY <1>1, <2>2 DEF Store!MergeCommits
<1> QED BY <1>3, <1>4

(***************************************************************************)
(* The startup sequence implements AtomicStateStore: restores and merges   *)
(* take effect as a whole or not at all, once, through any crashes, when   *)
(* at most one file operation fails.                                       *)
(***************************************************************************)
THEOREM Atomicity == ASSUME MaxIOErrors <= 1 PROVE Spec => AtomicStore
<1>1. Init => Store!Init
    BY DEF Init, Store!Init, Durable, Uncommitted, Kinds, Absent, Fresh,
           Store!Absent, Store!Fresh
<1>2. IInv /\ [Next]_vars => [Store!Next]_<<Durable, committed>>
  <2> SUFFICES ASSUME IInv, [Next]_vars PROVE [Store!Next]_<<Durable, committed>>
      OBVIOUS
  <2>1. CASE Boot
      BY <2>1 DEF Boot, Durable, Uncommitted, Installed, disk, manifest, counters
  <2>2. CASE UNCHANGED vars
      BY <2>2 DEF vars, Durable, Uncommitted, Installed, disk, manifest, counters
  <2>3. CASE WriteMarker
      BY <2>3, CommitDurable DEF Store!Next
  <2>4. CASE Confirm /\ ~WriteMarker
      BY <2>4, CleanupDurable
  <2>5. CASE Owner
      BY <2>5, OwnerDurable DEF Store!Next
  <2> QED BY <2>1, <2>2, <2>3, <2>4, <2>5, RecoverDurable, InstallDurable,
             UndoDurable, RollbackDurable, StagingDurable, FailureDurable
          DEF Next, Startup
<1> QED BY <1>1, <1>2, Invariance, PTL DEF Spec, AtomicStore, Store!Spec

-----------------------------------------------------------------------------
(* What holds for any number of I/O errors. *)

(***************************************************************************)
(* Recovery, installation, undo and rollback leave every marker with its   *)
(* transaction.                                                            *)
(***************************************************************************)
LEMMA CommitInvStartup ==
    ASSUME TypeOK, CommitInv, Startup
    PROVE  CommitInv'
<1> USE KindsFacts
<1> USE DEF disk, manifest, counters, TypeOK, CommitInv, Exclusive, MarkerOK, MarkerPhase,
            AppliedPhase, TransactionExists
<1>0. cur \in rb => \A k \in Kinds : k # cur => ~TransactionExists(k) /\ marker[k] = "none"
    OBVIOUS
<1>1. CASE Boot
    BY <1>1 DEF Boot
<1>2. ASSUME NEW k \in Kinds, RecoverUnconfirmed(k) PROVE CommitInv'
  <2>1. pc = IF k = "merge" THEN "recoverMerge" ELSE "recoverRestore"
      BY <1>2 DEF RecoverUnconfirmed
  <2>2. CASE RecoverRefuses(k)
      BY <2>1, <2>2 DEF RecoverRefuses
  <2>3. CASE RecoverCommitted(k)
      BY <2>1, <2>3 DEF RecoverCommitted
  <2>4. CASE RecoverUncommitted(k)
      BY <2>1, <2>4 DEF RecoverUncommitted
  <2>5. CASE RecoverStale(k)
    <3>1. Exclusive'
        BY <1>0, <2>5, <2>1 DEF RecoverStale, AfterRecover
    <3>2. MarkerOK'
        BY <1>0, <2>5, <2>1 DEF RecoverStale, AfterRecover
    <3>3. MarkerPhase'
        BY <1>0, <2>5, <2>1 DEF RecoverStale, AfterRecover
    <3>4. AppliedPhase'
        BY <1>0, <2>5, <2>1 DEF RecoverStale, AfterRecover
    <3> QED BY <3>1, <3>2, <3>3, <3>4
  <2> QED BY <1>2, <2>2, <2>3, <2>4, <2>5 DEF RecoverUnconfirmed
<1>3. CASE Install
  <2>1. CASE ApplyPendingRestore
      BY <2>1 DEF ApplyPendingRestore, BeginInstall
  <2>2. CASE ApplyMergeSkips
      BY <2>2 DEF ApplyMergeSkips
  <2>3. CASE ApplyPendingMerge
      BY <2>3 DEF ApplyPendingMerge, BeginInstall, MergeApplicable
  <2>4. CASE \E f \in Files : MoveAside(f) \/ InstallFile(f)
      BY <2>4 DEF MoveAside, InstallFile
  <2>5. CASE FinalizeInstall
    <3>1. Exclusive'
        BY <1>0, <2>5 DEF FinalizeInstall
    <3>2. MarkerOK'
        BY <1>0, <2>5 DEF FinalizeInstall
    <3>3. MarkerPhase'
        BY <1>0, <2>5 DEF FinalizeInstall
    <3>4. AppliedPhase'
        BY <1>0, <2>5 DEF FinalizeInstall
    <3> QED BY <3>1, <3>2, <3>3, <3>4
  <2> QED BY <1>3, <2>1, <2>2, <2>3, <2>4, <2>5 DEF Install
<1>4. CASE Undo
  <2>1. CASE \E f \in Files : UndoInstalled(f) \/ UndoMoved(f)
      BY <2>1 DEF UndoInstalled, UndoMoved
  <2>2. CASE UndoInstalledDone
      BY <2>2 DEF UndoInstalledDone
  <2>3. CASE UndoDone
    <3>1. Exclusive' /\ MarkerOK'
        BY <2>3 DEF UndoDone, AfterRollback, AfterRecover
    <3>2. MarkerPhase'
        BY <2>3 DEF UndoDone, AfterRollback, AfterRecover
    <3>3. AppliedPhase'
        BY <2>3 DEF UndoDone, AfterRollback, AfterRecover
    <3> QED BY <3>1, <3>2, <3>3
  <2> QED BY <1>4, <2>1, <2>2, <2>3 DEF Undo
<1>5. CASE Rollback
  <2>1. CASE \E f \in Files : ReturnToStaging(f) \/ RestoreOriginal(f) \/ NothingToRestore(f)
      BY <2>1 DEF ReturnToStaging, RestoreOriginal, NothingToRestore
  <2>2. CASE \E f \in Files : RollbackBlocked(f)
      BY <2>2 DEF RollbackBlocked, AfterRollback
  <2>3. CASE DropRollback
    <3>1. Exclusive'
        BY <1>0, <2>3 DEF DropRollback, AfterRollback, AfterRecover
    <3>2. MarkerOK'
        BY <1>0, <2>3 DEF DropRollback, AfterRollback, AfterRecover
    <3>3. MarkerPhase'
        BY <1>0, <2>3 DEF DropRollback, AfterRollback, AfterRecover
    <3>4. AppliedPhase'
        BY <1>0, <2>3 DEF DropRollback, AfterRollback, AfterRecover
    <3> QED BY <3>1, <3>2, <3>3, <3>4
  <2>4. CASE DropState
    <3>1. Exclusive' /\ MarkerOK'
        BY <2>4 DEF DropState, AfterRollback, AfterRecover
    <3>2. MarkerPhase'
        BY <2>4 DEF DropState, AfterRollback, AfterRecover
    <3>3. AppliedPhase'
        BY <2>4 DEF DropState, AfterRollback, AfterRecover
    <3> QED BY <3>1, <3>2, <3>3
  <2> QED BY <1>5, <2>1, <2>2, <2>3, <2>4 DEF Rollback
<1>6. CASE Confirm
  <2>1. CASE LoadDone
      BY <2>1 DEF LoadDone
  <2>2. CASE \E k \in Kinds : CreateMarker(k)
      BY <2>2 DEF CreateMarker
  <2>3. CASE WriteMarker
    <3>1. Exclusive'
        BY <1>0, <2>3 DEF WriteMarker
    <3>2. MarkerOK'
        BY <1>0, <2>3 DEF WriteMarker
    <3>3. MarkerPhase'
        BY <1>0, <2>3 DEF WriteMarker
    <3>4. AppliedPhase'
        BY <1>0, <2>3 DEF WriteMarker
    <3> QED BY <3>1, <3>2, <3>3, <3>4
  <2>4. CASE CleanApplied
      BY <2>4 DEF CleanApplied
  <2>5. CASE CleanMarker \/ \E f \in Files : CleanOriginal(f)
      BY <2>5 DEF CleanMarker, CleanOriginal
  <2>6. CASE CleanDone
    <3>1. Exclusive' /\ MarkerOK'
        BY <2>6 DEF CleanDone, AfterRecover
    <3>2. MarkerPhase'
        BY <2>6 DEF CleanDone, AfterRecover
    <3>3. AppliedPhase'
        BY <2>6 DEF CleanDone, AfterRecover
    <3> QED BY <3>1, <3>2, <3>3
  <2> QED BY <1>6, <2>1, <2>2, <2>3, <2>4, <2>5, <2>6 DEF Confirm
<1> QED BY <1>1, <1>2, <1>3, <1>4, <1>5, <1>6 DEF Startup

\* Staging, the owners and failures do so too.
LEMMA CommitInvOutside ==
    ASSUME TypeOK, CommitInv, Staging \/ Owner \/ Failure
    PROVE  CommitInv'
<1> USE KindsFacts
<1> USE DEF disk, manifest, counters, TypeOK, CommitInv, Exclusive, MarkerOK, MarkerPhase,
            AppliedPhase, TransactionExists
<1>1. CASE Staging
    BY <1>1 DEF Staging, StageBegin, StageGuard, StagePublish, Restart
<1>2. CASE Owner
    BY <1>2 DEF Owner, OwnerCreates, LoadRejected
<1>3. CASE SanitizeTorn \/ StageMergeTorn \/ Crash
    BY <1>3 DEF SanitizeTorn, StageMergeTorn, Crash
<1>4. CASE InstallFails \/ \E f \in Files : UndoFails(f)
    BY <1>4 DEF InstallFails, UndoFails, IOError
<1>5. CASE RollbackFails
    BY <1>5 DEF RollbackFails, IOError, AfterRollback
<1>6. CASE ConfirmFails \/ StagePublishFails
    BY <1>6 DEF ConfirmFails, StagePublishFails, IOError
<1> QED BY <1>1, <1>2, <1>3, <1>4, <1>5, <1>6 DEF Failure

\* CommitInv holds in every reachable state, whatever fails.
LEMMA CommitInvariance == Spec => [](TypeOK /\ CommitInv)
<1>1. Init => CommitInv
    BY KindsFacts DEF Init, Kinds, CommitInv, Exclusive, MarkerOK, MarkerPhase, AppliedPhase,
                      TransactionExists
<1>2. TypeOK /\ CommitInv /\ [Next]_vars => CommitInv'
  <2> SUFFICES ASSUME TypeOK, CommitInv, [Next]_vars PROVE CommitInv'
      OBVIOUS
  <2>1. CASE UNCHANGED vars
      BY <2>1 DEF vars, disk, manifest, counters, CommitInv, Exclusive, MarkerOK, MarkerPhase,
                  AppliedPhase, TransactionExists
  <2> QED BY <2>1, CommitInvStartup, CommitInvOutside DEF Next
<1> QED BY <1>1, <1>2, TypeCorrect, PTL DEF Spec

(***************************************************************************)
(* Exclusive: a backup restore and a node merge are never both under way,  *)
(* whatever crashes and however many file operations fail; the checks of   *)
(* AcquireRestoreGuard and ensureNoRestoreTransaction suffice.             *)
(***************************************************************************)
THEOREM MutualExclusion == Spec => []Exclusive
<1>1. CommitInv => Exclusive
    BY DEF CommitInv
<1> QED BY <1>1, CommitInvariance, PTL

(***************************************************************************)
(* OriginalsKept: whatever crashes and however many file operations fail,  *)
(* a file moved aside by a transaction that has not committed leaves the   *)
(* rollback directory only into its place.                                 *)
(***************************************************************************)
THEOREM OriginalsAreKept == Spec => OriginalsKept
<1> DEFINE Kept == \A k \in Kinds, f \in Files :
                      orig[k][f] \notin {Absent, orig'[k][f]} /\ committed # txn[k]
                          => data'[f] = orig[k][f]
<1>1. TypeOK /\ CommitInv /\ [Next]_vars => [Kept]_vars
  <2> SUFFICES ASSUME TypeOK, CommitInv, Next PROVE Kept
      OBVIOUS
  <2>1. CASE orig' = orig
      BY <2>1
  <2>2. ASSUME NEW g \in Files, MoveAside(g) PROVE Kept
    <3>1. orig[cur][g] = Absent
        BY <2>2 DEF MoveAside, HalfDone
    <3> QED BY <2>2, <3>1 DEF MoveAside, TypeOK
  <2>3. ASSUME NEW g \in Files, UndoMoved(g) \/ RestoreOriginal(g) PROVE Kept
    <3>1. /\ orig' = [orig EXCEPT ![cur][g] = Absent]
          /\ data' = [data EXCEPT ![g] = orig[cur][g]]
        BY <2>3 DEF UndoMoved, RestoreOriginal
    <3>2. data'[g] = orig[cur][g]
        BY <3>1 DEF TypeOK
    <3>3. \A k \in Kinds, f \in Files : k # cur \/ f # g => orig'[k][f] = orig[k][f]
        BY <3>1 DEF TypeOK
    <3> QED BY <3>2, <3>3
  <2>4. ASSUME NEW g \in Files, CleanOriginal(g) PROVE Kept
    <3>1. committed = txn[cur]
        BY <2>4 DEF CleanOriginal, CommitInv, MarkerPhase
    <3> QED BY <2>4, <3>1 DEF CleanOriginal, TypeOK
  <2>5. CASE Staging \/ Owner \/ Failure
      BY <2>1, <2>5 DEF Staging, StageBegin, StagePublish, Restart, Owner, OwnerCreates, LoadRejected,
            Failure, SanitizeTorn, InstallFails, UndoFails, RollbackFails, ConfirmFails,
            StageMergeTorn, StagePublishFails, Crash, disk
  <2>6. CASE Boot \/ \E k \in Kinds : RecoverUnconfirmed(k)
      BY <2>1, <2>6 DEF Boot, RecoverUnconfirmed, RecoverRefuses, RecoverCommitted,
            RecoverUncommitted, RecoverStale, disk
  <2>7. CASE Install \/ Undo
      BY <2>1, <2>2, <2>3, <2>7 DEF Install, ApplyPendingRestore, ApplyMergeSkips, ApplyPendingMerge,
            InstallFile, FinalizeInstall, Undo, UndoInstalled, UndoInstalledDone, UndoDone, disk
  <2>8. CASE Rollback \/ Confirm
      BY <2>1, <2>3, <2>4, <2>8 DEF Rollback, ReturnToStaging, NothingToRestore, RollbackBlocked,
            DropRollback, DropState, Confirm, LoadDone, CreateMarker, WriteMarker, CleanApplied,
            CleanMarker, CleanDone, disk
  <2> QED BY <2>5, <2>6, <2>7, <2>8 DEF Next, Startup
<1>2. Spec => [][Kept]_vars
    BY <1>1, CommitInvariance, PTL DEF Spec
<1> QED BY <1>2 DEF OriginalsKept

-----------------------------------------------------------------------------
(* What startup gives up on. *)

\* The files a restore has moved aside, through every step.
LEMMA MovedAsideStep ==
    ASSUME MaxIOErrors <= 1, IInv, MovedAside, [Next]_vars
    PROVE  MovedAside'
<1> DEFINE R == "restore"
<1>0. /\ R \in Kinds /\ cur \in Kinds
      /\ orig \in [Kinds -> [Files -> Nat]] /\ staged \in [Kinds -> [Files -> Nat]]
      /\ data \in [Files -> Nat] /\ stage \in [Kinds -> {"none", "pending", "applied"}]
      /\ marker \in [Kinds -> {"none", "torn", "ok"}]
    BY KindsFacts DEF IInv, TypeOK
<1>1. ASSUME UNCHANGED <<data, orig, incl, staged>>, Uncommitted(R)' => Uncommitted(R)
      PROVE  MovedAside'
    BY <1>1 DEF MovedAside
<1>3. ASSUME ~Uncommitted(R)' PROVE MovedAside'
    BY <1>3 DEF MovedAside
<1>4. ASSUME cur # R, cur \in rb PROVE ~Uncommitted(R)
    BY <1>0, <1>4, KindsFacts DEF IInv, IParts, Exclusive, TransactionExists, Uncommitted
<1>5. CASE Boot \/ \E k \in Kinds : RecoverUnconfirmed(k)
    BY <1>0, <1>1, <1>5 DEF Boot, RecoverUnconfirmed, RecoverRefuses, RecoverCommitted,
          RecoverUncommitted, RecoverStale, disk, manifest, Uncommitted
<1>6. CASE ApplyPendingRestore
  <2>1. "restore" \notin rb => \A f \in Files : orig[R][f] = Absent
      BY KindsFacts DEF IInv, IParts, DiskOK
  <2>2. CASE rb' = rb
      BY <1>1, <1>6, <2>2 DEF ApplyPendingRestore, manifest, Uncommitted
  <2>3. CASE "restore" \notin rb
      BY <1>6, <2>1, <2>3 DEF ApplyPendingRestore, MovedAside
  <2> QED BY <1>6, <2>2, <2>3 DEF ApplyPendingRestore
<1>7. CASE ApplyMergeSkips
    BY <1>1, <1>7 DEF ApplyMergeSkips, disk, manifest, Uncommitted
<1>8. CASE ApplyPendingMerge
    BY <1>3, <1>8 DEF ApplyPendingMerge, BeginInstall, MergeApplicable, TransactionExists, Uncommitted
<1>9. ASSUME NEW f \in Files, MoveAside(f) \/ InstallFile(f) \/ UndoInstalled(f) \/ UndoMoved(f)
                              \/ ReturnToStaging(f) \/ RestoreOriginal(f)
      PROVE  MovedAside'
  <2>1. /\ cur \in rb /\ UNCHANGED <<stage, rb, marker, incl>>
      BY <1>9 DEF MoveAside, InstallFile, UndoInstalled, UndoMoved, ReturnToStaging, RestoreOriginal,
            manifest, IInv, IParts, InstallPhase, RollbackPhase
  <2>2. CASE cur # R
      BY <1>3, <1>4, <2>1, <2>2 DEF Uncommitted
  <2>3. CASE cur = R
    <3>1. \A g \in Files : g # f => data'[g] = data[g] /\ orig'[R][g] = orig[R][g]
                                    /\ staged'[R][g] = staged[R][g]
        BY <1>0, <1>9, <2>3 DEF MoveAside, InstallFile, UndoInstalled, UndoMoved, ReturnToStaging,
              RestoreOriginal
    <3>2. \/ data'[f] = Absent
          \/ f \in incl[R] /\ staged'[R][f] = Absent
          \/ orig'[R][f] = Absent
        BY <1>0, <1>9, <2>3 DEF MoveAside, InstallFile, UndoInstalled, UndoMoved, ReturnToStaging,
              RestoreOriginal
    <3> QED BY <2>1, <3>1, <3>2 DEF MovedAside, Uncommitted
  <2> QED BY <2>2, <2>3
<1>10. CASE FinalizeInstall
  <2>1. cur \in rb /\ stage[cur] = "pending"
      BY <1>10 DEF FinalizeInstall, IInv, IParts, InstallPhase
  <2> QED BY <1>0, <1>1, <1>10, <2>1 DEF FinalizeInstall, manifest, Uncommitted
<1>11. CASE UndoInstalledDone \/ UndoDone
    BY <1>1, <1>11 DEF UndoInstalledDone, UndoDone, disk, manifest, Uncommitted
<1>12. CASE \/ \E f \in Files : NothingToRestore(f) \/ RollbackBlocked(f)
            \/ DropRollback \/ DropState
    BY <1>0, <1>1, <1>12 DEF NothingToRestore, RollbackBlocked, DropRollback, DropState, disk, manifest,
          Uncommitted
<1>13. CASE Confirm
  <2>1. CASE LoadDone \/ WriteMarker \/ CleanApplied
      BY <1>0, <1>1, <2>1 DEF LoadDone, WriteMarker, CleanApplied, disk, manifest, Uncommitted
  <2>3. ASSUME NEW k \in Kinds, CreateMarker(k) PROVE MovedAside'
    <3>1. marker[k] = "none"
        BY <2>3 DEF CreateMarker, IInv, IParts, CommitPhase
    <3> QED BY <1>0, <1>1, <2>3, <3>1 DEF CreateMarker, manifest, Uncommitted
  <2>2. CASE CleanMarker \/ (\E f \in Files : CleanOriginal(f)) \/ CleanDone
    <3>1. cur \in rb /\ stage[cur] = "none" /\ stage' = stage
        BY <2>2 DEF CleanMarker, CleanOriginal, CleanDone, IInv, IParts, CommitPhase
    <3>2. CASE cur = R
        BY <1>3, <3>1, <3>2 DEF Uncommitted
    <3>3. CASE cur # R
      <4>1. stage[R] = "none"
          BY <1>0, <3>1, <3>3, KindsFacts DEF IInv, IParts, Exclusive, TransactionExists
      <4> QED BY <1>3, <3>1, <4>1 DEF Uncommitted
    <3> QED BY <3>2, <3>3
  <2> QED BY <1>13, <2>1, <2>2, <2>3 DEF Confirm
<1>14. CASE Staging
  <2>1. R \notin rb
      BY <1>0, <1>14 DEF Staging, StageBegin, StagePublish, Restart, IInv, IParts, IdlePhase, Idle
  <2>2. rb' = rb
      BY <1>14 DEF Staging, StageBegin, StagePublish, Restart, disk
  <2> QED BY <1>3, <2>1, <2>2 DEF Uncommitted
<1>15. ASSUME NEW f \in Files, OwnerCreates(f) PROVE MovedAside'
  <2>1. /\ UNCHANGED <<stage, rb, marker, incl, staged, orig>>
        /\ data[f] = Absent /\ data' = [data EXCEPT ![f] = Fresh]
      BY <1>15 DEF OwnerCreates, disk, manifest
  <2>2. CASE pc = "running"
      BY <1>0, <1>3, <2>1, <2>2 DEF IInv, IParts, IdlePhase, Idle, Uncommitted
  <2>3. CASE pc = "load" /\ f \in OwnerFiles
    <3>1. Uncommitted(R) => f \notin incl[R]
      <4>1. Uncommitted(R) => Ready(R)
          BY <1>0, <2>3 DEF IInv, IParts, CommitPhase, Idle, Uncommitted
      <4>2. Uncommitted(R) => txn[R] # Absent
          BY <1>0 DEF IInv, IParts, NumbersOK, TypeOK, Uncommitted, Fresh, Absent
      <4> QED BY <2>1, <4>1, <4>2 DEF Ready
    <3> QED BY <1>0, <2>1, <2>3, <3>1 DEF MovedAside, Uncommitted
  <2> QED BY <1>15, <2>2, <2>3 DEF OwnerCreates
<1>16. CASE \E k \in Kinds : LoadRejected(k)
    BY <1>1, <1>16 DEF LoadRejected, disk, manifest, Uncommitted
<1>17. CASE Failure
    BY <1>1, <1>17 DEF Failure, SanitizeTorn, InstallFails, UndoFails, RollbackFails, ConfirmFails,
          StageMergeTorn, StagePublishFails, Crash, disk, manifest, Uncommitted
<1>18. CASE UNCHANGED vars
    BY <1>1, <1>18 DEF vars, disk, manifest, Uncommitted
<1> QED BY <1>5, <1>6, <1>7, <1>8, <1>9, <1>10, <1>11, <1>12, <1>13, <1>14, <1>15, <1>16, <1>17, <1>18
       DEF Next, Startup, Install, Undo, Rollback, Owner

(***************************************************************************)
(* RefusalsExplained: startup gives up only on a marker that was not       *)
(* written to the end, on a rollback directory whose marker went first,    *)
(* and on a file that its owner has made anew beside the one moved aside.  *)
(* The rollback of a merge is never blocked.                               *)
(***************************************************************************)
THEOREM RefusalsAreExplained == ASSUME MaxIOErrors <= 1 PROVE Spec => []RefusalsExplained
<1>1. Init => MovedAside /\ RefusalsExplained
    BY DEF Init, MovedAside, Uncommitted, RefusalsExplained
<1>2. IInv /\ MovedAside /\ RefusalsExplained /\ [Next]_vars => RefusalsExplained'
  <2> SUFFICES ASSUME IInv, MovedAside, RefusalsExplained, [Next]_vars, pc' = "refused"
               PROVE  RefusalsExplained'
      BY DEF RefusalsExplained
  <2>1. CASE UNCHANGED vars
      BY <2>1 DEF vars, disk, manifest, RefusalsExplained
  <2>2. ASSUME NEW k \in Kinds, RecoverRefuses(k) PROVE RefusalsExplained'
      BY <2>2 DEF RecoverRefuses, disk, RefusalsExplained
  <2>3. ASSUME NEW f \in Files, RollbackBlocked(f) PROVE RefusalsExplained'
    <3>1. /\ UNCHANGED <<rb, marker, stage, incl, orig, data>>
          /\ orig[cur][f] # Absent /\ data[f] # Absent /\ ~ReturnsToStaging(cur, f)
        BY <2>3 DEF RollbackBlocked, disk, manifest
    <3>2. cur \in Kinds /\ cur \in rb /\ stage[cur] # "none" /\ marker[cur] = "none"
        BY <2>3 DEF RollbackBlocked, IInv, IParts, TypeOK, RollbackPhase
    <3>3. cur # "merge"
      <4> SUFFICES ASSUME cur = "merge" PROVE FALSE
          OBVIOUS
      <4>1. f \in MergeFiles /\ incl[cur] = MergeFiles
          BY <3>1, <3>2 DEF IInv, IParts, DiskOK, LoopFiles
      <4>2. staged[cur][f] = Absent
          BY <3>1, <3>2, <4>1 DEF IInv, IParts, MergeContents, Uncommitted
      <4> QED BY <3>1, <4>1, <4>2 DEF ReturnsToStaging, Installed
    <3>4. f \in OwnerFiles \ incl[cur] /\ data[f] = Fresh
        BY <3>1, <3>2, <3>3, KindsFacts DEF MovedAside, Uncommitted, ReturnsToStaging, Installed
    <3> QED BY <3>1, <3>2, <3>4 DEF RefusalsExplained
  <2>4. ~Staging /\ ~Owner /\ ~Failure
      BY DEF Staging, StageBegin, StagePublish, Restart, Owner, OwnerCreates, LoadRejected,
            Failure, SanitizeTorn, InstallFails, UndoFails, RollbackFails, ConfirmFails,
            StageMergeTorn, StagePublishFails, Crash, AfterRollback, AfterRecover
  <2>5. ~Boot /\ ~Install /\ ~Undo /\ ~Confirm
      BY DEF Boot, Install, ApplyPendingRestore, BeginInstall, ApplyMergeSkips, ApplyPendingMerge,
            MoveAside, InstallFile, FinalizeInstall, Undo, UndoInstalled, UndoMoved,
            UndoInstalledDone, UndoDone, Confirm, LoadDone, CreateMarker, WriteMarker, CleanApplied,
            CleanMarker, CleanOriginal, CleanDone, AfterRollback, AfterRecover
  <2>6. ASSUME NEW k \in Kinds, RecoverUnconfirmed(k) PROVE RecoverRefuses(k)
      BY <2>6 DEF RecoverUnconfirmed, RecoverCommitted, RecoverUncommitted, RecoverStale, AfterRecover
  <2>7. ASSUME Rollback PROVE \E f \in Files : RollbackBlocked(f)
      BY <2>7 DEF Rollback, ReturnToStaging, RestoreOriginal, NothingToRestore, DropRollback,
            DropState, AfterRollback, AfterRecover
  <2> QED BY <2>1, <2>2, <2>3, <2>4, <2>5, <2>6, <2>7 DEF Next, Startup
<1> QED BY <1>1, <1>2, Invariance, MovedAsideStep, PTL DEF Spec
=============================================================================
