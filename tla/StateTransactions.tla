------------------------- MODULE StateTransactions -------------------------
(***************************************************************************)
(* The two transactions that replace persisted state at startup: a staged  *)
(* backup restore (backup/restore.go) and a staged node merge              *)
(* (nodemerge/), driven by the startup sequence of main.go.                *)
(*                                                                         *)
(* Each kind k of transaction owns three directories under data/: the      *)
(* staged one, renamed from pending to applied, and the rollback one, that *)
(* holds the files moved aside and, once committed, a marker file.  Every  *)
(* rename, removal and marker write is a step, and the process may crash   *)
(* between any two of them.  Contents are abstracted to their ORIGIN: the  *)
(* number of the transaction that made them, Fresh for a file its owner    *)
(* wrote by itself, Absent for no file.                                    *)
(***************************************************************************)
EXTENDS Naturals, FiniteSets

CONSTANTS
    Files,          \* dataFileNames
    MergeFiles,     \* stateFileNames of nodemerge
    OwnerFiles,     \* files that startup itself writes before the commit
    Archives,       \* the sets of files an uploaded archive may hold
    MaxTxns,        \* bound: transactions ever staged
    MaxCrashes,     \* bound: process crashes
    MaxIOErrors     \* bound: file operations that fail

ASSUME FilesAssumption ==
    /\ MergeFiles \subseteq Files
    /\ OwnerFiles \subseteq Files
    /\ Archives \subseteq SUBSET Files

ASSUME BoundsAssumption ==
    /\ MaxTxns \in Nat
    /\ MaxCrashes \in Nat
    /\ MaxIOErrors \in Nat

VARIABLES
    \* the data directory, on disk
    data,           \* origin of every state file
    stage,          \* k -> "none" | "pending" | "applied": the staged directory
    damaged,        \* kinds whose pending directory no longer loads
    txn,            \* k -> number of the staged transaction
    incl,           \* k -> files the staged directory lists
    staged,         \* k -> origin of the staged files
    rb,             \* kinds whose rollback directory exists
    marker,         \* k -> "none" | "torn" | "ok": the commit marker
    orig,           \* k -> origin of the files moved aside
    \* the process
    pc,             \* where startup is
    cur,            \* the kind of transaction at work
    todo,           \* files the current loop has still to visit
    why,            \* what the rollback or the cleanup is for
    applied,        \* kinds installed by this process (restoreApplied, mergeApplied)
    \* counters
    lastTxn,        \* last transaction staged
    committed,      \* last transaction committed (history variable)
    crashes,
    ioErrors

manifest == <<damaged, txn, incl>>
disk == <<stage, manifest, staged, rb, marker, orig>>
counters == <<lastTxn, committed, crashes, ioErrors>>
vars == <<data, disk, pc, cur, todo, why, applied, counters>>

Kinds == {"restore", "merge"}
Absent == 0
Fresh == 1

TypeOK ==
    /\ data \in [Files -> Nat]
    /\ stage \in [Kinds -> {"none", "pending", "applied"}]
    /\ damaged \subseteq Kinds
    /\ txn \in [Kinds -> Nat]
    /\ incl \in [Kinds -> SUBSET Files]
    /\ staged \in [Kinds -> [Files -> Nat]]
    /\ rb \subseteq Kinds
    /\ marker \in [Kinds -> {"none", "torn", "ok"}]
    /\ orig \in [Kinds -> [Files -> Nat]]
    /\ pc \in {"off", "refused", "recoverMerge", "recoverRestore",
               "applyRestore", "applyMerge", "install", "undoInstalled",
               "undoMoved", "rollback", "dropState", "load", "mark",
               "cleanApplied", "cleanRollback", "running", "publish"}
    /\ cur \in Kinds
    /\ todo \in SUBSET Files
    /\ why \in {"recover", "apply", "applyFailed", "reject", "confirm"}
    /\ applied \subseteq Kinds
    /\ lastTxn \in Nat
    /\ committed \in Nat
    /\ crashes \in Nat
    /\ ioErrors \in Nat

Init ==
    /\ data \in [Files -> {Absent, Fresh}]
    /\ stage = [k \in Kinds |-> "none"]
    /\ damaged = {}
    /\ txn = [k \in Kinds |-> 0]
    /\ incl = [k \in Kinds |-> {}]
    /\ staged = [k \in Kinds |-> [f \in Files |-> Absent]]
    /\ rb = {}
    /\ marker = [k \in Kinds |-> "none"]
    /\ orig = [k \in Kinds |-> [f \in Files |-> Absent]]
    /\ pc = "off"
    /\ cur = "merge"
    /\ todo = {}
    /\ why = "recover"
    /\ applied = {}
    /\ lastTxn = Fresh
    /\ committed = Fresh
    /\ crashes = 0
    /\ ioErrors = 0

-----------------------------------------------------------------------------
(* What the file operations look at. *)

\* The files the loops of transaction kind k visit.
LoopFiles(k) == IF k = "restore" THEN Files ELSE MergeFiles

\* inspectTransactionDirs, transactionExistsLocked
TransactionExists(k) == stage[k] # "none" \/ k \in rb

\* The restored or merged file f stands in data/ and not in the staging.
Installed(k, f) == f \in incl[k] /\ staged[k][f] = Absent /\ data[f] # Absent

\* A file the loop has moved aside and not yet replaced.
HalfDone(f) == f \in todo /\ orig[cur][f] # Absent

\* An I/O error, within the bound.
IOError == /\ ioErrors < MaxIOErrors
           /\ ioErrors' = ioErrors + 1
           /\ UNCHANGED <<lastTxn, committed, crashes>>

\* Where startup goes after recovering transaction kind k.
AfterRecover(k) == IF k = "merge" THEN "recoverRestore" ELSE "applyRestore"

\* Where startup goes after the rollback or the undo of transaction kind k.
AfterRollback(k) ==
    CASE why = "recover" -> AfterRecover(k)
      [] why \in {"apply", "applyFailed"} -> IF k = "restore" THEN "applyMerge" ELSE "load"
      [] OTHER -> "off"

-----------------------------------------------------------------------------
(* Starting up: recovery of what the previous process left. *)

\* The process starts; restoreApplied and mergeApplied are fresh variables.
Boot ==
    /\ pc \in {"off", "refused"}
    /\ pc' = "recoverMerge"
    /\ applied' = {}
    /\ UNCHANGED <<data, disk, cur, todo, why, counters>>

\* A rollback directory that recovery gives up on: the process ends.
RecoverRefuses(k) ==
    /\ k \in rb
    /\ \/ marker[k] = "torn"
       \/ marker[k] = "none" /\ stage[k] = "none"
    /\ pc' = "refused"
    /\ UNCHANGED <<data, disk, cur, todo, why, applied, counters>>

\* The marker is there: the commit is finished by cleaning up.
RecoverCommitted(k) ==
    /\ k \in rb
    /\ marker[k] = "ok"
    /\ cur' = k
    /\ why' = "recover"
    /\ pc' = "cleanApplied"
    /\ UNCHANGED <<data, disk, todo, applied, counters>>

\* Mutant: recovery does not look for the commit marker.
RecoverIgnoringMarker(k) ==
    /\ k \in rb
    /\ stage[k] # "none"
    /\ cur' = k
    /\ why' = "recover"
    /\ todo' = LoopFiles(k)
    /\ pc' = "rollback"
    /\ UNCHANGED <<data, disk, applied, counters>>

\* No marker: what was installed is rolled back.
RecoverUncommitted(k) ==
    /\ k \in rb
    /\ marker[k] = "none"
    /\ stage[k] # "none"
    /\ cur' = k
    /\ why' = "recover"
    /\ todo' = LoopFiles(k)
    /\ pc' = "rollback"
    /\ UNCHANGED <<data, disk, applied, counters>>

\* Only an applied directory is left, or nothing that recovery looks at.
RecoverStale(k) ==
    /\ k \notin rb
    /\ stage' = [stage EXCEPT ![k] = IF @ = "applied" THEN "none" ELSE @]
    /\ pc' = AfterRecover(k)
    /\ UNCHANGED <<data, manifest, staged, rb, marker, orig, cur, todo, why, applied, counters>>

RecoverUnconfirmed(k) ==
    /\ pc = IF k = "merge" THEN "recoverMerge" ELSE "recoverRestore"
    /\ \/ RecoverRefuses(k)
       \/ RecoverCommitted(k)
       \/ RecoverUncommitted(k)
       \/ RecoverStale(k)

-----------------------------------------------------------------------------
(* Installing a staged transaction. *)

\* The rollback directory is made and the loop over the files begins.
BeginInstall(k) ==
    /\ rb' = rb \cup {k}
    /\ cur' = k
    /\ why' = "apply"
    /\ todo' = LoopFiles(k)
    /\ pc' = "install"

ApplyPendingRestore ==
    /\ pc = "applyRestore"
    /\ IF "restore" \in rb \/ stage["restore"] # "pending" \/ "restore" \in damaged
       THEN /\ pc' = "applyMerge"
            /\ UNCHANGED <<rb, cur, why, todo>>
       ELSE BeginInstall("restore")
    /\ UNCHANGED <<data, stage, manifest, staged, marker, orig, applied, counters>>

\* A crash while a staged file is rewritten in place by loadPendingRestore.
SanitizeTorn ==
    /\ pc = "applyRestore"
    /\ stage["restore"] = "pending" /\ "restore" \notin rb
    /\ crashes < MaxCrashes
    /\ crashes' = crashes + 1
    /\ damaged' = damaged \cup {"restore"}
    /\ pc' = "off"
    /\ UNCHANGED <<data, stage, txn, incl, staged, rb, marker, orig,
                   cur, todo, why, applied, lastTxn, committed, ioErrors>>

(***************************************************************************)
(* nodemerge.ApplyPending: a restore in any phase stops it; the merged     *)
(* files are computed and staged, then the originals are moved aside.  The *)
(* instruction may also no longer fit the active nodes (ApplyMergeSkips).  *)
(***************************************************************************)
MergeApplicable ==
    /\ ~TransactionExists("restore")
    /\ stage["merge"] = "pending" /\ "merge" \notin rb /\ "merge" \notin damaged
    /\ \A f \in MergeFiles : data[f] # Absent

ApplyMergeSkips ==
    /\ pc = "applyMerge"
    /\ pc' = "load"
    /\ UNCHANGED <<data, disk, cur, todo, why, applied, counters>>

ApplyPendingMerge ==
    /\ pc = "applyMerge"
    /\ MergeApplicable
    /\ staged' = [staged EXCEPT !["merge"] =
           [f \in Files |-> IF f \in MergeFiles THEN txn["merge"] ELSE Absent]]
    /\ BeginInstall("merge")
    /\ UNCHANGED <<data, stage, manifest, marker, orig, applied, counters>>

\* The original is renamed into the rollback directory.
MoveAside(f) ==
    /\ pc = "install"
    /\ f \in todo
    /\ ~ \E g \in Files : HalfDone(g)
    /\ data[f] # Absent
    /\ orig' = [orig EXCEPT ![cur][f] = data[f]]
    /\ data' = [data EXCEPT ![f] = Absent]
    /\ UNCHANGED <<stage, manifest, staged, rb, marker, pc, cur, todo, why, applied, counters>>

\* The staged file is renamed into place, if the transaction has one.
InstallFile(f) ==
    /\ pc = "install"
    /\ f \in todo
    /\ ~ \E g \in Files \ {f} : HalfDone(g)
    /\ data[f] = Absent
    /\ data' = IF f \in incl[cur] THEN [data EXCEPT ![f] = staged[cur][f]] ELSE data
    /\ staged' = IF f \in incl[cur] THEN [staged EXCEPT ![cur][f] = Absent] ELSE staged
    /\ todo' = todo \ {f}
    /\ UNCHANGED <<stage, manifest, rb, marker, orig, pc, cur, why, applied, counters>>

\* The staged directory is renamed: installed, not yet committed.
FinalizeInstall ==
    /\ pc = "install"
    /\ todo = {}
    /\ stage' = [stage EXCEPT ![cur] = "applied"]
    /\ applied' = applied \cup {cur}
    /\ pc' = "load"
    /\ UNCHANGED <<data, manifest, staged, rb, marker, orig, cur, todo, why, counters>>

(***************************************************************************)
(* A rename or chmod fails: the restore runs its own undo closure, the     *)
(* merge runs the rollback of recovery.                                    *)
(***************************************************************************)
InstallFails ==
    /\ pc = "install"
    /\ IOError
    /\ IF cur = "restore"
       THEN /\ pc' = "undoInstalled"
            /\ todo' = {f \in Files : Installed(cur, f)}
       ELSE /\ pc' = "rollback"
            /\ todo' = LoopFiles(cur)
    /\ UNCHANGED <<data, disk, cur, why, applied>>

\* The undo closure returns an installed file to the staging ...
UndoInstalled(f) ==
    /\ pc = "undoInstalled"
    /\ f \in todo
    /\ staged' = [staged EXCEPT ![cur][f] = data[f]]
    /\ data' = [data EXCEPT ![f] = Absent]
    /\ todo' = todo \ {f}
    /\ UNCHANGED <<stage, manifest, rb, marker, orig, pc, cur, why, applied, counters>>

UndoInstalledDone ==
    /\ pc = "undoInstalled"
    /\ todo = {}
    /\ todo' = {f \in Files : orig[cur][f] # Absent}
    /\ pc' = "undoMoved"
    /\ UNCHANGED <<data, disk, cur, why, applied, counters>>

\* ... and then puts every original back.
UndoMoved(f) ==
    /\ pc = "undoMoved"
    /\ f \in todo
    /\ data' = [data EXCEPT ![f] = orig[cur][f]]
    /\ orig' = [orig EXCEPT ![cur][f] = Absent]
    /\ todo' = todo \ {f}
    /\ UNCHANGED <<stage, manifest, staged, rb, marker, pc, cur, why, applied, counters>>

\* The closure records an error and goes on with the next file.
UndoFails(f) ==
    /\ pc \in {"undoInstalled", "undoMoved"}
    /\ f \in todo
    /\ IOError
    /\ todo' = todo \ {f}
    /\ why' = "applyFailed"
    /\ UNCHANGED <<data, disk, pc, cur, applied>>

\* Mutant: the rollback directory is removed even after the undo failed.
UndoDoneAnyway ==
    /\ pc = "undoMoved"
    /\ todo = {}
    /\ rb' = rb \ {cur}
    /\ orig' = [orig EXCEPT ![cur] = [f \in Files |-> Absent]]
    /\ pc' = AfterRollback(cur)
    /\ UNCHANGED <<data, stage, manifest, staged, marker,
                   cur, todo, why, applied, counters>>

\* The deferred removal of the rollback directory, skipped after an error.
UndoDone ==
    /\ pc = "undoMoved"
    /\ todo = {}
    /\ rb' = IF why = "applyFailed" THEN rb ELSE rb \ {cur}
    /\ pc' = AfterRollback(cur)
    /\ UNCHANGED <<data, stage, manifest, staged, marker, orig,
                   cur, todo, why, applied, counters>>

-----------------------------------------------------------------------------
(* rollbackRestoreTransactionLocked and rollbackTransactionLocked. *)

\* Mutant: only a complete installation is taken back.
ReturnsFromAppliedOnly(k, f) == stage[k] = "applied" /\ Installed(k, f)

\* A merge leaves alone a file whose original it did not move aside.
ReturnsToStaging(k, f) ==
    Installed(k, f) /\ (k = "restore" \/ orig[k][f] # Absent)

ReturnToStaging(f) ==
    /\ pc = "rollback"
    /\ f \in todo
    /\ ReturnsToStaging(cur, f)
    /\ staged' = [staged EXCEPT ![cur][f] = data[f]]
    /\ data' = [data EXCEPT ![f] = Absent]
    /\ UNCHANGED <<stage, manifest, rb, marker, orig, pc, cur, todo, why, applied, counters>>

RestoreOriginal(f) ==
    /\ pc = "rollback"
    /\ f \in todo
    /\ orig[cur][f] # Absent
    /\ data[f] = Absent
    /\ data' = [data EXCEPT ![f] = orig[cur][f]]
    /\ orig' = [orig EXCEPT ![cur][f] = Absent]
    /\ todo' = todo \ {f}
    /\ UNCHANGED <<stage, manifest, staged, rb, marker, pc, cur, why, applied, counters>>

NothingToRestore(f) ==
    /\ pc = "rollback"
    /\ f \in todo
    /\ orig[cur][f] = Absent
    /\ ~ReturnsToStaging(cur, f)
    /\ todo' = todo \ {f}
    /\ UNCHANGED <<data, disk, pc, cur, why, applied, counters>>

\* Mutant: a blocked rollback is tried again instead of reported.
RollbackRetries(f) ==
    /\ pc = "rollback"
    /\ f \in todo
    /\ orig[cur][f] # Absent
    /\ data[f] # Absent
    /\ ~ReturnsToStaging(cur, f)
    /\ UNCHANGED vars

\* "target unexpectedly exists while its original is staged"
RollbackBlocked(f) ==
    /\ pc = "rollback"
    /\ f \in todo
    /\ orig[cur][f] # Absent
    /\ data[f] # Absent
    /\ ~ReturnsToStaging(cur, f)
    /\ pc' = IF why = "apply" THEN AfterRollback(cur) ELSE "refused"
    /\ UNCHANGED <<data, disk, cur, todo, why, applied, counters>>

\* An I/O error ends the rollback: a warning inside ApplyPending, else fatal.
RollbackFails ==
    /\ pc \in {"rollback", "dropState"}
    /\ IOError
    /\ pc' = IF why = "apply" THEN AfterRollback(cur) ELSE "off"
    /\ UNCHANGED <<data, disk, cur, todo, why, applied>>

\* Mutant: the staged directory is dropped whether it is pending or applied.
DropRollbackAndPending ==
    /\ pc = "rollback"
    /\ todo = {}
    /\ rb' = rb \ {cur}
    /\ pc' = "dropState"
    /\ UNCHANGED <<data, stage, manifest, staged, marker, orig,
                   cur, todo, why, applied, counters>>

\* Mutant: the rollback directory goes before every file was visited.
DropRollbackEarly ==
    /\ pc = "rollback"
    /\ rb' = rb \ {cur}
    /\ pc' = IF stage[cur] = "pending" THEN AfterRollback(cur) ELSE "dropState"
    /\ UNCHANGED <<data, stage, manifest, staged, marker, orig,
                   cur, todo, why, applied, counters>>

\* The empty rollback directory goes; a pending directory is kept.
DropRollback ==
    /\ pc = "rollback"
    /\ todo = {}
    /\ rb' = rb \ {cur}
    /\ pc' = IF stage[cur] = "pending" THEN AfterRollback(cur) ELSE "dropState"
    /\ UNCHANGED <<data, stage, manifest, staged, marker, orig,
                   cur, todo, why, applied, counters>>

DropState ==
    /\ pc = "dropState"
    /\ stage' = [stage EXCEPT ![cur] = "none"]
    /\ pc' = AfterRollback(cur)
    /\ UNCHANGED <<data, manifest, staged, rb, marker, orig, cur, todo, why, applied, counters>>

-----------------------------------------------------------------------------
(* The owners load their files; the transaction commits or is rejected. *)

\* An owner writes a file for the first time: SyncProxies while loading, any
\* owner once the service runs.
OwnerCreates(f) ==
    /\ \/ pc = "load" /\ f \in OwnerFiles
       \/ pc = "running"
    /\ data[f] = Absent
    /\ data' = [data EXCEPT ![f] = Fresh]
    /\ UNCHANGED <<disk, pc, cur, todo, why, applied, counters>>

\* handleStateLoadError after a transaction was applied: roll back and exit.
LoadRejected(k) ==
    /\ pc = "load"
    /\ k \in applied
    /\ cur' = k
    /\ why' = "reject"
    /\ todo' = LoopFiles(k)
    /\ pc' = "rollback"
    /\ UNCHANGED <<data, disk, applied, counters>>

\* Mutant: the service runs without confirming what it applied.
LoadDoneUnconfirmed ==
    /\ pc = "load"
    /\ pc' = "running"
    /\ UNCHANGED <<data, disk, cur, todo, why, applied, counters>>

\* Every owner has loaded; with no transaction applied the service runs.
LoadDone ==
    /\ pc = "load"
    /\ applied = {}
    /\ pc' = "running"
    /\ UNCHANGED <<data, disk, cur, todo, why, applied, counters>>

\* The commit marker is created empty ...
CreateMarker(k) ==
    /\ pc = "load"
    /\ k \in applied
    /\ marker' = [marker EXCEPT ![k] = "torn"]
    /\ cur' = k
    /\ why' = "confirm"
    /\ pc' = "mark"
    /\ UNCHANGED <<data, stage, manifest, staged, rb, orig, todo, applied, counters>>

\* ... and then written and synced: the commit point.
WriteMarker ==
    /\ pc = "mark"
    /\ marker' = [marker EXCEPT ![cur] = "ok"]
    /\ committed' = txn[cur]
    /\ pc' = "cleanApplied"
    /\ UNCHANGED <<data, stage, manifest, staged, rb, orig,
                   cur, todo, why, applied, lastTxn, crashes, ioErrors>>

\* An I/O error while committing or cleaning up is fatal.
ConfirmFails ==
    /\ pc \in {"mark", "cleanApplied", "cleanRollback"}
    /\ IOError
    /\ pc' = "off"
    /\ UNCHANGED <<data, disk, cur, todo, why, applied>>

\* Cleanup removes the applied directory first (a pending one is kept) ...
CleanApplied ==
    /\ pc = "cleanApplied"
    /\ stage' = [stage EXCEPT ![cur] = IF @ = "applied" THEN "none" ELSE @]
    /\ pc' = "cleanRollback"
    /\ UNCHANGED <<data, manifest, staged, rb, marker, orig, cur, todo, why, applied, counters>>

\* ... then the rollback directory, entry by entry in no particular order.
CleanMarker ==
    /\ pc = "cleanRollback"
    /\ marker[cur] # "none"
    /\ marker' = [marker EXCEPT ![cur] = "none"]
    /\ UNCHANGED <<data, stage, manifest, staged, rb, orig,
                   pc, cur, todo, why, applied, counters>>

CleanOriginal(f) ==
    /\ pc = "cleanRollback"
    /\ orig[cur][f] # Absent
    /\ orig' = [orig EXCEPT ![cur][f] = Absent]
    /\ UNCHANGED <<data, stage, manifest, staged, rb, marker,
                   pc, cur, todo, why, applied, counters>>

CleanDone ==
    /\ pc = "cleanRollback"
    /\ marker[cur] = "none"
    /\ \A f \in Files : orig[cur][f] = Absent
    /\ rb' = rb \ {cur}
    /\ pc' = IF why = "confirm" THEN "running" ELSE AfterRecover(cur)
    /\ UNCHANGED <<data, stage, manifest, staged, marker, orig,
                   cur, todo, why, applied, counters>>

-----------------------------------------------------------------------------
(* The running service: the administrator stages the next transaction. *)

\* AcquireRestoreGuard, ensureNoRestoreTransaction and the checks of Stage.
StageGuard(k) ==
    IF k = "restore"
    THEN ~TransactionExists("merge")
    ELSE /\ ~TransactionExists("restore")
         /\ stage["merge"] # "applied" /\ "merge" \notin rb
         /\ stage["merge"] = "pending" => "merge" \notin damaged

(***************************************************************************)
(* Staging begins; an instruction already pending is removed first (a      *)
(* pending restore is renamed out of the way).                             *)
(***************************************************************************)
StageBegin(k) ==
    /\ pc = "running"
    /\ lastTxn < MaxTxns + Fresh
    /\ StageGuard(k)
    /\ stage' = [stage EXCEPT ![k] = "none"]
    /\ cur' = k
    /\ pc' = "publish"
    /\ UNCHANGED <<data, manifest, staged, rb, marker, orig, todo, why, applied, counters>>

\* A crash inside the removal of the pending merge, its instruction gone.
StageMergeTorn ==
    /\ pc = "running"
    /\ stage["merge"] = "pending"
    /\ StageGuard("merge")
    /\ lastTxn < MaxTxns + Fresh
    /\ crashes < MaxCrashes
    /\ crashes' = crashes + 1
    /\ damaged' = damaged \cup {"merge"}
    /\ pc' = "off"
    /\ UNCHANGED <<data, stage, txn, incl, staged, rb, marker, orig,
                   cur, todo, why, applied, lastTxn, committed, ioErrors>>

\* The complete staging directory is renamed to the pending one.
StagePublish(inc) ==
    /\ pc = "publish"
    /\ lastTxn' = lastTxn + 1
    /\ stage' = [stage EXCEPT ![cur] = "pending"]
    /\ damaged' = damaged \ {cur}
    /\ txn' = [txn EXCEPT ![cur] = lastTxn + 1]
    /\ incl' = [incl EXCEPT ![cur] = IF cur = "restore" THEN inc ELSE MergeFiles]
    /\ staged' = [staged EXCEPT ![cur] =
           [f \in Files |-> IF cur = "restore" /\ f \in inc THEN lastTxn + 1 ELSE Absent]]
    /\ pc' = "running"
    /\ UNCHANGED <<data, rb, marker, orig, cur, todo, why, applied,
                   committed, crashes, ioErrors>>

\* Publishing the merge fails after the old instruction is gone.  (A restore
\* renames the old directory back, which leaves everything as it was.)
StagePublishFails ==
    /\ pc = "publish"
    /\ cur = "merge"
    /\ IOError
    /\ pc' = "running"
    /\ UNCHANGED <<data, disk, cur, todo, why, applied>>

\* The operator restarts the service to apply what is staged.
Restart ==
    /\ pc = "running"
    /\ pc' = "off"
    /\ UNCHANGED <<data, disk, cur, todo, why, applied, counters>>

\* The process dies at any point.
Crash ==
    /\ pc \notin {"off", "refused"}
    /\ crashes < MaxCrashes
    /\ crashes' = crashes + 1
    /\ pc' = "off"
    /\ UNCHANGED <<data, disk, cur, todo, why, applied, lastTxn, committed, ioErrors>>

-----------------------------------------------------------------------------
\* The steps of startup that the process takes by itself.
Install ==
    \/ ApplyPendingRestore
    \/ ApplyMergeSkips
    \/ ApplyPendingMerge
    \/ \E f \in Files : MoveAside(f) \/ InstallFile(f)
    \/ FinalizeInstall

Undo ==
    \/ \E f \in Files : UndoInstalled(f) \/ UndoMoved(f)
    \/ UndoInstalledDone
    \/ UndoDone

Rollback ==
    \/ \E f \in Files : \/ ReturnToStaging(f)
                        \/ RestoreOriginal(f)
                        \/ NothingToRestore(f)
                        \/ RollbackBlocked(f)
    \/ DropRollback
    \/ DropState

Confirm ==
    \/ LoadDone
    \/ \E k \in Kinds : CreateMarker(k)
    \/ WriteMarker
    \/ CleanApplied
    \/ CleanMarker
    \/ \E f \in Files : CleanOriginal(f)
    \/ CleanDone

Startup ==
    \/ Boot
    \/ \E k \in Kinds : RecoverUnconfirmed(k)
    \/ Install
    \/ Undo
    \/ Rollback
    \/ Confirm

Staging ==
    \/ \E k \in Kinds : StageBegin(k)
    \/ \E inc \in Archives : StagePublish(inc)
    \/ Restart

Failure ==
    \/ SanitizeTorn
    \/ InstallFails
    \/ \E f \in Files : UndoFails(f)
    \/ RollbackFails
    \/ ConfirmFails
    \/ StageMergeTorn
    \/ StagePublishFails
    \/ Crash

Owner ==
    \/ \E f \in Files : OwnerCreates(f)
    \/ \E k \in Kinds : LoadRejected(k)

Next == Startup \/ Staging \/ Owner \/ Failure

Spec == Init /\ [][Next]_vars

\* The process runs on and is restarted when it ends (restart: unless-stopped).
FairSpec == Spec /\ WF_vars(Startup)
-----------------------------------------------------------------------------
(* What must hold. *)

\* Transaction k is under way and has not been committed.
Uncommitted(k) == k \in rb /\ marker[k] # "ok" /\ stage[k] # "none"

(***************************************************************************)
(* The state the next startup settles on if the process dies now: the      *)
(* originals of an uncommitted transaction, otherwise what is in place.    *)
(***************************************************************************)
Durable ==
    [f \in Files |->
        IF Uncommitted("restore") /\ orig["restore"][f] # Absent
        THEN orig["restore"][f]
        ELSE IF Uncommitted("restore") /\ Installed("restore", f)
        THEN Absent
        ELSE IF Uncommitted("merge") /\ orig["merge"][f] # Absent
        THEN orig["merge"][f]
        ELSE data[f]]

Store == INSTANCE AtomicStateStore WITH store <- Durable, last <- committed

(***************************************************************************)
(* Whatever crashes, failed renames and rejected loads happen, the durable *)
(* state changes only as AtomicStateStore allows: a restore or a merge     *)
(* takes effect as a whole, once, when its marker is written, and every    *)
(* rollback (in ApplyPending, RecoverUnconfirmed, RollbackApplied) gives   *)
(* back exactly the files that were there.                                 *)
(***************************************************************************)
AtomicStore == Store!Spec

(***************************************************************************)
(* A backup restore and a node merge are never both under way: the checks  *)
(* of AcquireRestoreGuard and ensureNoRestoreTransaction suffice.          *)
(***************************************************************************)
Exclusive == ~(TransactionExists("restore") /\ TransactionExists("merge"))

(***************************************************************************)
(* When the service runs, no transaction is left half way: no applied and  *)
(* no rollback directory, and the files in place are the durable ones.     *)
(***************************************************************************)
CleanWhenRunning ==
    pc \in {"running", "publish"} =>
        \A k \in Kinds : k \notin rb /\ stage[k] # "applied" /\ marker[k] = "none"

(***************************************************************************)
(* Startup gives up on three things only: an incomplete marker, a rollback *)
(* directory that lost its marker while it was being removed, and a file   *)
(* moved aside that its owner has made anew while the service was loading. *)
(***************************************************************************)
RefusalsExplained ==
    pc = "refused" =>
        \E k \in rb :
            \/ marker[k] = "torn"
            \/ stage[k] = "none"
            \/ \E f \in OwnerFiles \ incl[k] : orig[k][f] # Absent /\ data[f] = Fresh

(***************************************************************************)
(* A pending transaction is consumed only by being installed or by the     *)
(* administrator replacing it; no recovery or rollback loses it.           *)
(***************************************************************************)
PendingKept ==
    [][\A k \in Kinds : stage[k] = "pending" /\ stage'[k] # "pending"
           => (stage'[k] = "applied" \/ pc = "running")]_vars

(***************************************************************************)
(* A file moved aside by a transaction that has not committed is given up  *)
(* only by being put back in its place, even when the undo of a failed     *)
(* installation fails as well: the deferred removal of ApplyPending never  *)
(* takes the last copy of a file.                                          *)
(***************************************************************************)
OriginalsKept ==
    [][\A k \in Kinds, f \in Files :
           orig[k][f] \notin {Absent, orig'[k][f]} /\ committed # txn[k]
               => data'[f] = orig[k][f]]_vars

(***************************************************************************)
(* README.md: "оборванная транзакция безопасно завершается или             *)
(* откатывается при следующем startup" (a transaction cut off is safely    *)
(* finished or rolled back at the next startup), and a loader error rolls  *)
(* the previous files back: startup never gives up on one.                 *)
(***************************************************************************)
NextStartupSettlesIt == pc # "refused"

\* Every start of the process ends running, or in a refusal to start.
StartupSettles == pc = "off" ~> pc \in {"running", "refused"}
=============================================================================
