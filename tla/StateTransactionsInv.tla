------------------------ MODULE StateTransactionsInv ------------------------
(* The inductive invariant behind AtomicStore, for at most one I/O error.  *)
EXTENDS StateTransactions

\* Transaction k has left nothing on disk that recovery would look at.
Idle(k) == k \notin rb /\ stage[k] # "applied"

\* Transaction k is installed in full and waits for its commit marker.
Ready(k) ==
    /\ k \in rb /\ stage[k] = "applied"
    /\ \A f \in incl[k] : staged[k][f] = Absent /\ data[f] = txn[k]
    /\ \A f \in LoopFiles(k) \ incl[k] : data[f] \in {Absent, Fresh}

\* What the directories of a transaction say about each other.
DiskOK ==
    \A k \in Kinds :
        /\ marker[k] # "none" => k \in rb
        /\ marker[k] = "ok" => stage[k] # "pending"
        /\ marker[k] = "torn" => stage[k] = "applied"
        /\ \A f \in Files : orig[k][f] # Absent => k \in rb /\ f \in LoopFiles(k)
        /\ k = "merge" /\ stage[k] # "none" => incl[k] = MergeFiles

\* A transaction that may still commit is newer than the last committed one.
NumbersOK ==
    /\ Fresh <= committed /\ committed <= lastTxn
    /\ \A k \in Kinds : stage[k] # "none" /\ marker[k] # "ok"
           => committed < txn[k] /\ txn[k] <= lastTxn

\* A file of the archive is in the staging directory or installed.
RestoreContents ==
    LET k == "restore" IN
    stage[k] # "none" /\ marker[k] # "ok" =>
        \A f \in incl[k] :
            \/ staged[k][f] = txn[k]
            \/ staged[k][f] = Absent /\ k \in rb /\ data[f] = txn[k]
            \/ staged[k][f] = Absent /\ k \notin rb /\ stage[k] = "applied"

\* A file of the merge is untouched, moved aside, or replaced.
MergeContents ==
    LET k == "merge" IN
    Uncommitted(k) =>
        \A f \in MergeFiles :
            \/ orig[k][f] = Absent /\ data[f] # Absent
            \/ orig[k][f] # Absent /\ staged[k][f] = txn[k] /\ data[f] = Absent
            \/ orig[k][f] # Absent /\ staged[k][f] = Absent /\ data[f] = txn[k]

InstallPhase ==
    /\ pc \in {"install", "undoInstalled", "undoMoved"} =>
        /\ cur \in rb /\ stage[cur] = "pending" /\ marker[cur] = "none"
        /\ why = "apply"
        /\ todo \subseteq LoopFiles(cur)
    /\ pc = "install" =>
        \A f \in LoopFiles(cur) :
            IF f \in todo
            THEN f \in incl[cur] => staged[cur][f] = txn[cur]
            ELSE IF f \in incl[cur]
            THEN staged[cur][f] = Absent /\ data[f] = txn[cur]
            ELSE data[f] = Absent
    /\ pc \in {"undoInstalled", "undoMoved"} => cur = "restore" /\ ioErrors >= 1
    /\ pc = "undoInstalled" =>
        /\ \A f \in todo : Installed(cur, f)
        /\ \A f \in incl[cur] \ todo : staged[cur][f] = txn[cur]
    /\ pc = "undoMoved" =>
        /\ \A f \in incl[cur] : staged[cur][f] = txn[cur]
        /\ \A f \in Files : f \in todo <=> orig[cur][f] # Absent

RollbackPhase ==
    /\ pc = "rollback" =>
        /\ cur \in rb /\ stage[cur] # "none" /\ marker[cur] = "none"
        /\ why \in {"recover", "apply", "reject"}
        /\ why = "apply" => cur = "merge" /\ stage[cur] = "pending" /\ ioErrors >= 1
        /\ \A f \in Files \ todo :
               /\ orig[cur][f] = Absent
               /\ cur = "restore" /\ f \in incl[cur] => staged[cur][f] = txn[cur]
    /\ pc = "dropState" =>
        /\ cur \notin rb /\ stage[cur] = "applied"
        /\ why \in {"recover", "reject"}

CommitPhase ==
    /\ pc = "load" =>
        \A k \in Kinds : IF k \in applied THEN Ready(k) /\ marker[k] = "none" ELSE Idle(k)
    /\ pc = "mark" => Ready(cur) /\ marker[cur] = "torn" /\ why = "confirm"
    /\ pc \in {"cleanApplied", "cleanRollback"} => why \in {"recover", "confirm"}
    /\ pc = "cleanApplied" => cur \in rb /\ marker[cur] = "ok"
    /\ pc = "cleanRollback" => cur \in rb /\ stage[cur] = "none"

IdlePhase ==
    /\ pc = "recoverRestore" => Idle("merge")
    /\ pc \in {"applyRestore", "applyMerge", "running", "publish"} =>
        \A k \in Kinds : Idle(k)
    /\ pc = "publish" =>
        /\ stage[cur] = "none"
        /\ \A k \in Kinds \ {cur} : ~TransactionExists(k)
    /\ \/ pc \in {"recoverMerge", "recoverRestore", "applyRestore", "applyMerge",
                  "install", "undoInstalled", "undoMoved"}
       \/ pc \in {"rollback", "dropState", "cleanApplied", "cleanRollback"}
             /\ why \in {"recover", "apply"}
       => applied = {}

IParts ==
    /\ Exclusive /\ DiskOK /\ NumbersOK
    /\ RestoreContents /\ MergeContents
    /\ InstallPhase /\ RollbackPhase /\ CommitPhase /\ IdlePhase

IInv == TypeOK /\ IParts

-----------------------------------------------------------------------------
(* What needs no bound on the I/O errors: who owns the commit marker.      *)

\* A marker is in its rollback directory, and names the last commit once it
\* is written.
MarkerOK ==
    \A k \in Kinds : /\ marker[k] # "none" => k \in rb
                     /\ marker[k] = "ok" => committed = txn[k]

\* Only a transaction whose marker is written is cleaned up.
MarkerPhase ==
    /\ pc \in {"install", "undoInstalled", "undoMoved", "rollback"} =>
        cur \in rb /\ marker[cur] = "none" /\ stage[cur] # "none"
    /\ pc = "mark" => cur \in rb /\ why = "confirm"
    /\ pc \in {"cleanApplied", "cleanRollback"} => cur \in rb /\ committed = txn[cur]
    /\ pc = "dropState" => cur \notin rb /\ stage[cur] # "none"
    /\ pc = "recoverRestore" => marker["merge"] = "none"
    /\ pc \in {"applyRestore", "applyMerge", "load", "running", "publish"} =>
        \A k \in Kinds : marker[k] = "none"
    /\ pc = "publish" => \A k \in Kinds \ {cur} : ~TransactionExists(k)

AppliedPhase ==
    /\ pc \in {"recoverMerge", "recoverRestore", "applyRestore", "applyMerge",
               "install", "undoInstalled", "undoMoved"} => applied = {}
    /\ pc \in {"rollback", "dropState"} /\ why # "reject" => applied = {}
    /\ pc \in {"cleanApplied", "cleanRollback"} /\ why # "confirm" => applied = {}
    /\ pc = "load" => \A k \in applied : k \in rb /\ stage[k] # "none"

CommitInv == Exclusive /\ MarkerOK /\ MarkerPhase /\ AppliedPhase

\* A file that a restore has moved aside: its place is empty, taken by the
\* restored one, or by one its owner has made anew.
MovedAside ==
    Uncommitted("restore") =>
        \A f \in Files : orig["restore"][f] # Absent =>
            \/ data[f] = Absent
            \/ f \in incl["restore"] /\ staged["restore"][f] = Absent
            \/ f \in OwnerFiles \ incl["restore"] /\ data[f] = Fresh
=============================================================================
