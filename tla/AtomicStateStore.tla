-------------------------- MODULE AtomicStateStore --------------------------
(***************************************************************************)
(* What the backup restore and the node merge promise together: the set of *)
(* persisted files under data/ changes as a whole or not at all.  A file's *)
(* value is the ORIGIN of its contents: Absent, Fresh (written by the      *)
(* owner of the file itself) or the number of the restore or merge that    *)
(* put it there.                                                           *)
(***************************************************************************)
EXTENDS Naturals

CONSTANTS Files,        \* the state files of the data directory
          MergeFiles    \* the ones a node merge replaces

VARIABLES store,        \* the origin of every file's durable contents
          last          \* the last transaction that was committed

Absent == 0
Fresh == 1

Init == /\ store \in [Files -> {Absent, Fresh}]
        /\ last = Fresh

\* The owner of a file writes it for the first time.
OwnerCreates ==
    \E f \in Files :
        /\ store[f] = Absent
        /\ store' = [store EXCEPT ![f] = Fresh]
        /\ last' = last

(***************************************************************************)
(* A restore commits: every file of its archive comes from the archive,    *)
(* every other file is gone (or was made anew by its owner).               *)
(***************************************************************************)
RestoreCommits ==
    \E inc \in SUBSET Files :
        /\ last' \in Nat
        /\ last' > last
        /\ store' \in [Files -> Nat]
        /\ \A f \in Files : IF f \in inc THEN store'[f] = last'
                                         ELSE store'[f] \in {Absent, Fresh}

\* A merge commits: both of its files are replaced, no other file is touched.
MergeCommits ==
    /\ last' \in Nat
    /\ last' > last
    /\ store' = [f \in Files |-> IF f \in MergeFiles THEN last' ELSE store[f]]

Next == OwnerCreates \/ RestoreCommits \/ MergeCommits

Spec == Init /\ [][Next]_<<store, last>>
=============================================================================
