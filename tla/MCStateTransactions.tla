------------------------ MODULE MCStateTransactions ------------------------
(* StateTransactions on three files: the node registry, which startup      *)
(* writes before the commit, the speed-test results, which a merge also    *)
(* replaces, and one file only a restore touches.                          *)
EXTENDS StateTransactionsInv

MCFiles == {"registry", "speed", "telegram"}
MCMergeFiles == {"registry", "speed"}
MCOwnerFiles == {"registry"}


\* Archives that hold the file startup writes, and one that does not.
AllArchives == {{"speed"}, {"registry", "telegram"}, MCFiles}
=============================================================================
