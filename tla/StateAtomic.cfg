SPECIFICATION FairSpec
CONSTANTS
    Files <- MCFiles
    MergeFiles <- MCMergeFiles
    OwnerFiles <- MCOwnerFiles
    Archives <- AllArchives
    MaxTxns = 2
    MaxCrashes = 2
    MaxIOErrors = 1
INVARIANTS CleanWhenRunning RefusalsExplained IInv
PROPERTIES AtomicStore PendingKept StartupSettles
