SPECIFICATION Spec
CONSTANTS
    Files <- MCFiles
    MergeFiles <- MCMergeFiles
    OwnerFiles <- MCOwnerFiles
    Archives <- AllArchives
    MaxTxns = 1
    MaxCrashes = 1
    MaxIOErrors = 0
INVARIANT NextStartupSettlesIt
