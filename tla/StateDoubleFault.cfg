SPECIFICATION Spec
CONSTANTS
    Files <- MCFiles
    MergeFiles <- MCMergeFiles
    OwnerFiles <- MCOwnerFiles
    Archives <- AllArchives
    MaxTxns = 2
    MaxCrashes = 1
    MaxIOErrors = 2
PROPERTIES OriginalsKept
