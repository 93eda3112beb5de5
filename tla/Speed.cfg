SPECIFICATION Spec
CONSTANTS
    n1 = n1
    Nodes <- OneNode
    Sources <- ManualAndSchedule
    Switches <- AllSwitches
    Concurrency = 1
    Verdicts <- OkLow
    MaxCalls = 1
    MaxSwitches = 2
    MaxEntries = 2
    MaxCrashes = 1
INVARIANTS ProbesOfThisWindow ConfirmationAlive WaitingIsSaved
PROPERTIES StoredIsMeasured
CHECK_DEADLOCK FALSE
