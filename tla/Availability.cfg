SPECIFICATION Spec
CONSTANTS
    Nodes = {n1}
    AlwaysUp = {}
    MaxRuns = 2
    MaxEvents = 5
INVARIANTS TypeOK ModeBoundary TimersMatchState PausedNotAccounted AccountingAgrees
PROPERTIES RunSeesOneConfiguration FailureClockKept
