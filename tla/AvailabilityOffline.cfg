SPECIFICATION Spec
CONSTANTS
    Nodes = {n1}
    AlwaysUp = {n1}
    MaxRuns = 2
    MaxEvents = 4
INVARIANT OfflineMeansNoAnswer
