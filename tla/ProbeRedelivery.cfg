SPECIFICATION ProbeSpec
CONSTANTS
    n1 = n1
    n2 = n2
    a1 = a1
    c1 = c1
    p1 = p1
    p2 = p2
    NoOne = NoOne
    Sessions <- MCSessions
    Agents <- OneAgent
    Nodes <- OneNode
    Pausable <- OneNode
    Operated <- FirstSession
    Triggers <- Either
    Creators <- OneCreator
    Polls <- TwoPolls
    ClearScopes <- ClearAll
    MaxSessions = 1
    SessionTTL = 1
    MaxAge = 1
    ClockSkew = 0
    LockWait = 0
    JobTTL = 1
    RefusedCap = 2
    MaxTime = 1
    MaxGen = 1
    MaxLosses = 1
INVARIANTS AssignmentsAreBacked ProbedAgainOnlyAfterLoss
CHECK_DEADLOCK FALSE
