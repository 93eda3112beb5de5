SPECIFICATION ProbeFairSpec
CONSTANTS
    n1 = n1
    n2 = n2
    a1 = a1
    c1 = c1
    p1 = p1
    p2 = p2
    NoOne = NoOne
    Sessions <- MCSessions
    Agents <- OneAgent
    Nodes <- TwoNodes
    Pausable <- NoNode
    Operated <- FirstSession
    Triggers <- Manual
    Creators <- OneCreator
    Polls <- OnePoll
    ClearScopes <- NoClear
    MaxSessions = 2
    SessionTTL = 1
    MaxAge = 1
    ClockSkew = 0
    LockWait = 0
    JobTTL = 1
    RefusedCap = 2
    MaxTime = 1
    MaxGen = 2
    MaxLosses = 0
INVARIANTS NoLostWakeUp OneSessionPerPair
PROPERTIES SubmissionsAnswered AssignmentsLeave
CHECK_DEADLOCK FALSE
