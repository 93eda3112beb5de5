SPECIFICATION ManagerSpec
CONSTANTS
    s1 = s1
    s2 = s2
    a1 = a1
    a2 = a2
    Sessions <- MCSessions
    Agents <- MCAgents
    MaxSessions = 1
    SessionTTL = 2
    MaxAge = 1
    ClockSkew = 1
    LockWait = 1
    MaxTime = 4
SYMMETRY Opaque
INVARIANTS EndedSessionsAreSettled AtMostOneObservation
PROPERTIES EndedSessionsStayEnded AcceptedInTime
CHECK_DEADLOCK FALSE
