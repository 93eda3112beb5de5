SPECIFICATION Spec
CONSTANTS
    n1 = n1
    Nodes <- OneNode
    Sources <- ScheduleOnly
    Switches <- Pause
    Verdicts <- OkLow
    Concurrency = 1
    MaxCalls = 1
    MaxSwitches = 1
    MaxEntries = 1
    MaxCrashes = 0
PROPERTIES SwitchesEnd
CHECK_DEADLOCK FALSE
