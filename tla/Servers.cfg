SPECIFICATION ServersSpec
CONSTANTS
    c1 = c1 j1 = j1 j2 = j2 t1 = t1 t2 = t2
    Calls <- OneCall
    MaxWorkers = 2
    MaxQueue = 2
    NoState = NoState
    Jobs <- TwoJobs
    Tasks <- TwoTasks
    Corrections <- NoText
    QueueCap = 2
    MaxJobs = 1
    Crashes = FALSE
    SlowSteps = FALSE
    MaxSteps = 0
    MaxPauses = 1
    MaxAsks = 0
INVARIANTS McpTypeOK OneSession AwaitedIsLast FailedIsWithdrawn
PROPERTIES FailedIsProbed ActiveJobKept
CHECK_DEADLOCK FALSE
