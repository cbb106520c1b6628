SPECIFICATION Spec
CONSTANTS
    j1 = j1 j2 = j2 t1 = t1 t2 = t2 t3 = t3 c1 = c1 c2 = c2 c3 = c3
    NoState = NoState
    Jobs <- OneJob
    Tasks <- TwoTasks
    Corrections <- NoText
    QueueCap = 2
    MaxJobs = 1
    Crashes = FALSE
    SlowSteps = FALSE
    MaxSteps = 1
    MaxPauses = 1
    MaxAsks = 1
PROPERTY PauseRequestKept
CHECK_DEADLOCK FALSE
