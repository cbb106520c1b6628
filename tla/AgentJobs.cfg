SPECIFICATION Spec
CONSTANTS
    j1 = j1 j2 = j2 t1 = t1 t2 = t2 t3 = t3 c1 = c1 c2 = c2 c3 = c3
    NoState = NoState
    Jobs <- OneJob
    Tasks <- TwoTasks
    Corrections <- ThreeTexts
    QueueCap = 2
    MaxJobs = 1
    Crashes = TRUE
    SlowSteps = TRUE
    MaxSteps = 2
    MaxPauses = 2
    MaxAsks = 2
SYMMETRY Interchangeable
INVARIANTS TypeOK OneAgentPerJob AgentOwnsJob ParkedCanResume CancelBlocksParking
    DecisionOpen ConfirmationsBalanced CorrectionOnce
PROPERTIES VerdictStands Lifecycle
CHECK_DEADLOCK FALSE
