SPECIFICATION McpSpec
CONSTANTS
    c1 = c1
    c2 = c2
    Calls <- TwoCalls
    MaxWorkers = 2
    MaxQueue = 2
INVARIANT CloseLeavesNothing
CHECK_DEADLOCK FALSE
