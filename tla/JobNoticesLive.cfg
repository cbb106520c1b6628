SPECIFICATION FairSpec
CONSTANTS
    j1 = j1 c1 = c1 c2 = c2 answer = answer restart = restart
    Jobs <- OneJob
    Couriers <- TwoCouriers
    Verdicts <- AllVerdicts
    UserVerdicts <- ByUser
    Guess = restart
    NoVerdict = NoVerdict
    Cancelled = Cancelled
    TimedOut = TimedOut
    Unknown = Unknown
    Nobody = Nobody
    HistoryCap = 2
    MaxShown = 2
    SlowSteps = FALSE
    SlowDelivery = FALSE
    Crashes = TRUE
PROPERTIES DeliveredStaysQuiet NoticeArrives
CHECK_DEADLOCK FALSE
