CONSTANTS
    MotionRequests <- MCFeedCoarseMinus
    SpindleRequests <- MCSpindleCoarseRequests
    RpmMax = 8500
    RpmMin = 1360
    SpeedValues <- MCSpeedValues

SPECIFICATION Spec

INVARIANT SpindleOutputMatchesCommand
