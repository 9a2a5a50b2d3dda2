CONSTANTS
    MotionRequests <- MCDecreaseOnly
    SpindleRequests <- MCSpindleDecreaseOnly
    RpmMax = 8500
    RpmMin = 1360
    SpeedValues = {0}

SPECIFICATION Spec

PROPERTY DecreaseNeverRaises
