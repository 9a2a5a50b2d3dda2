CONSTANTS
    MaxTravel = 173
    StepsPerUnit = 200
    MaxSkew = 2
    StartTravel = 173
SPECIFICATION Spec
INVARIANT
    TripDeltaIsSkew
PROPERTY
    TripSearchReturns
