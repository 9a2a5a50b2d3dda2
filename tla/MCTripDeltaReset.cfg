CONSTANTS
    MaxTravel = 173
    StepsPerUnit = 200
    MaxSkew = 1
    StartTravel = 12
SPECIFICATION Spec
PROPERTY
    ResetEndsTripSearch
