CONSTANTS
    Axes <- MCAxes
    HomingSchedule <- MCSchedule
    MaxTravel = 4
    Pulloff = 1
    SwitchModes <- MCSwitchModes
    HostLines <- MCHostLines
    LINE_BUFFER_SIZE = 5
SPECIFICATION Spec
INVARIANTS
    HomedOnlyWithWorkingSwitch
    WorkingSwitchesHome
PROPERTIES
    HomingReturns
    LineDispatchedWhole
