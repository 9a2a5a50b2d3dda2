CONSTANTS
    MaxBlocks <- MCMaxBlocks
    HardLimitsEnabled = TRUE
    SoftLimitsEnabled = TRUE
    HostOverrides <- MCHostOverrides

SPECIFICATION Spec

INVARIANT TypeOK
INVARIANT StepperRunsOnlyInMotion
INVARIANT SpindleOnWhileMoving
PROPERTY NoAutoResume
PROPERTY ImplementsMachineStates
PROPERTY HoldRequestNotLostInMotion
PROPERTY RestoreCycleServed
