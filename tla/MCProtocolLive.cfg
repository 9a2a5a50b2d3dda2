CONSTANTS
    MaxBlocks <- MCMaxBlocksLive
    HardLimitsEnabled = TRUE
    SoftLimitsEnabled = TRUE
    HostOverrides = {"SPINDLE_OVR_STOP"}

SPECIFICATION Spec

PROPERTY HoldCompletes
PROPERTY SoftLimitWaitEnds
