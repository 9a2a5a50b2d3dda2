CONSTANTS
    MaxBlocks <- MCMaxBlocks
    HardLimitsEnabled = TRUE
    SoftLimitsEnabled = TRUE
    HostOverrides <- MCHostOverrides

SPECIFICATION Spec

INVARIANT JogNeverRunsAsCycle
