---------------------------- MODULE MCProtocol ----------------------------
(* Model-checking instance of Protocol: a planner of two blocks, hard and  *)
(* soft limits enabled as in defaults.h (DEFAULT_HARD_LIMIT_ENABLE,        *)
(* DEFAULT_SOFT_LIMIT_ENABLE).                                             *)
EXTENDS Protocol

MCMaxBlocks == 2

\* The host sends both kinds of spindle override request.
MCHostOverrides == {"SPINDLE_OVR_CHANGE", "SPINDLE_OVR_STOP"}

\* A one-block planner, for the liveness run.
MCMaxBlocksLive == 1

=============================================================================
