\* Five blocks of either kind, each 10 s before to 200 s after its parent.
CONSTANTS
    PowLimit <- MCPowLimit
    PosLimit <- MCPosLimit
    TargetSpacing = 79
    TargetTimespan = 1200
    FutureDrift = 15
    Deltas <- MCDeltas
    Kinds = {FALSE, TRUE}
    MaxBlocks = 5

SPECIFICATION Spec

\* the chain stops growing at MaxBlocks
CHECK_DEADLOCK FALSE

INVARIANTS
    TargetWithinLimit
    KindsIndependent
    StableAtTargetSpacing
    RetargetMonotoneForward
    MinWorkAdmitsValidBlocks
