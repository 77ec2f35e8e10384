\* Proof-of-work blocks one second or one day after their parent, up to
\* fourteen: enough one-second blocks to harden the target below a quarter
\* of the limit before a day-long gap.
CONSTANTS
    PowLimit <- MCPowLimit
    PosLimit <- MCPosLimit
    TargetSpacing = 79
    TargetTimespan = 1200
    FutureDrift = 15
    Deltas <- MCDayDeltas
    Kinds = {FALSE}
    MaxBlocks = 14

SPECIFICATION Spec

\* the chain stops growing at MaxBlocks
CHECK_DEADLOCK FALSE

INVARIANT
    MinWorkAdmitsValidBlocks
