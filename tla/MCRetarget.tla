----------------------------- MODULE MCRetarget -----------------------------
EXTENDS Retarget

\* a limit of 2^29 - 1 has four bytes, so its compact form drops the low byte
MCPowLimit == 2^29 - 1
MCPosLimit == 2^28 - 1

\* a block may be stamped up to 10 s before its parent (within FutureDrift)
MCDeltas == {-10, 0, 30, 79, 200}

\* a block one second after its parent, or one day after it
MCDayDeltas == {1, 24 * 60 * 60}

=============================================================================
