\* Three blocks from each start tip; relay of small, half-block and
\* near-full-block transactions at fees around the minimums.
CONSTANTS
    COIN = 10
    MAX_MONEY = 1000000000
    StartTips <- MCStartTips
    BlockFees = {0, 3}
    MaxBlocks = 3
    StakeIn = 100
    Masternodes = {"mn1", "mn2"}
    DEVELOPER_PAYMENT_V2 = 1
    ENFORCE_MN_PAYMENT_HEIGHT = 1100000
    ENFORCE_DEV_PAYMENT_HEIGHT = 1200000
    MIN_TX_FEE = 5
    MIN_RELAY_TX_FEE = 1
    MAX_BLOCK_SIZE_GEN = 500000
    LimitFreeRelay = 15
    MAX_BLOCK_SIZE = 1000000
    CENT = 10
    RelayTxs <- MCRelayTxs
    NullOut = NullOut
    ClockSteps <- MCClockSteps
    MockTimes = {0, 2}
    MaxTime = 3

SPECIFICATION Spec

\* the chain stops growing at MaxBlocks
CHECK_DEADLOCK FALSE

INVARIANTS
    SupplyWithinSpecSchedule
    FreeRelayLimiterNeverRuns
    PaymentsMadeWhenEnforced
    RelayAdmitsOnlySpecTxs

PROPERTIES
    StakeSubsidyNonIncreasing
