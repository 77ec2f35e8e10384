\* Blocks of two branches, one stake shared between them, in any order.
CONSTANTS
    Block <- MCBlock
    Genesis = "G"
    Parent <- MCParent
    Trust <- MCTrust
    BlockTxs <- MCBlockTxs
    Tx <- MCTx
    TxIns <- MCTxIns
    NOut <- MCNOut
    CoinStake <- MCCoinStake
    BadBlock = {}
    Flaky = {}
    Rejected = {}
    Stake <- MCStake
    NoStake = NoStake
    CoinbaseMaturity = 1
    InnerDefaultPostponed = 0
    NoBlock = NoBlock
    NoEntry = NoEntry
    Null = Null

SPECIFICATION ISpec

\* the supply of blocks is finite
CHECK_DEADLOCK FALSE

INVARIANT
    OrphanStakesRecorded
