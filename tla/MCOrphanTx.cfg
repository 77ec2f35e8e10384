CONSTANTS
    Block <- MCBlock
    Genesis = "G"
    Parent <- MCParent
    Trust <- MCTrust
    BlockTxs <- MCBlockTxs
    Tx <- MCTx
    TxIns <- MCTxIns
    NOut <- MCNOut
    CoinStake <- MCCoinStake
    BadBlock <- MCBadBlock
    Flaky <- MCFlaky
    Rejected <- MCRejected
    Stake <- MCStake
    NoStake = NoStake
    CoinbaseMaturity = 1
    InnerDefaultPostponed = 0
    NoBlock = NoBlock
    NoEntry = NoEntry
    Null = Null
    MaxOrphans = 2
    BigTx <- MCBigTx
    TxHashOrder <- MCTxHashOrder

INIT OInit
NEXT ONext

\* the supply of blocks and transactions is finite: once every one has been
\* accepted, stored or refused nothing is enabled
CHECK_DEADLOCK FALSE

INVARIANTS
    OTypeOK
    OrphanIndexExact
    MempoolConflictFree
