CONSTANTS
    Block <- MCBlock
    Genesis = "G"
    Parent <- MCParent
    Trust <- MCTrust
    BlockTxs <- MCBlockTxs
    Tx <- MCTx
    TxIns <- MCTxIns
    NOut <- MCNOut
    CoinStake <- MCCoinStake
    BadBlock <- MCBadBlock
    Flaky <- MCFlaky
    Rejected <- MCRejected
    Stake <- MCStake
    NoStake = NoStake
    CoinbaseMaturity = 1
    InnerDefaultPostponed = 0
    NoBlock = NoBlock
    NoEntry = NoEntry
    Null = Null

SPECIFICATION Spec

\* the supply of blocks is finite: once every block is indexed nothing is enabled
CHECK_DEADLOCK FALSE

INVARIANTS
    TypeOK
    TxIndexMatchesMainChain
    MainChainValid
    BestIsMaxValid
    ChainPointersConsistent
    MempoolDisjointFromChain

PROPERTIES
    BestChainRefined
