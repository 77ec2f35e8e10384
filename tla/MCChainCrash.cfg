\* the honest block tree of MCChainHonest with crashes: a restart between
\* handlers, and a stop between AddToBlockIndex's blockindex commit and
\* SetBestChain
CONSTANTS
    Block <- MCBlock
    Genesis = "G"
    Parent <- MCParent
    Trust <- MCTrust
    BlockTxs <- MCBlockTxs
    Tx <- MCTx
    TxIns <- MCTxIns
    NOut <- MCNOut
    CoinStake <- MCCoinStake
    BadBlock <- MCBadBlock
    Flaky <- MCFlaky
    Rejected <- MCRejected
    Stake <- MCStake
    NoStake = NoStake
    CoinbaseMaturity = 1
    InnerDefaultPostponed = 0
    NoBlock = NoBlock
    NoEntry = NoEntry
    Null = Null

SPECIFICATION SpecCrash

INVARIANT
    BestIsMaxValid
