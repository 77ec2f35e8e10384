CONSTANTS
    srv = srv
    cli = cli
    Nodes = {srv, cli}
    Top = 6
    LastPoW = 4
    NLimit = 2
    InvKnownMax = 3
    ResetInterval = 3
    CatchUpWindow = 144
    StartBest <- MCStartBest
    IBD <- MCIBDClient
    Source = srv

SPECIFICATION Spec

\* once the download has come to rest no message is left to handle
CHECK_DEADLOCK FALSE

PROPERTY
    AskedBlocksDelivered
