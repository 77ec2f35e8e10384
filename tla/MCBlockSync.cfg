CONSTANTS
    srv = srv
    cli = cli
    Nodes = {srv, cli}
    Top = 6
    LastPoW = 4
    NLimit = 2
    InvKnownMax = 3
    ResetInterval = 1
    CatchUpWindow = 144
    StartBest <- MCStartBest
    IBD <- MCIBDBoth
    Source = srv

SPECIFICATION DownloadSpec

\* once the download has come to rest no message is left to handle
CHECK_DEADLOCK FALSE

PROPERTY
    AskedBlocksDelivered
