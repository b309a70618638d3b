CONSTANTS
    Deployments <- Deployed
    Jobs = {w1}
    TxHashes = {h1}
    MaxTries = 2
    MaxAttempts = 2
    MaxTakeovers = 1
SPECIFICATION SettlementSpec
INVARIANT MainnetMovesOnMainnet
CHECK_DEADLOCK FALSE
