SPECIFICATION FairSpec
CONSTANTS
    Lanes = {"dex", "reb"}
    DexLanes = {"dex"}
    Bases = {"b1", "b2", "b3"}
    LaneOf <- TwoOfDex
    Retries <- OneRetry
    MaxNonce = 2
    MaxCalls = 2
    MaxCrashes = 2
INVARIANTS AtMostOneEffect JournalMatchesChain AlwaysHydratable
PROPERTIES LockReleased
CHECK_DEADLOCK FALSE
