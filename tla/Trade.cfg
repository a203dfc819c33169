SPECIFICATION Spec
CONSTANTS
    Plans = {1}
    StrategyOf <- SameStrategy
    Modes = {"dex_first", "concurrent"}
    Directions <- BothDirections
    Quantity = 5
    DexCredits = {4, 6}
    LotStep = 2
    BuyFees = {1}
    Prices = {1, 2}
    Drift = {"plan_expires", "backoff_ends_between_reads"}
    MaxCrashes = 1
INVARIANTS
    SettledMatchesVenues
    SameCommandEachTime
    ExposureBounded
PROPERTIES
    
    EveryAppendIsAccepted
    KeepsHedgePromise
CHECK_DEADLOCK FALSE
