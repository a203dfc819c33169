SPECIFICATION FairSpec
CONSTANTS
    Plans = {1}
    StrategyOf <- SameStrategy
    Modes = {"dex_first"}
    Directions = {1}
    Quantity = 1
    DexCredits = {1}
    LotStep = 1
    BuyFees = {0}
    Prices = {1}
    Drift = {"plan_expires"}
    MaxCrashes = 1
PROPERTIES
    LaneReopens
CHECK_DEADLOCK FALSE
