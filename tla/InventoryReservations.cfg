SPECIFICATION Spec
CONSTANTS
    Ops = {o1, o2}
    Locations = {"binance", "wallet"}
    Assets = {"usdc", "wld"}
    MaxAmount = 2
    MaxGeneration = 2
CONSTANT Requests <- EngineRequests
INVARIANT TotalsMatchClaims
PROPERTIES SettlementBarrier NoOverAdmission 
CHECK_DEADLOCK FALSE
