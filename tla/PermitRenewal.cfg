SPECIFICATION AllowSpec
PROPERTY RequiredApprovalsAreWritten
CONSTANTS
  Tokens = {"A"}
  Networks = {"WorldChainV12", "ArbitrumOne", "LineaMainnet"}
  MaxBalance = 1
  PERMIT2_APPROVAL_VALIDITY = 2
  PERMIT2_MIN_REMAINING_VALIDITY = 1
  MaxClock = 3
  MaxStarts = 2
CHECK_DEADLOCK FALSE
