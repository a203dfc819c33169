SPECIFICATION DexSpec
INVARIANT NoNeedlessFailure
CHECK_DEADLOCK FALSE
