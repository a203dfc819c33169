SPECIFICATION Spec
INVARIANTS
  FeedIsExact PlannedSwapAccounted  BridgeKeepsTheTerms RecoveredOnce
 
CHECK_DEADLOCK FALSE
