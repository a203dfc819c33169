SPECIFICATION Spec
CONSTANTS
  Tokens = {t1}
  Routes = {"direct", "across"}
  Dirs = {"b2w", "w2b"}
  MaxOps = 1
  MaxCrashes = 2
  MaxQuoteFails = 1
  Spare = 1
  Calls = {1, 2}
  MaxTries = 2
  DelayCoversLag = TRUE
CHECK_DEADLOCK FALSE
INVARIANTS MovesOnce EndsTruthfully WriteAhead
 
