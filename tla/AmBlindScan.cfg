SPECIFICATION ScanFairSpec
CONSTANTS
  Clients = {c1, c2}
  MaxChannel = 2
  MaxReported = 3
  MaxScans = 3
  Percents = {50}
  CallbackLocks = FALSE
INVARIANTS ScanTypeOK TPsExact CallbackInScan DemodRestored
PROPERTY ExitReturns
