SPECIFICATION FairSpec
CONSTANTS
  Clients = {c1, c2}
  Nobody = nobody
  Cbs = {a}
  NoCb = nocb
  Sizes = {2}
  Inverting = {"read"}
  StatusResults = {"ok"}
  Talkers = {c1}
  Listeners = {c2}
  ResetAfterError = TRUE
  ClearBeforeClose = TRUE
INVARIANT CardOwesAnswer
PROPERTIES ImplementsGate TransferExact StatusReported CallsReturn
