SPECIFICATION FairSpec
CONSTANTS
  FilterCount = 1
  Callers = {c1, c2}
  DataThread = dt
  Cbs = {a, b}
  NoCb = none
  Nobody = nobody
  Sources = {ts0}
  Src0 = ts0
  CbOps = {"StopFilter", "FreeFilter", "Sync"}
  StopMayFail = FALSE
PROPERTIES ImplementsGate CallsReturn
