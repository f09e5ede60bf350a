SPECIFICATION FairSpec
CONSTANTS
  Callers = {c1, c2}
  FendThread = ft
  Cbs = {a}
  NoCb = none
  Nobody = nobody
  Freqs = {f1}
  Details = {d1}
  Modes = {"detailed"}
  NoEvt = noevt
  ClientOps = {"SetCallback", "Lock"}
  CbOps = {}
  Exclusive = TRUE
PROPERTIES CallsReturn
