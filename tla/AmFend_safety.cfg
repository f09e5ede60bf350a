SPECIFICATION Spec
CONSTANTS
  Callers = {c1, c2}
  FendThread = ft
  Cbs = {a, b}
  NoCb = none
  Nobody = nobody
  Freqs = {f1, f2}
  Details = {d1, d2}
  Modes = {"detailed", "freqonly"}
  NoEvt = noevt
  ClientOps = {"SetCallback", "SetActionCallback", "SetPara", "SetMode", "Lock"}
  CbOps = {"SetCallback"}
  Exclusive = TRUE
SYMMETRY Symm
INVARIANTS LifeCycle LockParaAlive
PROPERTIES ImplementsGate LockReportsOwnTuning
