SPECIFICATION FairSpec
CONSTANTS
  Callers = {c1, c2}
  Fids = {f1, f2, f3}
  NoFid = nofid
  MaxStreams = 2
  Nobody = nobody
  CloseAlone = TRUE
INVARIANTS TypeOK DeviceCounted FidsOwned NoFilterLost
PROPERTIES StopReturns
