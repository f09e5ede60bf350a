SPECIFICATION FairSpec
CONSTANTS
  Subscribers = {t1, t2}
  Signallers = {s1, s2}
  Nodes = {n1, n2}
  NULL = null
  Events = {e1, e2}
  Cbs = {f}
  Datas = {d1, d2}
INVARIANTS NodesSafe SubscriptionsKept
PROPERTIES SignalReachesAll CallsReturn
