SPECIFICATION Spec
CONSTANTS
  FilterCount = 2
  ChannelCount = 2
  Pids = {p1, p2}
  NoPid = nopid
  TableSets = {{2}}
  Lengths <- MCLengths
  Payload = 5
  Garbage = {4}
  SplitHeaders = FALSE
  Syncers = {1}
INVARIANTS TypeOK ChannelsExact SectionsWhole
