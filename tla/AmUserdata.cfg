SPECIFICATION Spec
CONSTANTS
  Clients = {c1, c2}
  Nobody = nobody
  BufSize = 12
  Short = 1
  Long = 2
  Sizes = {1, 2}
  MaxPictures = 4
  MaxPocCache = 1
  Formats = {"mpeg", "h264"}
  FirstFields = {"top"}
SYMMETRY Symm
INVARIANTS CaptionsInOrder CaptionsAccounted NoLostWakeup LockAlive
PROPERTIES ImplementsQueue
