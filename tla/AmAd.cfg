SPECIFICATION Spec
CONSTANTS
  Packets <- MCPackets
  MaxPackets = 11
  Chunks = {1, 2, 3, 5, 8, 11, 16}
  OthersOpen = FALSE
INVARIANTS CallbackOnLive PayloadsExact
