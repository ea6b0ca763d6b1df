SPECIFICATION Spec
CONSTANTS
  d1 = d1
  d2 = d2
  NETDEV_TOTAL = 2
  Dirs = {d1, d2}
  RemoteLen <- MCRemote
  LocalLens = {2}
  ListLen = 1
  Rooms = {3}
  Slow = FALSE
  NeedsLogin = FALSE
  Faults = {"lost"}
  MaxFaults = 2
  Lengths = {0, 1, 3}
  BUF = 2
  Url = d1
  MaxCommands = 2
  NBUF = 1
  CellSize = 1024
  TailSize = 100
  MaxRuns = 1
PROPERTY SilentPutIsStored
