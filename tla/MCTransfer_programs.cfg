SPECIFICATION FairSpec
CONSTANTS
  d1 = d1
  d2 = d2
  NETDEV_TOTAL = 2
  Dirs = {d1, d2}
  RemoteLen <- MCRemote
  LocalLens = {2}
  ListLen = 1
  Rooms = {2, 3}
  Slow = TRUE
  NeedsLogin = TRUE
  Faults = {"lost", "unheard", "twice"}
  MaxFaults = 2
  Lengths = {0, 3}
  BUF = 2
  Url = d1
  MaxCommands = 2
  NBUF = 1
  CellSize = 1024
  TailSize = 100
  MaxRuns = 2
INVARIANTS HandlesBack FetchedIsPrefix
PROPERTIES SilentFetchIsWhole SilentPutIsWhole ProgramsEnd
