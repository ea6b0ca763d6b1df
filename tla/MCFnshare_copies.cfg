SPECIFICATION Spec
CONSTANTS
  NameLen = 2
  ExtLen = 1
  PATHLEN = 12
  Small <- MCSmall
  MaxCopies = 2
  MaxOthers = 1
  last_drive = 3
  LocalDrives = {0}
  UserInts = {96, 97}
  Shares <- MCShares
  FILES = 1
  DosPaths <- MCPaths
  Listing <- MCListing
  Dates <- MCDates
INVARIANTS ChainIntact DrivesServed RightCopyAnswers PathGoesToShare ListedAsStored
PROPERTY HandlersAreStack
