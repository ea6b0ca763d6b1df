SPECIFICATION RoutinesSpec
CONSTANTS
  N = 4
  Bytes = {0, 1, 127, 128, 254, 255}
  Waits <- MCWaits
  Starts <- MCStarts
  MaxTicks = 280
  MaxWaits = 1
INVARIANTS DamageShows CksumIsSumMod255
PROPERTIES GivesUpOnTime GetcReturns
