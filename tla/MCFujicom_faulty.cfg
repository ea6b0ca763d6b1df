SPECIFICATION FairSpec
CONSTANTS
  MAX_RETRIES = 5
  LEN = 2
  MaxCalls = 3
  MaxFaults = 2
  Ops = {"command", "read", "write"}
  Payload <- MCPayload
  Check <- MCCheck
  Late = {}
  Faults = {"lose_frame", "damage_frame"}
  Noise = {65, 67, 99}
INVARIANTS NothingLeftOver ReadIsOwn
PROPERTIES ImplementsRpc CallReturns
