SPECIFICATION FairSpec
CONSTANTS
  MAX_RETRIES = 5
  LEN = 2
  MaxCalls = 3
  MaxFaults = 2
  Ops = {"command", "write"}
  Payload <- MCPayload
  Check <- MCCheck
  Late = {}
  Faults = {"lose_frame", "damage_frame", "lose_byte", "die"}
  Noise = {65, 67, 99}
INVARIANT CompleteMeansDone
PROPERTY CallReturns
