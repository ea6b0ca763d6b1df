SPECIFICATION Spec
CONSTANTS
  MAX_RETRIES = 5
  LEN = 2
  MaxCalls = 2
  MaxFaults = 1
  Ops = {"read"}
  Payload <- MCPayload
  Check <- MCCheck
  Late = {}
  Faults = {"lose_byte"}
  Noise = {65, 67, 99}
INVARIANT CompleteMeansDone
