SPECIFICATION Spec
CONSTANTS
  MAX_RETRIES = 5
  LEN = 2
  MaxCalls = 1
  MaxFaults = 1
  Ops = {"read"}
  Payload <- MCSumPayload
  Check <- MCSumCheck
  Late = {}
  Faults = {"lose_byte"}
  Noise = {65, 67, 99}
INVARIANT ReadIsOwn
