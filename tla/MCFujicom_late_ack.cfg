SPECIFICATION Spec
CONSTANTS
  MAX_RETRIES = 5
  LEN = 2
  MaxCalls = 1
  MaxFaults = 0
  Ops = {"command"}
  Payload <- MCPayload
  Check <- MCCheck
  Late = {"TIMEOUT"}
  Faults = {}
  Noise = {65, 67, 99}
INVARIANT AckStaysInside
