SPECIFICATION Spec
CONSTANTS
  MAX_RETRIES = 2
  LEN = 2
  MaxCalls = 2
  MaxFaults = 1
  Ops = {"command", "read", "write"}
  Payload <- MCPayload
  Check <- MCCheck
  Late = {"TIMEOUT", "TIMEOUT_SLOW"}
  Faults = {"lose_frame", "damage_frame", "lose_byte", "damage_byte", "die"}
  Noise = {65, 67, 99}
INVARIANTS TypeOK WriteAtMostOnce ExecutionsBounded
CHECK_DEADLOCK FALSE
