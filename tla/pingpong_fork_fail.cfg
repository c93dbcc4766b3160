CONSTANTS
  LineLen = 17
SPECIFICATION SpecForkFail
INVARIANT PongOnlyWhenReceived
CHECK_DEADLOCK FALSE
