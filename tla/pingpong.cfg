CONSTANTS
  LineLen = 17
SPECIFICATION Spec
INVARIANT PingBeforePong
INVARIANT PongOnlyWhenReceived
PROPERTY Termination
CHECK_DEADLOCK FALSE
