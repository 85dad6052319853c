SPECIFICATION Spec
CONSTANTS
  HeartbeatInterval = 2
  HeartbeatTimeout = 6
  AnswerTime = 3
  MaxAge = 10
  Ids = {c, d}
INVARIANTS
  TypeOK
  TimeoutMeansSilence
PROPERTIES
  ControlsAcked
CHECK_DEADLOCK FALSE
