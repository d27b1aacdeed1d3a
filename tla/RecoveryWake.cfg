SPECIFICATION Spec
CONSTANTS
  StreamingWindow = 1
  DeadThreshold = 2
  InitialBackoff = 2
  MaxBackoff = 3
  RelayAfterFailures = 2
  RelayRetryDirect = 1
  NoStream = NoStream
  Streams = {s1}
  MaxFlips = 1
INVARIANTS TypeOK EarlyAttemptsPaidFor DirectModeIsOpen
PROPERTY WakeAnswered
