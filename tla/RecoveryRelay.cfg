SPECIFICATION FairSpec
CONSTANTS
  StreamingWindow = 1
  DeadThreshold = 1
  InitialBackoff = 1
  MaxBackoff = 1
  RelayAfterFailures = 1
  RelayRetryDirect = 1
  NoStream = NoStream
  Streams = {s1, s2}
  MaxFlips = 0
INVARIANT RelayModeIsPumped
PROPERTIES NeverGivesUp StopQuiesces
