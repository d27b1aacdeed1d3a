SPECIFICATION FairSpec
CONSTANTS
  Ports = {1, 2}
  Sockets = {1}
  MaxSeq = 2
  Tries = 2
  Floor = 2
  InFlight = 0
  MaxUpsets = 1
  None = None
INVARIANTS TypeOK StoredAnswerStays
PROPERTY SilentCameraIsFound
\* A camera that streams leaves nothing to do once the failures are used up.
CHECK_DEADLOCK FALSE
