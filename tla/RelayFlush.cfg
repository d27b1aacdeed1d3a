SPECIFICATION FairSpec
CONSTANTS
  Pubs = {p1, p2}
  Readers = {r1}
  None = None
  Ring = 1
  MaxPackets = 2
INVARIANTS TypeOK NoGap LatestIsPublished
PROPERTY FanOutDone
CHECK_DEADLOCK FALSE
