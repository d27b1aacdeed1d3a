SPECIFICATION FairSpec
CONSTANTS
  MaxFrames = 2
  Fragments = 3
  TsRange = 3
  MaxPending = 2
  KeepNewest = 1
  MaxDups = 1
  Viewers = {v1}
  Watched = v1
  QueueSize = 1
  IdleLimit = 2
  None = None
INVARIANTS TypeOK FrameIsWhole MediaIsIdentified PendingIsBounded
PROPERTIES NewestGetsThrough GoneViewerLeaves ViewerGetsLatest
