SPECIFICATION FairSpec
CONSTANTS
  Conns = {k1, k2}
  Senders = {s1}
  Frames = {"other", "address"}
  None = None
  MaxInbox = 1
INVARIANTS TypeOK LinksAreLive
PROPERTIES LinkRecovers SendsReturn
