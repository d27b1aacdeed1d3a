SPECIFICATION FairSpec
CONSTANTS
  Handlers = {h1}
  Clients = {c1}
  Worker = Worker
  Pairs = {p1}
  None = None
  Settle = 0
  Fallback = 1
  Floor = 2
  MaxInbox = 1
  MaxMoves = 0
  MaxStops = 0
  MaxRestarts = 1
PROPERTY ViewerServed
