SPECIFICATION Spec
CONSTANTS
  Handlers = {h1}
  Clients = {c1}
  Worker = Worker
  Pairs = {p1, p2}
  None = None
  Settle = 0
  Fallback = 1
  Floor = 2
  MaxInbox = 1
  MaxMoves = 1
  MaxStops = 1
  MaxRestarts = 0
INVARIANTS TypeOK ReportHasChain
PROPERTY ResendFloorHolds
CONSTRAINT OneUpset
