SPECIFICATION FairSpec
CONSTANTS
  Cams = {c1}
  OneShot = FALSE
  GraceTicks = 2
  MaxUpsets = 2
  MaxFaults = 2
INVARIANTS TypeOK ReadyIsWhole
PROPERTIES BootSettles NothingMissed RestartIsEarned DeadStreamIsRestarted
