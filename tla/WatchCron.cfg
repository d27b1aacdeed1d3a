SPECIFICATION FairSpec
CONSTANTS
  Cams = {c1}
  OneShot = TRUE
  GraceTicks = 2
  MaxUpsets = 2
  MaxFaults = 2
PROPERTY DeadStreamIsRestarted
