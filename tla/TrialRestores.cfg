SPECIFICATION FairSpec
CONSTANTS
  Original = 3000
  Target = 2000
  Watts <- MCExactWatts
  Tolerance = 5
  MaxDrift = 0
  MayHang = FALSE
  Faulty = FALSE
  MaxSessions = 0
  MaxOutages = 0
PROPERTIES
  SupervisorTerminates
  CapIsUndone
CHECK_DEADLOCK FALSE
