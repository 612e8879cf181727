SPECIFICATION Spec
CONSTANTS
  Original = 3000
  Target = 2000
  Watts <- MCWatts
  Tolerance = 5
  MaxDrift = 2
  MayHang = TRUE
  Faulty = TRUE
  MaxSessions = 1
  MaxOutages = 1
INVARIANTS
  IntentDurableBeforeCap
  ClosedMeansRestored
  AuditAgreesWithJournal
  DrainedBeforeCommand
  SuccessMeansRestored
PROPERTY
  ImplementsContract
CHECK_DEADLOCK FALSE
