SPECIFICATION Spec
CONSTANTS
  None = None
  NoProc = NoProc
  p1 = p1
  p2 = p2
  Procs = {p1, p2}
  DryRun = {}
  SkipInitial = {p2}
  DayTicks = 3
  RetryDelays <- TheRetryDelays
  MinRetryDelay = 1
  Jitters = {0}
  WindowDays = 7
  MaxDays = 2
  CheckSlots = {1}
  RenewalDays = {0, 9}
  Fallbacks = {1}
  Grace = 1
  MaxTime = 5
  MaxFailures = 4
  MaxCrashes = 1
  MaxFaults = 1
  MaxSuspends = 1
INVARIANTS
  TypeOK
  BackoffRespected
  JobWithinCap
PROPERTIES
  RecoveryTold
