SPECIFICATION Spec
CONSTANTS
  None = None
  NoProc = NoProc
  p1 = p1
  Procs = {p1}
  DryRun = {p1}
  SkipInitial = {}
  DayTicks = 3
  RetryDelays <- TheRetryDelays
  MinRetryDelay = 1
  Jitters = {0}
  WindowDays = 7
  MaxDays = 2
  CheckSlots = {1}
  RenewalDays = {9}
  Fallbacks = {1}
  Grace = 1
  MaxTime = 4
  MaxFailures = 2
  MaxCrashes = 0
  MaxFaults = 0
  MaxSuspends = 0
INVARIANTS
  BackoffRespected
