SPECIFICATION FairSpec
CONSTANTS
  None = None
  NoProc = NoProc
  p1 = p1
  p2 = p2
  Procs = {p1, p2}
  DryRun = {p1}
  SkipInitial = {}
  DayTicks = 2
  RetryDelays <- TheRetryDelays
  MinRetryDelay = 1
  Jitters = {0}
  WindowDays = 7
  MaxDays = 2
  CheckSlots = {1}
  RenewalDays = {0}
  Fallbacks = {1}
  Grace = 1
  MaxTime = 3
  MaxFailures = 4
  MaxCrashes = 1
  MaxFaults = 0
  MaxSuspends = 0
INVARIANTS
  LockInv
  CountIsCurrent
  AlertOnce
  AlertsExact
  HealthTellsOutage
PROPERTIES
  CallsEnd
  LockComesFree
