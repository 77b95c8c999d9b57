SPECIFICATION CalendarFairSpec
CONSTANTS
  None = None
  NoProc = NoProc
  p1 = p1
  alpha = alpha
  beta = beta
  Procs = {p1}
  DryRun = {}
  SkipInitial = {}
  DayTicks = 3
  RetryDelays <- TheRetryDelays
  MinRetryDelay = 1
  Jitters = {0}
  WindowDays = 3
  MaxDays = 2
  CheckSlots = {1}
  RenewalDays = {0, 1, 2, 3, 4, 5, 6}
  Fallbacks = {1, 5}
  Grace = 1
  MaxTime = 9
  MaxFailures = 5
  MaxCrashes = 1
  MaxFaults = 0
  MaxSuspends = 0
  Hosts = {alpha, beta}
  CycleDays = 5
  FirstExpiry <- TheFirstExpiry
  Unreadable = {beta}
  ZoneErrors = {0, 1}
INVARIANTS
  NeverOrphaned
  ScheduleDurable
  ChecksKeepComing
  CheckLeavesRoom
PROPERTIES
  WorkRearms
