SPECIFICATION FairSpec
CONSTANTS
  job = job
  main = main
  other = other
  Callers = {job, main, other}
  Unconfigured = {other}
  w1 = w1
  w2 = w2
  Workers = {w1, w2}
  NoWorker = NoWorker
  service = service
  maintenance = maintenance
  ProcessOf <- TheProcessOf
  MaxFaults = 1
  MaxCrashes = 1
INVARIANTS
  TypeOK
  OutcomeIsOwn
  StatusTellsLast
PROPERTIES
  SendsEnd
  WorkersEnd
