SPECIFICATION FairSpec
CONSTANTS
  Threads = {t1, t2, t3}
  Processes = {q1, q2}
  ProcessOf <- TheProcessOf
  t1 = t1
  t2 = t2
  t3 = t3
  q1 = q1
  q2 = q2
  NoThread = NoThread
  NoFile = NoFile
  Partial = Partial
  Unseen = Unseen
  MaxFaults = 1
  MaxCrashes = 1
INVARIANTS
  TypeOK
  NeverTorn
  TempsCleaned
PROPERTIES
  ImplementsAtomicDocument
  UpdatesEnd
CHECK_DEADLOCK FALSE
