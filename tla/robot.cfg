SPECIFICATION Spec
CONSTANTS
  alpha = alpha
  beta = beta
  Hosts <- MCHosts
  NoHost = NoHost
  RowFound <- ExactRows
  MaxStamp <- Cycles
  MaxRuns = 2
INVARIANTS
  RecordedIsReal
  SuccessAccounts
  PreviewIsCurrent
PROPERTIES
  RecordsAdvance
  ImplementsLedger
  RunEnds
CHECK_DEADLOCK FALSE
