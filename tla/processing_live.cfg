CONSTANTS
  clean = clean
  infected = infected
  worker1 = worker1
  worker2 = worker2
  Versions = {clean, infected}
  Infected = {infected}
  Workers <- TwoWorkers
  Idle = Idle
  Attempts = 2
  FaultBudget <- CrashesAndLosses
SPECIFICATION FairSpec
INVARIANTS
  ProcessedOnce
  RowsAgree
PROPERTIES
  VerdictsFinal
  TouchedSettles
CHECK_DEADLOCK FALSE
