CONSTANTS
  clean = clean
  infected = infected
  worker1 = worker1
  worker2 = worker2
  Versions = {clean, infected}
  Infected = {infected}
  Workers <- TwoWorkers
  Idle = Idle
  Attempts = 2
  FaultBudget <- StallsAndLostReports
SPECIFICATION Spec
SYMMETRY WorkerSymmetry
INVARIANTS
  TypeOK
  NothingInfectedPasses
  OneLockHolder
CHECK_DEADLOCK FALSE
