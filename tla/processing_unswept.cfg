CONSTANTS
  clean = clean
  infected = infected
  worker1 = worker1
  worker2 = worker2
  Versions = {clean}
  Infected = {}
  Workers <- TwoWorkers
  Idle = Idle
  Attempts = 2
  FaultBudget <- EnqueueFault
SPECIFICATION FairSpec
PROPERTIES
  UploadedSettles
CHECK_DEADLOCK FALSE
