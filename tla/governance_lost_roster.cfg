CONSTANTS
  sys1 = sys1
  sys2 = sys2
  sec1 = sec1
  sec2 = sec2
  aud = aud
  org = org
  executor1 = executor1
  executor2 = executor2
  p1 = p1
  p2 = p2
  Users <- People
  Role <- MCRole
  Orgs = {org}
  Proposals <- TwoProposals
  Executors <- TwoExecutors
  Payloads <- TwoRemovals
  NoPayload = NoPayload
  Idle = Idle
  GenesisManifests <- TrioGenesis
  Rosters = {}
  Suspendable = {}
  MinObjectorsToHalt = 1
  MaxStepUps = 2
  MaxRegenesis = 0
SPECIFICATION Spec
SYMMETRY Symmetry
INVARIANTS
  PoolGovernable
CHECK_DEADLOCK FALSE
