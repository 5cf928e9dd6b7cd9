CONSTANTS
  v1 = v1
  v2 = v2
  req1 = req1
  req2 = req2
  report = report
  photo = photo
  Versions <- TwoVersions
  Requests <- TwoRequests
  Contents <- TwoContents
  Damaged = Damaged
  None = None
  Over = Over
  Attempts = 2
  MaxDamaged = 1
SPECIFICATION Spec
SYMMETRY Symmetry
INVARIANTS
  TypeOK
  BytesBehindRows
  AnchorsTruthful
  NoFalseAlarm
  SealWitnessed
PROPERTIES
  SealStays
CHECK_DEADLOCK FALSE
