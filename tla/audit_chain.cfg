CONSTANTS
  update1 = update1
  update2 = update2
  grant = grant
  download = download
  user = user
  access = access
  None = None
  Txns <- FourTxns
  Rows = {user, access}
  RowOf <- RowOfFour
SPECIFICATION FairSpec
INVARIANTS
  TypeOK
  ChainValid
PROPERTIES
  ImplementsAppendOnlyLog
  EveryTransactionEnds
CHECK_DEADLOCK FALSE
