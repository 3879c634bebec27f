SPECIFICATION Spec
CONSTANTS
  None = None
  NoJob = NoJob
  Torn = Torn
  j1 = j1
  j2 = j2
  c1 = c1
  t1 = t1
  t2 = t2
  t3 = t3
  a = a
  b = b
  payer1 = payer1
  frozen = frozen
  Runs = {c1}
  Jobs = {j1, j2}
  Transactions = {t1, t2, t3}
  Addresses = {a, b, payer1}
  Snapshot = frozen
  Ceiling = 30
  Fine = 10
  Tolerance = 1
  Executions = {1, 2}
  Catalog <- MCCatalog
  Contracts <- MCContracts
  Plans <- MCPlans
  Decided <- MCDecided
  Situations <- MCSituations
  Scores = {64, 65}
  Memories <- MCMemories
  Book <- MCBook
  Receipts <- MCReceipts
INVARIANTS
  TypeOK
  JobsAreApproved
  RunReportsAreTrue
  ObservationsAreTrue
  InfluenceOnlyGuards
  SettlementsAreAuthorized
  SettlementsAreAccounted
PROPERTY
  RunsEnd
CONSTRAINT
  OneWithoutTheOther
CHECK_DEADLOCK FALSE
