SPECIFICATION Spec
CONSTANTS
  None = None
  Torn = Torn
  Latency = 1800
  Budget = 20
  Verify = TRUE
  Repetitions = 2
  Every = 1
  MaxAttempts = 2
  MaxStarts = 3
  Candidates <- MCCandidates
  Fixture <- MCFixture
  Proposals <- MCProposals
  Orders <- MCOrders
INVARIANTS
  TypeOK
  InfluenceIsGranted
  RulesStayWithinGrants
  NoPairTwice
  FileHoldsClaims
PROPERTIES
  CheckpointOnlyGrows
  CampaignEnds
CHECK_DEADLOCK FALSE
