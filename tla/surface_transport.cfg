SPECIFICATION Spec
CONSTANTS
  None = None
  MaxCalls = 3
  Keys = {k1}
  Bodies = {"b1", "b2", "b3"}
  Writes = {"complete", "influence", "evaluate"}
  Effectless = {"influence"}
  Effectful = {"evaluate"}
  Reads = {"summary"}
  Large = {"b3"}
  Requests <- MCRequests
  Deployments <- MCDeployments
  Attempts = 2
  MaxRestarts = 1
CHECK_DEADLOCK FALSE
INVARIANTS TypeOK AnswersAreEarned
PROPERTIES AnsweredKeysAreClosed AnsweredOnce AllAnswered ImplementsKeyedAnswers
