SPECIFICATION FairSpec
CONSTANTS
  Grace = 2
  MaxLaunches = 1
INVARIANTS
  TypeOK
  WaitsForTasks
  AuthIsOfThisClient
PROPERTY
  AssuredRestarts
