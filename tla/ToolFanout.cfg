CONSTANTS
  Tasks <- SmallTasks
  Every <- SmallEvery
  Burst <- SmallBurst
  Listings <- SmallListings
  MaxBodies = {0, 2}
  Parts = 1
  Concurrency = 2
SPECIFICATION FairSpec
INVARIANTS TypeOK BackfillsCapped AnswerAccounts SendsWithinLimits
PROPERTIES CallsReturn
