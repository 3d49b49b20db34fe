CONSTANTS
  JobIds <- ThreeJobs
  Types = {"t", "u"}
  JobType <- ChainType
  MaxAttempts <- ChainRetry
  Graphs <- Chain
  MaxRuns = 2
SPECIFICATION FairSpec
INVARIANTS ThreeBooksAgree RetriesFollowFailures
PROPERTY RunEnds Promise
