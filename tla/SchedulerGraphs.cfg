CONSTANTS
  JobIds <- ThreeJobs
  Types = {"t"}
  JobType <- OneType
  MaxAttempts <- OneAttempt
  Graphs <- AnyGraph
  MaxRuns = 1
SPECIFICATION Spec
INVARIANTS RunsOnlyAfterDependencies OrderRespectsDependencies CycleVerdictExact SkipHasCause DeferralIsolates
PROPERTY ResultsAreFinal
