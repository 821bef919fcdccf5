SPECIFICATION FairSpec
CONSTANTS
  Tasks <- PipelineTasks
  Deps <- PipelineDeps
  Dependents <- PipelineDependents
  Calls <- PipelineRound
  Workers = {w1, w2}
  Main = main
  NoTask = none
  Modulus = 8
  Timing <- ParkTiming
INVARIANTS NoLostWakeup
PROPERTIES RunReturns ReadyRuns RoundsFair
