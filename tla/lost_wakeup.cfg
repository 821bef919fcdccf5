SPECIFICATION FairSpec
CONSTANTS
  Tasks <- PipelineTasks
  Deps <- PipelineDeps
  Dependents <- PipelineDependents
  Calls <- PipelineRound
  Workers = {w1}
  Main = main
  NoTask = none
  Modulus = 8
  Timing <- NoTiming
PROPERTIES RunReturns
