SPECIFICATION FairSpec
CONSTANTS
  Tasks <- ChainTasks
  Deps <- ChainDeps
  Dependents <- ChainDependents
  Calls <- ChainRound
  Workers = {w1, w2}
  Main = main
  NoTask = none
  Modulus = 8
  Timing <- ParkTiming
PROPERTIES RunReturns
