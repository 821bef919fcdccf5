SPECIFICATION Spec
CONSTANTS
  Tasks <- OneBlockTasks
  Deps <- OneBlockDeps
  Dependents <- OneBlockDependents
  Calls <- OneBlockRound
  Workers = {w1}
  Main = main
  NoTask = none
  Modulus = 8
  Timing <- BothTiming
INVARIANTS QueuedOnce
