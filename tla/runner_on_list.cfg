SPECIFICATION Spec
CONSTANTS
  Tasks <- ListTasks
  Deps <- ListDeps
  Dependents <- ListDependents
  Calls <- ListRound
  Workers = {w1, w2}
  Main = main
  NoTask = none
  Modulus = 8
  Timing <- RoundTiming
  PopsSettle = TRUE
SYMMETRY WorkerSymmetry
INVARIANTS OnListInv ListSound NextNotRaced
PROPERTIES RunnerSpec
