SPECIFICATION Spec
CONSTANTS
  Tasks <- MCTasks
  Deps <- MCDeps
  Dependents <- MCDependents
  Channels <- MCChannels
  Filters <- MCFilters
  Channel <- MCChannel
  NumBlocks <- MCNumBlocks
  Combine <- MCCombine
  Samples = {zeros}
  Silence = zeros
  Torn = torn
INVARIANTS FreedUnused
