SPECIFICATION Spec
CONSTANTS
  Channels <- MCChannels
  Configs <- MCConfigs
  Configurations <- MCConfigurations
  DefaultBlockSize = 128
  MaxCoeffs = 7
INVARIANTS OpenInv EveryBlockOnce ShiftAfterLeaves OneRoundGraph SummingEnds
           FiltersAsWritten OpenedComplete EveryBinOnce EveryTapOnce
PROPERTIES LoadEnds
