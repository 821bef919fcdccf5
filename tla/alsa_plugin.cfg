SPECIFICATION Spec
CONSTANTS
  BlockSize = 3
  Modulus = 16
  Params <- MCParams
  Slaves <- MCSlaves
  Layouts <- MCLayouts
  MaxTransfer = 7
  MaxFrames = 25
INVARIANTS BlocksInOrder FramesAccounted PointerFollows SpeakersRight DeviceSound PluginInv
