SPECIFICATION LiveSpec
CONSTANTS
  p1 = p1
  p2 = p2
  k1 = k1
  k2 = k2
  k3 = k3
  roll1 = roll1
  NoCommand = NoCommand
  NoFace = NoFace
  Processes <- TwoProcesses
  Commands <- AllCommands
  Clicks <- AllClicks
  RollOf <- RollOfOne
  Handles <- Apart
  Serial = FALSE
  Faces = {1, 2}
  MaxAttempts = 2
  MaxCrashes = 2
INVARIANTS
  BusInOrder
  SettledAsRecorded
PROPERTIES
  RollsAreSettled
  KeepsItsPromise
