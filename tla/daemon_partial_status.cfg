SPECIFICATION Spec
CONSTANTS
  z64 = z64
  z32 = z32
  Zygotes <- OneAbi
  Primary = z64
  MaxCrashes = 0
  MaxFaults = 0
  MaxForks = 0
  Survivors = FALSE
  Prompt = FALSE
PROPERTY StatusCountsModules
CHECK_DEADLOCK FALSE
