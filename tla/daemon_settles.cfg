SPECIFICATION FairSpec
CONSTANTS
  z64 = z64
  z32 = z32
  Zygotes <- OneAbi
  Primary = z64
  MaxCrashes = 1
  MaxFaults = 0
  MaxForks = 0
  Survivors = FALSE
  Prompt = FALSE
INVARIANT StatusTruthful
PROPERTIES Settles ImplementsZygoteWatch
CHECK_DEADLOCK FALSE
