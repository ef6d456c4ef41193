SPECIFICATION FairSpec
CONSTANTS
  z64 = z64
  z32 = z32
  Zygotes <- TwoAbis
  Primary = z64
  MaxCrashes = 3
  MaxFaults = 0
  MaxForks = 0
  Survivors = FALSE
  Prompt = TRUE
INVARIANT QuietIsLoaded
PROPERTY Healed
CHECK_DEADLOCK FALSE
