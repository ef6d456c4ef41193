SPECIFICATION Spec
CONSTANTS
  z64 = z64
  z32 = z32
  Zygotes <- TwoAbis
  Primary = z64
  MaxCrashes = 2
  MaxFaults = 2
  MaxForks = 1
  Survivors = TRUE
  Prompt = TRUE
INVARIANTS TypeOK OneWatcher RestartOnce ClosedOnceLoaded StatusTruthful
CHECK_DEADLOCK FALSE
