SPECIFICATION FairSpec
CONSTANTS
  z64 = z64
  z32 = z32
  Zygotes <- TwoAbis
  ModuleReaders <- TwoAbis
  Processors = 8
  HasNativeBridge = TRUE
  MaxStops = 1
  MaxDeaths = 1
  MaxThrows = 1
INVARIANTS TypeOK FirstIsLoader StatusBeforeBridge
PROPERTY EveryLoaderEnds
CHECK_DEADLOCK FALSE
