SPECIFICATION FairSpec
CONSTANTS
  z64 = z64
  z32 = z32
  Zygotes <- TwoAbis
  ModuleReaders <- TwoAbis
  Processors = 4
  HasNativeBridge = FALSE
  MaxStops = 0
  MaxDeaths = 0
  MaxThrows = 0
PROPERTY EveryLoaderEnds
CHECK_DEADLOCK FALSE
