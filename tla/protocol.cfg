SPECIFICATION FairSpec
CONSTANTS
  Capacity = 2
  Block = 2
  IntMax = 3
  FileSizes <- WrappingSizes
  MaxEntries = 2
  ModuleLists <- SmallLists
  LongIds <- OneLongId
  LongVersions <- OneLongVersion
  MaxFaults = 1
INVARIANTS TypeOK InStep ModulesPaired StatusComplete
PROPERTIES ContentRight ListingWhole CallEnds SessionEnds
CHECK_DEADLOCK FALSE
