SPECIFICATION SpecStartup
CONSTANTS
  Threads <- MCThreads
  Files <- MCFiles
  Plan <- MCPlan
  Loaders <- MCLoaders
  Reborn <- MCReborn
  Is64 <- MCIs64
  Devices <- MCDevices
INVARIANTS TypeOKStartup ServedFilesReset BridgeKnown NameKept NameAgrees FoldersFresh StatusSurvives
CHECK_DEADLOCK FALSE
