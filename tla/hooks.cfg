SPECIFICATION Spec
CONSTANTS
  Devices <- MCDevices
  Shapes <- MCShapes
  MaxModules = 2
  MaxCalls = 2
  UidsChange = TRUE
INVARIANTS TypeOK PostMatchesPre UnloadedOnlyIfAllowed UnlistedStaysLoaded CalledIsAlive NothingDangles HideRunsOnce SoListIntact HiddenFromApp
CHECK_DEADLOCK FALSE
