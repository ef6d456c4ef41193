SPECIFICATION Spec
CONSTANTS
  Threads <- MCThreads
  Files <- MCFiles
  Plan <- MCPlan
INVARIANT BadContextReported
CHECK_DEADLOCK FALSE
