\* A switch loads the stack of the process it switches to.
CONSTANTS
  MAPPED_LIMIT <- MCMappedLimit
  MEMORY_ENDS <- MCMemoryEnds
  MAX_PROCESSES = 3
  UINT32 = 5
  ENTRY_POINTS = {65536}
  STATUSES = {7}
  BREAKS = {0, 8192}
SPECIFICATION Spec
PROPERTY
  SwitchLoadsStack
CHECK_DEADLOCK FALSE
