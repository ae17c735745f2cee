\* Init_Paging has mapped the kernel once it has switched CR3.
CONSTANTS
  MAPPED_LIMIT <- MCMappedLimit
  MEMORY_ENDS <- MCMemoryEnds
  LEFTOVERS <- MCLeftovers
  MAPPINGS <- MCMappings
  INDEXES = {0, 1, 510, 511}
SPECIFICATION Spec
INVARIANT
  InitCompletes
CHECK_DEADLOCK FALSE
