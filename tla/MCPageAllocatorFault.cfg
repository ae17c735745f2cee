\* The same memories, of which only the first two pages are identity-mapped.
CONSTANTS
  MAPPED_LIMIT <- MCShortlyMapped
  MEMORY_ENDS <- MCMemoryEnds
  POINTERS <- MCShortPointers
SPECIFICATION Spec
INVARIANT FreePagesAllocatable
CHECK_DEADLOCK FALSE
