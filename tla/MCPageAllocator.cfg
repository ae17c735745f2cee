\* Memories of 0, 3 and 9 pages, all but the last identity-mapped. The CPU
\* that faults on it hangs: the system may stop.
CONSTANTS
  MAPPED_LIMIT <- MCMostlyMapped
  MEMORY_ENDS <- MCMemoryEnds
  POINTERS <- MCPointers
SPECIFICATION Spec
INVARIANTS
  TypeOK
  UsedPagesExact
  HeldExact
  HeldInsideMemory
  FindContiguousExact
PROPERTY ImplementsPool
CHECK_DEADLOCK FALSE
