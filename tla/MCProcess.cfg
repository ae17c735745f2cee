\* Three process slots; counters modulo 5.
CONSTANTS
  MAPPED_LIMIT <- MCMappedLimit
  MEMORY_ENDS <- MCMemoryEnds
  MAX_PROCESSES = 3
  UINT32 = 5
  ENTRY_POINTS = {65536}
  STATUSES = {7}
  BREAKS = {0, 8192}
SPECIFICATION Spec
INVARIANTS
  TypeOK
  PidsUnique
  ParentsOlder
  StacksExclusive
  NoPageLeaks
  CountTracksLive
\* The CPU stops when it faults for ever or loses its stack.
CHECK_DEADLOCK FALSE
