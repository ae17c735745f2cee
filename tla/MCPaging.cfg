\* Four indices per table; six pages of memory, five of them mapped at boot.
CONSTANTS
  MAPPED_LIMIT <- MCMappedLimit
  MEMORY_ENDS <- MCMemoryEnds
  LEFTOVERS <- MCLeftovers
  MAPPINGS <- MCMappings
  INDEXES = {0, 1, 510, 511}
SPECIFICATION Spec
INVARIANTS
  TypeOK
  TablesOwned
  NoTableLeaks
  TablesReached
  TranslationAgrees
  BootMapExact
PROPERTIES
  MapTakesEffect
  ImplementsAddressSpace
\* The CPU stops when it faults for ever.
CHECK_DEADLOCK FALSE
