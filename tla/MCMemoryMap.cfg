\* A BIOS that returns 20 or 24 bytes (five or six words) per entry, at most
\* three entries.
CONSTANTS
  WORD = 16
  HALF = 2
  memory_start = 4
  DEFAULT_END = 11
  MAX_ENTRIES = 3
  ENTRIES <- MCEntries
  STRIDES = {5, 6}
  GARBAGE = {0, 1}
SPECIFICATION Spec
INVARIANTS
  TypeOK
  RangeSane
  ParsedAsReported24
  EndWithinReport
PROPERTY Initializes
\* Detection and parsing happen once, at boot: the specification ends.
CHECK_DEADLOCK FALSE
