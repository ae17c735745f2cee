\* A BIOS that returns 20 bytes (five words) per entry, at most three entries,
\* whose bases are multiples of 64KB.
CONSTANTS
  WORD = 16
  HALF = 2
  memory_start = 4
  DEFAULT_END = 11
  MAX_ENTRIES = 3
  ENTRIES <- MCAlignedEntries
  STRIDES = {5}
  GARBAGE = {0, 1}
SPECIFICATION Spec
INVARIANT ParsedAsReported
\* Detection and parsing happen once, at boot: the specification ends.
CHECK_DEADLOCK FALSE
