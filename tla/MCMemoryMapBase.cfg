\* A BIOS that returns the 24 bytes (six words) per entry it is asked for, at
\* most three entries.
CONSTANTS
  WORD = 16
  HALF = 2
  memory_start = 4
  DEFAULT_END = 11
  MAX_ENTRIES = 3
  ENTRIES <- MCEntries
  STRIDES = {6}
  GARBAGE = {0, 1}
SPECIFICATION Spec
INVARIANT ParsedAsReported
\* Detection and parsing happen once, at boot: the specification ends.
CHECK_DEADLOCK FALSE
