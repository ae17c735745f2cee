\* Three rows of two cells; three calls after Init_VGA.
CONSTANTS
  VGA_WIDTH = 2
  VGA_HEIGHT = 3
  BYTE = 4
  UINT = 256
  UINT64 = 4096
  NUM_BUF = 5
  HEX_BUF = 4
  INT_MIN_TEXT <- MCIntMinText
  INIT_MESSAGE <- MCInitMessage
  BOOT_CURSORS <- MCBootCursors
  CHARS <- MCChars
  HIGH <- MCHigh
  CALLS <- MCCalls
  WRITES <- MCWrites
  PLACES <- MCPlaces
  COLORS <- MCColors
  MAX_CALLS = 3
SPECIFICATION Spec
INVARIANTS
  TypeOK
  CursorOnScreen
  NumbersExact
PROPERTIES
  ImplementsTerminal
  CallReturns
\* MAX_CALLS calls, and the model stops.
CHECK_DEADLOCK FALSE
