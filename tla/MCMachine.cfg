\* A line on each PIC, two levels of handlers, one NMI.
CONSTANTS
  DRIVES = {0, 128}
  COUNTS = {0, 127, 128}
  LINES = {1, 8}
  EXCEPTIONS = {3, 14}
  LOCALS = {1, 2}
  DEPTH = 2
  MAX_NMI = 1
SPECIFICATION Spec
INVARIANTS
  TypeOK
  FrameSeen
  NothingLeftInService
  RequestsKept
PROPERTIES
  ContextRestored
  PendingAccepted
\* The machine may stop: disk_load's endless loop, a reset, hlt.
CHECK_DEADLOCK FALSE
