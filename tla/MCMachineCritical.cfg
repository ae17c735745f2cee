\* The constants of MCMachine.cfg: page faults are among the exceptions.
CONSTANTS
  DRIVES = {0, 128}
  COUNTS = {0, 127, 128}
  LINES = {1, 8}
  EXCEPTIONS = {3, 14}
  LOCALS = {1, 2}
  DEPTH = 2
  MAX_NMI = 1
SPECIFICATION Spec
INVARIANT CriticalStops
\* The machine may stop: disk_load's endless loop, a reset, hlt.
CHECK_DEADLOCK FALSE
