\* The constants of MCMachine.cfg, from the first floppy disk or the first hard
\* disk; a BIOS read gives all sectors or one less.
CONSTANTS
  DRIVES = {0, 128}
  COUNTS = {127, 128}
  LINES = {1, 8}
  EXCEPTIONS = {3, 14}
  LOCALS = {1, 2}
  DEPTH = 2
  MAX_NMI = 1
SPECIFICATION Spec
INVARIANT DiskVerified
\* The machine may stop: disk_load's endless loop, a reset, hlt.
CHECK_DEADLOCK FALSE
