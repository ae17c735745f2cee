CONSTANTS
  CALLER_STACKS = {100, 200}
  KERNEL_STACK_TOP = 40
  LEFTOVERS = {0}
  ARGUMENTS = {5, 7}
  RESULTS = {8, 9}
SPECIFICATION Spec
INVARIANT StackRestored
CHECK_DEADLOCK FALSE
