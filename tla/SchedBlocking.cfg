SPECIFICATION Spec
CONSTANTS
  a = a  b = b  c = c
  Idle = Idle  Clean = Clean
  Task = {a, b, c}
  Boot <- BootAll
  Calls <- CallsBlocking
  Slice = 2  MaxSleep = 2
CHECK_DEADLOCK FALSE
INVARIANTS
  TypeOK LockBalance LinkedOnce ListMatchesState NoThreadLost
  WalkWakesAllDue PostponedSwitchKept
PROPERTIES
  NoSwitchWhilePostponed RoundRobinSteps StackFreedAfterLastSwitch
