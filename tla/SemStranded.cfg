SPECIFICATION SemSpec
CONSTANTS
  a = a  b = b  c = c
  Idle = Idle  Clean = Clean
  Task = {a, b, c}
  Boot <- BootAll
  Calls <- CallsPermits
  Slice = 2  MaxSleep = 1
  MaxCount = 1
INVARIANTS
  NoWaiterStranded
