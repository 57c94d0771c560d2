SPECIFICATION FairSemSpec
CONSTANTS
  a = a  b = b  c = c
  Idle = Idle  Clean = Clean
  Task = {a, b, c}
  Boot <- BootAll
  Calls <- CallsLive
  Slice = 2  MaxSleep = 1
  MaxCount = 1
INVARIANTS
  SemTypeOK WaitOnlyWhenFull PermitBound
PROPERTIES
  RoundRobinSpec ReadyRuns SleeperRuns TerminatedReclaimed
