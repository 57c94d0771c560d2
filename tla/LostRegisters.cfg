SPECIFICATION Spec
CONSTANTS
  Main = main
  Looper = looper
  Loader = {l1}
  Nobody = nobody
  Exceptions = {0}
  tss_entry = 20057088
  StackWords = 20
  INT_BITS = 8
  LONG_BITS = 16
  Argument <- ArgumentMC
  Text <- TextMC
PROPERTIES
  ClobberedAreSaved
CHECK_DEADLOCK FALSE
