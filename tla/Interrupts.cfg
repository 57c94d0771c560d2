SPECIFICATION Spec
CONSTANTS
  Main = main
  Looper = looper
  Loader = {l1, l2}
  Nobody = nobody
  Exceptions = {0, 6, 8, 13, 17}
  tss_entry = 20057088
  StackWords = 20
  INT_BITS = 8
  LONG_BITS = 16
  Argument <- ArgumentMC
  Text <- TextMC
INVARIANTS
  OnTrack
  NoneInServiceWhenEnabled
  
  PiecesPrinted
PROPERTIES
  RegistersKept
CHECK_DEADLOCK FALSE
