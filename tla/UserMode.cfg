SPECIFICATION USpec
CONSTANTS
  a = a b = b c = c x = x y = y g = g
  Idle = idle
  Clean = clean
  Task = {a, b, c}
  Boot <- BootTwo
  Calls <- CallsShell
  Slice = 1
  MaxSleep = 1
  Char = {x, y}
  KEYBOARD_BUFFER_SIZE = 3
  Glyph = {g}
  VGA_WIDTH = 2
  VGA_HEIGHT = 2
  Loaders = {b}
  SleepsFirst = TRUE
INVARIANTS
  RingIsFifo
  
  LocksConserved
  OwnKernelStack
  TimerStopsOnlyAfterRead
  ScreenUnlessRaced
SYMMETRY Keys
CHECK_DEADLOCK FALSE
