SPECIFICATION Spec
CONSTANTS
  Linger <- LingerA
  MaxWrite = 1
  MaxOpen <- OpenTwice
  MaxNet = 2
  Window = 4
  Duplicates = FALSE
INVARIANT
  RelistenedServerAccepts
CHECK_DEADLOCK FALSE
