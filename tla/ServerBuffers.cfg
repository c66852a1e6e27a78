CONSTANTS
  Sockets = {s1, s2}
  MaxMessages = 2
SPECIFICATION Spec
INVARIANT StreamIntact
CHECK_DEADLOCK FALSE
