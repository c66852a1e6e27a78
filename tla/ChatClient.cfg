CONSTANTS
  Sockets = {s1}
  socket = s1
  MaxMessages = 5
  MaxPosted = 4
SPECIFICATION CSpec
INVARIANTS StreamIntact ClosesInOrder
PROPERTIES TypedIsSent QuitEndsClient
