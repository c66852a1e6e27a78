CONSTANTS
  Users = {u1, u2}
  WellFormed = {n1, n2}
  IllFormed = {}
  Slots = {s1}
  null = null
  blank = blank
VIEW View
SPECIFICATION SSpec
INVARIANT JoinedIsMember
PROPERTIES StopReturns EndsOnceClientsLeave
