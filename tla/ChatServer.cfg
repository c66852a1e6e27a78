CONSTANTS
  Users = {u1, u2, u3}
  WellFormed = {n1, n2, n3}
  IllFormed = {bad}
  Slots = {s1}
  null = null
  blank = blank
SYMMETRY Symmetry
SPECIFICATION Spec
INVARIANTS MembershipAgrees MapAgrees NamesUnique NoStrandedMember
PROPERTIES RemovedByLastMember ImplementsRooms
