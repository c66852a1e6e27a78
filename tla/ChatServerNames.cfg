CONSTANTS
  Users = {u1, u2}
  WellFormed = {n1, n2, n3}
  IllFormed = {bad}
  Slots = {s1}
  null = null
  blank = blank
SPECIFICATION Spec
INVARIANT MembersHaveDistinctNames
