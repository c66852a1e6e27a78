CONSTANTS
  Clients = {c1, c2}
  WellFormed = {n1, n2}
  IllFormed = {bad}
  blank = blank
SPECIFICATION Spec
INVARIANTS OwnNameUndisturbed ValidMeansRegistered
PROPERTY EveryClientAnswered
