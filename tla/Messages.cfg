CONSTANTS
  Clients = {c1, c2, c3}
  Stems = {s1}
  NameLengths = {19, 20, 21}
  MaxLines = 6
  Lines = {512, 513}
  none = none
  max_length = 3
  target_size = 3
  message_type_length_ = 2
  message_size_length_ = 1
  Contents <- MCContents
  Targets <- MCTargets
  Objects = {m1, m2}
  Texts <- MCTexts
  NameLimit = 2
  TextLimit = 3
  MaxCalls = 4
  MaxWrites = 3
  MaxInbound = 2
SYMMETRY Symmetry
SPECIFICATION MCSpec
INVARIANTS ReplyReachesWriter MessageArrives DecodedAsSet SessionSafe
PROPERTY OnlyTheTargetReads
CHECK_DEADLOCK FALSE
