CONSTANTS
  ping_retry_max = 3
  MaxQueue = 3
  MaxBacklog = 2
SPECIFICATION Spec
INVARIANTS OneOfEach PostedOnLiveUser AnsweredBeforeClose
PROPERTIES SilentPeerUnlisted Reclaimed
