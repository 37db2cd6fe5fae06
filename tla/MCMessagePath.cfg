SPECIFICATION MCSpec
CONSTANTS
  Requests = {"r1", "r1again", "r2", "r2retry", "r2other", "peer", "anon", "mismatch", "set1", "health", "v2", "unknown", "invalid", "bare", "empty", "ahead", "aheadAgain", "far", "q1", "q2", "q3", "q4"}
  Req <- MCReq
  Options <- MCOptions
  Signals <- MCSignals
  None = None
  NoCaller = NoCaller
  Window = 1
  CacheTtl = 0
  CapacityOf <- MCCapacity
  RefillOf <- MCRefill
  MaxEntries = 1
  IdleEvict = 1
INVARIANTS
  AnswersAreOurs
  ReplaysRefused
  RateBound
  NoOrphanClaim
  MessagesReach
  AnswersBelongToCalls
PROPERTIES
  OperationsEnd
CHECK_DEADLOCK FALSE
