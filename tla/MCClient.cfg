SPECIFICATION FairSpec
CONSTANTS
  c1 = c1
  c2 = c2
  c3 = c3
  c4 = c4
  k1 = k1
  k2 = k2
  Calls = {c1, c2, c3, c4}
  KeyOf <- MCKeyOf
  IdemKey <- MCIdemKey
  NoKey = NoKey
  Options <- MCOptions
  MaxAttempts = 2
  Tries = {1, 2}
  MaxPhysical = 3
  MaxInflight = 2
  High = 2
  Low = 0
  Hooks = 2
  MaxTime = 3
  FailureThreshold = 1
  HalfOpenSuccessThreshold = 2
  ResetTimeout = 1
  WindowMs = 2
  BucketMs = 1
  MinSampleSize = 2
  RatePercent = 50
INVARIANTS CountersExact ProbeAccounted HooksAfterDrain
PROPERTIES ClientComesToRest
CHECK_DEADLOCK FALSE
