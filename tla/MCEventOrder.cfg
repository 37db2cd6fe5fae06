SPECIFICATION EventsSpec
CONSTANTS
  Records = {1, 2, 3}
  Key <- MixedKeys
  NoKey = "no key"
  Workers = {"w1"}
  Slots = {1, 2}
  Nobody = "nobody"
  Ghost = "ghost"
  Claims = FALSE
  HasEmitBatch = TRUE
  Batch = 2
  MaxAttempts = 2
  CommitsInOrder = TRUE
  Faults = {}
  EventWriters = {"a", "b"}
  EventFaults = 0
INVARIANTS NothingSkipped
CHECK_DEADLOCK FALSE
