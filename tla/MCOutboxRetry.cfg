SPECIFICATION OutboxSpec
CONSTANTS
  Records = {1, 2, 3}
  Key <- OneKey
  NoKey = "no key"
  Workers = {"w1"}
  Slots = {1}
  Nobody = "nobody"
  Ghost = "ghost"
  Claims = TRUE
  HasEmitBatch = FALSE
  Batch = 2
  MaxAttempts = 2
  CommitsInOrder = TRUE
  Faults = {}
  EventWriters = {"a", "b"}
  EventFaults = 0
PROPERTIES OrderedRelay
CHECK_DEADLOCK FALSE
