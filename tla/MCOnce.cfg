SPECIFICATION MCSpec
CONSTANTS
  Requests = {"a1", "a2", "a3", "b1", "b2"}
  Replicas = {"A", "B"}
  ReplicaOf <- MCReplicaOf
  Payload <- MCPayload
  NoFingerprint = NoFingerprint
  Nobody = Nobody
  FailOpen = FALSE
  Faults = {"readError", "writeError", "crash"}
CHECK_DEADLOCK FALSE
INVARIANTS
  LeaseDiscipline
  ExclusiveExecution
  SingleSuccess
  ReplaysAreReal
PROPERTIES
  ImplementsOnceOnly
  TriedUntilDone
