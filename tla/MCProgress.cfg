SPECIFICATION MCSpec
CONSTANTS
  N = 3
  Compensable = {1, 3}
  Runner = "runner"
  Workers = {"r1", "r2"}
  NoOne = "no one"
  Dead = "dead"
  LeaseMs = 2
  StaleAfterMs = 2
  Pg = TRUE
  MaxMishaps = 2
  Faults = {"stepFails", "undoFails", "storeError"}
INVARIANTS EnginesTyped OneDriver AllOrNothing
PROPERTIES SagaStepsBack WorkIsFinished
CHECK_DEADLOCK FALSE
