SPECIFICATION Spec
CONSTANTS
  p1 = p1
  p2 = p2
  Program <- MCProgram
  Replicas = {p1, p2}
  NoReplica = NoReplica
  Ghost = Ghost
  UsesLock = TRUE
  CatchesTimeout = TRUE
  MaxSignals = 2
  MaxQueue = 1
  MaxCrashes = 1
  Faults = {"stepFails", "storeError"}
SYMMETRY MCSymmetry
INVARIANTS SignalsInOrder WaitSingleValued
PROPERTIES HistoryGrows
CHECK_DEADLOCK FALSE
