SPECIFICATION CronSpec
CONSTANTS
  LostMidnight = TRUE
INVARIANTS NextTickExact
CHECK_DEADLOCK FALSE
