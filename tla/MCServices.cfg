SPECIFICATION MCSpec
CONSTANTS
  LostMidnight = FALSE
INVARIANTS ServicesExact ConversionsExact
PROPERTIES StepsKeep ServicesProgress
CHECK_DEADLOCK FALSE
