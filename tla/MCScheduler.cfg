SPECIFICATION MCSpec
CONSTANTS
  OneOffIds = {"once"}
  CronIds = {"cron"}
  Crons = {"often", "rare", "never"}
  NoCron = NoCron
  Workers = {w1, w2}
  NoWorker = NoWorker
  Slots = {1}
  BatchSize = 1
  Concurrency = 1
  ClaimTtl = 1
  MaxAttempts = 2
  Retention = 0
  MaxTerminal = 1
  MaxTime = 3
  RunAts = {1}
  MaxTick = 6
  MaxEntries = 1
  MaxTerminalLen = 2
  NextTick <- MCNextTick
SYMMETRY Symmetry
INVARIANTS
  TypeOK
  DueCoverage
  OwnerIsRunning
  AttemptsWithinBudget
  NeverEarly
  CalendarKept
PROPERTIES
  StepsRespectTasks
