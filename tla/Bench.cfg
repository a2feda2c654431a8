\* The three scripts against a service that may answer with errors or not at all, and
\* may save old copies of a job or take its message twice.
SPECIFICATION Spec
CONSTANTS
  Scripts = {"runner", "e2e", "scale"}
  Trouble = TRUE
  MaxJob = 2
  MaxRetry = 1
  Limit = 1
  Minute = 2
  Latency = 1
  Disturbed <- SomeJobs
  Attempts = 2
  Polls = 2
  Several = 1
  Many = 2
  Levels <- TwoLevels
  Burst10 = 2
  Need10 = 1
  WaveSize = 1
  Waves = 2
  Rates <- TwoRates
INVARIANTS
  TypeOK
  ReportAddsUp
  RateRowIsItsOwn
  ThresholdIsFirst
  HealthGate
PROPERTIES
  BypassIsTrue
  CompletionIsTrue
  WavesWithinLimit
CHECK_DEADLOCK FALSE
