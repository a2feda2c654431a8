\* A server that never answers: does the scalability test stop?
SPECIFICATION Spec
CONSTANTS
  Scripts = {"scale"}
  Trouble = TRUE
  MaxJob = 3
  MaxRetry = 1
  Limit = 1
  Minute = 2
  Latency = 1
  Disturbed <- NoJobs
  Attempts = 2
  Polls = 2
  Several = 2
  Many = 3
  Levels <- TwoLevels
  Burst10 = 2
  Need10 = 1
  WaveSize = 1
  Waves = 2
  Rates <- TwoRates
INVARIANT
  Healthy
CHECK_DEADLOCK FALSE
