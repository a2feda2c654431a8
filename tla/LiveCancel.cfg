\* Liveness of cancellation, for a job scheduled ahead.
SPECIFICATION FairSpec
CONSTANTS
  i1 = i1
  i2 = i2
  p1 = p1
  p2 = p2
  c1 = c1
  c2 = c2
  j1 = j1
  j2 = j2
  w1 = w1
  Jobs = {j1}
  NoJob = NoJob
  Partitions = {p1, p2}
  Consumers = {c1, c2}
  Schedulers = {w1}
  Instances = {i1}
  HostOf <- OneHost
  Types <- OneType
  TypeOf <- AllLog
  Assignment <- Spread
  Crashable = {}
  FaultKinds = {}
  MaxFaults = 0
  MaxTime = 4
  MaxLog = 1
  MaxRetry = 1
  CancelTtl = 9
  Delays = {2}
  ImmediateThreshold = 1
  Cancellable = {j1}
  WatchDelay = 1
  GapLimit = 1
  Lookahead = 1
  RecoveryWindow = 3
  WatchPage = 1
  RecoverPage = 1
  FailureThreshold = 1
  CircuitTimeout = 2
  RateDelay = 1
  CircuitDelay = 1
  BackoffUnit = 1
  BackoffCap = 2
  RateAnswers <- Both
  ExecAnswers <- Both
PROPERTIES
  CancelTakesEffect
