\* One fault, and an operator who repairs what it leaves behind.
SPECIFICATION FairRepairSpec
CONSTANTS
  i1 = i1
  i2 = i2
  p1 = p1
  p2 = p2
  c1 = c1
  c2 = c2
  j1 = j1
  j2 = j2
  w1 = w1
  o1 = o1
  Operators = {o1}
  Requests = {"recover", "reconcile", "requeue", "reset"}
  Alarm = 1
  Stuck = {"QUEUED", "PROCESSING"}
  Jobs = {j1}
  NoJob = NoJob
  Partitions = {p1}
  Consumers = {c1}
  Schedulers = {w1, o1}
  Instances = {i1, i2}
  HostOf <- SplitHost
  Types <- OneType
  TypeOf <- AllLog
  Assignment <- Spread
  Crashable = {i2}
  FaultKinds = {"redisLoss", "crash", "sendThrows", "consumeThrows"}
  MaxFaults = 1
  MaxTime = 2
  MaxLog = 1
  MaxRetry = 0
  CancelTtl = 9
  Delays = {1}
  ImmediateThreshold = 0
  Cancellable = {}
  WatchDelay = 1
  GapLimit = 1
  Lookahead = 1
  RecoveryWindow = 3
  WatchPage = 1
  RecoverPage = 1
  FailureThreshold = 1
  CircuitTimeout = 2
  RateDelay = 1
  CircuitDelay = 1
  BackoffUnit = 1
  BackoffCap = 2
  RateAnswers <- OnlyYes
  ExecAnswers <- Both
PROPERTIES
  AbandonedIsRepaired
