\* Any instance crashes, Redis loses its data, a send is lost or throws.
SPECIFICATION Spec
CONSTANTS
  i1 = i1
  i2 = i2
  p1 = p1
  p2 = p2
  c1 = c1
  c2 = c2
  j1 = j1
  j2 = j2
  w1 = w1
  Jobs = {j1}
  NoJob = NoJob
  Partitions = {p1, p2}
  Consumers = {c1, c2}
  Schedulers = {w1}
  Instances = {i1, i2}
  HostOf <- SplitHost
  Types <- OneType
  TypeOf <- AllLog
  Assignment <- Spread
  Crashable = {i1, i2}
  FaultKinds = {"crash", "redisLoss", "sendLost", "sendThrows"}
  MaxFaults = 1
  MaxTime = 6
  MaxLog = 2
  MaxRetry = 1
  CancelTtl = 9
  Delays = {2}
  ImmediateThreshold = 1
  Cancellable = {}
  WatchDelay = 1
  GapLimit = 1
  Lookahead = 1
  RecoveryWindow = 3
  WatchPage = 1
  RecoverPage = 1
  FailureThreshold = 1
  CircuitTimeout = 2
  RateDelay = 1
  CircuitDelay = 1
  BackoffUnit = 1
  BackoffCap = 2
  RateAnswers <- OnlyYes
  ExecAnswers <- Both
INVARIANTS
  DueInv
PROPERTIES
  NotBeforeDue
