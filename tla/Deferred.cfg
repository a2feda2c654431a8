\* Two jobs scheduled ahead, no fault: each is handled by one thread at a time.
SPECIFICATION Spec
CONSTANTS
  i1 = i1
  i2 = i2
  p1 = p1
  p2 = p2
  c1 = c1
  c2 = c2
  j1 = j1
  j2 = j2
  w1 = w1
  Jobs = {j1, j2}
  NoJob = NoJob
  Partitions = {p1, p2}
  Consumers = {c1, c2}
  Schedulers = {w1}
  Instances = {i1}
  HostOf <- OneHost
  Types <- OneType
  TypeOf <- AllLog
  Assignment <- Spread
  Crashable = {}
  FaultKinds = {}
  MaxFaults = 0
  MaxTime = 4
  MaxLog = 1
  MaxRetry = 1
  CancelTtl = 2
  Delays = {2}
  ImmediateThreshold = 1
  Cancellable = {j1}
  WatchDelay = 1
  GapLimit = 1
  Lookahead = 1
  RecoveryWindow = 3
  WatchPage = 1
  RecoverPage = 1
  FailureThreshold = 2
  CircuitTimeout = 2
  RateDelay = 1
  CircuitDelay = 1
  BackoffUnit = 1
  BackoffCap = 2
  RateAnswers <- Both
  ExecAnswers <- Both
INVARIANTS
  SingleFlight
  FlightInv
PROPERTIES
  TerminalIsFinal
  FollowsLifecycle
