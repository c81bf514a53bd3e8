SPECIFICATION ServiceFairSpec
CONSTANTS
  p1 = p1
  p2 = p2
  Pods = {p1, p2}
  Detailed = {p1}
  NoPod = NoPod
  worker = worker
  handler = handler
  Worker = worker
  Handler = handler
  Callers = {worker, handler}
  TTL = 2
  ElectionInterval = 1
  RefusalErrors = {TRUE}
  RedisFaults = FALSE
  Punctual = FALSE
INVARIANTS
  ServiceTypeOK
  LeadershipEarned
  VerifiedLeaderHoldsKey
PROPERTIES
  DeadPodsLetGo
  LeaderReelected
  StaleFlagCleared
  ChecksGoOn
  StoppedPodRetires
