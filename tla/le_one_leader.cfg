SPECIFICATION Spec
CONSTANTS
  p1 = p1
  p2 = p2
  Pods = {p1, p2}
  NoPod = NoPod
  c1 = c1
  Callers = {c1}
  TTL = 2
  ElectionInterval = 1
  RefusalErrors = {TRUE}
  RedisFaults = FALSE
  Punctual = TRUE
INVARIANTS
  AtMostOneLeader
