SPECIFICATION FairSpec
CONSTANTS
  p1 = p1
  Pods = {p1}
  NoPod = NoPod
  c1 = c1
  Callers = {c1}
  TTL = 2
  ElectionInterval = 1
  RefusalErrors = {TRUE}
  RedisFaults = FALSE
  Punctual = TRUE
PROPERTIES
  LeaseKept
