SPECIFICATION FairSpec
CONSTANTS
  v1 = v1
  Convs = {v1}
  k1 = k1
  k2 = k2
  Checkers = {k1, k2}
  r1 = r1
  Requests = {r1}
  Stamps = {0}
  Interval = 1
  MaxAge = 3
  MaxRetries = 1
  RedisFaults = FALSE
  ServiceFails = FALSE
  Crashes = FALSE
  MaxTime = 4
  MaxRequests = 2
PROPERTIES
  EscalationCompletes
