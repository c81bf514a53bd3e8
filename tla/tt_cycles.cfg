SPECIFICATION FairSpec
CONSTANTS
  v1 = v1
  Convs = {v1}
  k1 = k1
  Checkers = {k1}
  r1 = r1
  Requests = {r1}
  Stamps = {0}
  Interval = 1
  MaxAge = 9
  MaxRetries = 1
  RedisFaults = FALSE
  ServiceFails = FALSE
  Crashes = FALSE
  MaxTime = 6
  MaxRequests = 2
PROPERTIES
  CyclesRestart
