SPECIFICATION Spec
CONSTANTS
  v1 = v1
  v2 = v2
  Convs = {v1, v2}
  k1 = k1
  Checkers = {k1}
  r1 = r1
  r2 = r2
  Requests = {r1, r2}
  Stamps = {0}
  Interval = 1
  MaxAge = 4
  MaxRetries = 1
  RedisFaults = FALSE
  ServiceFails = FALSE
  Crashes = FALSE
  MaxTime = 4
  MaxRequests = 3
SYMMETRY Symmetry
PROPERTIES
  EscalationSpec
