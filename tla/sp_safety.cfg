SPECIFICATION ProducerSpec
CONSTANTS
  v1 = v1
  Convs = {v1}
  k1 = k1
  d1 = d1
  CheckLoops = {k1}
  DetectLoops = {d1}
  Checkers = {k1, d1}
  r1 = r1
  Requests = {r1}
  Stamps = {0}
  Interval = 1
  MaxAge = 9
  MaxRetries = 0
  RedisFaults = TRUE
  ServiceFails = TRUE
  Crashes = TRUE
  MaxTime = 3
  MaxRequests = 2
  MaxEvents = 3
INVARIANTS
  ProducerTypeOK
  StandingNotRepeated
  HiddenOnlyByCheckLoop
  EventsInOrder
PROPERTIES
  TrackingSpec
  RepeatsHaveACause
