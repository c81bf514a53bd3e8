SPECIFICATION FairSpec
CONSTANTS
  c1 = c1
  c2 = c2
  Consumers = {c1, c2}
  Count = 1
  MinIdle = 1
  ForeignEvents = FALSE
  ServiceFails = FALSE
  RedisFaults = FALSE
  Exits = TRUE
  MaxEvents = 2
PROPERTIES
  EventuallyTold
