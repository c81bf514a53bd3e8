SPECIFICATION Spec
CONSTANTS
  c1 = c1
  c2 = c2
  Consumers = {c1, c2}
  Count = 2
  MinIdle = 1
  ForeignEvents = TRUE
  ServiceFails = TRUE
  RedisFaults = TRUE
  Exits = TRUE
  MaxEvents = 2
SYMMETRY Symmetry
INVARIANTS
  TypeOK
  OneHolder
  ToldOnce
PROPERTIES
  DeliverySpec
