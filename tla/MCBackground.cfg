SPECIFICATION Spec
CONSTANTS
  Sessions = {s1, s2}
  Dirs = {d1, d2}
  NoDir = NoDir
  Branches = {b1, b2}
  NoContext = NoContext
  Panicked = Panicked
  MaxChanges = 3
  MaxFaults = 2
  Others = {"c1"}
  Ids = {"i1", "i2"}
  MaxClients = 1
  MaxDelay = 1
  MaxStops = 1
  OutboxMax = 2
  HighWater = 2
  MaxEvents = 6
  MaxSockets = 2
  MaxTries = 2
  MaxScripts = 2
  MaxResizes = 3
INVARIANTS
  SlotsExact
  ReadInOrder
  SettlesAtWidth
PROPERTIES
  NoStrayContext
  ContextsSettle
  PlacesKept
  TuiGetsIn
  NothingHangs
CHECK_DEADLOCK FALSE
