CONSTANTS
  p1 = p1
  pend1 = pend1
  x = x
  y = y
  z = z
  NoPid = NoPid
  NoId = NoId
  NoRow = NoRow
  NoView = NoView
  Pids = {p1}
  SyntheticPids = {s1}
  RealIds = {x, y, z}
  AgentIds = {}
  Names = {}
  ScopedIds = {}
  pendingId <- MCPendingId
  scopedId <- MCScopedId
  Reports <- MCReports
  OldPi = {}
  cmdlineParent <- MCCmdlineParent
  Effects = {"Working"}
  MaxSessions = 1
  MaxStarts = 1
  agent = p1
  OldFrames = {"status", "event"}
  NewFrames = {"status", "event"}
  Unseen = TRUE
  MaxMoves = 3
SPECIFICATION ClearSpec
INVARIANT OrderlyMoveLands
PROPERTY OldStaysOut
