CONSTANTS
  p1 = p1
  p2 = p2
  pend1 = pend1
  pend2 = pend2
  x = x
  y = y
  NoPid = NoPid
  NoId = NoId
  NoRow = NoRow
  NoView = NoView
  Pids = {p1, p2}
  SyntheticPids = {s1, s2, s3}
  RealIds = {x, y}
  AgentIds = {a, b}
  Names = {}
  ScopedIds = {}
  pendingId <- MCPendingId
  scopedId <- MCScopedId
  Reports <- MCReports
  OldPi = {}
  cmdlineParent <- MCCmdlineParent
  Effects = {"Working"}
  MaxSessions = 3
  MaxStarts = 1
SPECIFICATION Spec
SYMMETRY AgentSymmetry
INVARIANTS
  CascadeAgrees
  IndexSound
  ExclusiveIdsIndexed
  NoGhosts
  CapacityRespected
PROPERTIES
  EndsRecorded
