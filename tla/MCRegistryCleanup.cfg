CONSTANTS
  p1 = p1
  p2 = p2
  pend1 = pend1
  pend2 = pend2
  x = x
  NoPid = NoPid
  NoId = NoId
  NoRow = NoRow
  NoView = NoView
  Pids = {p1, p2}
  SyntheticPids = {s1, s2}
  RealIds = {x}
  AgentIds = {}
  Names = {}
  ScopedIds = {}
  pendingId <- MCPendingId
  scopedId <- MCScopedId
  Reports <- MCReports
  cmdlineParent <- MCCmdlineParent
  OldPi = {}
  Effects = {"Working"}
  MaxSessions = 2
  MaxStarts = 2
SPECIFICATION FairSpec
PROPERTY DeadRowsLeave
