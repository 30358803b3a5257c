CONSTANTS
  p1 = p1
  pend1 = pend1
  x = x
  y = y
  a = a
  b = b
  n = n
  nAtPend = nAtPend
  nAtX = nAtX
  nAtY = nAtY
  NoPid = NoPid
  NoId = NoId
  NoRow = NoRow
  NoView = NoView
  Pids = {p1}
  SyntheticPids = {s1, s2, s3, s4}
  RealIds = {x, y}
  AgentIds = {a, b}
  Names = {n}
  ScopedIds = {nAtPend, nAtX, nAtY}
  pendingId <- MCPendingId
  scopedId <- MCScopedId
  Reports <- MCReports
  OldPi = {p1}
  cmdlineParent <- MCCmdlineParent
  Effects = {"Working"}
  MaxSessions = 4
  MaxStarts = 1
SPECIFICATION Spec
SYMMETRY AgentSymmetry
INVARIANTS
  TypeOK
  ChildrenOwned
  ChildRecordsAgree
  FeedAgrees
PROPERTY
  RealIdsStay
