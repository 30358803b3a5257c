CONSTANTS
  p1 = p1
  p2 = p2
  p3 = p3
  home = home
  container = container
  Pids = {p1, p2, p3}
  NoPid = NoPid
  Dirs = {home, container}
  tuiDir = home
  MaxStrangers = 1
  MaxMishaps = 2
  MaxCommands = 2
SPECIFICATION FairSpec
INVARIANTS PathIsOurs PidFileIsOurs
PROPERTY TuiRecovers
CHECK_DEADLOCK FALSE
