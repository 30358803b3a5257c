SPECIFICATION FairSpec
CONSTANTS
  i = i
  j = j
  u = u
  w = w
  Ids <- MCIds
  Views <- MCViews
  NoView = NoView
  EventBuffer = 2
  SocketBuffer = 2
  MaxCommands = 3
  MaxBreaks = 2
  MaxRequests = 1
INVARIANTS
  StreamSound
PROPERTY
  Converges
\* Commands, failures and requests are bounded, so all may come to rest.
CHECK_DEADLOCK FALSE
