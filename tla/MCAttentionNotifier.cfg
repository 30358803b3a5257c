SPECIFICATION FairSpec
CONSTANTS
  i = i
  j = j
  Ids = {i, j}
  MaxDialogs <- MCMaxDialogs
  EventBuffer = 2
  MaxRepeats = 1
INVARIANT
  AnnouncedOnce
PROPERTIES
  RunsWhileOpen
  DialogsRing
\* The sessions' changes are bounded, so all may come to rest.
CHECK_DEADLOCK FALSE
