SPECIFICATION Spec
CONSTANTS
  i = i
  j = j
  Ids = {i, j}
  MaxDialogs <- MCMaxDialogs
  EventBuffer = 1
  MaxRepeats = 1
INVARIANT
  OpenDialogRings
\* The sessions' changes are bounded, so all may come to rest.
CHECK_DEADLOCK FALSE
