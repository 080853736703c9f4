\* Tasks that were posted before Stop and are never executed.
SPECIFICATION Spec
CONSTANTS
  h = h
  n1 = n1
  n2 = n2
  l = l
  s = s
  r = r
  st = st
  i = i
  x = x
  None = None
  PostCall = {h, n1, l}
  SendCall = {}
  StopCall = {x}
  Priority <- MCPriority
  Timed = {}
  OwnThread = {}
  Repeat = {}
  After <- MCAfter
  Spurious = FALSE
INVARIANT
  StopDrainsAll
CHECK_DEADLOCK FALSE
