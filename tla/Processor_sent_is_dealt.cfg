\* A SendTask without a limit that returns before its task was dealt with.
SPECIFICATION Spec
CONSTANTS
  h = h
  n1 = n1
  n2 = n2
  l = l
  s = s
  r = r
  st = st
  i = i
  x = x
  None = None
  PostCall = {}
  SendCall = {s}
  StopCall = {x}
  Priority <- MCPriority
  Timed = {}
  OwnThread = {}
  Repeat = {}
  After <- MCAfter
  Spurious = TRUE
INVARIANT
  SentIsDealt
CHECK_DEADLOCK FALSE
