\* Posts and sends without end and a Stop; every kind of SendTask and a Stop;
\* two clients on their own threads and one inside a task sharing two names.
SPECIFICATION SceneSpec
CONSTANTS
  h = h
  n1 = n1
  n2 = n2
  l = l
  s = s
  r = r
  st = st
  i = i
  x = x
  None = None
  PostCall = {h, n1, n2, l}
  SendCall = {s, r, st, i}
  StopCall = {x}
  Priority <- MCPriority
  Timed = {st}
  OwnThread = {i, l}
  Repeat = {h, r, l}
  After <- MCAfter
  Spurious = TRUE
  NoOne = NoOne
  Client = {k1, k2, j}
  Inside = {j}
  Name = {a, b}
  Object = {o1, o2}
INVARIANTS
  SceneTypeOK
  SysTaskSafe
  SysTaskOwned
  StopDrainsNormal
  ProgramOrder
  HoldersServed
  ThreadsOwned
PROPERTIES
  ImplementsService
  SendServed
  HightServed
  StopCompletes
  JoinsEnd
CHECK_DEADLOCK FALSE
