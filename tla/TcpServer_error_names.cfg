\* The OnError of a failed write is given a NULL connection.
SPECIFICATION Spec
CONSTANTS
  c1 = c1
  None = None
  Conn = {c1}
  MaxMsg = 2
  MaxWrite = 1
INVARIANT ErrorNamesConnection
CHECK_DEADLOCK FALSE
