\* One connection with two messages and a write, from the first step to the join.
SPECIFICATION FairSpec
CONSTANTS
  c1 = c1
  None = None
  Conn = {c1}
  MaxMsg = 2
  MaxWrite = 1
INVARIANTS
  TypeOK
  ReportedOnce
  FaultOnlyAtEnd
PROPERTIES
  RecvInOrder
  DisconnectReported
  ShutdownEnds
CHECK_DEADLOCK FALSE
