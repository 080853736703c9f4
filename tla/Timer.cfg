\* One client sets and kills timers under one identifier, four calls in all.
SPECIFICATION FairSpec
CONSTANTS
  k = k
  i = i
  t1 = t1
  t2 = t2
  t3 = t3
  None = None
  Client = {k}
  Id = {i}
  Timer = {t1, t2, t3}
  Count <- Counts
  MaxCalls = 4
INVARIANTS
  TypeOK
  OneChain
  RunsExact
  KillStops
  Reachable
PROPERTIES
  TimerEnds
CHECK_DEADLOCK FALSE
