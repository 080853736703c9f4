\* A timer that is set twice and then killed is deleted under its second wait.
SPECIFICATION Spec
CONSTANTS
  k = k
  i = i
  t1 = t1
  t2 = t2
  t3 = t3
  None = None
  Client = {k}
  Id = {i}
  Timer = {t1, t2, t3}
  Count <- Counts
  MaxCalls = 4
INVARIANT TimerExists
CHECK_DEADLOCK FALSE
