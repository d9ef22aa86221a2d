SPECIFICATION Spec
CONSTANTS
  Streams = {s1, s2}
  MaxRows = 3
  BatchSize = 2
  OptimizerSize = 3
  Limits = {0, 1}
  MaxBody = 2
  l1 = l1
  l2 = l2
  l3 = l3
  Lines <- MCLines
  Fp <- MCFp
  MaxTime = 3
  StartNs = 0
  TailLimit = 2
  WatcherBuf = 1
  InternalPlan = FALSE
  Callers = {c1, c2}
  MaxVersion = 1
  MaxWaking = 1
INVARIANTS OkMeansComplete 
PROPERTIES StreamsEnd OutdatedVersionsExpire
CHECK_DEADLOCK FALSE
