CONSTANTS
  a = a
  b = b
  c = c
  q1 = q1
  Replicas <- MCReplicas
  Clusters <- MCClusters
  WriteSets <- MCWriteSets
  MaxChanges = 2
  Requests <- MCRequests
  RowsOf <- MCRowsOf
SPECIFICATION ShardFairSpec
PROPERTIES StopHaltsTheLoop
CHECK_DEADLOCK FALSE
