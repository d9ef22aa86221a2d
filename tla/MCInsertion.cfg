SPECIFICATION InsertionSpec
CONSTANTS
  small = small
  large = large
  empty = empty
  Calls <- MCCalls
  Size <- MCSize
  MaxQueueSize <- MCMaxQueueSize
  a = a
  b = b
  c = c
  q1 = q1
  Replicas <- MCReplicas
  Clusters <- MCClusters
  WriteSets <- MCWriteSets
  MaxChanges = 2
  Requests <- MCRequests
  RowsOf <- MCRowsOf
INVARIANTS AckedRowsStored SettledOnce NobodyForgotten OverfullIsFlushing
  RoutingIsConsistent WritesToAdmittedReplicas
PROPERTIES ImplementsContract QueuedCallsAnswered LayoutFollowsTheCluster
CHECK_DEADLOCK FALSE
