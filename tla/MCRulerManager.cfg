SPECIFICATION Spec
CONSTANTS
  Groups = {"g1", "g2"}
  Namespaces = {"ns"}
  NamespaceOf <- MCNamespaceOf
  Intervals = {"10s", "30s"}
  ZeroIntervals = {"0s"}
  BadIntervals = {"bad"}
  Records = {"a", "b"}
  NoRecord = NoRecord
  None = None
  InitialRules <- MCInitialRules
  Definitions <- MCDefinitions
  MaxEdits = 2
  Slots = {1, 2, 3}
INVARIANTS RoutinesAreManaged
PROPERTIES HealthFollowsTheRules StopEnds
CHECK_DEADLOCK FALSE
