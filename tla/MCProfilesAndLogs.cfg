SPECIFICATION BothSpec
CONSTANTS
  NsMin = 100
  MaxBody = 5
  Day = 50
  MaxNodes = 7
  HalfHour = 4
  Second = 2
  MaxPushes = 3
  FnHash <- MCHash
  ReMatch <- MCMatch
INVARIANTS ProfilesAddUp GraphsShowTheTree 
  ScriptsAnsweredAsMeant ErrorsHaveCause TenantsSeparated
CHECK_DEADLOCK FALSE
