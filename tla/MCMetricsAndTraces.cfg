SPECIFICATION BothSpec
CONSTANTS
  Bucket = 4
  Staleness = 16
  HalfHour = 4
  Day = 80
  MaxWindow = 44
  MaxPoints = 8
  SixHours = 16
  MaxPushes = 4
  MetricOrder <- MCOrder
INVARIANTS FunctionsMeanTheirSamples AggCombinesLiveSeries SelectorsShowTheirSamples ListingsCoverTheWindow
  SpansAreFound SearchesMeanQueries MetricsCountSpans
CHECK_DEADLOCK FALSE
