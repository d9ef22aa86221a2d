SPECIFICATION BackgroundSpec
CONSTANTS
  w1 = w1
  w2 = w2
  a1 = a1
  a2 = a2
  a3 = a3
  Writers = {w1, w2}
  Adders = {a1, a2, a3}
  WriterOf <- MCWriterOf
  LinesOf <- MCLinesOf
  Budget = 0
  FlushMin = 2
  MaxRounds = 0
  Gen = "<_>"
  SendRoutines <- MCSendRoutines
  Watchers <- MCWatchers
  Services = {s1, s2}
  Runners = {g1, g2}
  i1 = i1
  i2 = i2
  series = series
  gin = gin
  view = view
  bak = bak
  dist = dist
  Instances = {i1, i2}
  FileOrder <- MCFileOrder
  Scripts <- MCScripts
  Names <- MCNames
  Columns <- MCColumns
  Sources <- MCSources
  Deployments <- MCDeployments
  Configs <- MCConfigs
  NoPolicy = ""
  Day = 86400
  MaxStops = 2
  MaxStarts = 4
PROPERTIES StopTerminatesRoutines
CHECK_DEADLOCK FALSE
