CONSTANTS
  i1 = i1
  i2 = i2
  m1 = m1
  NoMac = NoMac
  Absent = Absent
  Ips = {i1}
  Macs = {m1}
  Labels = {l1}
  SightedMacs <- OneSighted
  Imported <- NoFile
  MaxScans = 2
  MaxStarts = 1
  MaxDialogs = 1
  MaxQuestions = 2
  ChartPeriod = 2
  Rank <- OneRank
SPECIFICATION ViewSpec
INVARIANT FavouritesPersist
CHECK_DEADLOCK FALSE
