CONSTANTS
  i1 = i1
  i2 = i2
  m1 = m1
  NoMac = NoMac
  Absent = Absent
  Ips = {i1, i2}
  Macs = {m1}
  Labels = {l1}
  SightedMacs <- Sightings
  Imported <- File
  MaxScans = 2
  MaxStarts = 2
  MaxDialogs = 1
  MaxQuestions = 2
  ChartPeriod = 2
  Rank <- Ranks
SPECIFICATION ViewSpec
INVARIANTS
  ViewsAreFresh
  ReportIsOfOneScan
  TableIsInOrder
  RowsIndexed
  LabelsAreStored
PROPERTIES
  StoredFavouriteStays
  NewIsAnnouncedOnce
CHECK_DEADLOCK FALSE
