CONSTANTS
  Threads = {t1, t2}
  Hosts <- MCHosts
  Configs <- MCConfigs
  Network <- MCNetwork
  Os <- MCOs
  OsAfter <- MCOsAfter
  Services <- MCServices
  Vendors <- MCVendors
  NoProbe = NoProbe
  Top100 <- NoPorts
  Curated = {}
  Calls <- MCCalls
  WindowScan = WindowScan
  Marks <- MCMarks
  OldFile = OldFile
  Spelling <- MCSpelling
  Numbers <- MCNumbers
SPECIFICATION CliSpec
SYMMETRY ThreadSymmetry
INVARIANT NamesAreOwn
