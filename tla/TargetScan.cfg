SPECIFICATION Spec
CONSTANTS
  V4Bits = 3
  OctetBits = 2
  V6Bits = 5
  CountBits = 4
  Cap = 4
  Texts <- TokensAndLists
  ExpandCaps = {0, 1, 3, 7}
INVARIANTS
  VisitsWhatIsDenoted
  TotalIsVisited
  VisitsClosedForm
  ExpandAgreesWithScan
CHECK_DEADLOCK FALSE
