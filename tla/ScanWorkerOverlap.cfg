SPECIFICATION Spec
CONSTANTS
  m1 = m1
  m2 = m2
  NoMac = NoMac
  NoDevice = NoDevice
  N <- TargetN
  Hosts <- TargetHosts
  HostOf <- Addresses
  Counted <- TargetTotal
  Concurrency = 1
  Macs = {m1, m2}
  ArpTables <- TargetArp

  
PROPERTIES
  DevicesOnlyImprove
  KeepsPromise
  EndsAsPromised
  EndsUnlessLeftPaused
