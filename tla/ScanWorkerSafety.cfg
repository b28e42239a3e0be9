SPECIFICATION Spec
CONSTANTS
  h1 = h1
  h2 = h2
  h3 = h3
  m1 = m1
  m2 = m2
  NoMac = NoMac
  NoDevice = NoDevice
  N = 3
  Hosts = {h1, h2, h3}
  HostOf <- ThreeHosts
  Counted = 3
  Concurrency = 2
  Macs = {m1, m2}
  ArpTables <- ChangingArp
INVARIANTS
  NoTaskOutlivesRun
  PermitConservation
  NoLostWakeup
  PauseHolds
  ProgressExact
  GuiMirrorsDevices
