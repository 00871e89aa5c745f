SPECIFICATION FairSpec
CONSTANTS
  Addresses = {a1, a2}
  Ports = {1, 2}
  DefaultPort = 1
  NoHost = NoHost
INVARIANTS
  PortLentAndGivenBack
  AloneOffTheList
PROPERTIES
  ScanStarts
