\* A GeForce host and two others; the first certificate and a replacement.
SPECIFICATION BookSpec
CONSTANTS
  Hosts = {"geforce", "desk", "attic"}
  Nvidia = {"geforce"}
  NoHost = "none"
  MaxCerts = 2
INVARIANTS
  ListMatchesMenu
  ConfirmedIsTrusted
  ToldIsListed
  PairingLastsNextRun
