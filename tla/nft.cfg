SPECIFICATION NftFairSpec
CONSTANTS
  Trace = {"a1", "b2"}
  Iface = {"lo", "eth0", "eth1", "eth2", "eth3"}
  Line <- NftLines
  Cap = 1
  MaxEvents = 2
  Backend = "nft"
  Target = "local"
  Mode = "active"
  DeletionFails = TRUE
INVARIANTS
  NftTypeOK
  OutcomeAgrees
  CapRespected
  EventsTracked
  IfacesAgree
  NoResidue
PROPERTIES
  TerminalIsStable
  
  Returns
  TerminalSettles
  MonitorStops
  ProbeEnds
