SPECIFICATION RunSpec
CONSTANTS
  Trace = {"a1", "b2"}
  Iface = {"lo", "eth0", "eth1", "eth2", "eth3"}
  Line <- FewLines
  Cap = 1
  MaxEvents = 2
  Backend = "nft"
  Target = "local"
  Mode = "listen"
INVARIANT
  ErrorMeansMonitorFailed
