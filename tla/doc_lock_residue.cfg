SPECIFICATION IptSpec
CONSTANTS
  Trace = {"a1", "b2"}
  Iface = {"lo", "eth0", "eth1", "eth2", "eth3"}
  Line <- OneLine
  Cap = 1
  MaxEvents = 1
  Backend = "iptables"
  Target = "local"
  Mode = "listen"
  InIfaceGiven = FALSE
  LockTaken = TRUE
INVARIANT
  NoResidue
