SPECIFICATION IptSpec
CONSTANTS
  Trace = {"a1", "b2"}
  Iface = {"lo", "eth0", "eth1", "eth2", "eth3"}
  Line <- LogLines
  Cap = 1
  MaxEvents = 2
  Backend = "iptables"
  Target = "ssh"
  Mode = "active"
  InIfaceGiven = TRUE
  LockTaken = FALSE
INVARIANTS
  OutcomeAgrees
  OnlyLostSetupLeaves
