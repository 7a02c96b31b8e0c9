SPECIFICATION NftSpec
CONSTANTS
  Trace = {"a1", "b2"}
  Iface = {"lo", "eth0", "eth1", "eth2", "eth3"}
  Line <- OneLine
  Cap = 1
  MaxEvents = 1
  Backend = "nft"
  Target = "ssh"
  Mode = "listen"
  DeletionFails = FALSE
INVARIANT
  NoResidue
