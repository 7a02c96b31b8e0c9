SPECIFICATION Spec
CONSTANTS
  Trace = {1}
  Iface = {}
  RuleId <- SampleIds
  Chain <- SampleChains
  Prints <- SamplePrints
  HostRulesets <- SampleRulesets
  DropPolicies <- SamplePolicies
  NewRule <- AddedRule
  Touched = {"filter_INPUT"}
  Cuts <- SampleCuts
  MaxPackets = 1
  MaxEarly = 1
  MaxMishaps = 0
CHECK_DEADLOCK FALSE
INVARIANT
  LostIsMarked
