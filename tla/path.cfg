SPECIFICATION Spec
CONSTANTS
  Trace = {1, 2}
  Iface = {}
  RuleId <- SampleIds
  Chain <- SampleChains
  Prints <- SamplePrints
  HostRulesets <- SampleRulesets
  DropPolicies <- SamplePolicies
  NewRule <- AddedRule
  Touched = {"filter_INPUT"}
  Cuts <- SampleCuts
  MaxPackets = 2
  MaxEarly = 1
  MaxMishaps = 1
INVARIANTS
  PathTypeOK
  RuleTextTrue
  OriginTrue
  AnswerIsTrue
  DropIsTold
CHECK_DEADLOCK FALSE
