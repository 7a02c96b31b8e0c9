SPECIFICATION Spec
CONSTANTS
  Configs <- SampleConfigs
  MaxChanges = 2
INVARIANTS
  StartTypeOK
  ConfigFits
  AutoIsBest
  NftYieldsToRules
