SPECIFICATION Spec
CONSTANTS
  Ifaces = {"a", "b"}
  Groups <- MCGroups
  MaxTrouble = 1
  MaxRules = 2
  MaxTethers = 2
INVARIANTS
  CostlyTrafficIsLimited
  CountersMatchQuotas
  BoxesMatchLists
  
  AlertFollowsTethering
  RulesArePaired
PROPERTY
  RestartIsClean
