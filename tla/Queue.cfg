CONSTANTS
  p1 = p1
  s1 = s1
  s2 = s2
  a1 = a1
  a2 = a2
  x = x
  y = y
  None = None
  Projects <- OneProject
  Scenarios <- TwoScenarios
  ProjectOf <- InOneProject
  Assets <- OneAsset
  HomeOf <- AssetHome
  Params <- OneParam
  ValidParams <- OneParam
  Seeded <- TwoScenarios
  BlobChecks = {TRUE}
  Outcomes = {}
  MaxItems = 3
  MaxRevisions = 3
  MaxVersion = 2
SPECIFICATION StoreSpec
INVARIANTS
  OneLiveItemPerScenario
  DeletedIsTerminal
  WaitingOrdersDistinct
  DraftBindingsExist
PROPERTY LifecycleSpec
SYMMETRY AnyScenario
CHECK_DEADLOCK FALSE
