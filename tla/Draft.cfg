CONSTANTS
  p1 = p1
  s1 = s1
  s2 = s2
  a1 = a1
  a2 = a2
  x = x
  y = y
  None = None
  Projects <- OneProject
  Scenarios <- OneScenario
  ProjectOf <- InOneProject
  Assets <- OneAsset
  HomeOf <- AssetHome
  Params <- TwoParams
  ValidParams <- OneParam
  Seeded = {}
  BlobChecks = {TRUE, FALSE}
  Outcomes = {"stopped"}
  MaxItems = 2
  MaxRevisions = 3
  MaxVersion = 4
SPECIFICATION StoreSpec
INVARIANTS
  StoreTypeOK
  RunsWhatWasQueued
  ParametersFixedByRun
  ShownStatusIsReal
CHECK_DEADLOCK FALSE
