CONSTANTS
  p1 = p1
  s1 = s1
  s2 = s2
  a1 = a1
  a2 = a2
  x = x
  y = y
  None = None
  Projects <- OneProject
  Scenarios <- OneScenario
  ProjectOf <- InOneProject
  Assets <- TwoAssets
  HomeOf <- AssetHome
  Params <- OneParam
  ValidParams <- OneParam
  Seeded = {}
  BlobChecks = {TRUE}
  Outcomes = {"completed"}
  MaxItems = 3
  MaxRevisions = 4
  MaxVersion = 2
SPECIFICATION StoreSpec
INVARIANT SameInputsEveryRun
CHECK_DEADLOCK FALSE
