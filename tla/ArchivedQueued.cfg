CONSTANTS
  p1 = p1
  s1 = s1
  s2 = s2
  a1 = a1
  a2 = a2
  x = x
  y = y
  None = None
  Projects <- OneProject
  Scenarios <- OneScenario
  ProjectOf <- InOneProject
  Assets <- OneAsset
  HomeOf <- AssetHome
  Params <- OneParam
  ValidParams <- OneParam
  Seeded <- OneScenario
  BlobChecks = {TRUE}
  Outcomes = {"completed"}
  MaxItems = 2
  MaxRevisions = 2
  MaxVersion = 2
SPECIFICATION StoreSpec
PROPERTY ArchivedNotQueued
CHECK_DEADLOCK FALSE
