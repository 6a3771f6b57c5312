CONSTANTS
  p1 = p1
  p2 = p2
  s1 = s1
  s2 = s2
  s3 = s3
  a1 = a1
  a2 = a2
  x = x
  None = None
  Projects <- TwoProjects
  Scenarios <- ThreeScenarios
  ProjectOf <- OneEach
  Assets <- TwoAssets
  HomeOf <- AssetHome
  Params <- OneParam
  ValidParams <- OneParam
  Seeded <- ThreeScenarios
  BlobChecks = {TRUE}
  Outcomes = {"completed", "failed", "stopped"}
  MaxItems = 2
  MaxRevisions = 2
  MaxVersion = 2
  N = 2
  Signature <- ThirdOnCpu
  Editing = {}
  Disruptions = {"crash"}
SPECIFICATION FairCoordinatorSpec
INVARIANTS
  CoordinatorTypeOK
  ActiveRowsOwned
PROPERTIES
  StoreSpec
  StopIsHonoured
  ReleasedIsServed
CHECK_DEADLOCK FALSE
