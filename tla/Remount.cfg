CONSTANTS
  p1 = p1
  p2 = p2
  s1 = s1
  s2 = s2
  s3 = s3
  a1 = a1
  a2 = a2
  x = x
  None = None
  Projects <- OneProject
  Scenarios <- OneScenario
  ProjectOf <- AllOfOne
  Assets <- OneAsset
  HomeOf <- AssetHome
  Params <- OneParam
  ValidParams <- OneParam
  Seeded <- OneScenario
  BlobChecks = {TRUE}
  Outcomes = {"completed", "failed", "stopped"}
  MaxItems = 2
  MaxRevisions = 2
  MaxVersion = 2
  N = 1
  Signature <- SameSignature
  Editing = {}
  Disruptions = {"crash","unmount"}
SPECIFICATION CoordinatorSpec
PROPERTY RestartInterrupts
CHECK_DEADLOCK FALSE
