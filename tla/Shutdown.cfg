CONSTANTS
  p1 = p1
  p2 = p2
  s1 = s1
  s2 = s2
  s3 = s3
  a1 = a1
  a2 = a2
  x = x
  None = None
  Projects <- TwoProjects
  Scenarios <- TwoScenarios
  ProjectOf <- OneEach
  Assets <- TwoAssets
  HomeOf <- AssetHome
  Params <- OneParam
  ValidParams <- OneParam
  Seeded <- TwoScenarios
  BlobChecks = {TRUE}
  Outcomes = {"completed","failed","stopped"}
  MaxItems = 2
  MaxRevisions = 2
  MaxVersion = 2
  N = 2
  Signature <- EachItsOwn
  Editing <- OneProject
  Disruptions = {"shutdown","crash","fault","unmount"}
SPECIFICATION CoordinatorSpec
INVARIANTS
  AdmissionGate
  RecoverableRuns
PROPERTIES
  DeletionSparesLiveRuns
  TerminalIsFinal
CHECK_DEADLOCK FALSE
