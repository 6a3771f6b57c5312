\* Sessions, the Taichi runtime, the environment and the setup of a solver.
CONSTANTS
    s1 = s1
    s2 = s2
    Sessions = {s1, s2}
    MaxActive = 2
    Requests <- MCRequests
    Environment <- MCEnvironment
    Base <- MCBase
    Nobody = Nobody
    Unset = Unset
SPECIFICATION Spec
INVARIANTS
    RuntimeTypeOK
    ReleasedWhenIdle
    SerializedUnlessRaced
    EnvironmentIsScoped
    SetupIsFresh
    ConsumedIsInEffect
PROPERTIES
    ResetSparesSessions
