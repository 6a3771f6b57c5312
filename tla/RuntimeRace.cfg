\* Two workers of one signature initialize Taichi at the same time.
CONSTANTS
    s1 = s1
    s2 = s2
    Sessions = {s1, s2}
    MaxActive = 2
    Requests <- MCFewRequests
    Environment <- MCEnvironment
    Base <- MCBase
    Nobody = Nobody
    Unset = Unset
SPECIFICATION Spec
INVARIANTS
    RuntimeIsSerialized
