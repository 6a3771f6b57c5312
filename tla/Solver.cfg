\* Retries, outputs, windows and resumption of a solver run.
CONSTANTS
    c1 = c1
    c2 = c2
    Cells = {c1, c2}
    FailTime <- MCFailTime
    DtInitial = 5
    DtMin = 2
    DtMax = 5
    DtOutput = 6
    DtDecrease = 1
    DtIncrease = 1
    OutputTolerance = 1
    TEnd = 12
    WindowEnds = {6, 8}
    Stable = 2
    Cases <- MCCases
SPECIFICATION FairSpec
INVARIANTS
    SolverTypeOK
    OutputGrid
    RetryLeavesNoTrace
    ResumeContinues
    ResultsAreTraceless
    ResultsKept
    ResultsComplete
    FiresOnceInItsWindow
    WindowsDoNotMatter
    DerivedIsFresh
PROPERTIES
    ResultsOnTime
    EveryStepCounts
    Returns
CHECK_DEADLOCK FALSE
