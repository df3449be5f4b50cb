CONSTANTS
    PerSegments = {1, 2, 3, 9}
    Existing = {0, 2, 3}
    MaxRecords = 8
    Budget = 2
SPECIFICATION Spec
CHECK_DEADLOCK FALSE
INVARIANTS CorrectBuildPasses ControlBites DemonstratedIsReal
