CONSTANTS
    Procs = {"p", "q"}
    Seeds = {1, 2}
    Levels = 1
    MaxRecords = 1
    Settings <- MCSettings
SPECIFICATION FairSpec
INVARIANTS OpenNeverFails OneOrigin
PROPERTY OpenReturns
