CONSTANTS
    Batch = 1
    Total = 4
    Cycles = 2
    LossyWire = FALSE
    TornLines = FALSE
SPECIFICATION Spec
INVARIANT NoVacuousPass
CHECK_DEADLOCK FALSE
