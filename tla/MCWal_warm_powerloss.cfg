CONSTANTS
    Payloads = {"s", "l"}
    Framed <- MCFramed
    MaxFramed = 2
    HeaderSize = 1
    SegmentSize = 4
    MaxLsn = 3
    Seeds = {1}
    IoFaults = FALSE
    PowerLoss = TRUE
    WarmReopen = TRUE
    OrderedUnlink = TRUE
    MediaFaults = 0
SPECIFICATION Spec
INVARIANT AckedIsDurable
CHECK_DEADLOCK FALSE
