CONSTANTS
    Payloads = {"s", "l"}
    Framed <- MCFramed
    MaxFramed = 2
    HeaderSize = 1
    SegmentSize = 4
    MaxLsn = 3
    Seeds = {1}
    IoFaults = FALSE
    PowerLoss = FALSE
    WarmReopen = FALSE
    OrderedUnlink = TRUE
    MediaFaults = 0
    MaxFiles = 3
    MaxSlots = 3
    Bad = bad
SPECIFICATION FuzzSpec
INVARIANTS ReplayIsReport ReopenAgrees
CHECK_DEADLOCK FALSE
