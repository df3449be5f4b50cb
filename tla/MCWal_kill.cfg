CONSTANTS
    Payloads = {"s", "xl"}
    Framed <- MCFramed
    MaxFramed = 2
    HeaderSize = 1
    SegmentSize = 3
    MaxLsn = 4
    Seeds = {1}
    IoFaults = FALSE
    PowerLoss = FALSE
    WarmReopen = TRUE
    OrderedUnlink = TRUE
    MediaFaults = 1
SPECIFICATION FairSpec
INVARIANTS AckedIsReadable NeverFatal
PROPERTY CommitCompletes
CHECK_DEADLOCK FALSE
