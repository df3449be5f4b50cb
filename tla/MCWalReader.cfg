CONSTANTS
    Payloads = {"l"}
    Framed <- MCFramed
    MaxFramed = 2
    HeaderSize = 1
    SegmentSize = 5
    MaxLsn = 4
    Seeds = {1}
    IoFaults = TRUE
    PowerLoss = TRUE
    WarmReopen = FALSE
    OrderedUnlink = TRUE
    MediaFaults = 1
SPECIFICATION FairReaderSpec
INVARIANTS ReplayExact ReplayDense ReaderServed
PROPERTY ReplayEnds CorruptionIsLoud
CHECK_DEADLOCK FALSE
