CONSTANTS
    Payloads = {"s", "l"}
    Framed <- MCFramed
    MaxFramed = 2
    HeaderSize = 1
    SegmentSize = 4
    MaxLsn = 4
    Seeds = {1, 3}
    IoFaults = TRUE
    PowerLoss = TRUE
    WarmReopen = FALSE
    OrderedUnlink = TRUE
    MediaFaults = 0
SPECIFICATION Spec
INVARIANTS TypeOK AckedIsDurable NeverFatal DenseLog HandleMatchesFiles AckedLsnNotReused NoCollision
PROPERTIES SealedImmutable ImplementsDurableLog
CHECK_DEADLOCK FALSE
