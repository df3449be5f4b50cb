CONSTANTS
    Payloads = {"b", "a"}
    Length <- MCLength
    ZeroFilled <- MCZeroFilled
    Limits = {20}
    SegmentCells = 12
    MaxLsn = 3
    PageCells = 4
    Settings <- ChunkSettings
SPECIFICATION Spec
INVARIANT SealedOpens
