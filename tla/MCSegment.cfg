CONSTANTS
    Payloads = {"b", "z"}
    Length <- MCLength
    ZeroFilled <- MCZeroFilled
    Limits = {12, 20}
    SegmentCells = 12
    MaxLsn = 3
    PageCells = 4
    Settings <- PassSettings
SPECIFICATION Spec
INVARIANTS HandleIsFile TailIsZero ActiveOpens SealedOpens
PROPERTIES AckedKept NoResurrection
