CONSTANTS
    Payloads <- MCPayloads
    Length <- MCLength
    ZeroFilled <- MCZeroFilled
    Limits = {20}
    SegmentCells = 14
    MaxLsn = 7
    PageCells = 1
    Settings <- MCSettings
    MaxRecords = 3
    MaxZeros = 4
    NoPayload = NoPayload
SPECIFICATION FuzzSpec
CHECK_DEADLOCK FALSE
INVARIANTS ClassifierCorrect ReopenIsClean
PROPERTY Terminates
