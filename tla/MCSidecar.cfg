SPECIFICATION MCSpec
CONSTANTS
    Limit = 2
    Readers = {"gateway", "sidecar", "upstream"}
    MaxTotal = 4
    MaxChunk = 3
    MaxHeaders = 2
    Documents <- MCDocuments
    MaxClock = 2
INVARIANTS
    NeverOverLimit
    ChunkingIrrelevant
    ReportCoherent
PROPERTIES
    Answered
CHECK_DEADLOCK FALSE
