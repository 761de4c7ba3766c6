SPECIFICATION MCSpec
CONSTANTS
    Operations = {o1, o2, o3}
    Proofs = {p1, p2, p3}
    Targets = {tg}
    Times = {1}
    Tokens = {t1, t2, t3}
    MaxRecords = 2
    NoRecord = NoRecord
    Base = 2
    Micros = 2
    Millis = 1
    LeapBoundaries = {2}
    TTL = 1
    Texts <- MCTexts
    MaxEvidence = 2
    MaxNow = 11
INVARIANTS
    ConsumedAtMostOnce
    HistoryBounded
    OrderIsExact
    NeverOutlives
    ExpiryHasReason
PROPERTIES
    ImplementsCapability
CHECK_DEADLOCK FALSE
