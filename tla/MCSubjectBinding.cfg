SPECIFICATION Spec
CONSTANTS
    b1 = b1
    b2 = b2
    n1 = n1
    s1 = s1
    s2 = s2
    NoMarker = NoMarker
    Bodies = {b1, b2}
    IssuedAt <- MCIssuedAt
    OperationOf <- MCOperationOf
    NativeSubjects = {n1}
    Subjects = {s1, s2}
    Windows <- MCWindows
    MaxClock = 2
    MaxAttested = 2
    MaxCalls = 1
    MaxResults = 1
SYMMETRY SubjectSymmetry
INVARIANTS
    TrustedIsCorrelated
    BoundIsReversible
PROPERTIES
    AcceptanceIsCurrent
CHECK_DEADLOCK FALSE
