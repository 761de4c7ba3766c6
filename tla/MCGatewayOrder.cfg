SPECIFICATION Spec
CONSTANTS
    o1 = o1
    o2 = o2
    s1 = s1
    s2 = s2
    p1 = p1
    p2 = p2
    p3 = p3
    p4 = p4
    p5 = p5
    g1 = g1
    g2 = g2
    Requests = {r1, r2}
    Operations = {o1}
    Subjects = {s1}
    Proofs = {p1}
    Targets = {g1}
    Tokens = {t1}
    Doc <- MCDoc
    TTL = 2
    MaxTime = 1
    MaxRecords = 1
    MaxAttestations = 6
    Faults = FALSE
    NoRecord = NoRecord
    NoHead = NoHead
    NoAttestation = NoAttestation
    GENESIS = GENESIS
    NoInput = NoInput
INVARIANTS LifecycleOrder
