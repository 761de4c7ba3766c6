SPECIFICATION MCSpec
CONSTANTS
    i1 = i1
    p1 = p1
    p2 = p2
    p3 = p3
    s1 = s1
    s2 = s2
    o1 = o1
    o2 = o2
    Instances = {i1}
    Pres = {p1, p2, p3}
    BadPres = {p3}
    Operation <- MCOperation
    Verifications <- MCVerifications
    Forged <- MCForged
    Operations = {o1, o2}
    Snapshots = {s1, s2}
    About <- MCAbout
    Reasons = {"r"}
    MaxWitnesses = 2
    MaxClock = 1
    MaxBindings = 1
INVARIANTS
    PassIsTrue
    FailIsTrue
    EvidenceIsDecision
PROPERTIES
    EmissionIsCurrent
CHECK_DEADLOCK FALSE
