SPECIFICATION ProvenanceSpec
CONSTANTS
    o1 = o1
    o2 = o2
    s1 = s1
    s2 = s2
    p1 = p1
    p2 = p2
    Operations = {o1, o2}
    Subjects = {s1, s2}
    Proofs = {p1, p2}
    Receipts <- MCReceipts
    Finals <- MCFinals
    Events <- MCEvents
    Lifecycle = Lifecycle
    Ids = {i1, i2}
    MaxAttestations = 2
    GENESIS = GENESIS
    NoHead = NoHead
    Recorders = {r1, r2}
    Faults = TRUE
    ExportOutcomes = {TRUE}
    NoAttestation = NoAttestation
    MaxTime = 1
INVARIANTS
    ChainVerifies
    SuccessIsDurable
    OneExecution
    AttestedWasVerified
SYMMETRY Symmetry
