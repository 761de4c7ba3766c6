SPECIFICATION FaultFreeSpec
CONSTANTS
    Operations = {o1, o2}
    Subjects = {s1}
    Proofs = {p1, p2}
    Events = {e1}
    Ids = {i1, i2, i3}
    MaxAttestations = 2
    GENESIS = GENESIS
    NoHead = NoHead
    Recorders = {r1, r2}
    Faults = FALSE
    ExportOutcomes = {TRUE}
    NoAttestation = NoAttestation
INVARIANTS CapacityRespected
PROPERTIES AppendProgress
