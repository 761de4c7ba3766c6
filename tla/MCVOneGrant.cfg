SPECIFICATION Spec
CONSTANTS
    o1 = o1
    o2 = o2
    Runs = {r1, r2}
    NoRun = NoRun
    Operations = {o1, o2}
    Grants <- MCGrants
    Calls <- MCCalls
    MaxTTL = 2
    MaxAge = 1
    MaxTime = 2
    MaxEpoch = 1
    NoCall = NoCall
    NoWitness = NoWitness
CHECK_DEADLOCK FALSE
INVARIANTS AcceptedWasIssued DirectMeansUnused EmbeddedMeansConsumed
PROPERTIES NoStageLaundering
SYMMETRY Symmetry
