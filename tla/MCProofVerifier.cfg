SPECIFICATION Spec
CONSTANTS
    l1 = l1
    l2 = l2
    o1 = o1
    o2 = o2
    s1 = s1
    s2 = s2
    PreLayers = {l1, l2}
    EXECUTION = EXECUTION
    Operations = {o1, o2}
    Subjects = {s1, s2}
    SubjectOperation <- MCSubjectOperation
    MaxTime = 2
    MaxAlterations = 1
    Collections <- MCCollections
    Executions <- MCExecutions
    plain = plain
    staged = staged
    Natives = {plain, staged}
    Answers <- MCAnswers
    Whole = Whole
    NoProof = NoProof
    NoExpiry = NoExpiry
    NoSubject = NoSubject
CHECK_DEADLOCK FALSE
INVARIANTS AcceptedIsGoverned GovernedIsAccepted
PROPERTIES BuilderAgrees NoResurrection
