SPECIFICATION Spec
CONSTANTS
    kim = kim
    raj = raj
    ana = ana
    s1 = s1
    s2 = s2
    i1 = i1
    Item = {i1}
    Examiner = {kim, raj, ana}
    Session = {s1, s2}
    Nobody = Nobody
    MaxEntries = 6
SYMMETRY Symmetry
INVARIANTS TypeOK AcceptanceAnswersHandover PendingUnlessRaced OneAcceptanceUnlessRaced
PROPERTY HolderByAcceptance
CHECK_DEADLOCK FALSE
