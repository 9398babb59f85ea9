SPECIFICATION Spec
CONSTANTS
    kim = kim
    raj = raj
    b1 = b1
    b2 = b2
    User = {kim, raj}
    Browser = {b1, b2}
    Nobody = Nobody
    MaxEntries = 7
SYMMETRY Symmetry
INVARIANTS TypeOK SomeAdminRemains StatusFollowsLog
CHECK_DEADLOCK FALSE
