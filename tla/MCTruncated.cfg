SPECIFICATION Spec
CONSTANTS
    Org = {o1, o2}
    MaxChanges = 2
    MaxRequests = 3
SYMMETRY Symmetry
INVARIANTS FaultDropsNobody
CHECK_DEADLOCK FALSE
