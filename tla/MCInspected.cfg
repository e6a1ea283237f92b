SPECIFICATION Spec
CONSTANTS
    ta = ta
    tb = tb
    NoId = NoId
    N = 2
    Test = {ta, tb}
    NameOf <- Alphabet
    Slots = 2
    MaxTests = 1
INVARIANTS CountsInspected
CHECK_DEADLOCK FALSE
