SPECIFICATION Spec
CONSTANTS
    ta = ta
    tb = tb
    NoId = NoId
    N = 3
    Test = {ta, tb}
    NameOf <- Alphabet
    Slots = 2
    MaxTests = 2
INVARIANTS TypeOK RowsAreRight OrderIsDetermined FanOutIsBounded
PROPERTIES Answers
CHECK_DEADLOCK FALSE
