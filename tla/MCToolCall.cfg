SPECIFICATION ToolSpec
CONSTANTS
    Call = {c1, c2}
    Org = {o1, o2}
    TTL = 1
    RoundTrip = 1
    MaxTime = 4
    MaxChanges = 1
    Fetches = 3
    Slots = 2
SYMMETRY Symmetry
INVARIANTS ToolTypeOK NoStaleVerdict CheckedBeforeSent GuessIsYoung
CHECK_DEADLOCK FALSE
