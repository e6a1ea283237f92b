SPECIFICATION Spec
CONSTANTS
    Org = {o1}
    MaxChanges = 4
    MaxRequests = 4
INVARIANTS TypeOK OrgsWereHeld SoundIsCurrent RevokedStaysOut
CHECK_DEADLOCK FALSE
