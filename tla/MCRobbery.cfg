SPECIFICATION Spec
CONSTANTS
    Users <- MCUsers
    Lucky = {2}
    Glitched = {2}
    Handlers = {h1, h2}
    Amounts = {2}
    StartDocs <- MCStartDocs
    Before = 0
    Keep = 1
    Limit = 2
    Fine = 1
    DailyChips = 1
    MaxRobberies = 2
    MaxDay = 2
    MaxFaults = 1
    NoHandler = NoHandler
SYMMETRY MCSymmetry
CHECK_DEADLOCK FALSE
INVARIANTS GivenBackOnce NoChipsFromNothing NoCircularWait
