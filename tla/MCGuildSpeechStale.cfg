SPECIFICATION FairSpec
CONSTANTS
    a = a
    b = b
    c = c
    Texts <- MCTexts
    Groups <- MCGroups
    Messages = 2
    Capacity = 2
    Clears = {c1}
    Toggles = 0
    NoItem = NoItem
PROPERTY NoStaleSpeech
CHECK_DEADLOCK FALSE
