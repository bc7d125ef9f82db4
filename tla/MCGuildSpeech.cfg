SPECIFICATION FairSpec
CONSTANTS
    a = a
    b = b
    c = c
    Texts <- MCTexts
    Groups <- MCGroups
    Messages = 2
    Capacity = 2
    Clears = {c1, c2}
    Toggles = 2
    NoItem = NoItem
CHECK_DEADLOCK FALSE
INVARIANTS DuplicatesWait WholeMessages
PROPERTIES NoStaleLocalSpeech SpokenInOrder ClearsOnlyOlder EverythingSettles
