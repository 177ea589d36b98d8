SPECIFICATION FairSpec
CONSTANTS
    Selectors = {s1, s2}
    Adders = {a1}
    Updater = u
    InitialSize = 2
    MaxSelects = 2
PROPERTY SelectReturns
CHECK_DEADLOCK FALSE
