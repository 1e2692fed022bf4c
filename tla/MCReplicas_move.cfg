SPECIFICATION RepSpec
CONSTANTS
    a = a
    b = b
    g1 = g1
    g2 = g2
    g3 = g3
    g4 = g4
    Shared <- SharedGroups
    Device <- Devices
    Group <- Groups
    Entry = {e1, e2}
    Root = Root
    Value = {"x", "y"}
    Bytes = {"p"}
    HistoryMax <- Unlimited
    NoGroup = NoGroup
    NoAtt = NoAtt
    Ops = {"edit", "move"}
    Light = {"edit", "move"}
    MaxOps = 3
    MaxClock = 4
    Spaced = TRUE
CHECK_DEADLOCK FALSE
INVARIANT OnlySameSecondClashes
