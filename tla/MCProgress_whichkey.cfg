SPECIFICATION MCSpec
CONSTANTS
    s1 = s1  s2 = s2  other = other
    Timeout = 1  MaxForms = 1  MaxPings = 1  MaxFaults = 1
    Source = {"noop", "sigstop", "logind"}  IdleTimeout = 2  MaxEvents = 2  MaxStops = 1
    SecretText = {s1, s2}  OtherText = {other}  EmptyClip = ""
    MaxGuards = 2  MaxCopies = 3  MaxClipFaults = 1
    Patterns <- PatternTexts  Values <- ValueTexts  Needles <- NeedleTexts
    Haystacks <- HaystackTexts  SearchDb <- SearchDbs  Queries <- QuerySet  NoStar = NoStar
    Patches <- PatchSet  Strokes <- StrokeSet  MaxTyped = 5
CHECK_DEADLOCK FALSE
INVARIANT WhichKeyTells
