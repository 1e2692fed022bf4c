\* Two processes write two files of one directory: three temp files before the
\* disk is full, two faults of any kind at any step.  Two CLI processes and a
\* TUI session start five commands on vaults.toml between them, with one fault.
\* Two processes open, edit, save and re-key a vault, with one fault.  Two
\* devices perform up to three operations on copies of one vault and merge.
SPECIFICATION MCSpec
CONSTANTS
    p1 = p1  p2 = p2  tui = tui  f1 = f1  f2 = f2  personal = personal  work = work
    bucket = bucket  short = short
    pw1 = pw1  pw2 = pw2  kf1 = kf1  kf2 = kf2  A = A  B = B
    Proc <- Procs  Target <- Files  None = None  MaxInodes = 3  MaxFaults = 2
    Cli <- Procs  Tui = {tui}  Name <- Names  Path <- Files  Bucket = {bucket}
    Timeout = {short}  Absent = Absent  NoFile = NoFile  MaxCommands = 5  MaxRegFaults = 1
    HandleProc <- Procs  Password = {pw1, pw2}  KeyBytes = {kf1, kf2}  NoHandle = NoHandle
    VaultRoot = A  OtherRoot = B  MaxHandleEdits = 1  MaxHandleFaults = 1
    d1 = d1  d2 = d2  g1 = g1  g2 = g2  g3 = g3  g4 = g4
    Device <- Devices  Group <- Groups  Shared <- SharedGroups  Root = Root  Entry = {e1, e2}
    Value = {"x", "y"}  Bytes = {"p"}  HistoryMax <- Unlimited  NoGroup = NoGroup  NoAtt = NoAtt
    Ops = {"add", "edit", "tag", "move", "delete", "purge", "attach", "detach", "expire",
           "group", "rename", "regroup", "ungroup"}
    Light = {"edit", "purge", "regroup", "detach"}  MaxOps = 3  MaxClock = 2  Spaced = FALSE
CHECK_DEADLOCK FALSE
SYMMETRY Symmetry
INVARIANTS NeverTorn AckedSurvives RegistryIsSound VaultIsSettled DatabaseIsSound MergesAgree
PROPERTIES NoForeignEditLost MergeKeepsBothSides
