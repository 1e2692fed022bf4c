SPECIFICATION MCSpec
CONSTANTS
    A = A  B = B  p1 = p1  p2 = p2  pw1 = pw1  pw2 = pw2  ent1 = ent1  ent2 = ent2  ent3 = ent3
    LockedVault = {A, B}  DefaultTimeout = 2  Cycle <- Cycles  MaxInt = 3  MaxChanges = 2
    S3User = {p1, p2}  MaxPuts = 3  MaxReads = 1  MaxS3Faults = 1
    SyncedVault = {A, B}  TargetInput <- Inputs  NoEp = NoEp  NoConfig = NoConfig  MaxTargetOps = 4
    Profile = {"p", "q"}  Prefix = {"X_"}  CredPassword = {pw1, pw2}  VaultPassword = pw1
    Role = {"r1", "r2"}  MaxIniLines = 4  MaxResolves = 2  NoValue = NoValue
    MaxDraw = 7  MaxLength = 4  Budget = 9  WordCount = 5
    Uris <- UriTexts  MaxNow = 7  NoIssuer = NoIssuer  BadUri = BadUri  NoCode = NoCode
    InputChar = {"a", "e"}  Wide = {"e"}  Seeds <- SeedTexts  MaxText = 6
    TextWidget = {"area", "password"}
    TagText <- TagTexts  CliTag <- CliTags  CustomName = {"n", "otp", "Password"}
    StartEntry <- StartEntries  MaxEntries = 2  MaxKeys = 3  MaxCommands = 1  NoForm = NoForm
    TitleOrder <- ByTitle  ModifiedOrder <- ByModified  UuidOrder <- ByUuid  Subgroups <- Tree
    Root = "root"  Bin = "bin"  StartPlace <- Places  MaxPins = 1  RecentsCap = 2  JumpCap = 2
    MaxMoves = 6  Nothing = Nothing
    CliProc = {p1, p2}  Invocation <- Invocations  StartRows <- CliRows  GroupName <- Groups
    CliRoot = 1  CliBin = 2  VaultNames = {"v"}  Nobody = Nobody  MaxCliFaults = 1
    PrefSession = {p1, p2}  Launches <- LaunchesOf  HandFiles <- ConfigFiles  UiFiles <- UiConfigs
    RegisteredVaults = {"v1"}  UserThemes <- ThemeFiles  Free = Free  Unset = Unset
    MaxStarts = 2  MaxPrefMoves = 2
    Typed = {"a", "b"}  MaxAttempts = 3  NoLine = NoLine
    Card <- Cards  Hits <- HitsOf  TreeNodes <- TreeOf  TermSizes <- Terminals  RecentStart <- Recently
    CrumbParts <- PartsOf  CrumbWidths = {0, 1, 2, 3, 4, 5, 6, 7, 8, 9, 10, 11, 12}  DetailLines = 1
CHECK_DEADLOCK FALSE
INVARIANTS AnswersAreTrue TargetsAreOwn CredentialsAreTheVaults GeneratesAsAsked OtpIsFaithful ListsAreSound SessionIsAsConfigured TerminalIsGivenBack FramesAreRight
PROPERTIES LockTableIsKept EditsAtCursor SaveIsFaithful MovesAreFaithful CommandsKeepTheirWord SavesKeepWhatTheyKnow ActsOnWhatIsShown
