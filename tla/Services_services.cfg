SPECIFICATION Spec
CONSTANTS
    e1 = e1
    e2 = e2
    f1 = f1
    f2 = f2
    o1 = o1
    o2 = o2
    x1 = x1
    x2 = x2
    c1 = c1
    c2 = c2
    l1 = l1
    l2 = l2
    b1 = b1
    b2 = b2
    b3 = b3
    Edit = {e1, e2}
    File = {f1, f2}
    NoEdit = NoEdit
    IdeWorld <- MCIdeWorld
    Server = {s1, s2}
    McpWorld <- MCMcpWorld
    OAuthServer = {o1, o2}
    NoOwner = NoOwner
    LoginWorld <- MCLoginWorld
    MaxEvents = 3
    MaxRetry = 2
    MaxLogged = 6
    MaxChunks = 3
    ShellWorld <- MCShellWorld
    MaxAgentTurns = 2
    MaxAgentCalls = 3
    Char = {"letter", "space", "emoji"}
    FirstText <- MCText
    HistoryLimit = 1
    MaxCount = 2
    MaxText = 3
    MaxEdits = 2
    KeyWorld <- MCKeyWorld
    MaxKeys = 4
    MaxKitty = 2
    VimWorld <- MCVimWorld
    MaxVimKeys = 4
    Extension = {x1, x2}
    ExtensionWorld <- MCExtensionWorld
    MaxCommands = 1
    FileText = {"a", "b", "first", "second"}
    FileCalls <- MCFileCalls
    FileWorld <- MCFileWorld
    MaxSaves = 1
    Chat = {c1, c2}
    RecordingWorld <- MCRecordingWorld
    MaxReplies = 2
    MaxThoughts = 2
    Logger = {l1, l2}
    LogWorld <- MCLogWorld
    MaxPrompts = 3
    Tag = {"t1", "t2"}
    MaxChatCommands = 2
    BusTool <- MCBusTool
    NoServer = NoServer
    BusCall = {b1, b2, b3}
    PolicyWorld <- MCPolicyWorld
    MaxAnswers = 2
    AtRest <- MCAtRest
INVARIANTS
    ServicesTypeOK
    DiffsStayApart
    ServersServe
    RecordsAreKept
    ConfirmationsAreOwn
    
    TurnsAreComplete
    TypingIsFaithful
    ExtensionsSurvive
    FilesAreKept
PROPERTIES
    EveryDiffSettles
    AbortEndsCommand
\* every service may come to rest: all diffs settled, all servers discovered
CHECK_DEADLOCK FALSE
