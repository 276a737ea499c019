\* Several launches of browsers, one call of the vision helper, three tool calls, four drafts
\* of a diagram, three commands /cwd, one choice of a scope, one fork, and one writing tool of
\* a side chat with every command of five tokens.
SPECIFICATION Spec
CONSTANTS
    Launches = {t, u, m}
    Temporary = {t, u}
    User = User
    NoMarker = NoMarker
    Attempts = 2
    Luna <- LunaName
    ConfigHost = ConfigHost
    Gateway = Gateway
    Calls = {x, y, z}
    Foldable = {file, search}
    Solo = Solo
    Prose = Prose
    MaxRows = 4
    Drafts = {d1, d2, d3, d4}
    Chats = {s}
    Intents = {a, b}
    NoDraft = NoDraft
    MaxFailures = 3
    Commands = {c1, c2, c3}
    Dirs = {k1, k2, k3}
    Slots = {q1, q2, q3}
    NoDir = NoDir
    Dashed = {"-f", "--"}
    Plain = {"cp", "rm", "a", "b"}
    Ignored = {}
    Absolute = {"b"}
    Cwds = {"home", "away"}
    SideCwd = "home"
    MainCalls <- MainTools
    MaxTokens = 5
    MaxStarts = 2
    MaxCalls = 4
    MaxMessages = 8
INVARIANTS
    NothingLeft
    ImagesGoWhereMeant
    DrawnIsCurrent
    ExhaustedAfterThree
    OneSessionFile
    NoSilentGuess
    CiteIsLegal
    OverlapIsAsked
PROPERTIES
    OnlyOwnIsRemoved
\* Every part comes to an end of its own.
CHECK_DEADLOCK FALSE
