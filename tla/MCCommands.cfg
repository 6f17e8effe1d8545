SPECIFICATION Spec
CONSTANTS
    NULL = NULL
    c1 = c1
    c2 = c2
    Conn = {c1, c2}
    Upper <- MCUpper
    ParamsSize = 6
    Lines <- MCLines
    Texts <- MCTexts
    Common <- MCCommon
    MaxLines = 3
    MaxOthers = 1
    NameSize = 2
    BufferSize = 24
    servername <- Server
    Motd <- MCMotd
CHECK_DEADLOCK FALSE
INVARIANTS
    TypeOK
    ParsesAsGrammar
    RepliesRead
    LusersCounts
    UndefinedJustified
