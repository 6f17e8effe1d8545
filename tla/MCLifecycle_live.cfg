\* Two clients, fair threads.
SPECIFICATION FairSpec
CONSTANTS
    Conn = {c1, c2}
    None = None
    NFd = 2
    MaxLines = 2
CHECK_DEADLOCK FALSE
PROPERTIES
    Reaped
    Drains
    StopsAfterSigint
