\* Are all lines of one read handled?
SPECIFICATION Spec
CONSTANTS
    Size = 10
    Bodies <- MCShort
    Quits = {}
    TextLen = {4}
    QuitLen = {}
    MaxLines = 2
CHECK_DEADLOCK FALSE
INVARIANT EveryMessageHandled
