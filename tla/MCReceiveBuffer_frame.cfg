\* Three lines, some as long as the buffer and one too long for it.
SPECIFICATION FairSpec
CONSTANTS
    Size = 6
    Bodies <- MCBodies
    Quits <- MCQuits
    TextLen = {2, 4}
    QuitLen = {3, 6}
    MaxLines = 3
CHECK_DEADLOCK FALSE
INVARIANTS
    TypeOK
    StreamIntact
    DisconnectJustified
PROPERTIES
    RefinesFraming
    Served
